------------------------- MODULE Accounts_proofs -------------------------
(***************************************************************************)
(* Theorems about Accounts: its invariants, for every set of users,        *)
(* addresses and requests and every number of tokens and connections.      *)
(*                                                                         *)
(* Every step changes one request.  Each part of the inductive invariant   *)
(* IInv has a lemma that says what keeps it while one request moves on     *)
(* ("... Keep"); the lemma of an action cites those for the parts it       *)
(* leaves alone, and proves the others.                                    *)
(***************************************************************************)
EXTENDS Accounts, FiniteSetTheorems, TLAPS

(* What a request is, by its operation and phase *)

PhasesOf(op) ==
  CASE op = "none" -> {}
    [] op = "register" -> {"begin", "insert", "find", "drop", "create", "mail", "commit"}
    [] op = "oauth" -> {"begin", "fetch", "insert", "commit", "session"}
    [] op = "login" -> {"lookup", "find", "drop", "create", "mail", "code", "expired",
                        "spend", "session"}
    [] op = "forgot" -> {"lookup", "find", "drop", "create", "mail"}
    [] op = "askChange" -> {"lookup", "vacant", "find", "drop", "create", "mail"}
    [] op = "confirm" -> {"begin", "present", "expired", "owner", "apply", "applied",
                          "answered", "session"}
    [] op = "newPassword" -> {"present", "expired", "owner", "apply", "clear"}
    [] op = "verifyChange" -> {"present", "expired", "owner", "code", "apply", "clear",
                               "clearCode"}

Issuing == {"find", "drop", "create", "mail"}

\* Phases of a request that will act on its token, or has.
Acting == {"spend", "apply", "applied", "answered"}

\* A request runs through the phases of its operation with what they need.
Shape(q) ==
  /\ q.at # "idle" => q.at \in PhasesOf(q.op)
  /\ q.at = "idle" => q.tx = FALSE
  /\ q.at # "idle" /\ q.op \in {"register", "oauth", "login", "askChange", "verifyChange"} =>
       q.user \in User
  /\ q.at \in Acting \cup {"session", "clear", "clearCode"} => q.user \in User
  /\ q.at # "idle" /\ q.op \in {"register", "oauth", "forgot"} => q.email \in Email
  /\ q.at \in Issuing \cup {"vacant"} => q.email \in Email
  /\ q.at \in Issuing => q.type # "none"
  /\ q.at \in Issuing /\ q.op = "register" => q.type = "VERIFICATION"
  /\ q.at # "idle" /\ q.op \in {"register", "oauth"} =>
       (q.tx <=> q.at \notin {"begin", "session"})
  /\ q.op \notin {"login", "verifyChange"} => q.code = NoToken
  /\ q.op = "login" /\ q.at \in {"lookup", "code"} => q.token = NoToken

IssuedIn(iss) == {t \in TokenID : iss[t].type # "none"}

\* Its tokens were issued.
KnowsTokens(q, iss) ==
  /\ {q.token, q.code} \subseteq IssuedIn(iss) \cup {NoToken}
  /\ \/ q.at \in Acting \cup {"drop", "present", "expired", "owner", "clear"}
     \/ q.op = "confirm" /\ q.at = "begin"
     => q.token \in IssuedIn(iss)
  /\ q.op = "verifyChange" /\ q.at \in {"present", "owner", "code", "apply"} =>
       q.token \in IssuedIn(iss) /\ iss[q.token].new \in Email
  /\ q.op = "register" /\ q.at \in {"mail", "commit"} =>
       \E t \in IssuedIn(iss) : iss[t].email = q.email /\ iss[t].type = "VERIFICATION"

\* The user it acts on has an account, the one it makes a session for a
\* verified one.
KnowsUser(q, m, v) ==
  /\ q.at \in {"apply", "code"} => m[q.user] # None
  /\ q.at = "session" \/ (q.op = "login" /\ q.at \in {"code", "spend"}) => q.user \in v

\* It acts on the user its token was issued for, and issues tokens for the
\* user who has the address, unless the address was given up.
Rightful(q, m, iss, left) ==
  /\ q.at \in Acting \/ (q.op = "verifyChange" /\ q.at = "code") =>
       iss[q.token].user = q.user \/ iss[q.token].email \in left
  /\ q.op = "login" /\ q.at = "code" => m[q.user] = q.email \/ q.email \in left
  /\ q.op # "register" /\ q.at \in Issuing \cup {"vacant"} =>
       q.user \in User /\ (m[q.user] = q.email \/ q.email \in left)

Fits(q, m, v, iss, left) ==
  Shape(q) /\ KnowsTokens(q, iss) /\ KnowsUser(q, m, v) /\ Rightful(q, m, iss, left)

RequestsFit ==
  \A r \in Request : Fits(req[r], emailOf, verified, issued, notes.left)

-----------------------------------------------------------------------------
(* What the tables are *)

\* The predicates of Accounts on requests, on what they are.
InsertingAs(q) ==
  q.tx /\ q.op \in {"register", "oauth"} /\ q.at \notin {"fetch", "insert"}

HoldsAs(q, t) ==
  \/ /\ q.token = t
     /\ q.at \in {"owner", "code", "spend", "apply", "applied", "answered", "clear"}
  \/ q.code = t /\ q.at \in {"apply", "clear", "clearCode"}

RegisteringAs(q, u, e) ==
  q.op = "register" /\ q.at \in {"mail", "commit"} /\ q.user = u /\ q.email = e

WillAct(q, t) == q.token = t /\ q.at \in Acting \cup {"owner", "code"}

\* No two requests insert one user, and a password needs an account.
AccountsStand ==
  /\ OneUserPerEmail
  /\ \A r, q \in Request :
       r # q /\ InsertingAs(req[r]) /\ InsertingAs(req[q]) => req[q].user # req[r].user
  /\ \A u \in withPassword : emailOf[u] # None

TokensStand ==
  /\ rows \subseteq Issued /\ notes.acted \subseteq Issued
  /\ \A t \in Issued : issued[t].email \in Email

\* The user a token was issued for has its address, will have it, or has lost it.
TokensHaveUser ==
  \A t \in Issued :
    \/ issued[t].email \in notes.left
    \/ issued[t].user \in User /\ emailOf[issued[t].user] = issued[t].email
    \/ \E r \in Request : RegisteringAs(req[r], issued[t].user, issued[t].email)

\* Between the look for an old token and the insert of the new one there is
\* none but the old one.
OldIsFound ==
  \A e \in Email, type \in Type : <<e, type>> \notin notes.crossed =>
    /\ \A s, t \in Pending(e, type) : s = t
    /\ \A r \in Request : req[r].email = e /\ req[r].type = type =>
         /\ req[r].at = "drop" => Pending(e, type) \subseteq {req[r].token}
         /\ req[r].at = "create" => Pending(e, type) = {}

\* What two requests hold is noted.
HeldOnce ==
  \A t \in TokenID \ notes.loose, r, q \in Request :
    HoldsAs(req[r], t) /\ HoldsAs(req[q], t) => r = q

\* Nobody will act on a token once more: it is gone, or about to be.
ActedIsOver ==
  \A t \in notes.acted \ notes.loose :
    /\ \A r \in Request : ~ WillAct(req[r], t)
    /\ t \in rows => \E r \in Request : req[r].at = "clear" /\ req[r].token = t

IInv ==
  /\ TypeOK /\ RequestsFit
  /\ AccountsStand /\ TokensStand /\ TokensHaveUser /\ OldIsFound
  /\ HeldOnce /\ ActedIsOver
  /\ ActedOnce /\ ActsOnItsUser /\ SessionsAreVerified /\ WaitingHasToken

-----------------------------------------------------------------------------
(* What keeps the parts of the invariant while one request moves on *)

\* Tokens are issued once, and nobody loses an account or a confirmation; an
\* address is given up by name.
Grows ==
  /\ \A t \in Issued : t \in Issued' /\ issued'[t] = issued[t]
  /\ verified \subseteq verified' /\ notes.left \subseteq notes'.left
  /\ \A u \in User : emailOf[u] # None =>
       emailOf'[u] # None /\ (emailOf'[u] = emailOf[u] \/ emailOf[u] \in notes'.left)

LEMMA SameGrows ==
  ASSUME UNCHANGED <<emailOf, verified, issued>>, notes.left \subseteq notes'.left
  PROVE  Grows
BY DEF Grows, Issued

\* What a request relies on stays as the tables grow.
LEMMA Kept ==
  ASSUME NEW q \in RequestType, NEW m, NEW m2, NEW v, NEW v2, NEW iss, NEW iss2,
         NEW left, NEW left2,
         \A t \in IssuedIn(iss) : t \in IssuedIn(iss2) /\ iss2[t] = iss[t],
         v \subseteq v2, left \subseteq left2,
         \A u \in User : m[u] # None =>
           m2[u] # None /\ (m2[u] = m[u] \/ m[u] \in left2),
         Fits(q, m, v, iss, left)
  PROVE  Fits(q, m2, v2, iss2, left2)
<1>1. Shape(q) /\ KnowsTokens(q, iss) /\ KnowsUser(q, m, v) /\ Rightful(q, m, iss, left)
  BY DEF Fits
<1>3. KnowsTokens(q, iss2)
  BY <1>1 DEF KnowsTokens
<1>4. q.at \in {"apply", "code"} => q.user \in User
  BY <1>1 DEF Shape, PhasesOf, Acting, RequestType, Op
<1>5. KnowsUser(q, m2, v2)
  BY <1>1, <1>4 DEF KnowsUser
<1>6. Rightful(q, m2, iss2, left2)
  <2>1. q.at \in Acting \/ (q.op = "verifyChange" /\ q.at = "code") =>
          iss2[q.token].user = q.user \/ iss2[q.token].email \in left2
    BY <1>1 DEF Rightful, KnowsTokens
  <2>2. q.op = "login" /\ q.at = "code" => m2[q.user] = q.email \/ q.email \in left2
    BY <1>1, <1>4 DEF Rightful, KnowsUser
  <2>3. q.op # "register" /\ q.at \in Issuing \cup {"vacant"} =>
          q.user \in User /\ (m2[q.user] = q.email \/ q.email \in left2)
    BY <1>1, AccountsAssumption DEF Rightful, Shape
  <2> QED BY <2>1, <2>2, <2>3 DEF Rightful
<1> QED BY <1>1, <1>3, <1>5, <1>6 DEF Fits

LEMMA MovedTo ==
  ASSUME TypeOK, NEW r \in Request, NEW q2, req' = [req EXCEPT ![r] = q2]
  PROVE  /\ req'[r] = q2
         /\ \A p \in Request \ {r} : req'[p] = req[p]
         /\ \A p \in Request : req[p] \in RequestType
BY DEF TypeOK

LEMMA RequestsKeep ==
  ASSUME TypeOK, RequestsFit, NEW r \in Request, NEW q2, req' = [req EXCEPT ![r] = q2],
         Grows, Fits(q2, emailOf', verified', issued', notes'.left)
  PROVE  RequestsFit'
<1>1. \A p \in Request \ {r} : Fits(req'[p], emailOf', verified', issued', notes'.left)
  <2> TAKE p \in Request \ {r}
  <2>1. req'[p] = req[p] /\ req[p] \in RequestType
    BY MovedTo
  <2>2. Fits(req[p], emailOf, verified, issued, notes.left)
    BY DEF RequestsFit
  <2>3. \A t \in IssuedIn(issued) : t \in IssuedIn(issued') /\ issued'[t] = issued[t]
    BY DEF Grows, Issued, IssuedIn
  <2>4. verified \subseteq verified' /\ notes.left \subseteq notes'.left
    BY DEF Grows
  <2>5. \A u \in User : emailOf[u] # None =>
          emailOf'[u] # None /\ (emailOf'[u] = emailOf[u] \/ emailOf[u] \in notes'.left)
    BY DEF Grows
  <2>6. Fits(req[p], emailOf', verified', issued', notes'.left)
    BY <2>1, <2>2, <2>3, <2>4, <2>5, Kept
  <2> QED BY <2>1, <2>6
<1>2. req'[r] = q2
  BY MovedTo
<1>3. \A p \in Request : Fits(req'[p], emailOf', verified', issued', notes'.left)
  BY <1>1, <1>2
<1> QED BY <1>3 DEF RequestsFit

LEMMA AccountsKeep ==
  ASSUME TypeOK, AccountsStand, NEW r \in Request, NEW q2, req' = [req EXCEPT ![r] = q2],
         UNCHANGED <<emailOf, withPassword>>,
         InsertingAs(q2) => /\ InsertingAs(req[r])
                            /\ q2.user = req[r].user /\ q2.email = req[r].email
  PROVE  AccountsStand'
<1>1. \A p \in Request : InsertingAs(req'[p]) =>
        /\ InsertingAs(req[p])
        /\ req'[p].user = req[p].user /\ req'[p].email = req[p].email
  BY MovedTo
<1>2. \A p \in Request : /\ Inserting(p) <=> InsertingAs(req[p])
                         /\ Inserting(p)' <=> InsertingAs(req'[p])
  BY DEF Inserting, InsertingAs
<1>3. OneUserPerEmail'
  BY <1>1, <1>2 DEF AccountsStand, OneUserPerEmail
<1>4. (\A p, q \in Request :
       p # q /\ InsertingAs(req[p]) /\ InsertingAs(req[q]) => req[q].user # req[p].user)'
  BY <1>1 DEF AccountsStand
<1> QED BY <1>3, <1>4 DEF AccountsStand

LEMMA HaveUserKeep ==
  ASSUME TypeOK, TokensHaveUser, NEW r \in Request, NEW q2, req' = [req EXCEPT ![r] = q2],
         UNCHANGED <<emailOf, issued>>, notes.left \subseteq notes'.left,
         \A u, e : RegisteringAs(req[r], u, e) => RegisteringAs(q2, u, e) \/ e \in notes'.left
  PROVE  TokensHaveUser'
<1>1. Issued' = Issued
  BY DEF Issued
<1>2. ASSUME NEW t \in Issued
      PROVE  \/ issued'[t].email \in notes'.left
             \/ issued'[t].user \in User /\ emailOf'[issued'[t].user] = issued'[t].email
             \/ \E p \in Request : RegisteringAs(req'[p], issued'[t].user, issued'[t].email)
  <2>1. CASE \E p \in Request : RegisteringAs(req[p], issued[t].user, issued[t].email)
    BY <2>1, MovedTo
  <2> QED BY <2>1 DEF TokensHaveUser
<1> QED BY <1>1, <1>2 DEF TokensHaveUser

LEMMA OldKeep ==
  ASSUME TypeOK, OldIsFound, NEW r \in Request, NEW q2, req' = [req EXCEPT ![r] = q2],
         UNCHANGED issued, rows' \subseteq rows, notes'.crossed = notes.crossed,
         q2.at \notin {"drop", "create"}
  PROVE  OldIsFound'
<1>1. \A e, type : Pending(e, type)' \subseteq Pending(e, type)
  BY DEF Pending
<1>2. \A p \in Request : req'[p].at \in {"drop", "create"} => req'[p] = req[p]
  BY MovedTo
<1> QED BY <1>1, <1>2 DEF OldIsFound

LEMMA HeldKeep ==
  ASSUME TypeOK, HeldOnce, NEW r \in Request, NEW q2, req' = [req EXCEPT ![r] = q2],
         notes.loose \subseteq notes'.loose,
         \A t \in TokenID \ notes'.loose : HoldsAs(q2, t) => HoldsAs(req[r], t)
  PROVE  HeldOnce'
<1>1. \A t \in TokenID \ notes'.loose, p \in Request :
        HoldsAs(req'[p], t) => HoldsAs(req[p], t)
  BY MovedTo
<1> QED BY <1>1 DEF HeldOnce

LEMMA OverKeep ==
  ASSUME TypeOK, ActedIsOver, NEW r \in Request, NEW q2, req' = [req EXCEPT ![r] = q2],
         notes'.acted = notes.acted, notes.loose \subseteq notes'.loose,
         rows' \subseteq rows,
         \A t \in TokenID \ notes'.loose : WillAct(q2, t) => WillAct(req[r], t),
         req[r].at = "clear" => \/ req[r].token \notin rows'
                                \/ req[r].token \in notes'.loose
                                \/ q2.at = "clear" /\ q2.token = req[r].token
  PROVE  ActedIsOver'
<1>1. notes.acted \subseteq TokenID
  BY DEF TypeOK
<1>2. ASSUME NEW t \in notes'.acted \ notes'.loose
      PROVE  /\ \A p \in Request : ~ WillAct(req'[p], t)
             /\ t \in rows' => \E p \in Request : req'[p].at = "clear" /\ req'[p].token = t
  <2>1. t \in notes.acted \ notes.loose /\ t \in TokenID
    BY <1>1
  <2>2. \A p \in Request : ~ WillAct(req'[p], t)
    BY <2>1, MovedTo DEF ActedIsOver
  <2>3. ASSUME t \in rows'
        PROVE  \E p \in Request : req'[p].at = "clear" /\ req'[p].token = t
    <3>1. PICK p \in Request : req[p].at = "clear" /\ req[p].token = t
      BY <2>1, <2>3 DEF ActedIsOver
    <3>2. CASE p = r
      BY <3>1, <3>2, <2>3, MovedTo
    <3>3. CASE p # r
      BY <3>1, <3>3, MovedTo
    <3> QED BY <3>2, <3>3
  <2> QED BY <2>2, <2>3
<1> QED BY <1>2 DEF ActedIsOver

LEMMA SessionsKeep ==
  ASSUME TypeOK, SessionsAreVerified, NEW r \in Request, NEW q2,
         req' = [req EXCEPT ![r] = q2],
         session' \subseteq session, verified \subseteq verified',
         notes.unbacked \subseteq notes'.unbacked,
         req[r].at = "answered" => \/ q2.at = "answered" /\ q2.user = req[r].user
                                   \/ req[r].user \in verified' \cup notes'.unbacked
  PROVE  SessionsAreVerified'
<1>1. ASSUME NEW u \in session' \ verified', u \notin notes'.unbacked
      PROVE  \E p \in Request : req'[p].at = "answered" /\ req'[p].user = u
  <2>1. PICK p \in Request : req[p].at = "answered" /\ req[p].user = u
    BY <1>1 DEF SessionsAreVerified
  <2>2. CASE p = r
    BY <1>1, <2>1, <2>2, MovedTo
  <2>3. CASE p # r
    BY <2>1, <2>3, MovedTo
  <2> QED BY <2>2, <2>3
<1> QED BY <1>1 DEF SessionsAreVerified

LEMMA WaitingKeep ==
  ASSUME WaitingHasToken, UNCHANGED emailOf, Grows
  PROVE  WaitingHasToken'
BY DEF WaitingHasToken, Grows

-----------------------------------------------------------------------------
(* Steps that change nothing but a request *)

QuietVars == <<users, tokens, session, pool, notes>>

\* Slight: a request that inserts, holds, acts or mails no more than before.
Slighter(q2, q) ==
  /\ InsertingAs(q2) =>
       InsertingAs(q) /\ q2.user = q.user /\ q2.email = q.email
  /\ q2.at \notin {"drop", "create"}
  /\ \A t \in TokenID : HoldsAs(q2, t) => HoldsAs(q, t)
  /\ \A t \in TokenID : WillAct(q2, t) => WillAct(q, t)
  /\ q.at \notin {"clear", "answered"}
  /\ \A u, e : RegisteringAs(q, u, e) => RegisteringAs(q2, u, e)

LEMMA Quiet ==
  ASSUME IInv, NEW r \in Request, NEW q2 \in RequestType,
         req' = [req EXCEPT ![r] = q2], UNCHANGED QuietVars, coming' \in [Op -> Nat],
         Fits(q2, emailOf, verified, issued, notes.left),
         Slighter(q2, req[r])
  PROVE  IInv'
<1> USE DEF QuietVars, users, tokens
<1>1. TypeOK'
  BY DEF IInv, TypeOK
<1>2. Grows
  BY SameGrows
<1>3. Fits(q2, emailOf', verified', issued', notes'.left)
  OBVIOUS
<1>4. RequestsFit'
  BY <1>2, <1>3, RequestsKeep DEF IInv
<1>5. AccountsStand'
  BY AccountsKeep DEF IInv, Slighter
<1>6. TokensStand'
  BY DEF IInv, TokensStand, Issued
<1>7. TokensHaveUser'
  BY HaveUserKeep DEF IInv, Slighter
<1>8. OldIsFound'
  BY OldKeep DEF IInv, Slighter
<1>9. HeldOnce'
  BY HeldKeep DEF IInv, Slighter
<1>10. ActedIsOver'
  BY OverKeep DEF IInv, Slighter
<1>11. SessionsAreVerified'
  BY SessionsKeep DEF IInv, Slighter
<1>12. WaitingHasToken'
  BY <1>2, WaitingKeep DEF IInv
<1>13. ActedOnce' /\ ActsOnItsUser'
  BY DEF IInv, ActedOnce, ActsOnItsUser
<1> QED BY <1>1, <1>4, <1>5, <1>6, <1>7, <1>8, <1>9, <1>10, <1>11, <1>12, <1>13 DEF IInv

-----------------------------------------------------------------------------
(* Requests by their fields *)

LEMMA AtFields ==
  ASSUME NEW q \in RequestType, NEW phase \in Phase, NEW q2, q2 = [q EXCEPT !.at = phase]
  PROVE  /\ q2 \in RequestType /\ q2.at = phase
         /\ q2.op = q.op /\ q2.tx = q.tx /\ q2.user = q.user /\ q2.email = q.email
         /\ q2.new = q.new /\ q2.type = q.type /\ q2.token = q.token /\ q2.code = q.code
BY DEF RequestType

LEMMA IssueFields ==
  ASSUME NEW q \in RequestType, NEW e \in Email, NEW type \in Type, NEW q2,
         q2 = Issue(q, e, type)
  PROVE  /\ q2 \in RequestType /\ q2.at = "find" /\ q2.email = e /\ q2.type = type
         /\ q2.token = NoToken
         /\ q2.op = q.op /\ q2.tx = q.tx /\ q2.user = q.user
         /\ q2.new = q.new /\ q2.code = q.code
<1>1. "find" \in Phase /\ NoToken \in Tokens /\ e \in Emails
  BY DEF Phase, Tokens, Emails
<1> QED BY <1>1 DEF RequestType, Issue

LEMMA NoFields ==
  /\ NoRequest \in RequestType /\ NoRequest.at = "idle" /\ NoRequest.op = "none"
  /\ NoRequest.tx = FALSE /\ NoRequest.user = None /\ NoRequest.email = None
  /\ NoRequest.new = None /\ NoRequest.type = "none"
  /\ NoRequest.token = NoToken /\ NoRequest.code = NoToken
<1>1. /\ "idle" \in Phase /\ "none" \in Type /\ None \in Users /\ None \in Emails
      /\ NoToken \in Tokens
  BY DEF Phase, Type, Users, Emails, Tokens
<1> QED BY <1>1 DEF NoRequest, RequestType

LEMMA NoFits ==
  ASSUME NEW m, NEW v, NEW iss, NEW left
  PROVE  Fits(NoRequest, m, v, iss, left)
<1>1. Shape(NoRequest)
  BY NoFields DEF Shape, Acting, Issuing
<1>2. KnowsTokens(NoRequest, iss)
  BY NoFields DEF KnowsTokens, Acting
<1>3. KnowsUser(NoRequest, m, v) /\ Rightful(NoRequest, m, iss, left)
  BY NoFields DEF KnowsUser, Rightful, Acting, Issuing
<1> QED BY <1>1, <1>2, <1>3 DEF Fits

\* A request that ends inserts, holds, acts and mails nothing.
LEMMA NoDoes ==
  /\ ~ InsertingAs(NoRequest)
  /\ \A t \in TokenID : ~ HoldsAs(NoRequest, t) /\ ~ WillAct(NoRequest, t)
  /\ NoRequest.at = "idle"
BY NoFields DEF InsertingAs, HoldsAs, WillAct, Acting

LEMMA QuietEnd ==
  ASSUME IInv, NEW r \in Request, End(r), UNCHANGED QuietVars, UNCHANGED coming,
         req[r].at \notin {"clear", "answered"},
         req[r].op = "register" => req[r].at \notin {"mail", "commit"}
  PROVE  IInv'
<1>1. NoRequest \in RequestType
  BY NoFields
<1>2. coming' \in [Op -> Nat]
  BY DEF IInv, TypeOK
<1>3. Slighter(NoRequest, req[r])
  BY NoDoes DEF Slighter, RegisteringAs
<1> QED BY <1>1, <1>2, <1>3, NoFits, Quiet DEF End

\* The request of r, and what IInv says of it.
LEMMA Mine ==
  ASSUME IInv, NEW r \in Request
  PROVE  /\ req[r] \in RequestType
         /\ Fits(req[r], emailOf, verified, issued, notes.left)
         /\ req[r].at \in Phase /\ req[r].op \in Op \cup {"none"}
         /\ req[r].token \in Tokens /\ req[r].code \in Tokens
         /\ req[r].user \in Users /\ req[r].email \in Emails /\ req[r].type \in Type
         /\ req[r].tx \in BOOLEAN /\ req[r].new \in Emails
<1>1. req[r] \in RequestType
  BY DEF IInv, TypeOK
<1>2. Fits(req[r], emailOf, verified, issued, notes.left)
  BY DEF IInv, RequestsFit
<1> QED BY <1>1, <1>2 DEF RequestType

-----------------------------------------------------------------------------
(* Arrivals *)

LEMMA Arriving ==
  ASSUME IInv, NEW r \in Request, NEW q \in RequestType, Arrive(r, q),
         q.op \in Op, q.at \in {"begin", "lookup", "present"}, q.tx = FALSE,
         Fits(q, emailOf, verified, issued, notes.left)
  PROVE  IInv'
<1>1. req' = [req EXCEPT ![r] = q] /\ UNCHANGED QuietVars
  BY DEF Arrive, QuietVars
<1>2. coming' \in [Op -> Nat]
  BY DEF IInv, TypeOK, Arrive
<1>3. req[r] = NoRequest
  BY DEF Arrive
<1>4. Slighter(q, req[r])
  BY <1>3, NoFields DEF Slighter, InsertingAs, HoldsAs, WillAct, Acting, RegisteringAs
<1> QED BY <1>1, <1>2, <1>4, Quiet

LEMMA RegisterStep ==
  ASSUME IInv, NEW r \in Request, NEW u \in User, NEW e \in Email, Register(r, u, e)
  PROVE  IInv'
<1> DEFINE q == [NoRequest EXCEPT !.op = "register", !.at = "begin", !.user = u, !.email = e]
<1>1. /\ q \in RequestType /\ q.op = "register" /\ q.at = "begin" /\ q.tx = FALSE
      /\ q.user = u /\ q.email = e /\ q.token = NoToken /\ q.code = NoToken
  BY NoFields DEF NoRequest, RequestType, Phase, Op, Users, Emails
<1>2. Arrive(r, q)
  BY DEF Register
<1> HIDE DEF q
<1>3. Shape(q)
  BY <1>1 DEF Shape, PhasesOf, Acting, Issuing
<1>4. KnowsTokens(q, issued) /\ KnowsUser(q, emailOf, verified)
      /\ Rightful(q, emailOf, issued, notes.left)
  BY <1>1 DEF KnowsTokens, KnowsUser, Rightful, Acting, Issuing
<1> QED BY <1>1, <1>2, <1>3, <1>4, Arriving DEF Fits, Op

LEMMA OAuthStep ==
  ASSUME IInv, NEW r \in Request, NEW u \in User, NEW e \in Email, OAuth(r, u, e)
  PROVE  IInv'
<1> DEFINE q == [NoRequest EXCEPT !.op = "oauth", !.at = "begin", !.user = u, !.email = e]
<1>1. /\ q \in RequestType /\ q.op = "oauth" /\ q.at = "begin" /\ q.tx = FALSE
      /\ q.user = u /\ q.email = e /\ q.token = NoToken /\ q.code = NoToken
  BY NoFields DEF NoRequest, RequestType, Phase, Op, Users, Emails
<1>2. Arrive(r, q)
  BY DEF OAuth
<1> HIDE DEF q
<1>3. Shape(q)
  BY <1>1 DEF Shape, PhasesOf, Acting, Issuing
<1>4. KnowsTokens(q, issued) /\ KnowsUser(q, emailOf, verified)
      /\ Rightful(q, emailOf, issued, notes.left)
  BY <1>1 DEF KnowsTokens, KnowsUser, Rightful, Acting, Issuing
<1> QED BY <1>1, <1>2, <1>3, <1>4, Arriving DEF Fits, Op

LEMMA LoginStep ==
  ASSUME IInv, NEW r \in Request, NEW u \in User, NEW c \in Issued \cup {NoToken},
         Login(r, u, c)
  PROVE  IInv'
<1> DEFINE q == [NoRequest EXCEPT !.op = "login", !.at = "lookup", !.user = u, !.code = c]
<1>1. c \in Tokens
  BY DEF Tokens, Issued
<1>2. /\ q \in RequestType /\ q.op = "login" /\ q.at = "lookup" /\ q.tx = FALSE
      /\ q.user = u /\ q.token = NoToken /\ q.code = c
  BY <1>1, NoFields DEF NoRequest, RequestType, Phase, Op, Users
<1>3. Arrive(r, q)
  BY DEF Login
<1> HIDE DEF q
<1>4. Shape(q)
  BY <1>2 DEF Shape, PhasesOf, Acting, Issuing
<1>5. KnowsTokens(q, issued) /\ KnowsUser(q, emailOf, verified)
      /\ Rightful(q, emailOf, issued, notes.left)
  BY <1>2 DEF KnowsTokens, KnowsUser, Rightful, Acting, Issuing, IssuedIn, Issued
<1> QED BY <1>2, <1>3, <1>4, <1>5, Arriving DEF Fits, Op

LEMMA ForgotStep ==
  ASSUME IInv, NEW r \in Request, NEW e \in Email, Forgot(r, e)
  PROVE  IInv'
<1> DEFINE q == [NoRequest EXCEPT !.op = "forgot", !.at = "lookup", !.email = e]
<1>1. /\ q \in RequestType /\ q.op = "forgot" /\ q.at = "lookup" /\ q.tx = FALSE
      /\ q.email = e /\ q.token = NoToken /\ q.code = NoToken
  BY NoFields DEF NoRequest, RequestType, Phase, Op, Emails
<1>2. Arrive(r, q)
  BY DEF Forgot
<1> HIDE DEF q
<1>3. Shape(q)
  BY <1>1 DEF Shape, PhasesOf, Acting, Issuing
<1>4. KnowsTokens(q, issued) /\ KnowsUser(q, emailOf, verified)
      /\ Rightful(q, emailOf, issued, notes.left)
  BY <1>1 DEF KnowsTokens, KnowsUser, Rightful, Acting, Issuing
<1> QED BY <1>1, <1>2, <1>3, <1>4, Arriving DEF Fits, Op

LEMMA AskChangeStep ==
  ASSUME IInv, NEW r \in Request, NEW u \in User, NEW e \in Email, AskChange(r, u, e)
  PROVE  IInv'
<1> DEFINE q == [NoRequest EXCEPT !.op = "askChange", !.at = "lookup", !.user = u, !.new = e]
<1>1. /\ q \in RequestType /\ q.op = "askChange" /\ q.at = "lookup" /\ q.tx = FALSE
      /\ q.user = u /\ q.token = NoToken /\ q.code = NoToken
  BY NoFields DEF NoRequest, RequestType, Phase, Op, Users, Emails
<1>2. Arrive(r, q)
  BY DEF AskChange
<1> HIDE DEF q
<1>3. Shape(q)
  BY <1>1 DEF Shape, PhasesOf, Acting, Issuing
<1>4. KnowsTokens(q, issued) /\ KnowsUser(q, emailOf, verified)
      /\ Rightful(q, emailOf, issued, notes.left)
  BY <1>1 DEF KnowsTokens, KnowsUser, Rightful, Acting, Issuing
<1> QED BY <1>1, <1>2, <1>3, <1>4, Arriving DEF Fits, Op

LEMMA ConfirmStep ==
  ASSUME IInv, NEW r \in Request, NEW t \in Issued, Confirm(r, t)
  PROVE  IInv'
<1> DEFINE q == [NoRequest EXCEPT !.op = "confirm", !.at = "begin", !.token = t]
<1>1. /\ q \in RequestType /\ q.op = "confirm" /\ q.at = "begin" /\ q.tx = FALSE
      /\ q.token = t /\ q.code = NoToken
  BY NoFields DEF NoRequest, RequestType, Phase, Op, Tokens, Issued
<1>2. Arrive(r, q)
  BY DEF Confirm
<1> HIDE DEF q
<1>3. Shape(q)
  BY <1>1 DEF Shape, PhasesOf, Acting, Issuing
<1>4. KnowsTokens(q, issued) /\ KnowsUser(q, emailOf, verified)
      /\ Rightful(q, emailOf, issued, notes.left)
  BY <1>1 DEF KnowsTokens, KnowsUser, Rightful, Acting, Issuing, IssuedIn, Issued
<1> QED BY <1>1, <1>2, <1>3, <1>4, Arriving DEF Fits, Op

LEMMA NewPasswordStep ==
  ASSUME IInv, NEW r \in Request, NEW t \in Issued, NewPassword(r, t)
  PROVE  IInv'
<1> DEFINE q == [NoRequest EXCEPT !.op = "newPassword", !.at = "present", !.token = t]
<1>1. /\ q \in RequestType /\ q.op = "newPassword" /\ q.at = "present" /\ q.tx = FALSE
      /\ q.token = t /\ q.code = NoToken
  BY NoFields DEF NoRequest, RequestType, Phase, Op, Tokens, Issued
<1>2. Arrive(r, q)
  BY DEF NewPassword
<1> HIDE DEF q
<1>3. Shape(q)
  BY <1>1 DEF Shape, PhasesOf, Acting, Issuing
<1>4. KnowsTokens(q, issued) /\ KnowsUser(q, emailOf, verified)
      /\ Rightful(q, emailOf, issued, notes.left)
  BY <1>1 DEF KnowsTokens, KnowsUser, Rightful, Acting, Issuing, IssuedIn, Issued
<1> QED BY <1>1, <1>2, <1>3, <1>4, Arriving DEF Fits, Op

LEMMA VerifyChangeStep ==
  ASSUME IInv, NEW r \in Request, NEW t \in Links("VERIFICATION", TRUE), NEW c \in Issued,
         VerifyChange(r, issued[t].user, t, c)
  PROVE  IInv'
<1> DEFINE u == issued[t].user
           q == [NoRequest EXCEPT !.op = "verifyChange", !.at = "present",
                                  !.user = u, !.token = t, !.code = c]
<1>1. t \in Issued /\ t \in TokenID /\ issued[t].new # None
  BY DEF Links, Issued
<1>2. issued[t] \in TokenType
  BY <1>1 DEF IInv, TypeOK
<1>3. issued[t].new \in Email /\ u \in Users
  BY <1>1, <1>2 DEF TokenType, Emails
<1>4. u \in session /\ session \subseteq User
  BY DEF VerifyChange, Authenticated, IInv, TypeOK
<1>5. /\ q \in RequestType /\ q.op = "verifyChange" /\ q.at = "present" /\ q.tx = FALSE
      /\ q.user = u /\ q.token = t /\ q.code = c
  BY <1>1, <1>3, NoFields DEF NoRequest, RequestType, Phase, Op, Tokens, Issued
<1>6. Arrive(r, q)
  BY DEF VerifyChange
<1> HIDE DEF q
<1>7. Shape(q)
  BY <1>4, <1>5 DEF Shape, PhasesOf, Acting, Issuing
<1>8. KnowsTokens(q, issued) /\ KnowsUser(q, emailOf, verified)
      /\ Rightful(q, emailOf, issued, notes.left)
  BY <1>1, <1>3, <1>5 DEF KnowsTokens, KnowsUser, Rightful, Acting, Issuing, IssuedIn, Issued
<1> QED BY <1>5, <1>6, <1>7, <1>8, Arriving DEF Fits, Op

LEMMA ArrivalStep ==
  ASSUME IInv, NEW r \in Request, Arrival(r)
  PROVE  IInv'
<1>1. CASE \E w \in Wants : \/ Register(r, w[1], w[2])
                            \/ OAuth(r, w[1], w[2])
                            \/ AskChange(r, w[1], w[2])
  <2>1. PICK w \in Wants : \/ Register(r, w[1], w[2])
                           \/ OAuth(r, w[1], w[2])
                           \/ AskChange(r, w[1], w[2])
    BY <1>1
  <2>2. w[1] \in User /\ w[2] \in Email
    BY AccountsAssumption
  <2> QED BY <2>1, <2>2, RegisterStep, OAuthStep, AskChangeStep
<1>2. CASE \E u \in User, c \in {NoToken} \cup Links("TWO_FACTOR", FALSE) : Login(r, u, c)
  BY <1>2, LoginStep DEF Links
<1>3. CASE \E e \in Email : Forgot(r, e)
  BY <1>3, ForgotStep
<1>4. CASE \E t \in Links("VERIFICATION", FALSE) : Confirm(r, t)
  BY <1>4, ConfirmStep DEF Links
<1>5. CASE \E t \in Links("PASSWORD_RESET", FALSE) : NewPassword(r, t)
  BY <1>5, NewPasswordStep DEF Links
<1>6. CASE \E t \in Links("VERIFICATION", TRUE), c \in Links("CHANGE_EMAIL", FALSE) :
             VerifyChange(r, issued[t].user, t, c)
  BY <1>6, VerifyChangeStep DEF Links
<1> QED BY <1>1, <1>2, <1>3, <1>4, <1>5, <1>6 DEF Arrival

-----------------------------------------------------------------------------
(* Steps of a request that only look *)

LEMMA NoTokenIsNone == NoToken \notin TokenID
BY AccountsAssumption DEF NoToken, TokenID

LEMMA BeginStep ==
  ASSUME IInv, NEW r \in Request, Begin(r)
  PROVE  IInv'
<1> DEFINE q == req[r]
           phase == CASE q.op = "confirm" -> "present"
                      [] q.op = "oauth" -> "fetch"
                      [] OTHER -> "insert"
           v == [q EXCEPT !.tx = TRUE, !.at = phase]
<1>1. q \in RequestType /\ Fits(q, emailOf, verified, issued, notes.left)
  BY Mine
<1>2. phase \in {"present", "fetch", "insert"} /\ phase \in Phase
  BY DEF Phase
<1>3. /\ v \in RequestType /\ v.at = phase /\ v.tx = TRUE
      /\ v.op = q.op /\ v.user = q.user /\ v.email = q.email
      /\ v.new = q.new /\ v.type = q.type /\ v.token = q.token /\ v.code = q.code
  BY <1>1, <1>2 DEF RequestType
<1>4. q.at = "begin" /\ UNCHANGED QuietVars /\ coming' \in [Op -> Nat]
  BY DEF Begin, QuietVars, IInv, TypeOK
<1>5. req' = [req EXCEPT ![r] = v]
  BY DEF Begin, IInv, TypeOK
<1>a. q.op \in {"confirm", "oauth", "register"}
  BY <1>1, <1>4 DEF Fits, Shape, PhasesOf, RequestType, Op
<1>6. \/ q.op = "confirm" /\ phase = "present"
      \/ q.op = "oauth" /\ phase = "fetch"
      \/ q.op = "register" /\ phase = "insert"
  BY <1>a
<1> HIDE DEF v, phase
<1>7. Shape(v)
  BY <1>1, <1>3, <1>4, <1>6 DEF Fits, Shape, PhasesOf, Acting, Issuing
<1>8. KnowsTokens(v, issued)
  BY <1>1, <1>3, <1>4, <1>6 DEF Fits, KnowsTokens, Acting
<1>9. KnowsUser(v, emailOf, verified) /\ Rightful(v, emailOf, issued, notes.left)
  BY <1>1, <1>3, <1>4, <1>6 DEF Fits, KnowsUser, Rightful, Acting, Issuing
<1>10. Slighter(v, q)
  BY <1>3, <1>4, <1>6 DEF Slighter, InsertingAs, HoldsAs, WillAct, Acting, RegisteringAs
<1> QED BY <1>3, <1>4, <1>5, <1>7, <1>8, <1>9, <1>10, Quiet DEF Fits

LEMMA FetchStep ==
  ASSUME IInv, NEW r \in Request, Fetch(r)
  PROVE  IInv'
<1> DEFINE q == req[r]
           v == [q EXCEPT !.at = "insert"]
<1>1. q \in RequestType /\ Fits(q, emailOf, verified, issued, notes.left)
  BY Mine
<1>2. /\ v \in RequestType /\ v.at = "insert" /\ v.tx = q.tx
      /\ v.op = q.op /\ v.user = q.user /\ v.email = q.email
      /\ v.new = q.new /\ v.type = q.type /\ v.token = q.token /\ v.code = q.code
  BY <1>1, AtFields DEF Phase
<1>3. q.at = "fetch" /\ UNCHANGED QuietVars /\ coming' \in [Op -> Nat]
      /\ req' = [req EXCEPT ![r] = v]
  BY DEF Fetch, Goto, QuietVars, IInv, TypeOK
<1>4. q.op = "oauth"
  BY <1>1, <1>3 DEF Fits, Shape, PhasesOf, RequestType, Op
<1> HIDE DEF v
<1>5. Shape(v)
  BY <1>1, <1>2, <1>3, <1>4 DEF Fits, Shape, PhasesOf, Acting, Issuing
<1>6. KnowsTokens(v, issued)
  BY <1>1, <1>2, <1>3, <1>4 DEF Fits, KnowsTokens, Acting
<1>7. KnowsUser(v, emailOf, verified) /\ Rightful(v, emailOf, issued, notes.left)
  BY <1>1, <1>2, <1>3, <1>4 DEF Fits, KnowsUser, Rightful, Acting, Issuing
<1>8. Slighter(v, q)
  BY <1>2, <1>3, <1>4 DEF Slighter, InsertingAs, HoldsAs, WillAct, Acting, RegisteringAs
<1> QED BY <1>2, <1>3, <1>5, <1>6, <1>7, <1>8, Quiet DEF Fits

\* Issuing for the user who has the address.
LEMMA IssueQuiet ==
  ASSUME IInv, NEW r \in Request, NEW q \in RequestType, NEW e \in Email,
         NEW type \in Type \ {"none"},
         req' = [req EXCEPT ![r] = Issue(q, e, type)],
         UNCHANGED QuietVars, UNCHANGED coming,
         q.op \in {"login", "forgot", "askChange"}, q.op = req[r].op,
         q.user \in User, emailOf[q.user] = e \/ e \in notes.left,
         q.code \in IssuedIn(issued) \cup {NoToken},
         q.op # "login" => q.code = NoToken
  PROVE  IInv'
<1> DEFINE v == Issue(q, e, type)
<1>1. /\ v \in RequestType /\ v.at = "find" /\ v.email = e /\ v.type = type
      /\ v.token = NoToken /\ v.op = q.op /\ v.tx = q.tx /\ v.user = q.user
      /\ v.new = q.new /\ v.code = q.code
  BY IssueFields
<1>2. coming' \in [Op -> Nat]
  BY DEF IInv, TypeOK
<1>3. Fits(req[r], emailOf, verified, issued, notes.left)
  BY Mine
<1> HIDE DEF v
<1>4. Shape(v)
  BY <1>1 DEF Shape, PhasesOf, Acting, Issuing
<1>5. KnowsTokens(v, issued)
  BY <1>1 DEF KnowsTokens, Acting
<1>6. KnowsUser(v, emailOf, verified) /\ Rightful(v, emailOf, issued, notes.left)
  BY <1>1 DEF KnowsUser, Rightful, Acting, Issuing
<1>7. req[r].at \notin {"clear", "answered"}
  BY <1>3 DEF Fits, Shape, PhasesOf
<1>8. Slighter(v, req[r])
  BY <1>1, <1>7 DEF Slighter, InsertingAs, HoldsAs, WillAct, Acting, RegisteringAs
<1>9. req' = [req EXCEPT ![r] = v]
  BY DEF v
<1> QED BY <1>1, <1>2, <1>4, <1>5, <1>6, <1>8, <1>9, Quiet DEF Fits

\* A request that ends before it has done anything.
LEMMA EarlyEnd ==
  ASSUME IInv, NEW r \in Request, End(r), UNCHANGED QuietVars, UNCHANGED coming,
         req[r].at \notin {"clear", "answered", "mail", "commit"}
  PROVE  IInv'
BY QuietEnd

LEMMA LookupLoginStep ==
  ASSUME IInv, NEW r \in Request, LookupLogin(r)
  PROVE  IInv'
<1> DEFINE q == req[r]
           u == q.user
           e == emailOf[u]
<1>1. q \in RequestType /\ Fits(q, emailOf, verified, issued, notes.left)
  BY Mine
<1>2. /\ q.op = "login" /\ q.at = "lookup"
      /\ UNCHANGED QuietVars /\ UNCHANGED coming /\ coming' \in [Op -> Nat]
  BY DEF LookupLogin, QuietVars, IInv, TypeOK
<1>3. /\ u \in User /\ q.token = NoToken
      /\ q.code \in IssuedIn(issued) \cup {NoToken}
  BY <1>1, <1>2 DEF Fits, Shape, KnowsTokens
<1>4. HasPassword(u) => e \in Email
  BY <1>3 DEF HasPassword, IInv, AccountsStand, TypeOK, Emails
<1>5. CASE ~ HasPassword(u) /\ End(r)
  BY <1>2, <1>5, EarlyEnd
<1>6. CASE /\ HasPassword(u) /\ u \notin verified
           /\ req' = [req EXCEPT ![r] = SendVerificationToken(q, e)]
  <2>1. req' = [req EXCEPT ![r] = Issue(q, e, "VERIFICATION")]
    BY <1>6 DEF SendVerificationToken
  <2>2. "VERIFICATION" \in Type \ {"none"}
    BY DEF Type
  <2> QED BY <1>1, <1>2, <1>3, <1>4, <1>6, <2>1, <2>2, IssueQuiet
<1>7. CASE /\ HasPassword(u) /\ u \in verified \cap twoFactor /\ q.code = NoToken
           /\ req' = [req EXCEPT ![r] = SendTwoFactorToken(q, e)]
  <2>1. req' = [req EXCEPT ![r] = Issue(q, e, "TWO_FACTOR")]
    BY <1>7 DEF SendTwoFactorToken
  <2>2. "TWO_FACTOR" \in Type \ {"none"}
    BY DEF Type
  <2> QED BY <1>1, <1>2, <1>3, <1>4, <1>7, <2>1, <2>2, IssueQuiet
<1>8. CASE /\ HasPassword(u) /\ u \in verified \cap twoFactor
           /\ req' = [req EXCEPT ![r] = [q EXCEPT !.email = e, !.at = "code"]]
  <2> DEFINE v == [q EXCEPT !.email = e, !.at = "code"]
  <2>1. /\ v \in RequestType /\ v.at = "code" /\ v.email = e
        /\ v.tx = q.tx /\ v.op = q.op /\ v.user = q.user
        /\ v.new = q.new /\ v.type = q.type /\ v.token = q.token /\ v.code = q.code
    BY <1>1, <1>4, <1>8 DEF RequestType, Phase, Emails
  <2>2. req' = [req EXCEPT ![r] = v]
    BY <1>8
  <2> HIDE DEF v
  <2>3. Shape(v)
    BY <1>1, <1>2, <1>3, <2>1 DEF Shape, PhasesOf, Acting, Issuing
  <2>4. KnowsTokens(v, issued)
    BY <1>2, <1>3, <2>1 DEF KnowsTokens, Acting
  <2>5. KnowsUser(v, emailOf, verified) /\ Rightful(v, emailOf, issued, notes.left)
    BY <1>2, <1>3, <1>4, <1>8, <2>1, AccountsAssumption
    DEF KnowsUser, Rightful, Acting, Issuing
  <2>6. Slighter(v, q)
    BY <1>2, <1>3, <2>1, NoTokenIsNone
    DEF Slighter, InsertingAs, HoldsAs, WillAct, Acting, RegisteringAs
  <2> QED BY <1>2, <2>1, <2>2, <2>3, <2>4, <2>5, <2>6, Quiet DEF Fits
<1>9. CASE HasPassword(u) /\ u \in verified \ twoFactor /\ Goto(r, "session")
  <2> DEFINE v == [q EXCEPT !.at = "session"]
  <2>1. /\ v \in RequestType /\ v.at = "session" /\ v.email = q.email
        /\ v.tx = q.tx /\ v.op = q.op /\ v.user = q.user
        /\ v.new = q.new /\ v.type = q.type /\ v.token = q.token /\ v.code = q.code
    BY <1>1, AtFields DEF Phase
  <2>2. req' = [req EXCEPT ![r] = v]
    BY <1>9 DEF Goto
  <2> HIDE DEF v
  <2>3. Shape(v)
    BY <1>1, <1>2, <1>3, <2>1 DEF Shape, PhasesOf, Acting, Issuing
  <2>4. KnowsTokens(v, issued)
    BY <1>2, <1>3, <2>1 DEF KnowsTokens, Acting
  <2>5. KnowsUser(v, emailOf, verified) /\ Rightful(v, emailOf, issued, notes.left)
    BY <1>2, <1>3, <1>9, <2>1 DEF KnowsUser, Rightful, Acting, Issuing
  <2>6. Slighter(v, q)
    BY <1>2, <1>3, <2>1 DEF Slighter, InsertingAs, HoldsAs, WillAct, Acting, RegisteringAs
  <2> QED BY <1>2, <2>1, <2>2, <2>3, <2>4, <2>5, <2>6, Quiet DEF Fits
<1> QED BY <1>5, <1>6, <1>7, <1>8, <1>9 DEF LookupLogin

LEMMA LookupForgotStep ==
  ASSUME IInv, NEW r \in Request, LookupForgot(r)
  PROVE  IInv'
<1> DEFINE q == req[r]
<1>1. q \in RequestType /\ Fits(q, emailOf, verified, issued, notes.left)
  BY Mine
<1>2. q.op = "forgot" /\ q.at = "lookup" /\ UNCHANGED QuietVars /\ UNCHANGED coming
  BY DEF LookupForgot, QuietVars
<1>3. q.email \in Email /\ q.code = NoToken
  BY <1>1, <1>2 DEF Fits, Shape
<1>4. CASE End(r)
  BY <1>2, <1>4, EarlyEnd
<1>5. CASE \E u \in User :
             /\ emailOf[u] = q.email
             /\ req' = [req EXCEPT ![r] =
                   SendPasswordResetToken([q EXCEPT !.user = u], q.email)]
  <2>1. PICK u \in User :
             /\ emailOf[u] = q.email
             /\ req' = [req EXCEPT ![r] =
                   SendPasswordResetToken([q EXCEPT !.user = u], q.email)]
    BY <1>5
  <2> DEFINE v == [q EXCEPT !.user = u]
  <2>2. v \in RequestType /\ v.op = q.op /\ v.user = u /\ v.code = q.code
    BY <1>1 DEF RequestType, Users
  <2>3. req' = [req EXCEPT ![r] = Issue(v, q.email, "PASSWORD_RESET")]
    BY <2>1 DEF SendPasswordResetToken
  <2>4. "PASSWORD_RESET" \in Type \ {"none"}
    BY DEF Type
  <2> HIDE DEF v
  <2>5. /\ v.op \in {"login", "forgot", "askChange"} /\ v.op = req[r].op
        /\ v.user \in User /\ emailOf[v.user] = q.email /\ v.code = NoToken
    BY <1>2, <1>3, <2>1, <2>2
  <2> QED BY <1>2, <1>3, <2>2, <2>3, <2>4, <2>5, IssueQuiet
<1> QED BY <1>4, <1>5 DEF LookupForgot

LEMMA LookupChangeStep ==
  ASSUME IInv, NEW r \in Request, LookupChange(r)
  PROVE  IInv'
<1> DEFINE q == req[r]
           e == emailOf[q.user]
           v == [q EXCEPT !.email = e, !.at = "vacant"]
<1>1. q \in RequestType /\ Fits(q, emailOf, verified, issued, notes.left)
  BY Mine
<1>2. /\ q.op = "askChange" /\ q.at = "lookup" /\ UNCHANGED QuietVars
      /\ UNCHANGED coming /\ coming' \in [Op -> Nat]
  BY DEF LookupChange, QuietVars, IInv, TypeOK
<1>3. q.user \in User /\ e \in Emails
  BY <1>1, <1>2 DEF Fits, Shape, IInv, TypeOK
<1>4. CASE e = None
  BY <1>2, <1>4, EarlyEnd DEF LookupChange
<1>5. CASE e # None
  <2>1. /\ v \in RequestType /\ v.at = "vacant" /\ v.email = e
        /\ v.tx = q.tx /\ v.op = q.op /\ v.user = q.user
        /\ v.new = q.new /\ v.type = q.type /\ v.token = q.token /\ v.code = q.code
    BY <1>1, <1>3 DEF RequestType, Phase
  <2>2. req' = [req EXCEPT ![r] = v]
    BY <1>5 DEF LookupChange, IInv, TypeOK
  <2>3. e \in Email
    BY <1>3, <1>5 DEF Emails
  <2> HIDE DEF v
  <2>4. Shape(v)
    BY <1>1, <1>2, <1>3, <2>1, <2>3 DEF Fits, Shape, PhasesOf, Acting, Issuing
  <2>5. KnowsTokens(v, issued)
    BY <1>1, <1>2, <2>1 DEF Fits, KnowsTokens, Acting
  <2>6. KnowsUser(v, emailOf, verified) /\ Rightful(v, emailOf, issued, notes.left)
    BY <1>2, <1>3, <2>1 DEF KnowsUser, Rightful, Acting, Issuing
  <2>7. Slighter(v, q)
    BY <1>2, <2>1 DEF Slighter, InsertingAs, HoldsAs, WillAct, Acting, RegisteringAs
  <2> QED BY <1>2, <2>1, <2>2, <2>4, <2>5, <2>6, <2>7, Quiet DEF Fits
<1> QED BY <1>4, <1>5

LEMMA CheckVacantStep ==
  ASSUME IInv, NEW r \in Request, CheckVacant(r)
  PROVE  IInv'
<1> DEFINE q == req[r]
<1>1. q \in RequestType /\ Fits(q, emailOf, verified, issued, notes.left)
  BY Mine
<1>2. q.at = "vacant" /\ UNCHANGED QuietVars /\ UNCHANGED coming
  BY DEF CheckVacant, QuietVars
<1>3. q.op = "askChange"
  BY <1>1, <1>2 DEF Fits, Shape, PhasesOf, RequestType, Op
<1>4. /\ q.email \in Email /\ q.user \in User /\ q.code = NoToken
      /\ emailOf[q.user] = q.email \/ q.email \in notes.left
  BY <1>1, <1>2, <1>3 DEF Fits, Shape, Rightful
<1>5. CASE End(r)
  BY <1>2, <1>5, EarlyEnd
<1>6. CASE req' = [req EXCEPT ![r] = SendConfirmNewEmailToken(q, q.email)]
  <2>1. req' = [req EXCEPT ![r] = Issue(q, q.email, "VERIFICATION")]
    BY <1>6 DEF SendConfirmNewEmailToken
  <2>2. "VERIFICATION" \in Type \ {"none"}
    BY DEF Type
  <2> QED BY <1>1, <1>2, <1>3, <1>4, <2>1, <2>2, IssueQuiet
<1> QED BY <1>5, <1>6 DEF CheckVacant

LEMMA SendMailStep ==
  ASSUME IInv, NEW r \in Request, SendMail(r)
  PROVE  IInv'
<1> DEFINE q == req[r]
           v == [q EXCEPT !.at = "commit"]
<1>1. q \in RequestType /\ Fits(q, emailOf, verified, issued, notes.left)
  BY Mine
<1>2. /\ q.at = "mail" /\ UNCHANGED QuietVars
      /\ UNCHANGED coming /\ coming' \in [Op -> Nat]
  BY DEF SendMail, QuietVars, IInv, TypeOK
<1>3. CASE q.op = "register" /\ Goto(r, "commit")
  <2>1. /\ v \in RequestType /\ v.at = "commit" /\ v.email = q.email
        /\ v.tx = q.tx /\ v.op = q.op /\ v.user = q.user
        /\ v.new = q.new /\ v.type = q.type /\ v.token = q.token /\ v.code = q.code
    BY <1>1, AtFields DEF Phase
  <2>2. req' = [req EXCEPT ![r] = v]
    BY <1>3 DEF Goto
  <2> HIDE DEF v
  <2>3. Shape(v)
    BY <1>1, <1>2, <1>3, <2>1 DEF Fits, Shape, PhasesOf, Acting, Issuing
  <2>4. KnowsTokens(v, issued)
    BY <1>1, <1>2, <1>3, <2>1 DEF Fits, KnowsTokens, Acting
  <2>5. KnowsUser(v, emailOf, verified) /\ Rightful(v, emailOf, issued, notes.left)
    BY <1>2, <1>3, <2>1 DEF KnowsUser, Rightful, Acting, Issuing
  <2>6. Slighter(v, q)
    BY <1>2, <2>1 DEF Slighter, InsertingAs, HoldsAs, WillAct, Acting, RegisteringAs
  <2> QED BY <1>2, <2>1, <2>2, <2>3, <2>4, <2>5, <2>6, Quiet DEF Fits
<1>4. CASE /\ q.op = "askChange"
           /\ req' = [req EXCEPT ![r] = SendOldEmailCodeToken(q, q.email)]
  <2>1. req' = [req EXCEPT ![r] = Issue(q, q.email, "CHANGE_EMAIL")]
    BY <1>4 DEF SendOldEmailCodeToken
  <2>2. "CHANGE_EMAIL" \in Type \ {"none"}
    BY DEF Type
  <2>3. /\ q.email \in Email /\ q.user \in User /\ q.code = NoToken
        /\ emailOf[q.user] = q.email \/ q.email \in notes.left
    BY <1>1, <1>2, <1>4 DEF Fits, Shape, Rightful, Issuing
  <2> QED BY <1>1, <1>2, <1>4, <2>1, <2>2, <2>3, IssueQuiet
<1>5. CASE q.op # "register" /\ End(r)
  BY <1>2, <1>5, QuietEnd
<1> QED BY <1>3, <1>4, <1>5 DEF SendMail

\* Who has the address of a token is who it was issued for, unless the address
\* was given up.
LEMMA OwnerOfToken ==
  ASSUME IInv, NEW t \in Issued, NEW u \in User, emailOf[u] = issued[t].email
  PROVE  issued[t].user = u \/ issued[t].email \in notes.left
<1>1. issued[t].email \in Email
  BY DEF IInv, TokensStand
<1>2. CASE issued[t].user \in User /\ emailOf[issued[t].user] = issued[t].email
  BY <1>1, <1>2, AccountsAssumption DEF IInv, AccountsStand, OneUserPerEmail
<1>3. CASE \E p \in Request : RegisteringAs(req[p], issued[t].user, issued[t].email)
  <2>1. PICK p \in Request : RegisteringAs(req[p], issued[t].user, issued[t].email)
    BY <1>3
  <2>2. Shape(req[p])
    BY Mine DEF Fits
  <2>3. Inserting(p)
    BY <2>1, <2>2 DEF RegisteringAs, Inserting, Shape
  <2>4. emailOf[u] # req[p].email
    BY <2>3 DEF IInv, AccountsStand, OneUserPerEmail
  <2> QED BY <2>1, <2>4 DEF RegisteringAs
<1> QED BY <1>2, <1>3 DEF IInv, TokensHaveUser

LEMMA FindOwnerStep ==
  ASSUME IInv, NEW r \in Request, FindOwner(r)
  PROVE  IInv'
<1> DEFINE q == req[r]
           phase == IF q.op = "verifyChange" THEN "code" ELSE "apply"
<1>1. q \in RequestType /\ Fits(q, emailOf, verified, issued, notes.left)
  BY Mine
<1>2. /\ q.at = "owner" /\ UNCHANGED QuietVars
      /\ UNCHANGED coming /\ coming' \in [Op -> Nat]
  BY DEF FindOwner, QuietVars, IInv, TypeOK
<1>3. CASE End(r)
  BY <1>2, <1>3, EarlyEnd
<1>4. CASE \E u \in User :
        /\ emailOf[u] = issued[q.token].email
        /\ q.op = "verifyChange" => u = q.user
        /\ req' = [req EXCEPT ![r].user = u, ![r].at = phase]
  <2>1. PICK u \in User :
        /\ emailOf[u] = issued[q.token].email
        /\ q.op = "verifyChange" => u = q.user
        /\ req' = [req EXCEPT ![r].user = u, ![r].at = phase]
    BY <1>4
  <2> DEFINE v == [q EXCEPT !.user = u, !.at = phase]
  <2>2. /\ v \in RequestType /\ v.at = phase /\ v.user = u
        /\ v.tx = q.tx /\ v.op = q.op /\ v.email = q.email
        /\ v.new = q.new /\ v.type = q.type /\ v.token = q.token /\ v.code = q.code
    BY <1>1 DEF RequestType, Phase, Users
  <2>3. req' = [req EXCEPT ![r] = v]
    BY <2>1 DEF IInv, TypeOK
  <2>4. q.op \in {"confirm", "newPassword", "verifyChange"}
    BY <1>1, <1>2 DEF Fits, Shape, PhasesOf, RequestType, Op
  <2>5. q.token \in IssuedIn(issued) /\ q.token \in Issued
    BY <1>1, <1>2 DEF Fits, KnowsTokens, IssuedIn, Issued
  <2>6. emailOf[u] # None
    BY <2>1, <2>5, AccountsAssumption DEF IInv, TokensStand
  <2>7. issued[q.token].user = u \/ issued[q.token].email \in notes.left
    BY <2>1, <2>5, OwnerOfToken
  <2>8. phase = IF q.op = "verifyChange" THEN "code" ELSE "apply"
    OBVIOUS
  <2> HIDE DEF v, phase
  <2>9. Shape(v)
    BY <1>1, <1>2, <2>2, <2>4, <2>8 DEF Fits, Shape, PhasesOf, Acting, Issuing
  <2>10. KnowsTokens(v, issued)
    BY <1>1, <1>2, <2>2, <2>4, <2>5, <2>8 DEF Fits, KnowsTokens, Acting
  <2>11. KnowsUser(v, emailOf, verified) /\ Rightful(v, emailOf, issued, notes.left)
    BY <2>2, <2>4, <2>6, <2>7, <2>8 DEF KnowsUser, Rightful, Acting, Issuing
  <2>12. \A t \in TokenID : HoldsAs(v, t) => HoldsAs(q, t)
    BY <1>1, <1>2, <2>2, <2>4, <2>8, NoTokenIsNone DEF HoldsAs, Fits, Shape
  <2>13. Slighter(v, q)
    BY <1>2, <2>2, <2>4, <2>8, <2>12
    DEF Slighter, InsertingAs, WillAct, Acting, RegisteringAs
  <2> QED BY <1>2, <2>2, <2>3, <2>9, <2>10, <2>11, <2>13, Quiet DEF Fits
<1> QED BY <1>3, <1>4 DEF FindOwner

LEMMA ApplyStep ==
  ASSUME IInv, NEW r \in Request, Apply(r)
  PROVE  IInv'
<1> DEFINE q == req[r]
           v == [q EXCEPT !.at = "applied"]
<1>1. q \in RequestType /\ Fits(q, emailOf, verified, issued, notes.left)
  BY Mine
<1>2. /\ v \in RequestType /\ v.at = "applied" /\ v.tx = q.tx
      /\ v.op = q.op /\ v.user = q.user /\ v.email = q.email
      /\ v.new = q.new /\ v.type = q.type /\ v.token = q.token /\ v.code = q.code
  BY <1>1, AtFields DEF Phase
<1>3. /\ q.op = "confirm" /\ q.at = "apply" /\ UNCHANGED QuietVars
      /\ coming' \in [Op -> Nat] /\ req' = [req EXCEPT ![r] = v]
  BY DEF Apply, Goto, QuietVars, IInv, TypeOK
<1> HIDE DEF v
<1>4. Shape(v)
  BY <1>1, <1>2, <1>3 DEF Fits, Shape, PhasesOf, Acting, Issuing
<1>5. KnowsTokens(v, issued)
  BY <1>1, <1>2, <1>3 DEF Fits, KnowsTokens, Acting
<1>6. KnowsUser(v, emailOf, verified) /\ Rightful(v, emailOf, issued, notes.left)
  BY <1>1, <1>2, <1>3 DEF Fits, KnowsUser, Rightful, Acting, Issuing
<1>7. Slighter(v, q)
  BY <1>2, <1>3 DEF Slighter, InsertingAs, HoldsAs, WillAct, Acting, RegisteringAs
<1> QED BY <1>2, <1>3, <1>4, <1>5, <1>6, <1>7, Quiet DEF Fits

-----------------------------------------------------------------------------
(* Steps that find a token, or destroy one that has not acted *)

NotesType ==
  [crossed : SUBSET (Email \X Type), loose : SUBSET TokenID, acted : SUBSET TokenID,
   again : SUBSET TokenID, foreign : SUBSET TokenID, left : SUBSET Email,
   unbacked : SUBSET User]

\* The notes that are left by whoever finds a token, or issues one.
Unnoted ==
  /\ notes'.acted = notes.acted /\ notes'.again = notes.again
  /\ notes'.foreign = notes.foreign /\ notes'.left = notes.left
  /\ notes'.unbacked = notes.unbacked

\* What is to be shown when rows go and tokens come to be shared.
LEMMA Rest ==
  ASSUME IInv, NEW r \in Request, NEW q2 \in RequestType,
         req' = [req EXCEPT ![r] = q2],
         UNCHANGED <<users, issued, session, pool, coming>>,
         rows' \subseteq rows, notes' \in NotesType, Unnoted,
         Fits(q2, emailOf, verified, issued, notes.left),
         InsertingAs(q2) => /\ InsertingAs(req[r])
                            /\ q2.user = req[r].user /\ q2.email = req[r].email,
         req[r].at # "answered",
         \A u, e : RegisteringAs(req[r], u, e) => RegisteringAs(q2, u, e),
         OldIsFound', HeldOnce', ActedIsOver'
  PROVE  IInv'
<1> USE DEF users
<1>1. TypeOK'
  BY DEF IInv, TypeOK, NotesType
<1>2. Grows
  BY SameGrows DEF Unnoted
<1>3. Fits(q2, emailOf', verified', issued', notes'.left)
  BY DEF Unnoted
<1>4. RequestsFit'
  BY <1>2, <1>3, RequestsKeep DEF IInv
<1>5. AccountsStand'
  BY AccountsKeep DEF IInv
<1>6. TokensStand'
  BY DEF IInv, TokensStand, Issued, Unnoted
<1>7. TokensHaveUser'
  BY HaveUserKeep DEF IInv, Unnoted
<1>8. SessionsAreVerified'
  BY SessionsKeep DEF IInv, Unnoted
<1>9. WaitingHasToken'
  BY <1>2, WaitingKeep DEF IInv
<1>10. ActedOnce' /\ ActsOnItsUser'
  BY DEF IInv, ActedOnce, ActsOnItsUser, Unnoted
<1> QED BY <1>1, <1>4, <1>5, <1>6, <1>7, <1>8, <1>9, <1>10 DEF IInv

\* What is noted of a token that is found.
LEMMA SharedNotes ==
  ASSUME TypeOK, NEW r \in Request, NEW t \in TokenID, notes' = Shared(r, t)
  PROVE  /\ notes' \in NotesType /\ Unnoted /\ notes'.crossed = notes.crossed
         /\ notes.loose \subseteq notes'.loose
         /\ notes'.loose \subseteq notes.loose \cup {t}
         /\ t \notin notes'.loose =>
              \A p \in Request \ {r} : ~ HoldsAs(req[p], t)
<1>1. notes \in NotesType
  BY DEF TypeOK, NotesType
<1>2. \A p \in Request : Holds(p, t) <=> HoldsAs(req[p], t)
  BY DEF Holds, HoldsAs
<1>3. CASE \E p \in Request \ {r} : Holds(p, t)
  <2>1. notes' = [notes EXCEPT !.loose = @ \cup {t}]
    BY <1>3 DEF Shared
  <2> QED BY <1>1, <2>1 DEF NotesType, Unnoted
<1>4. CASE ~ \E p \in Request \ {r} : Holds(p, t)
  <2>1. notes' = notes
    BY <1>4 DEF Shared
  <2> QED BY <1>1, <1>2, <1>4, <2>1 DEF Unnoted
<1> QED BY <1>3, <1>4

LEMMA FoundHeld ==
  ASSUME TypeOK, HeldOnce, NEW r \in Request, NEW q2, req' = [req EXCEPT ![r] = q2],
         NEW t \in TokenID, notes' = Shared(r, t),
         \A t2 \in TokenID : HoldsAs(q2, t2) => HoldsAs(req[r], t2) \/ t2 = t
  PROVE  HeldOnce'
<1>1. ASSUME NEW t2 \in TokenID \ notes'.loose, NEW p \in Request, NEW q \in Request,
             HoldsAs(req'[p], t2), HoldsAs(req'[q], t2)
      PROVE  p = q
  <2>1. t2 \notin notes.loose
    BY SharedNotes
  <2>2. CASE t2 # t
    <3>1. HoldsAs(req[p], t2) /\ HoldsAs(req[q], t2)
      BY <1>1, <2>2, MovedTo
    <3> QED BY <2>1, <3>1 DEF HeldOnce
  <2>3. CASE t2 = t
    <3>1. \A x \in Request \ {r} : ~ HoldsAs(req'[x], t)
      BY <2>3, SharedNotes, MovedTo
    <3> QED BY <1>1, <2>3, <3>1
  <2> QED BY <2>2, <2>3
<1> QED BY <1>1 DEF HeldOnce

LEMMA FoundOver ==
  ASSUME TypeOK, ActedIsOver, NEW r \in Request, NEW q2, req' = [req EXCEPT ![r] = q2],
         NEW t \in TokenID, notes' = Shared(r, t), rows' = rows,
         \A t2 \in TokenID : WillAct(q2, t2) => WillAct(req[r], t2) \/ t2 = t,
         t \in rows, req[r].at # "clear"
  PROVE  ActedIsOver'
<1>1. ASSUME NEW t2 \in notes'.acted \ notes'.loose
      PROVE  /\ \A p \in Request : ~ WillAct(req'[p], t2)
             /\ t2 \in rows' => \E p \in Request : req'[p].at = "clear" /\ req'[p].token = t2
  <2>1. t2 \in notes.acted \ notes.loose /\ t2 \in TokenID
    BY SharedNotes DEF TypeOK, Unnoted
  <2>2. t2 \in rows => \E p \in Request \ {r} : req[p].at = "clear" /\ req[p].token = t2
    BY <2>1 DEF ActedIsOver
  <2>3. t2 # t
    <3> SUFFICES ASSUME t2 = t PROVE FALSE
      OBVIOUS
    <3>1. PICK p \in Request \ {r} : req[p].at = "clear" /\ req[p].token = t
      BY <2>2
    <3>2. HoldsAs(req[p], t)
      BY <3>1 DEF HoldsAs
    <3> QED BY <1>1, <3>2, SharedNotes
  <2>4. \A p \in Request : ~ WillAct(req'[p], t2)
    BY <2>1, <2>3, MovedTo DEF ActedIsOver
  <2> QED BY <2>2, <2>4, MovedTo
<1> QED BY <1>1 DEF ActedIsOver

LEMMA PresentStep ==
  ASSUME IInv, NEW r \in Request, Present(r)
  PROVE  IInv'
<1> DEFINE q == req[r]
           t == q.token
<1>1. q \in RequestType /\ Fits(q, emailOf, verified, issued, notes.left)
  BY Mine
<1>2. /\ q.at = "present" /\ UNCHANGED <<users, tokens, session, pool, coming>>
      /\ coming' \in [Op -> Nat]
  BY DEF Present, IInv, TypeOK
<1>3. q.op \in {"confirm", "newPassword", "verifyChange"}
  BY <1>1, <1>2 DEF Fits, Shape, PhasesOf, RequestType, Op
<1>4. CASE End(r) /\ notes' = notes
  BY <1>2, <1>4, EarlyEnd DEF QuietVars
<1>5. ASSUME NEW phase \in {"expired", "owner"}
      PROVE  LET v == [q EXCEPT !.at = phase]
             IN  /\ v \in RequestType /\ v.at = phase /\ v.tx = q.tx
                 /\ v.op = q.op /\ v.user = q.user /\ v.email = q.email
                 /\ v.new = q.new /\ v.type = q.type /\ v.token = q.token /\ v.code = q.code
                 /\ Fits(v, emailOf, verified, issued, notes.left)
  <2> DEFINE v == [q EXCEPT !.at = phase]
  <2>1. /\ v \in RequestType /\ v.at = phase /\ v.tx = q.tx
        /\ v.op = q.op /\ v.user = q.user /\ v.email = q.email
        /\ v.new = q.new /\ v.type = q.type /\ v.token = q.token /\ v.code = q.code
    BY <1>1, AtFields DEF Phase
  <2> HIDE DEF v
  <2>2. Shape(v)
    BY <1>1, <1>2, <1>3, <1>5, <2>1 DEF Fits, Shape, PhasesOf, Acting, Issuing
  <2>3. KnowsTokens(v, issued)
    BY <1>1, <1>2, <1>3, <1>5, <2>1 DEF Fits, KnowsTokens, Acting
  <2>4. KnowsUser(v, emailOf, verified) /\ Rightful(v, emailOf, issued, notes.left)
    BY <1>2, <1>3, <1>5, <2>1 DEF KnowsUser, Rightful, Acting, Issuing
  <2>5. Fits(v, emailOf, verified, issued, notes.left)
    BY <2>2, <2>3, <2>4 DEF Fits
  <2> QED BY <2>1, <2>5 DEF v
<1>6. CASE Goto(r, "expired") /\ notes' = notes
  <2> DEFINE v == [q EXCEPT !.at = "expired"]
  <2>1. /\ v \in RequestType /\ v.at = "expired" /\ v.tx = q.tx
        /\ v.op = q.op /\ v.user = q.user /\ v.email = q.email
        /\ v.token = q.token /\ v.code = q.code
        /\ Fits(v, emailOf, verified, issued, notes.left)
    BY <1>5
  <2>2. req' = [req EXCEPT ![r] = v]
    BY <1>6 DEF Goto
  <2> HIDE DEF v
  <2>3. Slighter(v, q)
    BY <1>2, <1>3, <2>1 DEF Slighter, InsertingAs, HoldsAs, WillAct, Acting, RegisteringAs
  <2> QED BY <1>2, <1>6, <2>1, <2>2, <2>3, Quiet DEF QuietVars
<1>7. CASE t \in rows /\ Goto(r, "owner") /\ notes' = Shared(r, t)
  <2> DEFINE v == [q EXCEPT !.at = "owner"]
  <2>1. /\ v \in RequestType /\ v.at = "owner" /\ v.tx = q.tx
        /\ v.op = q.op /\ v.user = q.user /\ v.email = q.email
        /\ v.token = q.token /\ v.code = q.code
        /\ Fits(v, emailOf, verified, issued, notes.left)
    BY <1>5
  <2>2. req' = [req EXCEPT ![r] = v]
    BY <1>7 DEF Goto
  <2> HIDE DEF v
  <2>3. t \in TokenID
    BY <1>7 DEF IInv, TypeOK
  <2>4. /\ notes' \in NotesType /\ Unnoted /\ notes'.crossed = notes.crossed
    BY <1>7, <2>3, SharedNotes DEF IInv
  <2>5. OldIsFound'
    BY <1>2, <2>1, <2>2, <2>4, OldKeep DEF IInv, tokens
  <2>6. HeldOnce'
    BY <1>7, <2>1, <2>2, <2>3, FoundHeld DEF IInv, HoldsAs
  <2>7. ActedIsOver'
    BY <1>2, <1>7, <2>1, <2>2, <2>3, FoundOver DEF IInv, WillAct, tokens
  <2>8. /\ ~ InsertingAs(v) /\ q.at # "answered"
        /\ \A u, e : ~ RegisteringAs(q, u, e)
    BY <1>2, <1>3, <2>1 DEF InsertingAs, RegisteringAs
  <2> QED BY <1>2, <2>1, <2>2, <2>4, <2>5, <2>6, <2>7, <2>8, Rest DEF tokens
<1> QED BY <1>4, <1>6, <1>7 DEF Present

LEMMA DropExpiredStep ==
  ASSUME IInv, NEW r \in Request, DropExpired(r)
  PROVE  IInv'
<1>1. /\ req[r].at = "expired" /\ req' = [req EXCEPT ![r] = NoRequest]
      /\ rows' \subseteq rows /\ UNCHANGED <<users, issued, session, pool, coming, notes>>
  BY DEF DropExpired, End
<1>2. notes' \in NotesType /\ Unnoted /\ NoRequest \in RequestType
  BY <1>1, NoFields DEF IInv, TypeOK, NotesType, Unnoted
<1>3. OldIsFound'
  BY <1>1, NoDoes, OldKeep DEF IInv
<1>4. HeldOnce'
  BY <1>1, NoDoes, HeldKeep DEF IInv
<1>5. ActedIsOver'
  BY <1>1, NoDoes, OverKeep DEF IInv
<1>6. \A u, e : ~ RegisteringAs(req[r], u, e)
  BY <1>1 DEF RegisteringAs
<1> QED BY <1>1, <1>2, <1>3, <1>4, <1>5, <1>6, NoDoes, NoFits, Rest

LEMMA FindCodeStep ==
  ASSUME IInv, NEW r \in Request, FindCode(r)
  PROVE  IInv'
<1> DEFINE q == req[r]
<1>1. q \in RequestType /\ Fits(q, emailOf, verified, issued, notes.left)
  BY Mine
<1>2. /\ q.op = "verifyChange" /\ q.at = "code"
      /\ UNCHANGED <<users, tokens, session, pool, coming>> /\ coming' \in [Op -> Nat]
  BY DEF FindCode, IInv, TypeOK
<1>3. q.code \in rows => q.code \in IssuedIn(issued) /\ q.code \in TokenID /\ q.code \in Tokens
  BY DEF IInv, TokensStand, Issued, IssuedIn, Tokens
<1>4. CASE End(r) /\ notes' = notes
  BY <1>2, <1>4, EarlyEnd DEF QuietVars
<1>5. CASE /\ q.code \in rows /\ notes' = notes
           /\ req' = [req EXCEPT ![r].token = q.code, ![r].at = "expired"]
  <2> DEFINE v == [q EXCEPT !.token = q.code, !.at = "expired"]
  <2>1. /\ v \in RequestType /\ v.at = "expired" /\ v.tx = q.tx
        /\ v.op = q.op /\ v.user = q.user /\ v.email = q.email
        /\ v.token = q.code /\ v.code = q.code
    BY <1>1, <1>3, <1>5 DEF RequestType, Phase
  <2>2. req' = [req EXCEPT ![r] = v]
    BY <1>5 DEF IInv, TypeOK
  <2> HIDE DEF v
  <2>3. Shape(v)
    BY <1>1, <1>2, <2>1 DEF Fits, Shape, PhasesOf, Acting, Issuing
  <2>4. KnowsTokens(v, issued)
    BY <1>2, <1>3, <1>5, <2>1 DEF KnowsTokens, Acting
  <2>5. KnowsUser(v, emailOf, verified) /\ Rightful(v, emailOf, issued, notes.left)
    BY <1>2, <2>1 DEF KnowsUser, Rightful, Acting, Issuing
  <2>6. Slighter(v, q)
    BY <1>2, <2>1 DEF Slighter, InsertingAs, HoldsAs, WillAct, Acting, RegisteringAs
  <2> QED BY <1>2, <1>5, <2>1, <2>2, <2>3, <2>4, <2>5, <2>6, Quiet DEF QuietVars, Fits
<1>6. CASE q.code \in rows /\ Goto(r, "apply") /\ notes' = Shared(r, q.code)
  <2> DEFINE v == [q EXCEPT !.at = "apply"]
  <2>1. /\ v \in RequestType /\ v.at = "apply" /\ v.tx = q.tx
        /\ v.op = q.op /\ v.user = q.user /\ v.email = q.email
        /\ v.token = q.token /\ v.code = q.code
    BY <1>1, AtFields DEF Phase
  <2>2. req' = [req EXCEPT ![r] = v]
    BY <1>6 DEF Goto
  <2> HIDE DEF v
  <2>3. Shape(v)
    BY <1>1, <1>2, <2>1 DEF Fits, Shape, PhasesOf, Acting, Issuing
  <2>4. KnowsTokens(v, issued)
    BY <1>1, <1>2, <2>1 DEF Fits, KnowsTokens, Acting
  <2>5. KnowsUser(v, emailOf, verified) /\ Rightful(v, emailOf, issued, notes.left)
    BY <1>1, <1>2, <2>1 DEF Fits, KnowsUser, Rightful, Acting, Issuing
  <2>6. notes' \in NotesType /\ Unnoted /\ notes'.crossed = notes.crossed
    BY <1>3, <1>6, SharedNotes DEF IInv
  <2>7. OldIsFound'
    BY <1>2, <2>1, <2>2, <2>6, OldKeep DEF IInv, tokens
  <2>8. HeldOnce'
    BY <1>2, <1>3, <1>6, <2>1, <2>2, FoundHeld DEF IInv, HoldsAs
  <2>9. ActedIsOver'
    BY <1>2, <1>3, <1>6, <2>1, <2>2, FoundOver DEF IInv, WillAct, Acting, tokens
  <2>10. /\ ~ InsertingAs(v) /\ q.at # "answered"
         /\ \A u, e : ~ RegisteringAs(q, u, e)
    BY <1>2, <2>1 DEF InsertingAs, RegisteringAs
  <2> QED BY <1>2, <2>1, <2>2, <2>3, <2>4, <2>5, <2>6, <2>7, <2>8, <2>9, <2>10, Rest
          DEF tokens, Fits
<1> QED BY <1>4, <1>5, <1>6 DEF FindCode

LEMMA CompareCodeStep ==
  ASSUME IInv, NEW r \in Request, CompareCode(r)
  PROVE  IInv'
<1> DEFINE q == req[r]
           S == Pending(q.email, "TWO_FACTOR")
<1>1. q \in RequestType /\ Fits(q, emailOf, verified, issued, notes.left)
  BY Mine
<1>2. /\ q.op = "login" /\ q.at = "code"
      /\ UNCHANGED <<users, tokens, session, pool, coming>> /\ coming' \in [Op -> Nat]
  BY DEF CompareCode, IInv, TypeOK
<1>3. q.code \in S => /\ q.code \in rows /\ q.code \in Issued /\ q.code \in IssuedIn(issued)
                      /\ q.code \in TokenID /\ q.code \in Tokens
                      /\ issued[q.code].email = q.email
  BY DEF IInv, TokensStand, Issued, IssuedIn, Tokens, Pending
<1>4. q.user \in User
  BY <1>1, <1>2 DEF Fits, Shape
<1>5. CASE End(r) /\ notes' = notes
  BY <1>2, <1>5, EarlyEnd DEF QuietVars
<1>6. ASSUME NEW phase \in {"expired", "spend"}, q.code \in S
      PROVE  LET v == [q EXCEPT !.token = q.code, !.at = phase]
             IN  /\ v \in RequestType /\ v.at = phase /\ v.tx = q.tx
                 /\ v.op = q.op /\ v.user = q.user /\ v.email = q.email
                 /\ v.token = q.code /\ v.code = q.code
                 /\ Fits(v, emailOf, verified, issued, notes.left)
  <2> DEFINE v == [q EXCEPT !.token = q.code, !.at = phase]
  <2>1. /\ v \in RequestType /\ v.at = phase /\ v.tx = q.tx
        /\ v.op = q.op /\ v.user = q.user /\ v.email = q.email
        /\ v.token = q.code /\ v.code = q.code
    BY <1>1, <1>3, <1>6 DEF RequestType, Phase
  <2> HIDE DEF v
  <2>2. Shape(v)
    BY <1>1, <1>2, <1>6, <2>1 DEF Fits, Shape, PhasesOf, Acting, Issuing
  <2>3. KnowsTokens(v, issued)
    BY <1>2, <1>3, <1>6, <2>1 DEF KnowsTokens, Acting
  <2>4. KnowsUser(v, emailOf, verified)
    BY <1>1, <1>2, <1>6, <2>1 DEF Fits, KnowsUser
  <2>5. emailOf[q.user] = q.email \/ q.email \in notes.left
    BY <1>1, <1>2 DEF Fits, Rightful
  <2>6. issued[q.code].user = q.user \/ issued[q.code].email \in notes.left
    BY <1>3, <1>4, <1>6, <2>5, OwnerOfToken
  <2>7. Rightful(v, emailOf, issued, notes.left)
    BY <1>2, <1>6, <2>1, <2>6 DEF Rightful, Acting, Issuing
  <2>8. Fits(v, emailOf, verified, issued, notes.left)
    BY <2>2, <2>3, <2>4, <2>7 DEF Fits
  <2> QED BY <2>1, <2>8 DEF v
<1>7. CASE /\ q.code \in S /\ notes' = notes
           /\ req' = [req EXCEPT ![r].token = q.code, ![r].at = "expired"]
  <2> DEFINE v == [q EXCEPT !.token = q.code, !.at = "expired"]
  <2>1. /\ v \in RequestType /\ v.at = "expired" /\ v.tx = q.tx
        /\ v.op = q.op /\ v.user = q.user /\ v.email = q.email
        /\ v.token = q.code /\ v.code = q.code
        /\ Fits(v, emailOf, verified, issued, notes.left)
    BY <1>6, <1>7
  <2>2. req' = [req EXCEPT ![r] = v]
    BY <1>7 DEF IInv, TypeOK
  <2> HIDE DEF v
  <2>3. Slighter(v, q)
    BY <1>2, <2>1 DEF Slighter, InsertingAs, HoldsAs, WillAct, Acting, RegisteringAs
  <2> QED BY <1>2, <1>7, <2>1, <2>2, <2>3, Quiet DEF QuietVars
<1>8. CASE /\ q.code \in S /\ notes' = Shared(r, q.code)
           /\ req' = [req EXCEPT ![r].token = q.code, ![r].at = "spend"]
  <2> DEFINE v == [q EXCEPT !.token = q.code, !.at = "spend"]
  <2>1. /\ v \in RequestType /\ v.at = "spend" /\ v.tx = q.tx
        /\ v.op = q.op /\ v.user = q.user /\ v.email = q.email
        /\ v.token = q.code /\ v.code = q.code
        /\ Fits(v, emailOf, verified, issued, notes.left)
    BY <1>6, <1>8
  <2>2. req' = [req EXCEPT ![r] = v]
    BY <1>8 DEF IInv, TypeOK
  <2> HIDE DEF v
  <2>3. notes' \in NotesType /\ Unnoted /\ notes'.crossed = notes.crossed
    BY <1>3, <1>8, SharedNotes DEF IInv
  <2>4. OldIsFound'
    BY <1>2, <2>1, <2>2, <2>3, OldKeep DEF IInv, tokens
  <2>5. HeldOnce'
    BY <1>2, <1>3, <1>8, <2>1, <2>2, FoundHeld DEF IInv, HoldsAs
  <2>6. ActedIsOver'
    BY <1>2, <1>3, <1>8, <2>1, <2>2, FoundOver DEF IInv, WillAct, tokens
  <2>7. /\ ~ InsertingAs(v) /\ q.at # "answered"
        /\ \A u, e : ~ RegisteringAs(q, u, e)
    BY <1>2, <2>1 DEF InsertingAs, RegisteringAs
  <2> QED BY <1>2, <2>1, <2>2, <2>3, <2>4, <2>5, <2>6, <2>7, Rest DEF tokens
<1> QED BY <1>5, <1>7, <1>8 DEF CompareCode

LEMMA ClearStep ==
  ASSUME IInv, NEW r \in Request, Clear(r)
  PROVE  IInv'
<1> DEFINE q == req[r]
           v == [q EXCEPT !.at = "clearCode"]
           w == IF q.op = "verifyChange" THEN v ELSE NoRequest
<1>1. q \in RequestType /\ Fits(q, emailOf, verified, issued, notes.left)
  BY Mine
<1>2. /\ q.at = "clear" /\ rows' = rows \ {q.token}
      /\ UNCHANGED <<users, issued, session, pool, coming, notes>>
  BY DEF Clear
<1>3. /\ v \in RequestType /\ v.at = "clearCode" /\ v.tx = q.tx
      /\ v.op = q.op /\ v.user = q.user /\ v.email = q.email
      /\ v.token = q.token /\ v.code = q.code
  BY <1>1, AtFields DEF Phase
<1>4. req' = [req EXCEPT ![r] = w]
  BY DEF Clear, End, Goto
<1> HIDE DEF v
<1>5. q.op = "verifyChange" => Shape(v)
  BY <1>1, <1>2, <1>3 DEF Fits, Shape, PhasesOf, Acting, Issuing
<1>6. q.op = "verifyChange" => KnowsTokens(v, issued)
  BY <1>1, <1>2, <1>3 DEF Fits, KnowsTokens, Acting
<1>7. q.op = "verifyChange" =>
        KnowsUser(v, emailOf, verified) /\ Rightful(v, emailOf, issued, notes.left)
  BY <1>2, <1>3 DEF KnowsUser, Rightful, Acting, Issuing
<1>8. w \in RequestType /\ Fits(w, emailOf, verified, issued, notes.left)
  BY <1>3, <1>5, <1>6, <1>7, NoFits, NoFields DEF Fits
<1>9. /\ w.at \in {"clearCode", "idle"} /\ ~ InsertingAs(w)
      /\ \A t \in TokenID : HoldsAs(w, t) => HoldsAs(q, t)
      /\ \A t \in TokenID : ~ WillAct(w, t)
      /\ \A u, e : ~ RegisteringAs(q, u, e)
  BY <1>2, <1>3, NoDoes DEF InsertingAs, HoldsAs, WillAct, RegisteringAs, Acting
<1> HIDE DEF w
<1>10. notes' \in NotesType /\ Unnoted
  BY <1>2 DEF IInv, TypeOK, NotesType, Unnoted
<1>11. OldIsFound'
  BY <1>2, <1>4, <1>9, OldKeep DEF IInv
<1>12. HeldOnce'
  BY <1>2, <1>4, <1>9, HeldKeep DEF IInv
<1>13. ActedIsOver'
  BY <1>2, <1>4, <1>9, OverKeep DEF IInv
<1> QED BY <1>2, <1>4, <1>8, <1>9, <1>10, <1>11, <1>12, <1>13, Rest

LEMMA ClearCodeStep ==
  ASSUME IInv, NEW r \in Request, ClearCode(r)
  PROVE  IInv'
<1>1. /\ req[r].at = "clearCode" /\ req' = [req EXCEPT ![r] = NoRequest]
      /\ rows' \subseteq rows /\ UNCHANGED <<users, issued, session, pool, coming, notes>>
  BY DEF ClearCode, End
<1>2. notes' \in NotesType /\ Unnoted /\ NoRequest \in RequestType
  BY <1>1, NoFields DEF IInv, TypeOK, NotesType, Unnoted
<1>3. OldIsFound'
  BY <1>1, NoDoes, OldKeep DEF IInv
<1>4. HeldOnce'
  BY <1>1, NoDoes, HeldKeep DEF IInv
<1>5. ActedIsOver'
  BY <1>1, NoDoes, OverKeep DEF IInv
<1>6. \A u, e : ~ RegisteringAs(req[r], u, e)
  BY <1>1 DEF RegisteringAs
<1> QED BY <1>1, <1>2, <1>3, <1>4, <1>5, <1>6, NoDoes, NoFits, Rest

-----------------------------------------------------------------------------
(* Steps that issue a token *)

\* The operations that issue, by a phase of theirs.
LEMMA IssuingOps ==
  ASSUME NEW q \in RequestType, Shape(q), q.at \in Issuing
  PROVE  /\ q.op \in {"register", "login", "forgot", "askChange"}
         /\ q.email \in Email /\ q.type \in Type \ {"none"}
BY DEF Shape, PhasesOf, Issuing, RequestType, Op

LEMMA FindOldStep ==
  ASSUME IInv, NEW r \in Request, FindOld(r)
  PROVE  IInv'
<1> DEFINE q == req[r]
           S == Pending(q.email, q.type)
<1>1. q \in RequestType /\ Fits(q, emailOf, verified, issued, notes.left)
  BY Mine
<1>2. /\ q.at = "find" /\ UNCHANGED QuietVars
      /\ UNCHANGED coming /\ notes \in NotesType
  BY DEF FindOld, QuietVars, IInv, TypeOK, NotesType
<1>3. /\ q.op \in {"register", "login", "forgot", "askChange"} /\ q.email \in Email
      /\ q.type \in Type \ {"none"}
  BY <1>1, <1>2, IssuingOps DEF Fits, Issuing
<1>4. PICK v, t : /\ v = [q EXCEPT !.token = t, !.at = v.at]
                  /\ req' = [req EXCEPT ![r] = v]
                  /\ \/ S = {} /\ v.at = "create" /\ t = q.token
                     \/ t \in S /\ v.at = "drop"
  <2>1. CASE S = {} /\ Goto(r, "create")
    <3> DEFINE v == [q EXCEPT !.token = q.token, !.at = "create"]
    <3>1. v.at = "create" /\ req' = [req EXCEPT ![r] = v]
      BY <1>1, <2>1 DEF Goto, RequestType
    <3> QED BY <2>1, <3>1
  <2>2. CASE \E t \in S : req' = [req EXCEPT ![r].token = t, ![r].at = "drop"]
    <3>1. PICK t \in S : req' = [req EXCEPT ![r].token = t, ![r].at = "drop"]
      BY <2>2
    <3> DEFINE v == [q EXCEPT !.token = t, !.at = "drop"]
    <3>2. v.at = "drop" /\ req' = [req EXCEPT ![r] = v]
      BY <1>1, <3>1 DEF RequestType, IInv, TypeOK
    <3> QED BY <3>2
  <2> QED BY <2>1, <2>2 DEF FindOld
<1>5. S \subseteq IssuedIn(issued) /\ S \subseteq Tokens
  BY DEF Pending, IInv, TokensStand, Issued, IssuedIn, Tokens
<1>6. /\ v \in RequestType /\ v.at \in {"create", "drop"} /\ v.tx = q.tx
      /\ v.op = q.op /\ v.user = q.user /\ v.email = q.email
      /\ v.new = q.new /\ v.type = q.type /\ v.token = t /\ v.code = q.code
  BY <1>1, <1>4, <1>5 DEF RequestType, Phase
<1>7. Shape(v)
  BY <1>1, <1>2, <1>3, <1>6 DEF Fits, Shape, PhasesOf, Acting, Issuing
<1>8. KnowsTokens(v, issued)
  BY <1>1, <1>2, <1>3, <1>4, <1>5, <1>6 DEF Fits, KnowsTokens, Acting
<1>9. KnowsUser(v, emailOf, verified) /\ Rightful(v, emailOf, issued, notes.left)
  BY <1>1, <1>2, <1>3, <1>6 DEF Fits, KnowsUser, Rightful, Acting, Issuing
<1>10. /\ \A t2 \in TokenID : ~ HoldsAs(v, t2) /\ ~ WillAct(v, t2)
       /\ InsertingAs(v) => InsertingAs(q)
       /\ \A u, e : ~ RegisteringAs(q, u, e)
  BY <1>2, <1>6 DEF InsertingAs, HoldsAs, WillAct, Acting, RegisteringAs
<1>11. OldIsFound'
  <2>1. \A e, type : Pending(e, type)' = Pending(e, type)
    BY <1>2 DEF Pending, QuietVars, tokens
  <2>2. ASSUME NEW e \in Email, NEW type \in Type, <<e, type>> \notin notes.crossed
        PROVE  /\ \A s, t2 \in Pending(e, type) : s = t2
               /\ \A p \in Request : req'[p].email = e /\ req'[p].type = type =>
                    /\ req'[p].at = "drop" => Pending(e, type) \subseteq {req'[p].token}
                    /\ req'[p].at = "create" => Pending(e, type) = {}
    <3>1. \A s, t2 \in Pending(e, type) : s = t2
      BY <2>2 DEF IInv, OldIsFound
    <3>2. ASSUME NEW p \in Request, req'[p].email = e, req'[p].type = type
          PROVE  /\ req'[p].at = "drop" => Pending(e, type) \subseteq {req'[p].token}
                 /\ req'[p].at = "create" => Pending(e, type) = {}
      <4>1. CASE p = r
        <5>1. req'[p] = v
          BY <1>4, <4>1, MovedTo DEF IInv
        <5>2. S = Pending(e, type)
          BY <1>6, <3>2, <5>1
        <5> QED BY <1>4, <1>6, <3>1, <5>1, <5>2
      <4>2. CASE p # r
        <5>1. req'[p] = req[p]
          BY <1>4, <4>2, MovedTo DEF IInv
        <5> QED BY <2>2, <3>2, <5>1 DEF IInv, OldIsFound
      <4> QED BY <4>1, <4>2
    <3> QED BY <3>1, <3>2
  <2> QED BY <1>2, <2>1, <2>2 DEF OldIsFound, QuietVars
<1>12. HeldOnce'
  BY <1>2, <1>4, <1>10, HeldKeep DEF IInv, QuietVars
<1>13. ActedIsOver'
  BY <1>2, <1>4, <1>10, OverKeep DEF IInv, QuietVars, tokens
<1> QED BY <1>2, <1>4, <1>6, <1>7, <1>8, <1>9, <1>10, <1>11, <1>12, <1>13, Rest
        DEF QuietVars, tokens, Unnoted, Fits

LEMMA DropOldStep ==
  ASSUME IInv, NEW r \in Request, DropOld(r)
  PROVE  IInv'
<1> DEFINE q == req[r]
           v == [q EXCEPT !.at = "create"]
<1>1. q \in RequestType /\ Fits(q, emailOf, verified, issued, notes.left)
  BY Mine
<1>2. /\ q.at = "drop" /\ rows' = rows \ {q.token} /\ req' = [req EXCEPT ![r] = v]
      /\ UNCHANGED <<users, issued, session, pool, coming, notes>>
  BY DEF DropOld, Goto
<1>3. /\ q.op \in {"register", "login", "forgot", "askChange"} /\ q.email \in Email
      /\ q.type \in Type \ {"none"}
  BY <1>1, <1>2, IssuingOps DEF Fits, Issuing
<1>4. /\ v \in RequestType /\ v.at = "create" /\ v.tx = q.tx
      /\ v.op = q.op /\ v.user = q.user /\ v.email = q.email
      /\ v.new = q.new /\ v.type = q.type /\ v.token = q.token /\ v.code = q.code
  BY <1>1, AtFields DEF Phase
<1> HIDE DEF v
<1>5. Shape(v)
  BY <1>1, <1>2, <1>3, <1>4 DEF Fits, Shape, PhasesOf, Acting, Issuing
<1>6. KnowsTokens(v, issued)
  BY <1>1, <1>2, <1>3, <1>4 DEF Fits, KnowsTokens, Acting
<1>7. KnowsUser(v, emailOf, verified) /\ Rightful(v, emailOf, issued, notes.left)
  BY <1>1, <1>2, <1>3, <1>4 DEF Fits, KnowsUser, Rightful, Acting, Issuing
<1>8. /\ \A t \in TokenID : ~ HoldsAs(v, t) /\ ~ WillAct(v, t)
      /\ InsertingAs(v) => InsertingAs(q)
      /\ \A u, e : ~ RegisteringAs(q, u, e)
  BY <1>2, <1>4 DEF InsertingAs, HoldsAs, WillAct, Acting, RegisteringAs
<1>9. notes' \in NotesType /\ Unnoted
  BY <1>2 DEF IInv, TypeOK, NotesType, Unnoted
<1>10. OldIsFound'
  <2>1. \A e, type : Pending(e, type)' = Pending(e, type) \ {q.token}
    BY <1>2 DEF Pending
  <2>2. ASSUME NEW e \in Email, NEW type \in Type, <<e, type>> \notin notes'.crossed
        PROVE  /\ \A s, t \in Pending(e, type)' : s = t
               /\ \A p \in Request : req'[p].email = e /\ req'[p].type = type =>
                    /\ req'[p].at = "drop" => Pending(e, type)' \subseteq {req'[p].token}
                    /\ req'[p].at = "create" => Pending(e, type)' = {}
    <3>1. \A s, t \in Pending(e, type)' : s = t
      BY <1>2, <2>1, <2>2 DEF IInv, OldIsFound
    <3>2. ASSUME NEW p \in Request, req'[p].email = e, req'[p].type = type
          PROVE  /\ req'[p].at = "drop" => Pending(e, type)' \subseteq {req'[p].token}
                 /\ req'[p].at = "create" => Pending(e, type)' = {}
      <4>1. CASE p = r
        <5>1. req'[p] = v
          BY <1>2, <4>1, MovedTo DEF IInv
        <5>2. Pending(e, type) \subseteq {q.token}
          BY <1>2, <1>4, <2>2, <3>2, <5>1 DEF IInv, OldIsFound
        <5> QED BY <1>4, <2>1, <5>1, <5>2
      <4>2. CASE p # r
        <5>1. req'[p] = req[p]
          BY <1>2, <4>2, MovedTo DEF IInv
        <5>2. /\ req[p].at = "drop" => Pending(e, type) \subseteq {req[p].token}
              /\ req[p].at = "create" => Pending(e, type) = {}
          BY <1>2, <2>2, <3>2, <5>1 DEF IInv, OldIsFound
        <5> QED BY <2>1, <5>1, <5>2
      <4> QED BY <4>1, <4>2
    <3> QED BY <3>1, <3>2
  <2> QED BY <2>2 DEF OldIsFound
<1>11. HeldOnce'
  BY <1>2, <1>8, HeldKeep DEF IInv
<1>12. ActedIsOver'
  BY <1>2, <1>8, OverKeep DEF IInv
<1> QED BY <1>2, <1>4, <1>5, <1>6, <1>7, <1>8, <1>9, <1>10, <1>11, <1>12, Rest DEF Fits

LEMMA CreateStep ==
  ASSUME IInv, NEW r \in Request, Create(r)
  PROVE  IInv'
<1> DEFINE q == req[r]
           others == {p \in Request \ {r} :
                        /\ req[p].at \in {"drop", "create"}
                        /\ req[p].email = q.email /\ req[p].type = q.type}
           new == [type |-> q.type, email |-> q.email, user |-> q.user, new |-> Payload(q)]
<1>1. q \in RequestType /\ Fits(q, emailOf, verified, issued, notes.left)
  BY Mine
<1>2. /\ q.at = "create" /\ UNCHANGED <<users, session, pool, coming>>
      /\ notes' = IF others = {} THEN notes
                  ELSE [notes EXCEPT !.crossed = @ \cup {<<q.email, q.type>>}]
  BY DEF Create
<1>3. PICK t \in TokenID \ Issued :
        /\ rows' = rows \cup {t} /\ issued' = [issued EXCEPT ![t] = new]
        /\ req' = [req EXCEPT ![r].at = "mail", ![r].token = t]
  BY DEF Create
<1> DEFINE v == [q EXCEPT !.at = "mail", !.token = t]
<1>4. /\ q.op \in {"register", "login", "forgot", "askChange"} /\ q.email \in Email
      /\ q.type \in Type \ {"none"}
  BY <1>1, <1>2, IssuingOps DEF Fits, Issuing
<1>5. /\ v \in RequestType /\ v.at = "mail" /\ v.tx = q.tx
      /\ v.op = q.op /\ v.user = q.user /\ v.email = q.email
      /\ v.new = q.new /\ v.type = q.type /\ v.token = t /\ v.code = q.code
  BY <1>1, <1>3 DEF RequestType, Phase, Tokens
<1>6. req' = [req EXCEPT ![r] = v]
  BY <1>3 DEF IInv, TypeOK
<1>7. Payload(q) \in Emails
  BY <1>1 DEF Payload, RequestType, Emails
<1>8. /\ new \in TokenType /\ new.type = q.type /\ new.email = q.email /\ new.user = q.user
  BY <1>1, <1>4, <1>7 DEF TokenType, RequestType
<1> HIDE DEF v, new
<1>9. /\ issued' \in [TokenID -> TokenType] /\ issued'[t] = new
      /\ \A t2 \in TokenID \ {t} : issued'[t2] = issued[t2]
  BY <1>3, <1>8 DEF IInv, TypeOK
<1>10. Issued' = Issued \cup {t}
  BY <1>3, <1>4, <1>8, <1>9 DEF Issued
<1>11. /\ notes' \in NotesType /\ Unnoted /\ notes'.loose = notes.loose
       /\ notes.crossed \subseteq notes'.crossed
       /\ others # {} => <<q.email, q.type>> \in notes'.crossed
  BY <1>2, <1>4 DEF IInv, TypeOK, NotesType, Unnoted
<1>12. TypeOK'
  <2>1. rows' \subseteq TokenID /\ req' \in [Request -> RequestType]
    <3>1. rows \subseteq TokenID /\ req \in [Request -> RequestType]
      BY DEF IInv, TypeOK
    <3> QED BY <1>3, <1>5, <1>6, <3>1
  <2> QED BY <1>2, <1>9, <1>11, <2>1 DEF IInv, TypeOK, NotesType, users
<1>13. Grows
  BY <1>2, <1>3, <1>9, <1>10, <1>11 DEF Grows, Issued, Unnoted, users
<1>14. RequestsFit'
  <2>1. IssuedIn(issued') = IssuedIn(issued) \cup {t}
    BY <1>10 DEF IssuedIn, Issued
  <2>2. Shape(v)
    BY <1>1, <1>2, <1>4, <1>5 DEF Fits, Shape, PhasesOf, Acting, Issuing
  <2>3. q.op = "register" => q.type = "VERIFICATION"
    BY <1>1, <1>2 DEF Fits, Shape, Issuing
  <2>4. KnowsTokens(v, issued')
    BY <1>1, <1>4, <1>5, <1>8, <1>9, <2>1, <2>3 DEF Fits, KnowsTokens, Acting
  <2>5. KnowsUser(v, emailOf', verified') /\ Rightful(v, emailOf', issued', notes'.left)
    BY <1>1, <1>2, <1>4, <1>5, <1>11
    DEF Fits, KnowsUser, Rightful, Acting, Issuing, Unnoted, users
  <2>6. Fits(v, emailOf', verified', issued', notes'.left)
    BY <2>2, <2>4, <2>5 DEF Fits
  <2> QED BY <1>6, <1>13, <2>6, RequestsKeep DEF IInv
<1>15. AccountsStand'
  BY <1>2, <1>5, <1>6, AccountsKeep DEF IInv, InsertingAs, users
<1>16. TokensStand'
  BY <1>3, <1>4, <1>8, <1>9, <1>10, <1>11 DEF IInv, TokensStand, Unnoted, Issued
<1>17. TokensHaveUser'
  <2>1. ASSUME NEW s \in Issued'
        PROVE  \/ issued'[s].email \in notes'.left
               \/ issued'[s].user \in User /\ emailOf'[issued'[s].user] = issued'[s].email
               \/ \E p \in Request : RegisteringAs(req'[p], issued'[s].user, issued'[s].email)
    <3>1. CASE s = t
      <4>1. CASE q.op = "register"
        <5>1. req'[r] = v
          BY <1>6, MovedTo DEF IInv
        <5>2. RegisteringAs(v, issued'[s].user, issued'[s].email)
          BY <1>5, <1>8, <1>9, <3>1, <4>1 DEF RegisteringAs
        <5> QED BY <5>1, <5>2
      <4>2. CASE q.op # "register"
        <5>1. q.user \in User /\ (emailOf[q.user] = q.email \/ q.email \in notes.left)
          BY <1>1, <1>2, <4>2 DEF Fits, Rightful, Issuing
        <5> QED BY <1>2, <1>8, <1>9, <1>11, <3>1, <5>1 DEF Unnoted, users
      <4> QED BY <4>1, <4>2
    <3>2. CASE s # t
      <4>1. s \in Issued /\ issued'[s] = issued[s]
        BY <1>9, <1>10, <3>2 DEF Issued
      <4>2. CASE \E p \in Request : RegisteringAs(req[p], issued[s].user, issued[s].email)
        <5>1. PICK p \in Request : RegisteringAs(req[p], issued[s].user, issued[s].email)
          BY <4>2
        <5>2. p # r
          BY <1>2, <5>1 DEF RegisteringAs
        <5> QED BY <1>6, <4>1, <5>1, <5>2, MovedTo DEF IInv
      <4> QED BY <1>2, <1>11, <4>1, <4>2 DEF IInv, TokensHaveUser, Unnoted, users
    <3> QED BY <3>1, <3>2
  <2> QED BY <2>1 DEF TokensHaveUser
<1>18. OldIsFound'
  <2>1. ASSUME NEW e \in Email, NEW type \in Type, <<e, type>> \notin notes'.crossed
        PROVE  /\ \A s, s2 \in Pending(e, type)' : s = s2
               /\ \A p \in Request : req'[p].email = e /\ req'[p].type = type =>
                    /\ req'[p].at = "drop" => Pending(e, type)' \subseteq {req'[p].token}
                    /\ req'[p].at = "create" => Pending(e, type)' = {}
    <3>1. <<e, type>> \notin notes.crossed
      BY <1>11, <2>1
    <3>2. \A s \in rows : s \in TokenID /\ s # t /\ issued'[s] = issued[s]
      BY <1>3, <1>9 DEF IInv, TypeOK, TokensStand
    <3>3. /\ req'[r] = v
          /\ \A p \in Request \ {r} : req'[p] = req[p]
      BY <1>6, MovedTo DEF IInv
    <3>4. CASE e = q.email /\ type = q.type
      <4>1. others = {}
        BY <1>11, <2>1, <3>4
      <4>2. Pending(e, type) = {}
        BY <1>2, <3>1, <3>4 DEF IInv, OldIsFound
      <4>3. Pending(e, type)' \subseteq {t}
        BY <1>3, <3>2, <4>2 DEF Pending
      <4>4. \A p \in Request : req'[p].email = e /\ req'[p].type = type =>
              req'[p].at \notin {"drop", "create"}
        BY <1>5, <3>3, <3>4, <4>1
      <4> QED BY <4>3, <4>4
    <3>5. CASE ~ (e = q.email /\ type = q.type)
      <4>1. Pending(e, type)' = Pending(e, type)
        BY <1>3, <1>8, <1>9, <3>2, <3>5 DEF Pending
      <4>2. \A p \in Request : req'[p].at \in {"drop", "create"} => req'[p] = req[p]
        BY <1>5, <3>3
      <4> QED BY <3>1, <4>1, <4>2 DEF IInv, OldIsFound
    <3> QED BY <3>4, <3>5
  <2> QED BY <2>1 DEF OldIsFound
<1>19. /\ \A s \in TokenID : ~ HoldsAs(v, s) /\ ~ WillAct(v, s)
       /\ q.at \notin {"answered", "clear"}
  BY <1>2, <1>5 DEF HoldsAs, WillAct, Acting
<1>20. HeldOnce'
  BY <1>6, <1>11, <1>19, HeldKeep DEF IInv
<1>21. ActedIsOver'
  <2>1. ASSUME NEW s \in notes'.acted \ notes'.loose
        PROVE  /\ \A p \in Request : ~ WillAct(req'[p], s)
               /\ s \in rows' => \E p \in Request : req'[p].at = "clear" /\ req'[p].token = s
    <3>1. s \in notes.acted \ notes.loose /\ s \in TokenID /\ s # t
      BY <1>3, <1>11, <2>1 DEF IInv, TokensStand, Unnoted, Issued
    <3>2. \A p \in Request : ~ WillAct(req'[p], s)
      BY <1>6, <1>19, <3>1, MovedTo DEF IInv, ActedIsOver
    <3>3. s \in rows => \E p \in Request \ {r} : req[p].at = "clear" /\ req[p].token = s
      BY <1>19, <3>1 DEF IInv, ActedIsOver
    <3> QED BY <1>3, <1>6, <3>1, <3>2, <3>3, MovedTo DEF IInv
  <2> QED BY <2>1 DEF ActedIsOver
<1>22. SessionsAreVerified'
  BY <1>2, <1>6, <1>11, <1>19, SessionsKeep DEF IInv, Unnoted, users
<1>23. WaitingHasToken'
  BY <1>2, <1>13, WaitingKeep DEF IInv, users
<1>24. ActedOnce' /\ ActsOnItsUser'
  BY <1>11 DEF IInv, ActedOnce, ActsOnItsUser, Unnoted
<1> QED BY <1>12, <1>14, <1>15, <1>16, <1>17, <1>18, <1>20, <1>21, <1>22, <1>23, <1>24
        DEF IInv

-----------------------------------------------------------------------------
(* Steps that insert an account *)

LEMMA InsertStep ==
  ASSUME IInv, NEW r \in Request, Insert(r)
  PROVE  IInv'
<1> DEFINE q == req[r]
           v == IF q.op = "oauth" THEN [q EXCEPT !.at = "commit"]
                ELSE Issue(q, q.email, "VERIFICATION")
<1>1. q \in RequestType /\ Fits(q, emailOf, verified, issued, notes.left)
  BY Mine
<1>2. /\ q.at = "insert" /\ UNCHANGED <<users, tokens, session, pool, coming, notes>>
      /\ ~ \E p \in Request : /\ Inserting(p)
                              /\ req[p].user = q.user \/ req[p].email = q.email
  BY DEF Insert
<1>3. q.op \in {"register", "oauth"}
  BY <1>1, <1>2 DEF Fits, Shape, PhasesOf, RequestType, Op
<1>4. q.user \in User /\ q.email \in Email /\ q.tx = TRUE /\ q.code = NoToken
  BY <1>1, <1>2, <1>3 DEF Fits, Shape, RequestType
<1>5. CASE End(r)
  BY <1>2, <1>5, EarlyEnd DEF QuietVars
<1>6. CASE /\ emailOf[q.user] = None /\ \A u \in User : emailOf[u] # q.email
           /\ req' = [req EXCEPT ![r] = v]
  <2>1. /\ v \in RequestType /\ v.tx = TRUE /\ v.op = q.op /\ v.user = q.user
        /\ v.email = q.email /\ v.code = q.code
        /\ \/ q.op = "oauth" /\ v.at = "commit" /\ v.token = q.token
           \/ q.op = "register" /\ v.at = "find" /\ v.type = "VERIFICATION"
              /\ v.token = NoToken
    <3>1. CASE q.op = "oauth"
      BY <1>1, <1>4, <3>1, AtFields DEF Phase
    <3>2. CASE q.op = "register"
      <4>1. v = Issue(q, q.email, "VERIFICATION") /\ "VERIFICATION" \in Type
        BY <3>2 DEF Type
      <4> HIDE DEF v
      <4> QED BY <1>1, <1>4, <3>2, <4>1, IssueFields
    <3> QED BY <1>3, <3>1, <3>2
  <2> HIDE DEF v
  <2>2. Shape(v)
    BY <1>1, <1>4, <2>1 DEF Fits, Shape, PhasesOf, Acting, Issuing
  <2>3. KnowsTokens(v, issued)
    BY <1>1, <1>4, <2>1 DEF Fits, KnowsTokens, Acting
  <2>4. KnowsUser(v, emailOf, verified) /\ Rightful(v, emailOf, issued, notes.left)
    BY <2>1 DEF KnowsUser, Rightful, Acting, Issuing
  <2>5. Fits(v, emailOf', verified', issued', notes'.left)
    BY <1>2, <2>2, <2>3, <2>4 DEF Fits, users, tokens
  <2>6. Grows
    BY <1>2, SameGrows DEF users, tokens
  <2>7. /\ \A t \in TokenID : ~ HoldsAs(v, t) /\ ~ WillAct(v, t)
        /\ \A u, e : ~ RegisteringAs(q, u, e)
    BY <1>2, <2>1 DEF HoldsAs, WillAct, Acting, RegisteringAs
  <2>8. /\ req'[r] = v
        /\ \A p \in Request \ {r} : req'[p] = req[p]
    BY <1>6, MovedTo DEF IInv
  <2>9. TypeOK'
    BY <1>2, <1>6, <2>1 DEF IInv, TypeOK, users, tokens
  <2>10. AccountsStand'
    <3>1. \A p \in Request : InsertingAs(req[p]) =>
            req[p].user # q.user /\ req[p].email # q.email
      BY <1>2 DEF Inserting, InsertingAs
    <3>2. \A p \in Request : /\ Inserting(p) <=> InsertingAs(req[p])
                             /\ Inserting(p)' <=> InsertingAs(req'[p])
      BY DEF Inserting, InsertingAs
    <3>3. OneUserPerEmail'
      BY <1>2, <1>6, <2>1, <2>8, <3>1, <3>2 DEF IInv, AccountsStand, OneUserPerEmail, users
    <3>4. ASSUME NEW p \in Request, NEW p2 \in Request, p # p2,
                 InsertingAs(req'[p]), InsertingAs(req'[p2])
          PROVE  req'[p2].user # req'[p].user
      BY <2>1, <2>8, <3>1, <3>4 DEF IInv, AccountsStand
    <3>5. (\A u \in withPassword : emailOf[u] # None)'
      BY <1>2 DEF IInv, AccountsStand, users
    <3> QED BY <3>3, <3>4, <3>5 DEF AccountsStand
  <2>11. RequestsFit'
    BY <1>6, <2>5, <2>6, RequestsKeep DEF IInv
  <2>12. TokensStand' /\ ActedOnce' /\ ActsOnItsUser'
    BY <1>2 DEF IInv, TokensStand, Issued, ActedOnce, ActsOnItsUser, tokens
  <2>13. TokensHaveUser'
    BY <1>2, <1>6, <2>7, HaveUserKeep DEF IInv, users, tokens
  <2>14. OldIsFound'
    BY <1>2, <1>6, <2>1, OldKeep DEF IInv, tokens
  <2>15. HeldOnce'
    BY <1>2, <1>6, <2>7, HeldKeep DEF IInv
  <2>16. ActedIsOver'
    BY <1>2, <1>6, <2>7, OverKeep DEF IInv, tokens
  <2>17. SessionsAreVerified'
    BY <1>2, <1>6, SessionsKeep DEF IInv, users
  <2>18. WaitingHasToken'
    BY <1>2, <2>6, WaitingKeep DEF IInv, users
  <2> QED BY <2>9, <2>10, <2>11, <2>12, <2>13, <2>14, <2>15, <2>16, <2>17, <2>18 DEF IInv
<1>7. CASE q.op = "oauth"
  BY <1>5, <1>6, <1>7 DEF Insert
<1>8. CASE q.op # "oauth"
  BY <1>5, <1>6, <1>8 DEF Insert, SendVerificationToken
<1> QED BY <1>7, <1>8

LEMMA CommitUserStep ==
  ASSUME IInv, NEW r \in Request, CommitUser(r)
  PROVE  IInv'
<1> DEFINE q == req[r]
           v == [q EXCEPT !.at = "session", !.tx = FALSE]
           w == IF q.op = "oauth" THEN v ELSE NoRequest
<1>1. q \in RequestType /\ Fits(q, emailOf, verified, issued, notes.left)
  BY Mine
<1>2. /\ q.at = "commit" /\ emailOf' = [emailOf EXCEPT ![q.user] = q.email]
      /\ UNCHANGED <<twoFactor, tokens, session, pool, coming, notes>>
  BY DEF CommitUser
<1>3. /\ q.op \in {"register", "oauth"}
      /\ \/ /\ q.op = "oauth" /\ verified' = verified \cup {q.user}
            /\ withPassword' = withPassword
         \/ /\ q.op = "register" /\ verified' = verified
            /\ withPassword' = withPassword \cup {q.user}
  <2>1. q.op \in {"register", "oauth"}
    BY <1>1, <1>2 DEF Fits, Shape, PhasesOf, RequestType, Op
  <2> QED BY <2>1 DEF CommitUser
<1>4. q.user \in User /\ q.email \in Email /\ q.tx = TRUE /\ q.email # None
  BY <1>1, <1>2, <1>3, AccountsAssumption DEF Fits, Shape, RequestType
<1>5. /\ v \in RequestType /\ v.at = "session" /\ v.tx = FALSE
      /\ v.op = q.op /\ v.user = q.user /\ v.email = q.email
      /\ v.token = q.token /\ v.code = q.code
  BY <1>1 DEF RequestType, Phase
<1>6. req' = [req EXCEPT ![r] = w]
  BY DEF CommitUser, End, IInv, TypeOK
<1> HIDE DEF v
<1>7. q.op = "oauth" => Shape(v)
  BY <1>1, <1>4, <1>5 DEF Fits, Shape, PhasesOf, Acting, Issuing
<1>8. q.op = "oauth" => KnowsTokens(v, issued)
  BY <1>1, <1>5 DEF Fits, KnowsTokens, Acting
<1>9. q.op = "oauth" => KnowsUser(v, emailOf', verified') /\ Rightful(v, emailOf', issued, notes.left)
  BY <1>3, <1>5 DEF KnowsUser, Rightful, Acting, Issuing
<1>10. w \in RequestType /\ Fits(w, emailOf', verified', issued', notes'.left)
  BY <1>2, <1>5, <1>7, <1>8, <1>9, NoFits, NoFields DEF Fits, tokens
<1>11. /\ w.at \in {"session", "idle"} /\ ~ InsertingAs(w)
       /\ \A t \in TokenID : ~ HoldsAs(w, t) /\ ~ WillAct(w, t)
  BY <1>5, NoDoes DEF InsertingAs, HoldsAs, WillAct, Acting
<1> HIDE DEF w
<1>12. /\ req'[r] = w
       /\ \A p \in Request \ {r} : req'[p] = req[p]
  BY <1>6, MovedTo DEF IInv
<1>13. \A p \in Request : /\ Inserting(p) <=> InsertingAs(req[p])
                          /\ Inserting(p)' <=> InsertingAs(req'[p])
  BY DEF Inserting, InsertingAs
<1>14. InsertingAs(q)
  BY <1>2, <1>3, <1>4 DEF InsertingAs
<1>15. /\ emailOf[q.user] = None /\ \A u \in User : emailOf[u] # q.email
       /\ \A p \in Request \ {r} : InsertingAs(req[p]) =>
            req[p].user # q.user /\ req[p].email # q.email
  BY <1>13, <1>14 DEF IInv, AccountsStand, OneUserPerEmail
<1>16. /\ emailOf \in [User -> Emails] /\ emailOf'[q.user] = q.email
       /\ \A u \in User \ {q.user} : emailOf'[u] = emailOf[u]
  BY <1>2, <1>4 DEF IInv, TypeOK
<1>17. TypeOK'
  <2>1. emailOf' \in [User -> Emails]
    BY <1>2, <1>4, <1>16 DEF Emails
  <2>2. req' \in [Request -> RequestType]
    BY <1>6, <1>10 DEF IInv, TypeOK
  <2> QED BY <1>2, <1>3, <1>4, <2>1, <2>2 DEF IInv, TypeOK, tokens
<1>18. Grows
  BY <1>2, <1>3, <1>15, <1>16 DEF Grows, Issued, tokens
<1>19. RequestsFit'
  BY <1>6, <1>10, <1>18, RequestsKeep DEF IInv
<1>20. AccountsStand'
  <2>1. \A p \in Request : InsertingAs(req'[p]) => p # r /\ req'[p] = req[p]
    BY <1>11, <1>12
  <2>2. (\A u, u2 \in User : emailOf[u] = emailOf[u2] => u = u2 \/ emailOf[u] = None)'
    BY <1>15, <1>16 DEF IInv, AccountsStand, OneUserPerEmail
  <2>3. ASSUME NEW p \in Request, NEW p2 \in Request, Inserting(p)'
        PROVE  /\ \A u \in User : emailOf'[u] # req'[p].email
               /\ emailOf'[req'[p].user] = None
               /\ Inserting(p2)' /\ p2 # p => req'[p2].email # req'[p].email
    <3>1. p # r /\ req'[p] = req[p] /\ Inserting(p)
      BY <1>13, <2>1, <2>3
    <3>2. req[p].user \in User
      <4>1. Shape(req[p]) /\ req[p].op \in {"register", "oauth"} /\ req[p].tx
        BY <3>1, Mine DEF Fits, Inserting
      <4> QED BY <4>1 DEF Shape
    <3>3. /\ \A u \in User : emailOf[u] # req[p].email
          /\ emailOf[req[p].user] = None
          /\ Inserting(p2) /\ p2 # p => req[p2].email # req[p].email
      BY <3>1 DEF IInv, AccountsStand, OneUserPerEmail
    <3>4. req[p].user # q.user /\ req[p].email # q.email
      BY <1>13, <1>15, <3>1
    <3> QED BY <1>13, <1>16, <2>1, <3>1, <3>2, <3>3, <3>4
  <2>4. (\A p, p2 \in Request :
           p # p2 /\ InsertingAs(req[p]) /\ InsertingAs(req[p2]) =>
             req[p2].user # req[p].user)'
    BY <2>1 DEF IInv, AccountsStand
  <2>5. (\A u \in withPassword : emailOf[u] # None)'
    BY <1>3, <1>4, <1>16 DEF IInv, AccountsStand, TypeOK
  <2> QED BY <2>2, <2>3, <2>4, <2>5 DEF AccountsStand, OneUserPerEmail
<1>21. TokensStand' /\ ActedOnce' /\ ActsOnItsUser'
  BY <1>2 DEF IInv, TokensStand, Issued, ActedOnce, ActsOnItsUser, tokens
<1>22. TokensHaveUser'
  <2>1. ASSUME NEW t \in Issued
        PROVE  \/ issued[t].email \in notes.left
               \/ issued[t].user \in User /\ emailOf'[issued[t].user] = issued[t].email
               \/ \E p \in Request : RegisteringAs(req'[p], issued[t].user, issued[t].email)
    <3>1. CASE issued[t].user \in User /\ emailOf[issued[t].user] = issued[t].email
      <4>1. issued[t].email # None
        BY AccountsAssumption DEF IInv, TokensStand
      <4> QED BY <1>15, <1>16, <3>1, <4>1
    <3>2. CASE \E p \in Request : RegisteringAs(req[p], issued[t].user, issued[t].email)
      <4>1. PICK p \in Request : RegisteringAs(req[p], issued[t].user, issued[t].email)
        BY <3>2
      <4>2. CASE p = r
        BY <1>4, <1>16, <4>1, <4>2 DEF RegisteringAs
      <4>3. CASE p # r
        BY <1>12, <4>1, <4>3
      <4> QED BY <4>2, <4>3
    <3> QED BY <3>1, <3>2 DEF IInv, TokensHaveUser
  <2> QED BY <1>2, <2>1 DEF TokensHaveUser, Issued, tokens
<1>23. OldIsFound'
  BY <1>2, <1>6, <1>11, OldKeep DEF IInv, tokens
<1>24. HeldOnce'
  BY <1>2, <1>6, <1>11, HeldKeep DEF IInv
<1>25. ActedIsOver'
  BY <1>2, <1>6, <1>11, OverKeep DEF IInv, tokens
<1>26. SessionsAreVerified'
  BY <1>2, <1>3, <1>6, SessionsKeep DEF IInv
<1>27. WaitingHasToken'
  <2>1. ASSUME NEW u \in User, emailOf'[u] # None, u \notin verified'
        PROVE  \E t \in Issued' : /\ issued'[t].email = emailOf'[u]
                                  /\ issued'[t].type = "VERIFICATION"
    <3>1. Issued' = Issued /\ issued' = issued
      BY <1>2 DEF Issued, tokens
    <3>2. CASE u = q.user
      <4>1. q.op = "register"
        BY <1>3, <2>1, <3>2
      <4>2. \E t \in Issued : issued[t].email = q.email /\ issued[t].type = "VERIFICATION"
        BY <1>1, <1>2, <4>1 DEF Fits, KnowsTokens, Issued, IssuedIn
      <4> QED BY <1>16, <3>1, <3>2, <4>2
    <3>3. CASE u # q.user
      BY <1>3, <1>16, <2>1, <3>1, <3>3 DEF IInv, WaitingHasToken
    <3> QED BY <3>2, <3>3
  <2> QED BY <2>1 DEF WaitingHasToken
<1> QED BY <1>17, <1>19, <1>20, <1>21, <1>22, <1>23, <1>24, <1>25, <1>26, <1>27 DEF IInv

-----------------------------------------------------------------------------
(* Steps that act on a token *)

\* Nobody acted on the token before, and it is for the user it acts on.
LEMMA ActedNotes ==
  ASSUME IInv, NEW r \in Request, req[r].at \in Acting
  PROVE  LET N == Acted(req[r].token, req[r].user)
         IN  /\ req[r].token \in Issued /\ req[r].user \in User
             /\ N \in NotesType /\ N.acted = notes.acted \cup {req[r].token}
             /\ N.crossed = notes.crossed /\ N.loose = notes.loose
             /\ N.again = notes.again /\ N.foreign = notes.foreign
             /\ N.left = notes.left /\ N.unbacked = notes.unbacked
<1> DEFINE t == req[r].token
           u == req[r].user
<1>1. Fits(req[r], emailOf, verified, issued, notes.left)
  BY Mine
<1>2. t \in Issued /\ t \in TokenID /\ u \in User
  BY <1>1 DEF Fits, Shape, KnowsTokens, Issued, IssuedIn
<1>3. WillAct(req[r], t)
  BY DEF WillAct
<1>4. ~ (t \in notes.acted /\ t \notin notes.loose)
  BY <1>3 DEF IInv, ActedIsOver
<1>5. ~ (issued[t].user # u /\ issued[t].email \notin notes.left)
  BY <1>1 DEF Fits, Rightful
<1>6. notes \in NotesType
  BY DEF IInv, TypeOK, NotesType
<1> DEFINE N == Acted(t, u)
<1>7. N = [notes EXCEPT !.acted = @ \cup {t}, !.again = @, !.foreign = @]
  BY <1>4, <1>5 DEF Acted
<1> HIDE DEF N
<1>8. /\ N \in NotesType /\ N.acted = notes.acted \cup {t}
      /\ N.crossed = notes.crossed /\ N.loose = notes.loose
      /\ N.again = notes.again /\ N.foreign = notes.foreign
      /\ N.left = notes.left /\ N.unbacked = notes.unbacked
  BY <1>2, <1>6, <1>7 DEF NotesType
<1> QED BY <1>2, <1>8 DEF N

\* Who else holds the token is noted, and the one that acted destroys it next.
LEMMA ActedOver ==
  ASSUME IInv, NEW r \in Request, NEW q2, req' = [req EXCEPT ![r] = q2],
         req[r].at \in Acting,
         notes'.acted = notes.acted \cup {req[r].token}, notes'.loose = notes.loose,
         rows' \subseteq rows, q2.at \in {"session", "idle", "clear"},
         req[r].token \notin rows' \/ (q2.at = "clear" /\ q2.token = req[r].token)
  PROVE  ActedIsOver'
<1> DEFINE t == req[r].token
<1>1. t \in TokenID
  BY ActedNotes DEF Issued
<1>2. /\ req'[r] = q2
      /\ \A p \in Request \ {r} : req'[p] = req[p]
  BY MovedTo DEF IInv
<1>3. \A s : ~ WillAct(q2, s)
  BY DEF WillAct, Acting
<1>4. ASSUME NEW s \in notes'.acted \ notes'.loose
      PROVE  /\ \A p \in Request : ~ WillAct(req'[p], s)
             /\ s \in rows' => \E p \in Request : req'[p].at = "clear" /\ req'[p].token = s
  <2>1. CASE s = t
    <3>1. ASSUME NEW p \in Request \ {r}, WillAct(req[p], t) PROVE FALSE
      <4>1. HoldsAs(req[p], t) /\ HoldsAs(req[r], t)
        BY <3>1 DEF WillAct, HoldsAs, Acting
      <4> QED BY <1>1, <1>4, <2>1, <4>1 DEF IInv, HeldOnce
    <3>2. \A p \in Request : ~ WillAct(req'[p], s)
      BY <1>2, <1>3, <2>1, <3>1
    <3> QED BY <1>2, <2>1, <3>2
  <2>2. CASE s # t
    <3>1. s \in notes.acted \ notes.loose
      BY <1>4, <2>2
    <3>2. \A p \in Request : ~ WillAct(req'[p], s)
      BY <1>2, <1>3, <3>1 DEF IInv, ActedIsOver
    <3>3. s \in rows => \E p \in Request \ {r} : req[p].at = "clear" /\ req[p].token = s
      BY <3>1 DEF IInv, ActedIsOver, Acting
    <3> QED BY <1>2, <3>2, <3>3
  <2> QED BY <2>1, <2>2
<1> QED BY <1>4 DEF ActedIsOver

\* A step that acts, and gives nobody another address.
LEMMA Acts ==
  ASSUME IInv, NEW r \in Request, NEW q2 \in RequestType,
         req' = [req EXCEPT ![r] = q2], req[r].at \in Acting,
         UNCHANGED <<emailOf, twoFactor, issued, session, pool, coming>>,
         verified \subseteq verified', verified' \subseteq User,
         withPassword \subseteq withPassword',
         withPassword' \subseteq withPassword \cup {u \in User : emailOf[u] # None},
         rows' \subseteq rows, notes' = Acted(req[r].token, req[r].user),
         q2.at \in {"session", "idle", "clear"}, ~ InsertingAs(q2),
         \/ req[r].token \notin rows' /\ q2.at # "clear"
         \/ /\ q2.at = "clear" /\ q2.token = req[r].token
            /\ q2.code = req[r].code /\ req[r].at = "apply",
         req[r].at = "answered" => req[r].user \in verified',
         Fits(q2, emailOf, verified', issued, notes.left)
  PROVE  IInv'
<1>1. /\ notes' \in NotesType /\ notes'.acted = notes.acted \cup {req[r].token}
      /\ notes'.crossed = notes.crossed /\ notes'.loose = notes.loose
      /\ notes'.again = notes.again /\ notes'.foreign = notes.foreign
      /\ notes'.left = notes.left /\ notes'.unbacked = notes.unbacked
      /\ req[r].token \in Issued
  BY ActedNotes
<1>2. TypeOK'
  <2>1. req' \in [Request -> RequestType]
    BY DEF IInv, TypeOK
  <2> QED BY <1>1, <2>1 DEF IInv, TypeOK, NotesType
<1>3. Grows
  BY <1>1 DEF Grows, Issued
<1>4. Fits(q2, emailOf', verified', issued', notes'.left)
  BY <1>1
<1>5. RequestsFit'
  BY <1>3, <1>4, RequestsKeep DEF IInv
<1>6. AccountsStand'
  <2>1. \A p \in Request : InsertingAs(req'[p]) => p # r /\ req'[p] = req[p]
    BY MovedTo DEF IInv
  <2>2. \A p \in Request : /\ Inserting(p) <=> InsertingAs(req[p])
                           /\ Inserting(p)' <=> InsertingAs(req'[p])
    BY DEF Inserting, InsertingAs
  <2>3. OneUserPerEmail'
    BY <2>1, <2>2 DEF IInv, AccountsStand, OneUserPerEmail
  <2>4. (\A p, p2 \in Request :
           p # p2 /\ InsertingAs(req[p]) /\ InsertingAs(req[p2]) =>
             req[p2].user # req[p].user)'
    BY <2>1 DEF IInv, AccountsStand
  <2>5. (\A u \in withPassword : emailOf[u] # None)'
    BY DEF IInv, AccountsStand
  <2> QED BY <2>3, <2>4, <2>5 DEF AccountsStand
<1>7. TokensStand' /\ ActedOnce' /\ ActsOnItsUser'
  BY <1>1 DEF IInv, TokensStand, Issued, ActedOnce, ActsOnItsUser
<1>8. TokensHaveUser'
  <2>1. \A u, e : ~ RegisteringAs(req[r], u, e)
    BY DEF RegisteringAs, Acting
  <2> QED BY <1>1, <2>1, HaveUserKeep DEF IInv
<1>9. OldIsFound'
  BY <1>1, OldKeep DEF IInv
<1>10. HeldOnce'
  <2>1. \A t \in TokenID : HoldsAs(q2, t) => HoldsAs(req[r], t)
    BY DEF HoldsAs
  <2> QED BY <1>1, <2>1, HeldKeep DEF IInv
<1>11. ActedIsOver'
  BY <1>1, ActedOver
<1>12. SessionsAreVerified'
  BY <1>1, SessionsKeep DEF IInv
<1>13. WaitingHasToken'
  BY <1>3, WaitingKeep DEF IInv
<1> QED BY <1>2, <1>5, <1>6, <1>7, <1>8, <1>9, <1>10, <1>11, <1>12, <1>13 DEF IInv

LEMMA CommitConfirmStep ==
  ASSUME IInv, NEW r \in Request, CommitConfirm(r)
  PROVE  IInv'
<1> DEFINE q == req[r]
           v == [q EXCEPT !.at = "session", !.tx = FALSE]
           w == IF q.at = "answered" THEN NoRequest ELSE v
<1>1. q \in RequestType /\ Fits(q, emailOf, verified, issued, notes.left)
  BY Mine
<1>2. /\ q.at \in {"applied", "answered"} /\ verified' = verified \cup {q.user}
      /\ rows' = rows \ {q.token} /\ notes' = Acted(q.token, q.user)
      /\ UNCHANGED <<emailOf, withPassword, twoFactor, issued, session, pool, coming>>
  BY DEF CommitConfirm, Confirming
<1>3. q.op = "confirm" /\ q.user \in User /\ verified \subseteq User
  BY <1>1, <1>2 DEF Fits, Shape, PhasesOf, Acting, RequestType, Op, IInv, TypeOK
<1>4. /\ v \in RequestType /\ v.at = "session" /\ v.tx = FALSE
      /\ v.op = q.op /\ v.user = q.user /\ v.email = q.email
      /\ v.token = q.token /\ v.code = q.code
  BY <1>1 DEF RequestType, Phase
<1>5. req' = [req EXCEPT ![r] = w]
  BY DEF CommitConfirm, End, IInv, TypeOK
<1> HIDE DEF v
<1>6. Shape(v)
  BY <1>1, <1>3, <1>4 DEF Fits, Shape, PhasesOf, Acting, Issuing
<1>7. KnowsTokens(v, issued)
  BY <1>1, <1>3, <1>4 DEF Fits, KnowsTokens, Acting
<1>8. KnowsUser(v, emailOf, verified') /\ Rightful(v, emailOf, issued, notes.left)
  BY <1>2, <1>3, <1>4 DEF KnowsUser, Rightful, Acting, Issuing
<1>9. w \in RequestType /\ Fits(w, emailOf, verified', issued, notes.left)
  BY <1>4, <1>6, <1>7, <1>8, NoFits, NoFields DEF Fits
<1>10. w.at \in {"session", "idle"} /\ ~ InsertingAs(w)
  BY <1>4, NoDoes DEF InsertingAs
<1> HIDE DEF w
<1>11. q.at \in Acting /\ verified' \subseteq User
  BY <1>2, <1>3 DEF Acting
<1> QED BY <1>2, <1>5, <1>9, <1>10, <1>11, Acts

LEMMA SpendStep ==
  ASSUME IInv, NEW r \in Request, Spend(r)
  PROVE  IInv'
<1> DEFINE q == req[r]
           v == [q EXCEPT !.at = "session"]
<1>1. q \in RequestType /\ Fits(q, emailOf, verified, issued, notes.left)
  BY Mine
<1>2. /\ q.at = "spend" /\ rows' = rows \ {q.token} /\ notes' = Acted(q.token, q.user)
      /\ UNCHANGED <<users, issued, session, pool, coming>>
      /\ req' = [req EXCEPT ![r] = v]
  BY DEF Spend, Goto
<1>3. q.op = "login"
  BY <1>1, <1>2 DEF Fits, Shape, PhasesOf, RequestType, Op
<1>4. /\ v \in RequestType /\ v.at = "session" /\ v.tx = q.tx
      /\ v.op = q.op /\ v.user = q.user /\ v.email = q.email
      /\ v.token = q.token /\ v.code = q.code
  BY <1>1, AtFields DEF Phase
<1> HIDE DEF v
<1>5. Shape(v)
  BY <1>1, <1>2, <1>3, <1>4 DEF Fits, Shape, PhasesOf, Acting, Issuing
<1>6. KnowsTokens(v, issued)
  BY <1>1, <1>2, <1>3, <1>4 DEF Fits, KnowsTokens, Acting
<1>7. KnowsUser(v, emailOf, verified) /\ Rightful(v, emailOf, issued, notes.left)
  BY <1>1, <1>2, <1>3, <1>4 DEF Fits, KnowsUser, Rightful, Acting, Issuing
<1>8. Fits(v, emailOf, verified', issued, notes.left)
  BY <1>2, <1>5, <1>6, <1>7 DEF Fits, users
<1>9. q.at \in Acting /\ ~ InsertingAs(v) /\ verified' \subseteq User
  BY <1>2, <1>3, <1>4 DEF Acting, InsertingAs, IInv, TypeOK, users
<1> QED BY <1>2, <1>4, <1>8, <1>9, Acts DEF users

LEMMA ApplyPasswordStep ==
  ASSUME IInv, NEW r \in Request, ApplyPassword(r)
  PROVE  IInv'
<1> DEFINE q == req[r]
           v == [q EXCEPT !.at = "clear"]
<1>1. q \in RequestType /\ Fits(q, emailOf, verified, issued, notes.left)
  BY Mine
<1>2. /\ q.op = "newPassword" /\ q.at = "apply"
      /\ withPassword' = withPassword \cup {q.user} /\ notes' = Acted(q.token, q.user)
      /\ UNCHANGED <<emailOf, verified, twoFactor, tokens, session, pool, coming>>
      /\ req' = [req EXCEPT ![r] = v]
  BY DEF ApplyPassword, Goto
<1>3. q.user \in User /\ emailOf[q.user] # None
  BY <1>1, <1>2 DEF Fits, Shape, Acting, KnowsUser
<1>4. /\ v \in RequestType /\ v.at = "clear" /\ v.tx = q.tx
      /\ v.op = q.op /\ v.user = q.user /\ v.email = q.email
      /\ v.token = q.token /\ v.code = q.code
  BY <1>1, AtFields DEF Phase
<1> HIDE DEF v
<1>5. Shape(v)
  BY <1>1, <1>2, <1>3, <1>4 DEF Fits, Shape, PhasesOf, Acting, Issuing
<1>6. KnowsTokens(v, issued)
  BY <1>1, <1>2, <1>4 DEF Fits, KnowsTokens, Acting
<1>7. KnowsUser(v, emailOf, verified) /\ Rightful(v, emailOf, issued, notes.left)
  BY <1>2, <1>4 DEF KnowsUser, Rightful, Acting, Issuing
<1>8. Fits(v, emailOf, verified', issued, notes.left)
  BY <1>2, <1>5, <1>6, <1>7 DEF Fits
<1>9. /\ q.at \in Acting /\ ~ InsertingAs(v) /\ verified' \subseteq User
      /\ withPassword' \subseteq withPassword \cup {u \in User : emailOf[u] # None}
  BY <1>2, <1>3, <1>4 DEF Acting, InsertingAs, IInv, TypeOK
<1> QED BY <1>2, <1>4, <1>8, <1>9, Acts DEF tokens

LEMMA ApplyChangeStep ==
  ASSUME IInv, NEW r \in Request, ApplyChange(r)
  PROVE  IInv'
<1> DEFINE q == req[r]
           e == issued[q.token].new
           v == [q EXCEPT !.at = "clear"]
           N == Acted(q.token, q.user)
<1>1. q \in RequestType /\ Fits(q, emailOf, verified, issued, notes.left)
  BY Mine
<1>2. /\ q.op = "verifyChange" /\ q.at = "apply"
      /\ UNCHANGED <<tokens, session, pool, coming>>
      /\ ~ \E p \in Request : Inserting(p) /\ req[p].email = e
  BY DEF ApplyChange
<1>3. q.user \in User /\ emailOf[q.user] # None /\ e \in Email /\ e # None
      /\ q.at \in Acting
  BY <1>1, <1>2, AccountsAssumption DEF Fits, Shape, Acting, KnowsUser, KnowsTokens
<1>4. CASE End(r) /\ UNCHANGED <<users, notes>>
  BY <1>2, <1>4, EarlyEnd DEF QuietVars
<1>5. CASE /\ \A u \in User \ {q.user} : emailOf[u] # e
           /\ emailOf' = [emailOf EXCEPT ![q.user] = e]
           /\ verified' = verified \cup {q.user}
           /\ notes' = [N EXCEPT !.left = @ \cup {emailOf[q.user]}]
           /\ Goto(r, "clear") /\ UNCHANGED <<withPassword, twoFactor>>
  <2>1. /\ v \in RequestType /\ v.at = "clear" /\ v.tx = q.tx
        /\ v.op = q.op /\ v.user = q.user /\ v.email = q.email
        /\ v.token = q.token /\ v.code = q.code
    BY <1>1, AtFields DEF Phase
  <2>2. req' = [req EXCEPT ![r] = v]
    BY <1>5 DEF Goto
  <2> HIDE DEF v
  <2>3. /\ emailOf \in [User -> Emails] /\ emailOf'[q.user] = e
        /\ \A u \in User \ {q.user} : emailOf'[u] = emailOf[u]
    BY <1>3, <1>5 DEF IInv, TypeOK
  <2>4. emailOf[q.user] \in Email
    BY <1>3, <2>3 DEF Emails
  <2>5. /\ q.token \in Issued
        /\ N \in NotesType /\ N.acted = notes.acted \cup {q.token}
        /\ N.crossed = notes.crossed /\ N.loose = notes.loose
        /\ N.again = notes.again /\ N.foreign = notes.foreign
        /\ N.left = notes.left /\ N.unbacked = notes.unbacked
    BY <1>3, ActedNotes
  <2> HIDE DEF N
  <2>6. /\ notes' \in NotesType /\ notes'.acted = notes.acted \cup {q.token}
        /\ notes'.crossed = notes.crossed /\ notes'.loose = notes.loose
        /\ notes'.again = notes.again /\ notes'.foreign = notes.foreign
        /\ notes'.left = notes.left \cup {emailOf[q.user]}
        /\ notes'.unbacked = notes.unbacked
    BY <1>5, <2>4, <2>5 DEF NotesType
  <2>7. TypeOK'
    <3>1. emailOf' \in [User -> Emails]
      BY <1>3, <1>5, <2>3 DEF Emails
    <3>2. req' \in [Request -> RequestType]
      BY <2>1, <2>2 DEF IInv, TypeOK
    <3> QED BY <1>2, <1>3, <1>5, <2>6, <3>1, <3>2 DEF IInv, TypeOK, NotesType, tokens
  <2>8. Grows
    BY <1>2, <1>3, <1>5, <2>3, <2>6 DEF Grows, Issued, tokens
  <2>9. RequestsFit'
    <3>1. Shape(v)
      BY <1>1, <1>2, <1>3, <2>1 DEF Fits, Shape, PhasesOf, Acting, Issuing
    <3>2. KnowsTokens(v, issued')
      BY <1>1, <1>2, <2>1 DEF Fits, KnowsTokens, Acting, tokens
    <3>3. KnowsUser(v, emailOf', verified') /\ Rightful(v, emailOf', issued', notes'.left)
      BY <1>2, <2>1 DEF KnowsUser, Rightful, Acting, Issuing
    <3>4. Fits(v, emailOf', verified', issued', notes'.left)
      BY <3>1, <3>2, <3>3 DEF Fits
    <3> QED BY <2>2, <2>8, <3>4, RequestsKeep DEF IInv
  <2>10. AccountsStand'
    <3>1. \A p \in Request : InsertingAs(req'[p]) => p # r /\ req'[p] = req[p]
      BY <1>2, <2>1, <2>2, MovedTo DEF IInv, InsertingAs
    <3>2. \A p \in Request : /\ Inserting(p) <=> InsertingAs(req[p])
                             /\ Inserting(p)' <=> InsertingAs(req'[p])
      BY DEF Inserting, InsertingAs
    <3>3. (\A u, u2 \in User : emailOf[u] = emailOf[u2] => u = u2 \/ emailOf[u] = None)'
      BY <1>5, <2>3 DEF IInv, AccountsStand, OneUserPerEmail
    <3>4. ASSUME NEW p \in Request, NEW p2 \in Request, Inserting(p)'
          PROVE  /\ \A u \in User : emailOf'[u] # req'[p].email
                 /\ emailOf'[req'[p].user] = None
                 /\ Inserting(p2)' /\ p2 # p => req'[p2].email # req'[p].email
      <4>1. p # r /\ req'[p] = req[p] /\ Inserting(p)
        BY <3>1, <3>2, <3>4
      <4>2. req[p].user \in User
        <5>1. Shape(req[p]) /\ req[p].op \in {"register", "oauth"} /\ req[p].tx
          BY <4>1, Mine DEF Fits, Inserting
        <5> QED BY <5>1 DEF Shape
      <4>3. /\ \A u \in User : emailOf[u] # req[p].email
            /\ emailOf[req[p].user] = None
            /\ Inserting(p2) /\ p2 # p => req[p2].email # req[p].email
        BY <4>1 DEF IInv, AccountsStand, OneUserPerEmail
      <4>4. req[p].user # q.user /\ req[p].email # e
        BY <1>2, <1>3, <4>1, <4>3
      <4> QED BY <2>3, <3>1, <3>2, <4>1, <4>2, <4>3, <4>4
    <3>5. (\A p, p2 \in Request :
             p # p2 /\ InsertingAs(req[p]) /\ InsertingAs(req[p2]) =>
               req[p2].user # req[p].user)'
      BY <3>1 DEF IInv, AccountsStand
    <3>6. (\A u \in withPassword : emailOf[u] # None)'
      BY <1>3, <1>5, <2>3 DEF IInv, AccountsStand, TypeOK
    <3> QED BY <3>3, <3>4, <3>5, <3>6 DEF AccountsStand, OneUserPerEmail
  <2>11. TokensStand' /\ ActedOnce' /\ ActsOnItsUser'
    BY <1>2, <2>5, <2>6 DEF IInv, TokensStand, Issued, ActedOnce, ActsOnItsUser, tokens
  <2>12. TokensHaveUser'
    <3>1. ASSUME NEW t \in Issued
          PROVE  \/ issued[t].email \in notes'.left
                 \/ issued[t].user \in User /\ emailOf'[issued[t].user] = issued[t].email
                 \/ \E p \in Request : RegisteringAs(req'[p], issued[t].user, issued[t].email)
      <4>1. CASE issued[t].user \in User /\ emailOf[issued[t].user] = issued[t].email
        BY <2>3, <2>6, <4>1
      <4>2. CASE \E p \in Request : RegisteringAs(req[p], issued[t].user, issued[t].email)
        <5>1. PICK p \in Request : RegisteringAs(req[p], issued[t].user, issued[t].email)
          BY <4>2
        <5>2. p # r
          BY <1>2, <5>1 DEF RegisteringAs
        <5> QED BY <2>2, <5>1, <5>2, MovedTo DEF IInv
      <4> QED BY <2>6, <4>1, <4>2 DEF IInv, TokensHaveUser
    <3> QED BY <1>2, <3>1 DEF TokensHaveUser, Issued, tokens
  <2>13. OldIsFound'
    BY <1>2, <2>1, <2>2, <2>6, OldKeep DEF IInv, tokens
  <2>14. HeldOnce'
    <3>1. \A t \in TokenID : HoldsAs(v, t) => HoldsAs(q, t)
      BY <1>2, <2>1 DEF HoldsAs
    <3> QED BY <2>2, <2>6, <3>1, HeldKeep DEF IInv
  <2>15. ActedIsOver'
    BY <1>2, <1>3, <2>1, <2>2, <2>6, ActedOver DEF tokens
  <2>16. SessionsAreVerified'
    BY <1>2, <1>5, <2>2, <2>6, SessionsKeep DEF IInv
  <2>17. WaitingHasToken'
    <3>1. ASSUME NEW u \in User, emailOf'[u] # None, u \notin verified'
          PROVE  \E t \in Issued' : /\ issued'[t].email = emailOf'[u]
                                    /\ issued'[t].type = "VERIFICATION"
      <4>1. Issued' = Issued /\ issued' = issued
        BY <1>2 DEF Issued, tokens
      <4>2. u # q.user /\ u \notin verified
        BY <1>5, <3>1
      <4> QED BY <2>3, <3>1, <4>1, <4>2 DEF IInv, WaitingHasToken
    <3> QED BY <3>1 DEF WaitingHasToken
  <2> QED BY <2>7, <2>9, <2>10, <2>11, <2>12, <2>13, <2>14, <2>15, <2>16, <2>17 DEF IInv
<1> QED BY <1>4, <1>5 DEF ApplyChange

-----------------------------------------------------------------------------
(* Sessions and accounts *)

LEMMA SaveSessionStep ==
  ASSUME IInv, NEW r \in Request, SaveSession(r)
  PROVE  IInv'
<1> DEFINE q == req[r]
           v == [q EXCEPT !.at = "answered"]
           w == IF q.at = "applied" THEN v ELSE NoRequest
<1>1. q \in RequestType /\ Fits(q, emailOf, verified, issued, notes.left)
  BY Mine
<1>2. /\ q.at \in {"session", "applied"} /\ session' = session \cup {q.user}
      /\ UNCHANGED <<users, tokens, pool, coming, notes>>
  BY DEF SaveSession
<1>3. req' = [req EXCEPT ![r] = w]
  BY DEF SaveSession, Goto, End
<1>4. /\ v \in RequestType /\ v.at = "answered" /\ v.tx = q.tx
      /\ v.op = q.op /\ v.user = q.user /\ v.email = q.email
      /\ v.token = q.token /\ v.code = q.code
  BY <1>1, AtFields DEF Phase
<1>5. q.user \in User /\ (q.at = "session" => q.user \in verified)
      /\ (q.at = "applied" => q.op = "confirm")
  BY <1>1, <1>2 DEF Fits, Shape, PhasesOf, Acting, KnowsUser, RequestType, Op
<1> HIDE DEF v
<1>6. q.at = "applied" => Shape(v)
  BY <1>1, <1>4, <1>5 DEF Fits, Shape, PhasesOf, Acting, Issuing
<1>7. q.at = "applied" => KnowsTokens(v, issued)
  BY <1>1, <1>4, <1>5 DEF Fits, KnowsTokens, Acting
<1>8. q.at = "applied" =>
        KnowsUser(v, emailOf, verified) /\ Rightful(v, emailOf, issued, notes.left)
  BY <1>1, <1>4, <1>5 DEF Fits, KnowsUser, Rightful, Acting, Issuing
<1>9. w \in RequestType /\ Fits(w, emailOf', verified', issued', notes'.left)
  BY <1>2, <1>4, <1>6, <1>7, <1>8, NoFits, NoFields DEF Fits, users, tokens
<1>10. /\ w.at \in {"answered", "idle"} /\ ~ InsertingAs(w)
       /\ \A t \in TokenID : HoldsAs(w, t) => HoldsAs(q, t)
       /\ \A t \in TokenID : WillAct(w, t) => WillAct(q, t)
       /\ \A u, e : ~ RegisteringAs(q, u, e)
       /\ q.at = "applied" => w.at = "answered" /\ w.user = q.user
  BY <1>2, <1>4, <1>5, NoDoes DEF InsertingAs, HoldsAs, WillAct, Acting, RegisteringAs
<1> HIDE DEF w
<1>11. TypeOK'
  <2>1. req' \in [Request -> RequestType]
    BY <1>3, <1>9 DEF IInv, TypeOK
  <2> QED BY <1>2, <1>5, <2>1 DEF IInv, TypeOK, users, tokens
<1>12. Grows
  BY <1>2, SameGrows DEF users, tokens
<1>13. RequestsFit'
  BY <1>3, <1>9, <1>12, RequestsKeep DEF IInv
<1>14. AccountsStand'
  BY <1>2, <1>3, <1>10, AccountsKeep DEF IInv, users
<1>15. TokensStand' /\ ActedOnce' /\ ActsOnItsUser'
  BY <1>2 DEF IInv, TokensStand, Issued, ActedOnce, ActsOnItsUser, tokens
<1>16. TokensHaveUser'
  BY <1>2, <1>3, <1>10, HaveUserKeep DEF IInv, users, tokens
<1>17. OldIsFound'
  BY <1>2, <1>3, <1>10, OldKeep DEF IInv, tokens
<1>18. HeldOnce'
  BY <1>2, <1>3, <1>10, HeldKeep DEF IInv
<1>19. ActedIsOver'
  BY <1>2, <1>3, <1>10, OverKeep DEF IInv, tokens
<1>20. SessionsAreVerified'
  <2>1. ASSUME NEW u \in session' \ verified', u \notin notes'.unbacked
        PROVE  \E p \in Request : req'[p].at = "answered" /\ req'[p].user = u
    <3>1. /\ req'[r] = w
          /\ \A p \in Request \ {r} : req'[p] = req[p]
      BY <1>3, MovedTo DEF IInv
    <3>2. CASE u = q.user
      BY <1>2, <1>5, <1>10, <2>1, <3>1, <3>2 DEF users
    <3>3. CASE u # q.user
      <4>1. \E p \in Request \ {r} : req[p].at = "answered" /\ req[p].user = u
        BY <1>2, <2>1, <3>3 DEF IInv, SessionsAreVerified, users
      <4> QED BY <3>1, <4>1
    <3> QED BY <3>2, <3>3
  <2> QED BY <2>1 DEF SessionsAreVerified
<1>21. WaitingHasToken'
  BY <1>2, <1>12, WaitingKeep DEF IInv, users
<1> QED BY <1>11, <1>13, <1>14, <1>15, <1>16, <1>17, <1>18, <1>19, <1>20, <1>21 DEF IInv

LEMMA OtherStep ==
  ASSUME IInv, NEW u \in User, Update(u) \/ Logout(u)
  PROVE  IInv'
<1>1. UNCHANGED <<emailOf, verified, withPassword, tokens, req, pool, coming, notes>>
      /\ session' \subseteq session /\ twoFactor' \subseteq User
  BY DEF Update, Logout, IInv, TypeOK, users
<1>2. TypeOK'
  BY <1>1 DEF IInv, TypeOK, tokens
<1>3. RequestsFit'
  BY <1>1 DEF IInv, RequestsFit, tokens
<1>4. AccountsStand'
  BY <1>1 DEF IInv, AccountsStand, OneUserPerEmail, Inserting
<1>5. Issued' = Issued /\ \A e, type : Pending(e, type)' = Pending(e, type)
  BY <1>1 DEF Issued, Pending, tokens
<1>6. TokensStand' /\ TokensHaveUser' /\ WaitingHasToken'
  BY <1>1, <1>5 DEF IInv, TokensStand, TokensHaveUser, WaitingHasToken, tokens
<1>7. OldIsFound'
  BY <1>1, <1>5 DEF IInv, OldIsFound
<1>8. HeldOnce' /\ ActedIsOver' /\ ActedOnce' /\ ActsOnItsUser'
  BY <1>1 DEF IInv, HeldOnce, ActedIsOver, ActedOnce, ActsOnItsUser, tokens
<1>9. SessionsAreVerified'
  BY <1>1 DEF IInv, SessionsAreVerified
<1> QED BY <1>2, <1>3, <1>4, <1>6, <1>7, <1>8, <1>9 DEF IInv

-----------------------------------------------------------------------------
(* Requests that break off *)

LEMMA Broken ==
  ASSUME IInv, NEW S \in SUBSET Request,
         \A p \in S : req'[p] = NoRequest,
         \A p \in Request \ S : req'[p] = req[p],
         req' \in [Request -> RequestType], notes' = Abandon(S),
         UNCHANGED <<users, tokens, session, pool, coming>>
  PROVE  IInv'
<1> USE DEF users, tokens
<1>1. notes \in NotesType
  BY DEF IInv, TypeOK, NotesType
<1>2. /\ notes' \in NotesType
      /\ notes'.crossed = notes.crossed /\ notes'.acted = notes.acted
      /\ notes'.again = notes.again /\ notes'.foreign = notes.foreign
      /\ notes.loose \subseteq notes'.loose
      /\ notes.left \subseteq notes'.left
      /\ notes.unbacked \subseteq notes'.unbacked
      /\ \A t \in TokenID, p \in S :
           req[p].at = "clear" /\ req[p].token = t => t \in notes'.loose
      /\ \A e \in Email, p \in S :
           req[p].op = "register" /\ req[p].at \in {"mail", "commit"} /\ req[p].email = e =>
             e \in notes'.left
      /\ \A u \in User, p \in S :
           req[p].at = "answered" /\ req[p].user = u => u \in notes'.unbacked
  BY <1>1 DEF Abandon, NotesType
<1>3. TypeOK'
  BY <1>2 DEF IInv, TypeOK, NotesType
<1>4. Grows
  BY <1>2, SameGrows
<1>5. RequestsFit'
  <2>1. ASSUME NEW p \in Request
        PROVE  Fits(req'[p], emailOf', verified', issued', notes'.left)
    <3>1. CASE p \in S
      BY <3>1, NoFits
    <3>2. CASE p \notin S
      <4>1. req[p] \in RequestType /\ Fits(req[p], emailOf, verified, issued, notes.left)
        BY Mine
      <4>2. Fits(req[p], emailOf', verified', issued', notes'.left)
        BY <1>2, <4>1, Kept
      <4> QED BY <3>2, <4>2
    <3> QED BY <3>1, <3>2
  <2> QED BY <2>1 DEF RequestsFit
<1>6. AccountsStand'
  <2>1. \A p \in Request : InsertingAs(req'[p]) => p \notin S /\ req'[p] = req[p]
    BY NoDoes
  <2>2. \A p \in Request : /\ Inserting(p) <=> InsertingAs(req[p])
                           /\ Inserting(p)' <=> InsertingAs(req'[p])
    BY DEF Inserting, InsertingAs
  <2>3. OneUserPerEmail'
    BY <2>1, <2>2 DEF IInv, AccountsStand, OneUserPerEmail
  <2>4. (\A p, p2 \in Request :
           p # p2 /\ InsertingAs(req[p]) /\ InsertingAs(req[p2]) =>
             req[p2].user # req[p].user)'
    BY <2>1 DEF IInv, AccountsStand
  <2> QED BY <2>3, <2>4 DEF IInv, AccountsStand
<1>7. TokensStand' /\ ActedOnce' /\ ActsOnItsUser'
  BY <1>2 DEF IInv, TokensStand, Issued, ActedOnce, ActsOnItsUser
<1>8. TokensHaveUser'
  <2>1. ASSUME NEW t \in Issued
        PROVE  \/ issued[t].email \in notes'.left
               \/ issued[t].user \in User /\ emailOf[issued[t].user] = issued[t].email
               \/ \E p \in Request : RegisteringAs(req'[p], issued[t].user, issued[t].email)
    <3>1. issued[t].email \in Email
      BY DEF IInv, TokensStand
    <3>2. CASE \E p \in Request : RegisteringAs(req[p], issued[t].user, issued[t].email)
      <4>1. PICK p \in Request : RegisteringAs(req[p], issued[t].user, issued[t].email)
        BY <3>2
      <4>2. CASE p \in S
        BY <1>2, <3>1, <4>1, <4>2 DEF RegisteringAs
      <4>3. CASE p \notin S
        BY <4>1, <4>3
      <4> QED BY <4>2, <4>3
    <3> QED BY <1>2, <3>2 DEF IInv, TokensHaveUser
  <2> QED BY <2>1 DEF TokensHaveUser, Issued
<1>9. OldIsFound'
  <2>1. \A e, type : Pending(e, type)' = Pending(e, type)
    BY DEF Pending
  <2>2. \A p \in Request : req'[p].at \in {"drop", "create"} => req'[p] = req[p]
    BY NoDoes
  <2> QED BY <1>2, <2>1, <2>2 DEF IInv, OldIsFound
<1>10. HeldOnce'
  <2>1. \A t \in TokenID, p \in Request : HoldsAs(req'[p], t) => HoldsAs(req[p], t)
    BY NoDoes
  <2> QED BY <1>2, <2>1 DEF IInv, HeldOnce
<1>11. ActedIsOver'
  <2>1. ASSUME NEW t \in notes'.acted \ notes'.loose
        PROVE  /\ \A p \in Request : ~ WillAct(req'[p], t)
               /\ t \in rows' => \E p \in Request : req'[p].at = "clear" /\ req'[p].token = t
    <3>1. t \in notes.acted \ notes.loose /\ t \in TokenID
      BY <1>2, <2>1 DEF NotesType
    <3>2. \A p \in Request : ~ WillAct(req'[p], t)
      BY <3>1, NoDoes DEF IInv, ActedIsOver
    <3>3. ASSUME t \in rows
          PROVE  \E p \in Request : req'[p].at = "clear" /\ req'[p].token = t
      <4>1. PICK p \in Request : req[p].at = "clear" /\ req[p].token = t
        BY <3>1, <3>3 DEF IInv, ActedIsOver
      <4>2. p \notin S
        BY <1>2, <2>1, <3>1, <4>1
      <4> QED BY <4>1, <4>2
    <3> QED BY <3>2, <3>3
  <2> QED BY <2>1 DEF ActedIsOver
<1>12. SessionsAreVerified'
  <2>1. ASSUME NEW u \in session' \ verified', u \notin notes'.unbacked
        PROVE  \E p \in Request : req'[p].at = "answered" /\ req'[p].user = u
    <3>1. PICK p \in Request : req[p].at = "answered" /\ req[p].user = u
      BY <1>2, <2>1 DEF IInv, SessionsAreVerified
    <3>2. p \notin S
      BY <1>2, <2>1, <3>1 DEF IInv, TypeOK
    <3> QED BY <3>1, <3>2
  <2> QED BY <2>1 DEF SessionsAreVerified
<1>13. WaitingHasToken'
  BY <1>4, WaitingKeep DEF IInv
<1> QED BY <1>3, <1>5, <1>6, <1>7, <1>8, <1>9, <1>10, <1>11, <1>12, <1>13 DEF IInv

LEMMA FailStep ==
  ASSUME IInv, NEW r \in Request, Fail(r)
  PROVE  IInv'
<1>1. /\ req' = [req EXCEPT ![r] = NoRequest] /\ notes' = Abandon({r})
      /\ UNCHANGED <<users, tokens, session, pool, coming>>
  BY DEF Fail, End
<1>2. req' \in [Request -> RequestType]
  BY <1>1, NoFields DEF IInv, TypeOK
<1>3. req'[r] = NoRequest /\ \A p \in Request \ {r} : req'[p] = req[p]
  BY <1>1, MovedTo DEF IInv
<1> QED BY <1>1, <1>2, <1>3, Broken

LEMMA CrashStep ==
  ASSUME IInv, Crash
  PROVE  IInv'
BY NoFields, Broken DEF Crash

-----------------------------------------------------------------------------
(* The invariant *)

LEMMA InitIInv == Init => IInv
<1> SUFFICES ASSUME Init PROVE IInv
  OBVIOUS
<1>1. /\ emailOf = EmailAt0 /\ verified = {u \in User : emailOf[u] # None}
      /\ withPassword = verified /\ twoFactor \subseteq verified /\ rows = {}
      /\ session \subseteq verified /\ pool \in PoolMax /\ coming \in Plans
      /\ \A r \in Request : req[r] = NoRequest
      /\ req \in [Request -> RequestType]
  BY NoFields DEF Init
<1>2. /\ issued = [t \in TokenID |->
                     [type |-> "none", email |-> None, user |-> None, new |-> None]]
      /\ issued \in [TokenID -> TokenType] /\ Issued = {}
  BY DEF Init, TokenType, Issued, Type, Emails, Users
<1>3. /\ notes.crossed = {} /\ notes.loose = {} /\ notes.acted = {} /\ notes.again = {}
      /\ notes.foreign = {} /\ notes.left = {} /\ notes.unbacked = {}
      /\ notes \in NotesType
  BY DEF Init, NotesType
<1>4. TypeOK
  BY <1>1, <1>2, <1>3, AccountsAssumption DEF TypeOK, Emails, NotesType
<1>5. RequestsFit
  BY <1>1, NoFits DEF RequestsFit
<1>6. AccountsStand
  BY <1>1, NoFields, AccountsAssumption
  DEF AccountsStand, OneUserPerEmail, Inserting, InsertingAs
<1>7. TokensStand /\ TokensHaveUser /\ WaitingHasToken
  BY <1>1, <1>2, <1>3 DEF TokensStand, TokensHaveUser, WaitingHasToken
<1>8. OldIsFound
  BY <1>1, NoFields DEF OldIsFound, Pending
<1>9. HeldOnce /\ ActedIsOver /\ ActedOnce /\ ActsOnItsUser
  BY <1>1, <1>3, NoDoes DEF HeldOnce, ActedIsOver, ActedOnce, ActsOnItsUser
<1>10. SessionsAreVerified
  BY <1>1 DEF SessionsAreVerified
<1> QED BY <1>4, <1>5, <1>6, <1>7, <1>8, <1>9, <1>10 DEF IInv

LEMMA StepIInv ==
  ASSUME IInv, NEW r \in Request, Step(r)
  PROVE  IInv'
BY BeginStep, FetchStep, InsertStep, CommitUserStep, LookupLoginStep, LookupForgotStep,
   LookupChangeStep, CheckVacantStep, FindOldStep, DropOldStep, CreateStep, SendMailStep,
   PresentStep, DropExpiredStep, FindOwnerStep, FindCodeStep, CompareCodeStep, SpendStep,
   ApplyPasswordStep, ApplyChangeStep, ClearStep, ClearCodeStep, ApplyStep,
   CommitConfirmStep, SaveSessionStep
DEF Step

LEMMA StutterIInv ==
  ASSUME IInv, UNCHANGED vars
  PROVE  IInv'
<1> USE DEF vars, users, tokens
<1>1. TypeOK' /\ RequestsFit'
  BY DEF IInv, TypeOK, RequestsFit
<1>2. AccountsStand' /\ SessionsAreVerified'
  BY DEF IInv, AccountsStand, OneUserPerEmail, Inserting, SessionsAreVerified
<1>3. Issued' = Issued /\ \A e, type : Pending(e, type)' = Pending(e, type)
  BY DEF Issued, Pending
<1>4. TokensStand' /\ TokensHaveUser' /\ WaitingHasToken' /\ OldIsFound'
  BY <1>3 DEF IInv, TokensStand, TokensHaveUser, WaitingHasToken, OldIsFound
<1>5. HeldOnce' /\ ActedIsOver' /\ ActedOnce' /\ ActsOnItsUser'
  BY DEF IInv, HeldOnce, ActedIsOver, ActedOnce, ActsOnItsUser
<1> QED BY <1>1, <1>2, <1>4, <1>5 DEF IInv

LEMMA NextIInv == IInv /\ [Next]_vars => IInv'
<1> SUFFICES ASSUME IInv, [Next]_vars PROVE IInv'
  OBVIOUS
<1>1. CASE \E r \in Request : Arrival(r) \/ Step(r) \/ Fail(r)
  BY <1>1, ArrivalStep, StepIInv, FailStep
<1>2. CASE \E u \in User : Update(u) \/ Logout(u)
  BY <1>2, OtherStep
<1>3. CASE Crash
  BY <1>3, CrashStep
<1>4. CASE UNCHANGED vars
  BY <1>4, StutterIInv
<1> QED BY <1>1, <1>2, <1>3, <1>4 DEF Next

\* The inductive invariant holds, however registrations, logins, confirmations
\* and changes interleave, fail and are cut off by a crash.
THEOREM Inductive == Spec => []IInv
<1> QED BY InitIInv, NextIInv, PTL DEF Spec

-----------------------------------------------------------------------------
(* The theorems *)

\* Every variable keeps its type.
THEOREM TypeCorrect == Spec => []TypeOK
<1>1. IInv => TypeOK
  BY DEF IInv
<1> QED BY <1>1, Inductive, PTL

\* No two users have one address, nor will have when a registration commits:
\* the unique index is waited for by inserts and changes of address alike.
THEOREM OneUserPerEmailCorrect == Spec => []OneUserPerEmail
<1>1. IInv => OneUserPerEmail
  BY DEF IInv, AccountsStand
<1> QED BY <1>1, Inductive, PTL

\* The generate methods leave one token of a type for an address, unless two
\* requests were between their find and their create at a time.
THEOREM OneTokenCorrect == Spec => []OneToken
<1>1. IInv => OneToken
  <2> SUFFICES ASSUME IInv, NEW e \in Email, NEW type \in Type,
                      <<e, type>> \notin notes.crossed
               PROVE  Cardinality(Pending(e, type)) <= 1
    BY DEF OneToken
  <2>1. \A s, t \in Pending(e, type) : s = t
    BY DEF IInv, OldIsFound
  <2>2. CASE Pending(e, type) = {}
    BY <2>2, FS_EmptySet
  <2>3. CASE Pending(e, type) # {}
    <3>1. PICK t : Pending(e, type) = {t}
      BY <2>1, <2>3
    <3> QED BY <3>1, FS_Singleton
  <2> QED BY <2>2, <2>3
<1> QED BY <1>1, Inductive, PTL

\* newVerification, new, verifyEmailChange and validateTwoFactorToken give a
\* token its effect once, unless two requests had read it, or the one that
\* acted broke off before it destroyed it.
THEOREM ActedOnceCorrect == Spec => []ActedOnce
<1>1. IInv => ActedOnce
  BY DEF IInv
<1> QED BY <1>1, Inductive, PTL

\* A token acts on the user it was issued for, unless he gave up the address
\* or his registration was rolled back.
THEOREM ActsOnItsUserCorrect == Spec => []ActsOnItsUser
<1>1. IInv => ActsOnItsUser
  BY DEF IInv
<1> QED BY <1>1, Inductive, PTL

\* A session of an account that is not verified is one of a confirmation whose
\* commit is under way or was lost.
THEOREM SessionsCorrect == Spec => []SessionsAreVerified
<1>1. IInv => SessionsAreVerified
  BY DEF IInv
<1> QED BY <1>1, Inductive, PTL

\* For an account that waits for its confirmation a token was issued.
THEOREM WaitingCorrect == Spec => []WaitingHasToken
<1>1. IInv => WaitingHasToken
  BY DEF IInv
<1> QED BY <1>1, Inductive, PTL
=============================================================================

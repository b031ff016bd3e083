-------------------------------- MODULE Accounts -------------------------------
(***************************************************************************)
(* Accounts: the tables users and tokens, the sessions, and the requests   *)
(* of AuthService, EmailConfirmationService, EmailChangeService,           *)
(* PasswordRecoveryService, TwoFactorAuthService and UsersService.         *)
(*                                                                         *)
(* A request is a sequence of SQL statements, mails and calls of Redis,    *)
(* each an action; others run between any two.  Registration, OAuth login  *)
(* and e-mail confirmation hold a transaction, hence a connection of the   *)
(* pool, while the statements they do not pass it to take a second one.    *)
(*                                                                         *)
(* A user is named by the username it asks for.  What a uuid, a code of    *)
(* six digits or an encrypted payload is made of is left out: a token is a *)
(* number that was never used before, with the payload it carries.  A      *)
(* person follows the links and uses the codes mailed to him, on the page  *)
(* that they are for.                                                      *)
(*                                                                         *)
(* An operator whose name ends in Slip is a plausible mistake in the       *)
(* definition after it; no behaviour of the specification uses one.        *)
(***************************************************************************)
EXTENDS Integers, FiniteSets

CONSTANTS
  User,      \* usernames
  Email,     \* addresses
  None,      \* no user, no address
  EmailAt0,  \* the verified accounts that are there already
  Wants,     \* which user may ask for which address
  Request,   \* requests that are served at a time
  MaxToken,  \* bound: tokens ever issued
  Plans,     \* bound: how many requests of each kind a behaviour has
  PoolMax    \* connections of the pool that others may leave to these requests

Op == {"register", "oauth", "login", "forgot", "askChange", "confirm",
       "newPassword", "verifyChange"}

ASSUME AccountsAssumption ==
  /\ None \notin User \cup Email
  /\ EmailAt0 \in [User -> Email \cup {None}]
  /\ \A u, v \in User : EmailAt0[u] = EmailAt0[v] => u = v \/ EmailAt0[u] = None
  /\ Wants \subseteq User \X Email
  /\ Plans \subseteq [Op -> Nat]
  /\ MaxToken \in Nat /\ PoolMax \subseteq Nat \ {0}
  /\ IsFiniteSet(Request)

TokenID == 1..MaxToken
NoToken == 0

VARIABLES
  emailOf,      \* users.email, None without a row
  verified,     \* users.isVerified
  withPassword, \* users with a password that is not ''
  twoFactor,    \* users.isTwoFactorEnabled
  rows,         \* tokens that have a row
  issued,       \* what each token was issued for, and how many were
  session,      \* users with a session
  req,          \* the requests
  pool,         \* connections that there are for these requests
  coming,       \* requests that have not arrived yet
  notes         \* history, see Init

users  == <<emailOf, verified, withPassword, twoFactor>>
tokens == <<rows, issued>>
vars   == <<users, tokens, session, req, pool, coming, notes>>

-----------------------------------------------------------------------------
(* Helpers *)

NoRequest ==
  [op |-> "none", at |-> "idle", tx |-> FALSE, user |-> None, email |-> None,
   new |-> None, type |-> "none", token |-> NoToken, code |-> NoToken]

Issued == {t \in TokenID : issued[t].type # "none"}

\* Rows of one address and one type.
Pending(e, type) ==
  {t \in rows : issued[t].email = e /\ issued[t].type = type}

\* The type of token an operation looks for.
Wanted(op) ==
  IF op = "newPassword" THEN "PASSWORD_RESET" ELSE "VERIFICATION"

Goto(r, phase) == req' = [req EXCEPT ![r].at = phase]
End(r)         == req' = [req EXCEPT ![r] = NoRequest]

\* AuthenticatedGuard reads the user of the session anew.
Authenticated(u) == u \in session /\ emailOf[u] # None

\* What argon2 compares with; a wrong password is refused and changes nothing.
HasPassword(u) == u \in withPassword

\* The five ways to a token: the request goes on to find the old one.
Issue(q, e, type) ==
  [q EXCEPT !.email = e, !.type = type, !.at = "find", !.token = NoToken]

SendVerificationToken(q, e)    == Issue(q, e, "VERIFICATION")
SendTwoFactorToken(q, e)       == Issue(q, e, "TWO_FACTOR")
SendPasswordResetToken(q, e)   == Issue(q, e, "PASSWORD_RESET")
SendConfirmNewEmailToken(q, e) == Issue(q, e, "VERIFICATION")
SendOldEmailCodeToken(q, e)    == Issue(q, e, "CHANGE_EMAIL")

\* What TokenCipher puts into a token for a new address and gets out of it.
Payload(q) ==
  IF q.op = "askChange" /\ q.type = "VERIFICATION" THEN q.new ELSE None

\* A connection is left for a statement outside of all transactions.
Free == Cardinality({q \in Request : req[q].tx}) < pool

\* r has inserted its user and not committed it.
Inserting(q) ==
  req[q].tx /\ req[q].op \in {"register", "oauth"}
            /\ req[q].at \notin {"fetch", "insert"}

\* A confirmation has updated its user and its token and not committed.
Confirming(q) == req[q].at \in {"applied", "answered"}

UserLocked(u)  == \E q \in Request : Confirming(q) /\ req[q].user = u
TokenLocked(t) == \E q \in Request : Confirming(q) /\ req[q].token = t

\* r has read a token, and will act on what it has read.
Holds(q, t) ==
  \/ /\ req[q].token = t
     /\ req[q].at \in {"owner", "code", "spend", "apply", "applied",
                       "answered", "clear"}
  \/ req[q].code = t /\ req[q].at \in {"apply", "clear", "clearCode"}

\* The notes when r has found t and will act on it.
Shared(r, t) ==
  IF \E q \in Request \ {r} : Holds(q, t)
  THEN [notes EXCEPT !.loose = @ \cup {t}] ELSE notes

\* The notes when t was acted on, for user u.
Acted(t, u) ==
  LET again   == t \in notes.acted /\ t \notin notes.loose
      foreign == issued[t].user # u /\ issued[t].email \notin notes.left
  IN  [notes EXCEPT !.acted = @ \cup {t},
                    !.again = IF again THEN @ \cup {t} ELSE @,
                    !.foreign = IF foreign THEN @ \cup {t} ELSE @]

-----------------------------------------------------------------------------
Init ==
  /\ emailOf = EmailAt0
  /\ verified = {u \in User : EmailAt0[u] # None}
  /\ withPassword = verified
  /\ twoFactor \in SUBSET verified
  /\ rows = {}
  /\ issued = [t \in TokenID |->
                 [type |-> "none", email |-> None, user |-> None, new |-> None]]
  /\ session \in SUBSET verified
  /\ req = [r \in Request |-> NoRequest]
  /\ pool \in PoolMax
  /\ coming \in Plans
  /\ notes = [crossed  |-> {},  \* address and type issued for by two at a time
              loose    |-> {},  \* tokens held by two requests at a time, or
                                \* by one that broke off after it had acted
              acted    |-> {},  \* tokens acted on
              again    |-> {},  \* tokens acted on once more, and not loose
              foreign  |-> {},  \* tokens acted on for somebody else
              left     |-> {},  \* addresses a user has given up or not got
              unbacked |-> {}]  \* users confirmed by a lost commit

-----------------------------------------------------------------------------
(* The requests as they arrive *)

Arrive(r, q) ==
  /\ req[r] = NoRequest /\ coming[q.op] > 0
  /\ req' = [req EXCEPT ![r] = q]
  /\ coming' = [coming EXCEPT ![q.op] = @ - 1]
  /\ UNCHANGED <<users, tokens, session, pool, notes>>

Register(r, u, e) ==
  Arrive(r, [NoRequest EXCEPT !.op = "register", !.at = "begin",
                              !.user = u, !.email = e])

OAuth(r, u, e) ==
  Arrive(r, [NoRequest EXCEPT !.op = "oauth", !.at = "begin",
                              !.user = u, !.email = e])

\* With a code that was mailed, or without.
Login(r, u, c) ==
  Arrive(r, [NoRequest EXCEPT !.op = "login", !.at = "lookup",
                              !.user = u, !.code = c])

Forgot(r, e) ==
  Arrive(r, [NoRequest EXCEPT !.op = "forgot", !.at = "lookup", !.email = e])

AskChange(r, u, e) ==
  /\ Authenticated(u)
  /\ Arrive(r, [NoRequest EXCEPT !.op = "askChange", !.at = "lookup",
                                 !.user = u, !.new = e])

Confirm(r, t) ==
  Arrive(r, [NoRequest EXCEPT !.op = "confirm", !.at = "begin", !.token = t])

NewPassword(r, t) ==
  Arrive(r, [NoRequest EXCEPT !.op = "newPassword", !.at = "present",
                              !.token = t])

VerifyChange(r, u, t, c) ==
  /\ Authenticated(u)
  /\ Arrive(r, [NoRequest EXCEPT !.op = "verifyChange", !.at = "present",
                                 !.user = u, !.token = t, !.code = c])

\* Links and codes are used by those who got them.  A mail that failed may
\* have been delivered.
Links(type, change) ==
  {t \in Issued : /\ issued[t].type = type /\ (issued[t].new # None) = change
                  /\ \A r \in Request : req[r].at = "mail" => req[r].token # t}

Arrival(r) ==
  \/ \E w \in Wants : \/ Register(r, w[1], w[2])
                       \/ OAuth(r, w[1], w[2])
                       \/ AskChange(r, w[1], w[2])
  \/ \E u \in User, c \in {NoToken} \cup Links("TWO_FACTOR", FALSE) :
       Login(r, u, c)
  \/ \E e \in Email : Forgot(r, e)
  \/ \E t \in Links("VERIFICATION", FALSE) : Confirm(r, t)
  \/ \E t \in Links("PASSWORD_RESET", FALSE) : NewPassword(r, t)
  \/ \E t \in Links("VERIFICATION", TRUE), c \in Links("CHANGE_EMAIL", FALSE) :
       VerifyChange(r, issued[t].user, t, c)

-----------------------------------------------------------------------------
(* Transactions of register, extractProfileFromCode and newVerification *)

Begin(r) ==
  /\ req[r].at = "begin" /\ Free
  /\ req' = [req EXCEPT ![r].tx = TRUE,
                        ![r].at = CASE req[r].op = "confirm" -> "present"
                                    [] req[r].op = "oauth"   -> "fetch"
                                    [] OTHER                 -> "insert"]
  /\ UNCHANGED <<users, tokens, session, pool, coming, notes>>

\* findUserByCode asks the provider, with the transaction open.
Fetch(r) ==
  /\ req[r].at = "fetch"
  /\ Goto(r, "insert")
  /\ UNCHANGED <<users, tokens, session, pool, coming, notes>>

\* Looks whether the address is taken, before the transaction of another
\* request that takes it has ended.
InsertSlip(r) ==
  LET q == req[r]
      taken == emailOf[q.user] # None \/ \E u \in User : emailOf[u] = q.email
  IN  /\ q.at = "insert" /\ Free
      /\ IF taken THEN End(r)
         ELSE req' = [req EXCEPT ![r] =
                        IF q.op = "oauth" THEN [q EXCEPT !.at = "commit"]
                        ELSE SendVerificationToken(q, q.email)]
      /\ UNCHANGED <<users, tokens, session, pool, coming, notes>>

\* The mail is left for the first login.
InsertLaterSlip(r) ==
  LET q == req[r]
      taken == emailOf[q.user] # None \/ \E u \in User : emailOf[u] = q.email
  IN  /\ q.at = "insert" /\ Free
      /\ ~ \E p \in Request : /\ Inserting(p)
                              /\ \/ req[p].user = q.user
                                 \/ req[p].email = q.email
      /\ IF taken THEN End(r)
         ELSE req' = [req EXCEPT ![r] =
                        IF q.op = "oauth" THEN [q EXCEPT !.at = "commit"]
                        ELSE [q EXCEPT !.at = "commit"]]
      /\ UNCHANGED <<users, tokens, session, pool, coming, notes>>

\* createUser, whose look for the role takes a second connection.  The insert
\* waits for another one of the same username or address to end; if the name
\* or the address is taken by then, the unique index refuses it.  No account
\* of extractProfileFromCode is ever found: the providers' profiles have no
\* id, so a known person is created once more, and refused.
Insert(r) ==
  LET q == req[r]
      taken == emailOf[q.user] # None \/ \E u \in User : emailOf[u] = q.email
  IN  /\ q.at = "insert" /\ Free
      /\ ~ \E p \in Request : /\ Inserting(p)
                              /\ \/ req[p].user = q.user
                                 \/ req[p].email = q.email
      /\ IF taken THEN End(r)
         ELSE req' = [req EXCEPT ![r] =
                        IF q.op = "oauth" THEN [q EXCEPT !.at = "commit"]
                        ELSE SendVerificationToken(q, q.email)]
      /\ UNCHANGED <<users, tokens, session, pool, coming, notes>>

\* The account is committed once the token was mailed.
CommitUser(r) ==
  LET q == req[r]
  IN  /\ q.at = "commit"
      /\ emailOf' = [emailOf EXCEPT ![q.user] = q.email]
      /\ IF q.op = "oauth"
         THEN /\ verified' = verified \cup {q.user}
              /\ withPassword' = withPassword
              /\ req' = [req EXCEPT ![r].at = "session", ![r].tx = FALSE]
         ELSE /\ verified' = verified
              /\ withPassword' = withPassword \cup {q.user}
              /\ End(r)
      /\ UNCHANGED <<twoFactor, tokens, session, pool, coming, notes>>

\* newVerification updates the user and destroys the token in its
\* transaction, and sends the commit without waiting for it ...
Apply(r) ==
  /\ req[r].op = "confirm" /\ req[r].at = "apply"
  /\ ~ UserLocked(req[r].user)
  /\ Goto(r, "applied")
  /\ UNCHANGED <<users, tokens, session, pool, coming, notes>>

\* ... so that the session may be saved, and the answer given, before it.
CommitConfirm(r) ==
  LET q == req[r]
  IN  /\ Confirming(r)
      /\ verified' = verified \cup {q.user}
      /\ rows' = rows \ {q.token}
      /\ notes' = Acted(q.token, q.user)
      /\ IF q.at = "answered" THEN End(r)
         ELSE req' = [req EXCEPT ![r].at = "session", ![r].tx = FALSE]
      /\ UNCHANGED <<emailOf, withPassword, twoFactor, issued, session, pool, coming>>

SaveSession(r) ==
  LET q == req[r]
  IN  /\ q.at \in {"session", "applied"}
      /\ session' = session \cup {q.user}
      /\ IF q.at = "applied" THEN Goto(r, "answered") ELSE End(r)
      /\ UNCHANGED <<users, tokens, pool, coming, notes>>

-----------------------------------------------------------------------------
(* What a request reads first: login, reset, sendConfirmNewEmail *)

\* The address need not be verified.
LookupLoginSlip(r) ==
  LET q == req[r]
      u == q.user
      e == emailOf[u]
  IN  /\ q.op = "login" /\ q.at = "lookup" /\ Free
      /\ \/ ~ HasPassword(u) /\ End(r)
         \/ HasPassword(u) /\ u \notin verified /\ Goto(r, "session")
         \/ /\ HasPassword(u) /\ u \in verified \cap twoFactor
            /\ req' = [req EXCEPT ![r] =
                  IF q.code = NoToken THEN SendTwoFactorToken(q, e)
                  ELSE [q EXCEPT !.email = e, !.at = "code"]]
         \/ /\ HasPassword(u) /\ u \in verified \ twoFactor
            /\ Goto(r, "session")
      /\ UNCHANGED <<users, tokens, session, pool, coming, notes>>

\* login: an account without a password is refused, one that is not verified
\* gets another mail, one with a second factor a code, if none was given.
LookupLogin(r) ==
  LET q == req[r]
      u == q.user
      e == emailOf[u]
  IN  /\ q.op = "login" /\ q.at = "lookup" /\ Free
      /\ \/ ~ HasPassword(u) /\ End(r)
         \/ /\ HasPassword(u) /\ u \notin verified
            /\ req' = [req EXCEPT ![r] = SendVerificationToken(q, e)]
         \/ /\ HasPassword(u) /\ u \in verified \cap twoFactor
            /\ req' = [req EXCEPT ![r] =
                  IF q.code = NoToken THEN SendTwoFactorToken(q, e)
                  ELSE [q EXCEPT !.email = e, !.at = "code"]]
         \/ /\ HasPassword(u) /\ u \in verified \ twoFactor
            /\ Goto(r, "session")
      /\ UNCHANGED <<users, tokens, session, pool, coming, notes>>

LookupForgot(r) ==
  LET q == req[r]
  IN  /\ q.op = "forgot" /\ q.at = "lookup" /\ Free
      /\ \/ (\A u \in User : emailOf[u] # q.email) /\ End(r)
         \/ \E u \in User :
              /\ emailOf[u] = q.email
              /\ req' = [req EXCEPT ![r] =
                    SendPasswordResetToken([q EXCEPT !.user = u], q.email)]
      /\ UNCHANGED <<users, tokens, session, pool, coming, notes>>

LookupChange(r) ==
  LET q == req[r]
  IN  /\ q.op = "askChange" /\ q.at = "lookup" /\ Free
      /\ IF emailOf[q.user] = None THEN End(r)
         ELSE req' = [req EXCEPT ![r].email = emailOf[q.user],
                                 ![r].at = "vacant"]
      /\ UNCHANGED <<users, tokens, session, pool, coming, notes>>

\* The new address must not be taken; nothing reserves it.
CheckVacant(r) ==
  LET q == req[r]
  IN  /\ q.at = "vacant" /\ Free
      /\ IF \E u \in User : emailOf[u] = q.new THEN End(r)
         ELSE req' = [req EXCEPT ![r] = SendConfirmNewEmailToken(q, q.email)]
      /\ UNCHANGED <<users, tokens, session, pool, coming, notes>>

-----------------------------------------------------------------------------
(* Issuing a token: the five generate... and send... methods *)

\* findOne answers any of the rows.
FindOld(r) ==
  LET S == Pending(req[r].email, req[r].type)
  IN  /\ req[r].at = "find" /\ Free
      /\ \/ S = {} /\ Goto(r, "create")
         \/ \E t \in S :
              req' = [req EXCEPT ![r].token = t, ![r].at = "drop"]
      /\ UNCHANGED <<users, tokens, session, pool, coming, notes>>

\* The old row is left where it is.
DropOldSlip(r) ==
  /\ req[r].at = "drop" /\ Free /\ ~ TokenLocked(req[r].token)
  /\ Goto(r, "create")
  /\ UNCHANGED <<users, tokens, session, pool, coming, notes>>

\* destroy affects no row, without an error, when the token is gone already.
DropOld(r) ==
  /\ req[r].at = "drop" /\ Free /\ ~ TokenLocked(req[r].token)
  /\ rows' = rows \ {req[r].token}
  /\ Goto(r, "create")
  /\ UNCHANGED <<users, issued, session, pool, coming, notes>>

\* Only the token for a new address carries a payload.
Create(r) ==
  LET q == req[r]
      others == {p \in Request \ {r} :
                   /\ req[p].at \in {"drop", "create"}
                   /\ req[p].email = q.email /\ req[p].type = q.type}
  IN  /\ q.at = "create" /\ Free
      /\ \E t \in TokenID \ Issued :
           /\ 1..(t - 1) \subseteq Issued
           /\ rows' = rows \cup {t}
           /\ issued' = [issued EXCEPT ![t] =
                [type |-> q.type, email |-> q.email, user |-> q.user,
                 new |-> Payload(q)]]
           /\ req' = [req EXCEPT ![r].at = "mail", ![r].token = t]
      /\ notes' = IF others = {} THEN notes
                  ELSE [notes EXCEPT !.crossed = @ \cup {<<q.email, q.type>>}]
      /\ UNCHANGED <<users, session, pool, coming>>

\* The mail goes to the address the token is kept under: for a change of the
\* address that is the old one.
SendMail(r) ==
  LET q == req[r]
  IN  /\ q.at = "mail"
      /\ CASE q.op = "register" -> Goto(r, "commit")
           [] q.op = "askChange" /\ q.type = "VERIFICATION" ->
                req' = [req EXCEPT ![r] = SendOldEmailCodeToken(q, q.email)]
           [] OTHER -> End(r)
      /\ UNCHANGED <<users, tokens, session, pool, coming, notes>>

-----------------------------------------------------------------------------
(* Using a token: newVerification, new, verifyEmailChange,                  *)
(* validateTwoFactorToken                                                   *)

\* The row is looked up by its token and type.  It may have expired: whether
\* it has is left open each time.
Present(r) ==
  LET q == req[r]
      t == q.token
  IN  /\ q.at = "present" /\ Free
      /\ IF t \in rows /\ issued[t].type = Wanted(q.op)
         THEN \/ Goto(r, "expired") /\ notes' = notes
              \/ IF q.op = "verifyChange" /\ issued[t].user # q.user
                 THEN End(r) /\ notes' = notes
                 ELSE Goto(r, "owner") /\ notes' = Shared(r, t)
         ELSE End(r) /\ notes' = notes
      /\ UNCHANGED <<users, tokens, session, pool, coming>>

\* A token that has expired is destroyed, and the request refused.
DropExpired(r) ==
  /\ req[r].at = "expired" /\ Free /\ ~ TokenLocked(req[r].token)
  /\ rows' = rows \ {req[r].token}
  /\ End(r)
  /\ UNCHANGED <<users, issued, session, pool, coming, notes>>

\* Nobody looks whether a user was found.
FindOwnerSlip(r) ==
  LET q == req[r]
      S == {u \in User : /\ emailOf[u] = issued[q.token].email
                         /\ q.op = "verifyChange" => u = q.user}
  IN  /\ q.at = "owner" /\ Free
      /\ \E u \in IF S = {} THEN {None} ELSE S :
           req' = [req EXCEPT ![r].user = u,
                   ![r].at = IF q.op = "verifyChange" THEN "code" ELSE "apply"]
      /\ UNCHANGED <<users, tokens, session, pool, coming, notes>>

\* The user who has the address of the token now; verifyEmailChange wants it
\* to be the one who asked.
FindOwner(r) ==
  LET q == req[r]
      S == {u \in User : /\ emailOf[u] = issued[q.token].email
                         /\ q.op = "verifyChange" => u = q.user}
  IN  /\ q.at = "owner" /\ Free
      /\ \/ S = {} /\ End(r)
         \/ \E u \in S :
              req' = [req EXCEPT ![r].user = u,
                   ![r].at = IF q.op = "verifyChange" THEN "code" ELSE "apply"]
      /\ UNCHANGED <<users, tokens, session, pool, coming, notes>>

\* verifyOldEmailToken looks for the code, whosever it is.
FindCode(r) ==
  LET q == req[r]
  IN  /\ q.op = "verifyChange" /\ q.at = "code" /\ Free
      /\ IF q.code \in rows
         THEN \/ /\ req' = [req EXCEPT ![r].token = q.code, ![r].at = "expired"]
                 /\ notes' = notes
              \/ Goto(r, "apply") /\ notes' = Shared(r, q.code)
         ELSE End(r) /\ notes' = notes
      /\ UNCHANGED <<users, tokens, session, pool, coming>>

\* validateTwoFactorToken compares the code with one of the rows.
CompareCode(r) ==
  LET q == req[r]
      S == Pending(q.email, "TWO_FACTOR")
  IN  /\ q.op = "login" /\ q.at = "code" /\ Free
      /\ \/ S = {} /\ End(r) /\ notes' = notes
         \/ S \ {q.code} # {} /\ End(r) /\ notes' = notes
         \/ /\ q.code \in S
            /\ \/ /\ req' = [req EXCEPT ![r].token = q.code,
                                         ![r].at = "expired"]
                  /\ notes' = notes
               \/ /\ req' = [req EXCEPT ![r].token = q.code, ![r].at = "spend"]
                  /\ notes' = Shared(r, q.code)
      /\ UNCHANGED <<users, tokens, session, pool, coming>>

\* The code is left.
SpendSlip(r) ==
  /\ req[r].at = "spend" /\ Free
  /\ Goto(r, "session")
  /\ notes' = Acted(req[r].token, req[r].user)
  /\ UNCHANGED <<users, tokens, session, pool, coming>>

\* ... and destroys it, before the session is saved.
Spend(r) ==
  /\ req[r].at = "spend" /\ Free
  /\ rows' = rows \ {req[r].token}
  /\ Goto(r, "session")
  /\ notes' = Acted(req[r].token, req[r].user)
  /\ UNCHANGED <<users, issued, session, pool, coming>>

ApplyPassword(r) ==
  LET q == req[r]
  IN  /\ q.op = "newPassword" /\ q.at = "apply" /\ Free
      /\ ~ UserLocked(q.user)
      /\ withPassword' = withPassword \cup {q.user}
      /\ notes' = Acted(q.token, q.user)
      /\ Goto(r, "clear")
      /\ UNCHANGED <<emailOf, verified, twoFactor, tokens, session, pool, coming>>

\* The address was vacant when the change was asked for.
ApplyChangeSlip(r) ==
  LET q == req[r]
      e == issued[q.token].new
  IN  /\ q.op = "verifyChange" /\ q.at = "apply" /\ Free
      /\ ~ UserLocked(q.user)
      /\ emailOf' = [emailOf EXCEPT ![q.user] = e]
      /\ verified' = verified \cup {q.user}
      /\ notes' = [Acted(q.token, q.user) EXCEPT
                     !.left = @ \cup {emailOf[q.user]}]
      /\ Goto(r, "clear")
      /\ UNCHANGED <<withPassword, twoFactor, tokens, session, pool, coming>>

\* The new address may be taken by now, which the unique index refuses, or
\* about to be, which the update waits for.
ApplyChange(r) ==
  LET q == req[r]
      e == issued[q.token].new
  IN  /\ q.op = "verifyChange" /\ q.at = "apply" /\ Free
      /\ ~ UserLocked(q.user)
      /\ ~ \E p \in Request : Inserting(p) /\ req[p].email = e
      /\ IF \E u \in User \ {q.user} : emailOf[u] = e
         THEN End(r) /\ UNCHANGED <<users, notes>>
         ELSE /\ emailOf' = [emailOf EXCEPT ![q.user] = e]
              /\ verified' = verified \cup {q.user}
              /\ notes' = [Acted(q.token, q.user) EXCEPT
                             !.left = @ \cup {emailOf[q.user]}]
              /\ Goto(r, "clear")
              /\ UNCHANGED <<withPassword, twoFactor>>
      /\ UNCHANGED <<tokens, session, pool, coming>>

\* The tokens are destroyed after they had their effect, one by one.
Clear(r) ==
  LET q == req[r]
  IN  /\ q.at = "clear" /\ Free /\ ~ TokenLocked(q.token)
      /\ rows' = rows \ {q.token}
      /\ IF q.op = "verifyChange" THEN Goto(r, "clearCode") ELSE End(r)
      /\ UNCHANGED <<users, issued, session, pool, coming, notes>>

ClearCode(r) ==
  /\ req[r].at = "clearCode" /\ Free
  /\ rows' = rows \ {req[r].code}
  /\ End(r)
  /\ UNCHANGED <<users, issued, session, pool, coming, notes>>

-----------------------------------------------------------------------------
(* Others *)

\* UsersService.update.
Update(u) ==
  /\ Authenticated(u) /\ ~ UserLocked(u)
  /\ \/ twoFactor' = twoFactor \cup {u}
     \/ twoFactor' = twoFactor \ {u}
  /\ UNCHANGED <<emailOf, verified, withPassword, tokens, session, req, pool, coming, notes>>

Logout(u) ==
  /\ u \in session
  /\ session' = session \ {u}
  /\ UNCHANGED <<users, tokens, req, pool, coming, notes>>

\* When the requests S break off: tokens that were acted on and are not yet
\* destroyed, registrations whose mail is out, and confirmations that were
\* answered before their commit.
Abandon(S) ==
  [notes EXCEPT
     !.loose = @ \cup
       {t \in TokenID : \E r \in S :
          \/ req[r].at = "clear" /\ t \in {req[r].token, req[r].code}
          \/ req[r].at = "clearCode" /\ t = req[r].code},
     !.left = @ \cup {e \in Email :
       \E r \in S : /\ req[r].op = "register"
                    /\ req[r].at \in {"mail", "commit"}
                    /\ req[r].email = e},
     !.unbacked = @ \cup {u \in User :
       \E r \in S : req[r].at = "answered" /\ req[r].user = u}]

\* A statement, a mail or Redis fails; what is not committed is rolled back.
Fail(r) ==
  /\ req[r].at # "idle"
  /\ End(r)
  /\ notes' = Abandon({r})
  /\ UNCHANGED <<users, tokens, session, pool, coming>>

\* The process dies.  It also does when the session of a confirmation cannot
\* be saved: the rollback after the commit is refused, and nobody catches it.
Crash ==
  /\ req' = [r \in Request |-> NoRequest]
  /\ notes' = Abandon(Request)
  /\ UNCHANGED <<users, tokens, session, pool, coming>>

\* Nobody gives up.
StarvedSlip(r) == FALSE

\* r wants a connection and there is none: after a minute the pool gives up,
\* and r fails.
Starved(r) ==
  /\ ~ Free
  /\ \/ req[r].at \in {"begin", "insert", "lookup", "vacant", "find", "drop",
                       "create", "present", "expired", "owner", "code",
                       "spend", "clear", "clearCode"}
     \/ req[r].at = "apply" /\ req[r].op # "confirm"

-----------------------------------------------------------------------------
Step(r) ==
  \/ Begin(r) \/ Fetch(r) \/ Insert(r) \/ CommitUser(r)
  \/ LookupLogin(r) \/ LookupForgot(r) \/ LookupChange(r) \/ CheckVacant(r)
  \/ FindOld(r) \/ DropOld(r) \/ Create(r) \/ SendMail(r)
  \/ Present(r) \/ DropExpired(r) \/ FindOwner(r) \/ FindCode(r)
  \/ CompareCode(r) \/ Spend(r) \/ ApplyPassword(r) \/ ApplyChange(r)
  \/ Clear(r) \/ ClearCode(r)
  \/ Apply(r) \/ CommitConfirm(r) \/ SaveSession(r)

Next ==
  \/ \E r \in Request : Arrival(r) \/ Step(r) \/ Fail(r)
  \/ \E u \in User : Update(u) \/ Logout(u)
  \/ Crash

AcquireTimeout(r) == Starved(r) /\ Fail(r)

\* Requests for connections and for row locks are served in turn.
Fairness ==
  \A r \in Request : SF_vars(Step(r)) /\ WF_vars(AcquireTimeout(r))

Spec == Init /\ [][Next]_vars

FairSpec == Spec /\ Fairness

-----------------------------------------------------------------------------
(* Properties *)

Phase == {"idle", "begin", "fetch", "insert", "commit", "lookup", "vacant", "find",
          "drop", "create", "mail", "present", "expired", "owner", "code",
          "spend", "apply", "applied", "answered", "session", "clear",
          "clearCode"}

Type == {"none", "VERIFICATION", "TWO_FACTOR", "PASSWORD_RESET",
         "CHANGE_EMAIL"}

Users == User \cup {None}
Emails == Email \cup {None}
Tokens == TokenID \cup {NoToken}

RequestType ==
  [op : Op \cup {"none"}, at : Phase, tx : BOOLEAN, user : Users, email : Emails,
   new : Emails, type : Type, token : Tokens, code : Tokens]

TokenType == [type : Type, email : Emails, user : Users, new : Emails]

TypeOK ==
  /\ emailOf \in [User -> Emails]
  /\ verified \subseteq User /\ withPassword \subseteq User
  /\ twoFactor \subseteq User /\ session \subseteq User
  /\ rows \subseteq TokenID
  /\ issued \in [TokenID -> TokenType]
  /\ req \in [Request -> RequestType]
  /\ pool \in Nat
  /\ coming \in [Op -> Nat]
  /\ notes \in [crossed : SUBSET (Email \X Type), loose : SUBSET TokenID,
                acted : SUBSET TokenID, again : SUBSET TokenID,
                foreign : SUBSET TokenID,
                left : SUBSET Email, unbacked : SUBSET User]

\* No two users have one address, nor is a user about to be committed who
\* would: registrations, OAuth logins and changes of address may ask for the
\* same one at any time.
OneUserPerEmail ==
  /\ \A u, v \in User : emailOf[u] = emailOf[v] => u = v \/ emailOf[u] = None
  /\ \A r, q \in Request :
       Inserting(r) =>
         /\ \A u \in User : emailOf[u] # req[r].email
         /\ emailOf[req[r].user] = None
         /\ Inserting(q) /\ q # r => req[q].email # req[r].email

\* Find, destroy and create leave one token of a type for an address, unless
\* two requests issued it at a time: then one of them is never destroyed.
OneToken ==
  \A e \in Email, type \in Type :
    <<e, type>> \notin notes.crossed => Cardinality(Pending(e, type)) <= 1

\* A token has its effect once, unless two requests had read it before one of
\* them destroyed it, or the one that acted broke off before it did.
ActedOnce == notes.again = {}

\* A token acts on the user it was issued for, unless that user has given up
\* the address, or his registration was rolled back after the mail: what was
\* mailed then is good for whoever takes the address next.
ActsOnItsUser == notes.foreign = {}

\* Nobody has a session whose account is not verified, but while the commit of
\* a confirmation is under way, or after it was lost.
SessionsAreVerified ==
  \A u \in session \ verified :
    \/ u \in notes.unbacked
    \/ \E r \in Request : req[r].at = "answered" /\ req[r].user = u

\* For an account that waits for its confirmation a token was issued, at the
\* address the account has now.
WaitingHasToken ==
  \A u \in User :
    emailOf[u] # None /\ u \notin verified =>
      \E t \in Issued : /\ issued[t].email = emailOf[u]
                        /\ issued[t].type = "VERIFICATION"

\* Every request ends, although requests hold a connection while they wait for
\* another one, and row locks besides.
RequestsEnd == \A r \in Request : req[r].at # "idle" ~> req[r].at = "idle"
=============================================================================

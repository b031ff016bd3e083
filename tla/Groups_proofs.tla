----------------------------- MODULE Groups_proofs -----------------------------
(***************************************************************************)
(* Proofs about Groups, for every set of users, roles, bits and requests.   *)
(***************************************************************************)
EXTENDS Groups, TLAPS

\* An invitation is of the group, a request to join of the user, and so is
\* what was read for the answer to it, and it is there still.
AnswersStand ==
  /\ \A u \in User :
       /\ member[u] = "PENDING" => "group" \in agreed[u]
       /\ member[u] = "REQUESTED" => "user" \in agreed[u]
  /\ \A q \in Request :
       req[q].at = "read" /\ ~ req[q].stale =>
         /\ req[q].op \in {"accept", "approve"} => member[req[q].user] # "none"
         /\ req[q].op = "accept" => "group" \in agreed[req[q].user]
         /\ req[q].op = "approve" => "user" \in agreed[req[q].user]

\* A request is about what its operation is about, and has read of it.
Subjects ==
  \A q \in Request :
    /\ req[q].op \in {"accept", "leave", "invite", "approve", "kick", "assign",
                      "clear"} => req[q].user \in User
    /\ req[q].op \in {"delete", "add", "remove", "set"}
         => req[q].role \in Role /\ role[req[q].role] # "new"
    /\ req[q].op \in {"add", "remove"} => req[q].seen \subseteq Permission

\* A mask that was read and not written since is the mask of the role.
ReadIsFresh ==
  \A q \in Request :
    /\ req[q].at = "read" /\ ~ req[q].stale
    /\ req[q].op \in {"add", "remove"} /\ role[req[q].role] = "live"
    => req[q].seen = mask[req[q].role]

\* What a request asks for is not said otherwise while it runs.
NotPromised ==
  /\ \A q \in Request :
       /\ req[q].op \in {"add", "set"}
            => req[q].perms \cap removed[req[q].role] = {}
       /\ req[q].op = "remove" => req[q].perms \cap added[req[q].role] = {}
       /\ req[q].op = "set" => added[req[q].role] \subseteq req[q].perms
  /\ \A r \in Role : role[r] = "new" => removed[r] = {}

\* What the variable req may hold.
Requests ==
  [at : {"idle", "checked", "read"}, op : Op, user : User \cup {Owner},
   role : Role \cup {NoRole}, perms : SUBSET Permission,
   seen : SUBSET (Permission \cup Role \cup {NoRole}), stale : BOOLEAN]

\* The inductive invariant.
IInv ==
  /\ TypeOK
  /\ Subjects
  /\ AnswersStand
  /\ ReadIsFresh
  /\ NotPromised
  /\ MembershipIsAgreed
  /\ MaskAsAnswered

-----------------------------------------------------------------------------
\* A check changes no row.
LEMMA KeepAskMembers ==
  ASSUME IInv, NEW q \in Request, NEW a, NEW u \in User,
         NEW op \in {"invite", "approve", "kick"},
         AskMembers(q, a, op, u)
  PROVE  IInv'
<1> USE GroupsAssumption
       DEF IInv, AskMembers, Started, Idle, rows, history
<1>1. TypeOK'
  BY DEF TypeOK, Op, Subjects
<1>2. Subjects'
  BY DEF TypeOK, Subjects
<1>3. AnswersStand'
  BY DEF TypeOK, Subjects, AnswersStand
<1>4. ReadIsFresh'
  BY DEF TypeOK, Subjects, ReadIsFresh
<1>5. NotPromised'
  BY DEF TypeOK, Subjects, NotPromised
<1>6. MembershipIsAgreed'
  BY DEF TypeOK, Subjects, AnswersStand, MembershipIsAgreed
<1>7. MaskAsAnswered'
  BY DEF TypeOK, Subjects, ReadIsFresh, NotPromised, MaskAsAnswered
<1>. QED BY <1>1, <1>2, <1>3, <1>4, <1>5, <1>6, <1>7

\* What a request asks for is no longer promised otherwise.
LEMMA KeepAskRoles ==
  ASSUME IInv, NEW q \in Request, NEW a,
         NEW op \in {"assign", "clear", "create", "delete", "add", "remove", "set"},
         NEW u \in User \cup {Owner}, NEW r \in Role \cup {NoRole},
         NEW ps \in SUBSET Permission,
         op \in {"assign", "clear"} => u \in User,
         op \in {"delete", "add", "remove", "set"} => r \in Role,
         AskRoles(q, a, op, u, r, ps)
  PROVE  IInv'
<1> USE GroupsAssumption
       DEF IInv, AskRoles, Started, Idle, rows
<1>1. TypeOK'
  BY DEF TypeOK, Op, Subjects
<1>2. Subjects'
  BY DEF TypeOK, Subjects
<1>3. AnswersStand'
  BY DEF TypeOK, Subjects, AnswersStand
<1>4. ReadIsFresh'
  BY DEF TypeOK, Subjects, ReadIsFresh
<1>5. NotPromised'
  BY DEF TypeOK, Subjects, NotPromised
<1>6. MembershipIsAgreed'
  BY DEF TypeOK, Subjects, AnswersStand, MembershipIsAgreed
<1>7. MaskAsAnswered'
  BY DEF TypeOK, Subjects, ReadIsFresh, NotPromised, MaskAsAnswered
<1>. QED BY <1>1, <1>2, <1>3, <1>4, <1>5, <1>6, <1>7

\* Nor does the start of a request without a check.
LEMMA KeepAskSelf ==
  ASSUME IInv, NEW q \in Request, NEW op \in {"accept", "leave"}, NEW u \in User,
         AskSelf(q, op, u)
  PROVE  IInv'
<1> USE GroupsAssumption
       DEF IInv, AskSelf, Started, Idle, rows, history
<1>1. TypeOK'
  BY DEF TypeOK, Op, Subjects
<1>2. Subjects'
  BY DEF TypeOK, Subjects
<1>3. AnswersStand'
  BY DEF TypeOK, Subjects, AnswersStand
<1>4. ReadIsFresh'
  BY DEF TypeOK, Subjects, ReadIsFresh
<1>5. NotPromised'
  BY DEF TypeOK, Subjects, NotPromised
<1>6. MembershipIsAgreed'
  BY DEF TypeOK, Subjects, AnswersStand, MembershipIsAgreed
<1>7. MaskAsAnswered'
  BY DEF TypeOK, Subjects, ReadIsFresh, NotPromised, MaskAsAnswered
<1>. QED BY <1>1, <1>2, <1>3, <1>4, <1>5, <1>6, <1>7

\* Whoever is to answer has read what there is to answer.
LEMMA KeepReadMember ==
  ASSUME IInv, NEW q \in Request,
         ReadMember(q)
  PROVE  IInv'
<1> USE GroupsAssumption
       DEF IInv, ReadMember, MayProceed, rows, history
<1>1. TypeOK'
  <2>1. req[q] \in Requests
    BY DEF TypeOK, Requests
  <2>2. req'[q] \in Requests
    <3>1. roleID[req[q].user] \in Role \cup {NoRole}
      BY DEF TypeOK, Subjects
    <3>2. req'[q] = [req[q] EXCEPT !.at = "read", !.seen = {roleID[req[q].user]}]
      BY DEF TypeOK
    <3>3. {roleID[req[q].user]} \in SUBSET (Permission \cup Role \cup {NoRole})
      BY <3>1
    <3>. QED BY ONLY <2>1, <3>2, <3>3 DEF Requests
  <2>3. req' \in [Request -> Requests]
    BY <2>2 DEF TypeOK, Requests
  <2>. QED BY <2>3 DEF TypeOK, Requests
<1>2. Subjects'
  BY DEF TypeOK, Subjects
<1>3. AnswersStand'
  BY DEF TypeOK, Subjects, AnswersStand
<1>4. ReadIsFresh'
  BY DEF TypeOK, Subjects, ReadIsFresh
<1>5. NotPromised'
  BY DEF TypeOK, Subjects, NotPromised
<1>6. MembershipIsAgreed'
  BY DEF TypeOK, Subjects, AnswersStand, MembershipIsAgreed
<1>7. MaskAsAnswered'
  BY DEF TypeOK, Subjects, ReadIsFresh, NotPromised, MaskAsAnswered
<1>. QED BY <1>1, <1>2, <1>3, <1>4, <1>5, <1>6, <1>7

\* A mask is fresh when it has been read.
LEMMA KeepReadRole ==
  ASSUME IInv, NEW q \in Request,
         ReadRole(q)
  PROVE  IInv'
<1> USE GroupsAssumption
       DEF IInv, ReadRole, rows, history
<1>1. TypeOK'
  <2>1. req[q] \in Requests
    BY DEF TypeOK, Requests
  <2>2. req'[q] \in Requests
    BY <2>1 DEF TypeOK, Requests, Subjects
  <2>3. req' \in [Request -> Requests]
    BY <2>2 DEF TypeOK, Requests
  <2>. QED BY <2>3 DEF TypeOK, Requests
<1>2. Subjects'
  BY DEF TypeOK, Subjects
<1>3. AnswersStand'
  BY DEF TypeOK, Subjects, AnswersStand
<1>4. ReadIsFresh'
  BY DEF TypeOK, Subjects, ReadIsFresh
<1>5. NotPromised'
  BY DEF TypeOK, Subjects, NotPromised
<1>6. MembershipIsAgreed'
  BY DEF TypeOK, Subjects, AnswersStand, MembershipIsAgreed
<1>7. MaskAsAnswered'
  BY DEF TypeOK, Subjects, ReadIsFresh, NotPromised, MaskAsAnswered
<1>. QED BY <1>1, <1>2, <1>3, <1>4, <1>5, <1>6, <1>7

\* A new row is agreed to by the user.
LEMMA KeepRequestJoin ==
  ASSUME IInv, NEW u \in User,
         RequestJoin(u)
  PROVE  IInv'
<1> USE GroupsAssumption
       DEF IInv, RequestJoin
<1>1. TypeOK'
  BY DEF TypeOK, Op, Subjects
<1>2. Subjects'
  BY DEF TypeOK, Subjects
<1>3. AnswersStand'
  BY DEF TypeOK, Subjects, AnswersStand
<1>4. ReadIsFresh'
  BY DEF TypeOK, Subjects, ReadIsFresh
<1>5. NotPromised'
  BY DEF TypeOK, Subjects, NotPromised
<1>6. MembershipIsAgreed'
  BY DEF TypeOK, Subjects, AnswersStand, MembershipIsAgreed
<1>7. MaskAsAnswered'
  BY DEF TypeOK, Subjects, ReadIsFresh, NotPromised, MaskAsAnswered
<1>. QED BY <1>1, <1>2, <1>3, <1>4, <1>5, <1>6, <1>7

\* A new row is agreed to by the group.
LEMMA KeepInvite ==
  ASSUME IInv, NEW q \in Request,
         Invite(q)
  PROVE  IInv'
<1> USE GroupsAssumption
       DEF IInv, Invite, Close, Idle
<1>1. TypeOK'
  BY DEF TypeOK, Op, Subjects
<1>2. Subjects'
  BY DEF TypeOK, Subjects
<1>3. AnswersStand'
  BY DEF TypeOK, Subjects, AnswersStand
<1>4. ReadIsFresh'
  BY DEF TypeOK, Subjects, ReadIsFresh
<1>5. NotPromised'
  BY DEF TypeOK, Subjects, NotPromised
<1>6. MembershipIsAgreed'
  BY DEF TypeOK, Subjects, AnswersStand, MembershipIsAgreed
<1>7. MaskAsAnswered'
  BY DEF TypeOK, Subjects, ReadIsFresh, NotPromised, MaskAsAnswered
<1>. QED BY <1>1, <1>2, <1>3, <1>4, <1>5, <1>6, <1>7

\* The answer adds the side that had not agreed.
LEMMA KeepActivate ==
  ASSUME IInv, NEW q \in Request,
         Activate(q)
  PROVE  IInv'
<1> USE GroupsAssumption
       DEF IInv, Activate, Close, Idle, Agrees, Overtaken
<1>1. TypeOK'
  BY DEF TypeOK, Op, Subjects
<1>2. Subjects'
  BY DEF TypeOK, Subjects
<1>3. AnswersStand'
  BY DEF TypeOK, Subjects, AnswersStand
<1>4. ReadIsFresh'
  BY DEF TypeOK, Subjects, ReadIsFresh
<1>5. NotPromised'
  BY DEF TypeOK, Subjects, NotPromised
<1>6. MembershipIsAgreed'
  BY DEF TypeOK, Subjects, AnswersStand, MembershipIsAgreed
<1>7. MaskAsAnswered'
  BY DEF TypeOK, Subjects, ReadIsFresh, NotPromised, MaskAsAnswered
<1>. QED BY <1>1, <1>2, <1>3, <1>4, <1>5, <1>6, <1>7

\* Who has read the row is overtaken, or writes nothing.
LEMMA KeepDestroy ==
  ASSUME IInv, NEW q \in Request,
         Destroy(q)
  PROVE  IInv'
<1> USE GroupsAssumption
       DEF IInv, Destroy, CloseOver, Readers, Idle
<1>0. req' \in [Request -> Requests]
  <2>1. req \in [Request -> Requests]
    BY DEF TypeOK, Requests
  <2>2. Idle \in Requests
    BY DEF Idle, Requests, Op
  <2>3. ASSUME NEW p \in Request PROVE req'[p] \in Requests
    BY <2>1, <2>2 DEF Requests
  <2>. QED BY <2>3
<1>1. TypeOK'
  BY <1>0 DEF TypeOK, Requests, Subjects
<1>2. Subjects'
  BY DEF TypeOK, Subjects
<1>3. AnswersStand'
  BY DEF TypeOK, Subjects, AnswersStand
<1>4. ReadIsFresh'
  BY DEF TypeOK, Subjects, ReadIsFresh
<1>5. NotPromised'
  BY DEF TypeOK, Subjects, NotPromised
<1>6. MembershipIsAgreed'
  BY DEF TypeOK, Subjects, AnswersStand, MembershipIsAgreed
<1>7. MaskAsAnswered'
  BY DEF TypeOK, Subjects, ReadIsFresh, NotPromised, MaskAsAnswered
<1>. QED BY <1>1, <1>2, <1>3, <1>4, <1>5, <1>6, <1>7

\* A role goes to the membership that was read.
LEMMA KeepSetRole ==
  ASSUME IInv, NEW q \in Request,
         SetRole(q)
  PROVE  IInv'
<1> USE GroupsAssumption
       DEF IInv, SetRole, Close, Idle, Overtaken
<1>1. TypeOK'
  BY DEF TypeOK, Op, Subjects
<1>2. Subjects'
  BY DEF TypeOK, Subjects
<1>3. AnswersStand'
  BY DEF TypeOK, Subjects, AnswersStand
<1>4. ReadIsFresh'
  BY DEF TypeOK, Subjects, ReadIsFresh
<1>5. NotPromised'
  BY DEF TypeOK, Subjects, NotPromised
<1>6. MembershipIsAgreed'
  BY DEF TypeOK, Subjects, AnswersStand, MembershipIsAgreed
<1>7. MaskAsAnswered'
  BY DEF TypeOK, Subjects, ReadIsFresh, NotPromised, MaskAsAnswered
<1>. QED BY <1>1, <1>2, <1>3, <1>4, <1>5, <1>6, <1>7

\* No request knows the new id yet.
LEMMA KeepCreateRole ==
  ASSUME IInv, NEW q \in Request, NEW r \in Role,
         CreateRole(q, r)
  PROVE  IInv'
<1> USE GroupsAssumption
       DEF IInv, CreateRole, Close, Idle
<1>1. TypeOK'
  BY DEF TypeOK, Op, Subjects
<1>2. Subjects'
  BY DEF TypeOK, Subjects
<1>3. AnswersStand'
  BY DEF TypeOK, Subjects, AnswersStand
<1>4. ReadIsFresh'
  BY DEF TypeOK, Subjects, ReadIsFresh
<1>5. NotPromised'
  BY DEF TypeOK, Subjects, NotPromised
<1>6. MembershipIsAgreed'
  BY DEF TypeOK, Subjects, AnswersStand, MembershipIsAgreed
<1>7. MaskAsAnswered'
  BY DEF TypeOK, Subjects, ReadIsFresh, NotPromised, MaskAsAnswered
<1>. QED BY <1>1, <1>2, <1>3, <1>4, <1>5, <1>6, <1>7

\* No member keeps the role.
LEMMA KeepDeleteRole ==
  ASSUME IInv, NEW q \in Request,
         DeleteRole(q)
  PROVE  IInv'
<1> USE GroupsAssumption
       DEF IInv, DeleteRole, Close, Idle
<1>1. TypeOK'
  BY DEF TypeOK, Op, Subjects
<1>2. Subjects'
  BY DEF TypeOK, Subjects
<1>3. AnswersStand'
  BY DEF TypeOK, Subjects, AnswersStand
<1>4. ReadIsFresh'
  BY DEF TypeOK, Subjects, ReadIsFresh
<1>5. NotPromised'
  BY DEF TypeOK, Subjects, NotPromised
<1>6. MembershipIsAgreed'
  BY DEF TypeOK, Subjects, AnswersStand, MembershipIsAgreed
<1>7. MaskAsAnswered'
  BY DEF TypeOK, Subjects, ReadIsFresh, NotPromised, MaskAsAnswered
<1>. QED BY <1>1, <1>2, <1>3, <1>4, <1>5, <1>6, <1>7

\* The mask that is written is made of the one that is there.
LEMMA KeepWriteMask ==
  ASSUME IInv, NEW q \in Request,
         WriteMask(q)
  PROVE  IInv'
<1> USE GroupsAssumption
       DEF IInv, WriteMask, CloseOver, Readers, Idle, Overtaken, NewMask, Adding,
           Removing
<1>0. req' \in [Request -> Requests]
  <2>1. req \in [Request -> Requests]
    BY DEF TypeOK, Requests
  <2>2. Idle \in Requests
    BY DEF Idle, Requests, Op
  <2>3. ASSUME NEW p \in Request PROVE req'[p] \in Requests
    BY <2>1, <2>2 DEF Requests
  <2>. QED BY <2>3
<1>1. TypeOK'
  <2>1. req[q].role \in Role /\ req[q].perms \subseteq Permission
    BY DEF TypeOK, Subjects
  <2>2. NewMask(q) \subseteq Permission
    BY <2>1 DEF Subjects
  <2>3. mask' \in [Role -> SUBSET Permission]
    BY <2>1, <2>2 DEF TypeOK
  <2>4. added' \in [Role -> SUBSET Permission]
    BY <2>1 DEF TypeOK
  <2>5. removed' \in [Role -> SUBSET Permission]
    BY <2>1 DEF TypeOK
  <2>6. overtaken' \subseteq User \cup Role
    BY <2>1 DEF TypeOK
  <2>. QED BY <1>0, <2>3, <2>4, <2>5, <2>6 DEF TypeOK, Requests
<1>2. Subjects'
  BY DEF TypeOK, Subjects
<1>3. AnswersStand'
  BY DEF TypeOK, Subjects, AnswersStand
<1>4. ReadIsFresh'
  BY DEF TypeOK, Subjects, ReadIsFresh
<1>5. NotPromised'
  <2>1. req[q].role \in Role /\ role[req[q].role] = "live"
    BY DEF Subjects
  <2>2. ASSUME NEW p \in Request, p # q, req[p].op \in {"add", "set"}
        PROVE  req[p].perms \cap removed'[req[p].role] = {}
    <3>1. CASE req[p].role = req[q].role
      BY <2>1, <2>2, <3>1 DEF TypeOK, NotPromised
    <3>2. CASE req[p].role # req[q].role
      BY <2>1, <2>2, <3>2 DEF TypeOK, NotPromised
    <3>. QED BY <3>1, <3>2
  <2>3. ASSUME NEW p \in Request, p # q, req[p].op = "remove"
        PROVE  req[p].perms \cap added'[req[p].role] = {}
    <3>1. CASE req[p].role = req[q].role
      BY <2>1, <2>3, <3>1 DEF TypeOK, NotPromised
    <3>2. CASE req[p].role # req[q].role
      BY <2>1, <2>3, <3>2 DEF TypeOK, NotPromised
    <3>. QED BY <3>1, <3>2
  <2>4. ASSUME NEW p \in Request, p # q, req[p].op = "set"
        PROVE  added'[req[p].role] \subseteq req[p].perms
    <3>1. CASE req[p].role = req[q].role
      <4>1. Permission \ req[p].perms \subseteq Removing(q, req[q].role)
        BY <2>4, <3>1
      <4>2. \/ added'[req[q].role] \subseteq added[req[q].role]
            \/ added'[req[q].role] \subseteq
                 added[req[q].role] \cup (Permission \ Removing(q, req[q].role))
        BY <2>1 DEF TypeOK
      <4>3. added[req[q].role] \subseteq req[p].perms
        BY <2>4, <3>1 DEF NotPromised
      <4>. QED BY ONLY <3>1, <4>1, <4>2, <4>3
    <3>2. CASE req[p].role # req[q].role
      BY <2>1, <2>4, <3>2 DEF TypeOK, NotPromised
    <3>. QED BY <3>1, <3>2
  <2>5. \A r \in Role : role'[r] = "new" => removed'[r] = {}
    BY <2>1 DEF TypeOK, NotPromised
  <2>6. /\ req'[q].op = "none"
        /\ \A p \in Request \ {q} :
             /\ req'[p].op = req[p].op /\ req'[p].role = req[p].role
             /\ req'[p].perms = req[p].perms
    BY DEF TypeOK
  <2>. QED BY <2>2, <2>3, <2>4, <2>5, <2>6 DEF NotPromised
<1>6. MembershipIsAgreed'
  BY DEF TypeOK, Subjects, AnswersStand, MembershipIsAgreed
<1>7. MaskAsAnswered'
  BY DEF TypeOK, Subjects, ReadIsFresh, NotPromised, MaskAsAnswered
<1>. QED BY <1>1, <1>2, <1>3, <1>4, <1>5, <1>6, <1>7

\* Nothing is written.
LEMMA KeepFail ==
  ASSUME IInv, NEW q \in Request,
         Fail(q)
  PROVE  IInv'
<1> USE GroupsAssumption
       DEF IInv, Fail, Close, Open, Idle, rows, history
<1>1. TypeOK'
  BY DEF TypeOK, Op, Subjects
<1>2. Subjects'
  BY DEF TypeOK, Subjects
<1>3. AnswersStand'
  BY DEF TypeOK, Subjects, AnswersStand
<1>4. ReadIsFresh'
  BY DEF TypeOK, Subjects, ReadIsFresh
<1>5. NotPromised'
  BY DEF TypeOK, Subjects, NotPromised
<1>6. MembershipIsAgreed'
  BY DEF TypeOK, Subjects, AnswersStand, MembershipIsAgreed
<1>7. MaskAsAnswered'
  BY DEF TypeOK, Subjects, ReadIsFresh, NotPromised, MaskAsAnswered
<1>. QED BY <1>1, <1>2, <1>3, <1>4, <1>5, <1>6, <1>7

-----------------------------------------------------------------------------
\* At first there are no members, no roles and no requests.
LEMMA InitIInv == Init => IInv
<1> SUFFICES ASSUME Init PROVE IInv
  OBVIOUS
<1> USE GroupsAssumption DEF Init, Idle
<1>1. TypeOK
  BY DEF TypeOK, Op
<1>2. Subjects /\ AnswersStand /\ ReadIsFresh /\ NotPromised
  BY DEF Subjects, AnswersStand, ReadIsFresh, NotPromised
<1>3. MembershipIsAgreed /\ MaskAsAnswered
  BY DEF MembershipIsAgreed, MaskAsAnswered
<1>. QED BY <1>1, <1>2, <1>3 DEF IInv

\* Every action preserves the invariant.
LEMMA NextIInv == IInv /\ [Next]_vars => IInv'
<1> SUFFICES ASSUME IInv, [Next]_vars PROVE IInv'
  OBVIOUS
<1>1. ASSUME NEW u \in User, RequestJoin(u) PROVE IInv'
  BY <1>1, KeepRequestJoin
<1>2. ASSUME NEW q \in Request, Ask(q) PROVE IInv'
  <2>1. ASSUME NEW u \in User, NEW op \in {"accept", "leave"},
               AskSelf(q, op, u)
        PROVE  IInv'
    BY <2>1, KeepAskSelf
  <2>2. ASSUME NEW a \in User \cup {Owner}, NEW u \in User,
               NEW op \in {"invite", "approve", "kick"}, AskMembers(q, a, op, u)
        PROVE  IInv'
    BY <2>2, KeepAskMembers
  <2>3. ASSUME NEW a \in User \cup {Owner}, NEW u \in User, NEW r \in Role,
               \/ AskRoles(q, a, "assign", u, r, {})
               \/ AskRoles(q, a, "clear", u, NoRole, {})
               \/ AskRoles(q, a, "delete", Owner, r, {})
        PROVE  IInv'
    BY <2>3, KeepAskRoles
  <2>4. ASSUME NEW a \in User \cup {Owner}, NEW r \in Role,
               NEW ps \in SUBSET Permission,
               \/ AskRoles(q, a, "create", Owner, NoRole, ps)
               \/ \E op \in {"add", "remove", "set"} :
                    AskRoles(q, a, op, Owner, r, ps)
        PROVE  IInv'
    BY <2>4, KeepAskRoles
  <2>. QED BY <1>2, <2>1, <2>2, <2>3, <2>4 DEF Ask
<1>3. ASSUME NEW q \in Request, ReadMember(q) \/ ReadRole(q) PROVE IInv'
  BY <1>3, KeepReadMember, KeepReadRole
<1>4. ASSUME NEW q \in Request, Write(q) PROVE IInv'
  BY <1>4, KeepInvite, KeepActivate, KeepDestroy, KeepSetRole, KeepCreateRole,
     KeepDeleteRole, KeepWriteMask DEF Write
<1>5. ASSUME NEW q \in Request, Fail(q) PROVE IInv'
  BY <1>5, KeepFail
<1>6. CASE UNCHANGED vars
  BY <1>6 DEF vars, rows, history, IInv, TypeOK, Subjects, AnswersStand,
     ReadIsFresh, NotPromised, MembershipIsAgreed, MaskAsAnswered
<1>. QED BY <1>1, <1>2, <1>3, <1>4, <1>5, <1>6 DEF Next

-----------------------------------------------------------------------------
\* The inductive invariant holds of every behaviour.
THEOREM Inductive == Spec => []IInv
BY InitIInv, NextIInv, PTL DEF Spec

\* Every role of a member exists and every row keeps its type.
THEOREM TypeCorrect == Spec => []TypeOK
<1>1. IInv => TypeOK BY DEF IInv
<1>. QED BY <1>1, Inductive, PTL

\* acceptInvite and approveRequest make nobody a member whom the group or the
\* user has not agreed to, unless the row was made anew under them.
THEOREM MembersAgreed == Spec => []MembershipIsAgreed
<1>1. IInv => MembershipIsAgreed BY DEF IInv
<1>. QED BY <1>1, Inductive, PTL

\* addPermission, removePermission and setMask do what they answer, unless
\* the mask was written between their read and their write.
THEOREM MasksAnswered == Spec => []MaskAsAnswered
<1>1. IInv => MaskAsAnswered BY DEF IInv
<1>. QED BY <1>1, Inductive, PTL

=============================================================================

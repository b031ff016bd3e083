--------------------------------- MODULE Groups ---------------------------------
(***************************************************************************)
(* One group: the tables group_member and group_roles and the requests that *)
(* write them.                                                              *)
(*                                                                          *)
(* A request asks GroupAccessService first, reads the row it is about next, *)
(* and writes it in a transaction of one statement at last.  The check and  *)
(* the reads hold no lock, so each of the three is an action, and anything  *)
(* may happen in between.  The write goes by primary key: it meets the row  *)
(* that is there then, also when that is not the row that was read.         *)
(*                                                                          *)
(* An operator whose name ends in Slip is a plausible mistake in the        *)
(* definition after it; no behaviour of the specification uses one.         *)
(***************************************************************************)

CONSTANTS
  User,        \* users who may become members
  Owner,       \* the owner of the group, who may be one of them
  Role,        \* ids of roles
  Permission,  \* bits of a mask
  Request,     \* requests that run at the same time
  NoRole       \* NULL in roleID

ASSUME GroupsAssumption ==
  /\ NoRole \notin Role
  /\ User \cap Role = {}

VARIABLES
  member,      \* group_member.status, "none" without a row
  roleID,      \* group_member.roleID
  role,        \* "new", "live", or "gone" when it was deleted
  mask,        \* group_roles.mask, as a set of bits
  req,         \* what each running request does and has read
  agreed,      \* history: who agreed to the membership, user and group
  added,       \* history: permissions said to be added to a role ...
  removed,     \* ... and removed from it, and not asked for otherwise since
  overtaken    \* history: users and roles whose row was written by a request
               \* after another had written it since it was read

rows    == <<member, roleID, role, mask>>
history == <<agreed, added, removed, overtaken>>
vars    == <<rows, req, history>>

-----------------------------------------------------------------------------
(* Requests *)

Idle == [at |-> "idle", op |-> "none", user |-> Owner, role |-> NoRole,
         perms |-> {}, seen |-> {}, stale |-> FALSE]

Open(q) == req[q].at # "idle"

\* A request about u or r that has read its row.
Readers(x) ==
  {q \in Request : req[q].at = "read" /\ x \in {req[q].user, req[q].role}}

Close(q) == req' = [req EXCEPT ![q] = Idle]

\* Closes q, whose write has changed the row of x under all who have read it.
CloseOver(q, x) ==
  req' = [p \in Request |->
            IF p = q THEN Idle
            ELSE IF p \in Readers(x) THEN [req[p] EXCEPT !.stale = TRUE]
            ELSE req[p]]

\* resolveUserPermissions
Can(a, p) ==
  a # Owner => /\ member[a] = "ACTIVE"
               /\ roleID[a] # NoRole
               /\ p \in mask[roleID[a]]

\* Permissions of r that requests other than q are about to set, or to clear.
Adding(q, r) ==
  UNION {req[p].perms : p \in {o \in Request \ {q} :
                                 req[o].role = r /\ req[o].op \in {"add", "set"}}}
Removing(q, r) ==
  LET others == {p \in Request \ {q} : req[p].role = r}
  IN  UNION ({req[p].perms : p \in {o \in others : req[o].op = "remove"}}
             \cup {Permission \ req[p].perms :
                      p \in {o \in others : req[o].op = "set"}})

-----------------------------------------------------------------------------
Init ==
  /\ member = [u \in User |-> "none"]
  /\ roleID = [u \in User |-> NoRole]
  /\ role = [r \in Role |-> "new"]
  /\ mask = [r \in Role |-> {}]
  /\ req = [q \in Request |-> Idle]
  /\ agreed = [u \in User |-> {}]
  /\ added = [r \in Role |-> {}]
  /\ removed = [r \in Role |-> {}]
  /\ overtaken = {}

-----------------------------------------------------------------------------
(* The check *)

Started(q, op, u, r, ps) ==
  req' = [req EXCEPT ![q] = [Idle EXCEPT !.at = "checked", !.op = op,
                               !.user = u, !.role = r, !.perms = ps]]

\* ensureCanInvite, ensureCanKick
AskMembers(q, a, op, u) ==
  /\ ~ Open(q)
  /\ Can(a, "MEMBERS_MANAGE")
  /\ Started(q, op, u, NoRole, {})
  /\ UNCHANGED <<rows, history>>

\* ensureCanManageRoles, after a look whether the role is there.  From here on a permission is asked for otherwise.
AskRoles(q, a, op, u, r, ps) ==
  /\ ~ Open(q)
  /\ op \in {"delete", "add", "remove", "set"} => role[r] = "live"
  /\ Can(a, "ROLES_MANAGE")
  /\ Started(q, op, u, r, ps)
  /\ added' = CASE op = "remove" -> [added EXCEPT ![r] = @ \ ps]
                [] op = "set"    -> [added EXCEPT ![r] = @ \cap ps]
                [] OTHER         -> added
  /\ removed' = IF op \in {"add", "set"} THEN [removed EXCEPT ![r] = @ \ ps]
                ELSE removed
  /\ UNCHANGED <<rows, agreed, overtaken>>

\* A user needs nobody's leave to accept an invitation or to leave.
AskSelf(q, op, u) ==
  /\ ~ Open(q)
  /\ Started(q, op, u, NoRole, {})
  /\ UNCHANGED <<rows, history>>

-----------------------------------------------------------------------------
(* The read *)

\* An invitation may be accepted by who has asked to join, too.
MayProceedSlip(op, u) ==
  CASE op = "accept"  -> member[u] # "none"
    [] op = "approve" -> member[u] = "REQUESTED"
    [] op = "kick"    -> member[u] # "none" /\ u # Owner
    [] OTHER          -> member[u] # "none"

\* What is checked of the membership before it is changed.
MayProceed(op, u) ==
  CASE op = "accept"  -> member[u] = "PENDING"
    [] op = "approve" -> member[u] = "REQUESTED"
    [] op = "kick"    -> member[u] # "none" /\ u # Owner
    [] OTHER          -> member[u] # "none"

\* getMemberOrFail and the checks after it.
ReadMember(q) ==
  LET u == req[q].user
  IN  /\ req[q].at = "checked"
      /\ req[q].op \in {"accept", "leave", "approve", "kick", "assign", "clear"}
      /\ MayProceed(req[q].op, u)
      /\ req[q].op = "assign" => role[req[q].role] = "live"
      /\ req' = [req EXCEPT ![q].at = "read", ![q].seen = {roleID[u]}]
      /\ UNCHANGED <<rows, history>>

\* getRoleOrFail
ReadRole(q) ==
  LET r == req[q].role
  IN  /\ req[q].at = "checked"
      /\ req[q].op \in {"add", "remove", "set"}
      /\ role[r] = "live"
      /\ req' = [req EXCEPT ![q].at = "read", ![q].seen = mask[r]]
      /\ UNCHANGED <<rows, history>>

-----------------------------------------------------------------------------
(* The write *)

\* A user asks to join: nothing is checked before the insert.
RequestJoin(u) ==
  /\ member[u] = "none"
  /\ member' = [member EXCEPT ![u] = "REQUESTED"]
  /\ agreed' = [agreed EXCEPT ![u] = {"user"}]
  /\ UNCHANGED <<roleID, role, mask, req, added, removed, overtaken>>

\* The insert of an invitation; the primary key refuses a second row.
Invite(q) ==
  LET u == req[q].user
  IN  /\ req[q].at = "checked" /\ req[q].op = "invite"
      /\ member[u] = "none"
      /\ member' = [member EXCEPT ![u] = "PENDING"]
      /\ agreed' = [agreed EXCEPT ![u] = {"group"}]
      /\ Close(q)
      /\ UNCHANGED <<roleID, role, mask, added, removed, overtaken>>

\* Who has agreed to the membership of u when q is done.
Agrees(q) == IF req[q].op = "accept" THEN "user" ELSE "group"

\* x, if q had read its row before it was made anew or written by another.
Overtaken(q, x) == IF req[q].stale THEN {x} ELSE {}

\* acceptInvite and approveRequest.
Activate(q) ==
  LET u == req[q].user
  IN  /\ req[q].at = "read" /\ req[q].op \in {"accept", "approve"}
      /\ member[u] # "none"
      /\ member' = [member EXCEPT ![u] = "ACTIVE"]
      /\ agreed' = [agreed EXCEPT ![u] = @ \cup {Agrees(q)}]
      /\ overtaken' = overtaken \cup Overtaken(q, u)
      /\ Close(q)
      /\ UNCHANGED <<roleID, role, mask, added, removed>>

\* leaveGroup and removeMember.
Destroy(q) ==
  LET u == req[q].user
  IN  /\ req[q].at = "read" /\ req[q].op \in {"leave", "kick"}
      /\ member' = [member EXCEPT ![u] = "none"]
      /\ roleID' = [roleID EXCEPT ![u] = NoRole]
      /\ agreed' = [agreed EXCEPT ![u] = {}]
      /\ overtaken' = overtaken \ {u}
      /\ CloseOver(q, u)
      /\ UNCHANGED <<role, mask, added, removed>>

\* assignRole and clearRole.  An update that changes nothing of what was read
\* is not sent; one to a role that is gone breaks the foreign key.
SetRole(q) ==
  LET u == req[q].user
      r == req[q].role
  IN  /\ req[q].at = "read" /\ req[q].op \in {"assign", "clear"}
      /\ r \notin req[q].seen
      /\ member[u] # "none"
      /\ r # NoRole => role[r] = "live"
      /\ roleID' = [roleID EXCEPT ![u] = r]
      /\ agreed' = [agreed EXCEPT ![u] = @ \cup {"role"}]
      /\ overtaken' = overtaken \cup Overtaken(q, u)
      /\ Close(q)
      /\ UNCHANGED <<member, role, mask, added, removed>>

\* The id is drawn at the insert.
CreateRole(q, r) ==
  /\ req[q].at = "checked" /\ req[q].op = "create"
  /\ role[r] = "new"
  /\ role' = [role EXCEPT ![r] = "live"]
  /\ mask' = [mask EXCEPT ![r] = req[q].perms]
  /\ added' = [added EXCEPT ![r] = req[q].perms]
  /\ Close(q)
  /\ UNCHANGED <<member, roleID, agreed, removed, overtaken>>

\* Members keep the id of the role.
DeleteRoleSlip(q) ==
  LET r == req[q].role
  IN  /\ req[q].at = "checked" /\ req[q].op = "delete"
      /\ role' = [role EXCEPT ![r] = "gone"]
      /\ mask' = [mask EXCEPT ![r] = {}]
      /\ added' = [added EXCEPT ![r] = {}]
      /\ removed' = [removed EXCEPT ![r] = {}]
      /\ overtaken' = overtaken \ {r}
      /\ Close(q)
      /\ UNCHANGED <<member, roleID, agreed>>

\* The foreign key takes the role from its members.
DeleteRole(q) ==
  LET r == req[q].role
  IN  /\ req[q].at = "checked" /\ req[q].op = "delete"
      /\ role' = [role EXCEPT ![r] = "gone"]
      /\ mask' = [mask EXCEPT ![r] = {}]
      /\ roleID' = [u \in User |-> IF roleID[u] = r THEN NoRole ELSE roleID[u]]
      /\ added' = [added EXCEPT ![r] = {}]
      /\ removed' = [removed EXCEPT ![r] = {}]
      /\ overtaken' = overtaken \ {r}
      /\ Close(q)
      /\ UNCHANGED <<member, agreed>>

\* Removes all but the bits it is given.
NewMaskSlip(q) ==
  CASE req[q].op = "add"    -> req[q].seen \cup req[q].perms
    [] req[q].op = "remove" -> req[q].seen \cap req[q].perms
    [] req[q].op = "set"    -> req[q].perms

\* maskAdd and maskRemove of the mask that was read; setMask needs none.
NewMask(q) ==
  CASE req[q].op = "add"    -> req[q].seen \cup req[q].perms
    [] req[q].op = "remove" -> req[q].seen \ req[q].perms
    [] req[q].op = "set"    -> req[q].perms

\* addPermission, removePermission and setMask.  What the answer says of a
\* permission counts unless another request asks for the contrary by then.
WriteMask(q) ==
  LET r == req[q].role
      op == req[q].op
      ps == req[q].perms
      on == ps \ Removing(q, r)
      off == (IF op = "set" THEN Permission \ ps ELSE ps) \ Adding(q, r)
  IN  /\ req[q].at = "read" /\ op \in {"add", "remove", "set"}
      /\ role[r] = "live"
      /\ mask' = [mask EXCEPT ![r] = NewMask(q)]
      /\ added' = CASE op = "add" -> [added EXCEPT ![r] = @ \cup on]
                    [] op = "set" -> [added EXCEPT ![r] = on]
                    [] OTHER      -> added
      /\ removed' = CASE op = "remove" -> [removed EXCEPT ![r] = @ \cup off]
                      [] op = "set"    -> [removed EXCEPT ![r] = off]
                      [] OTHER         -> removed
      /\ overtaken' = CASE op = "set" -> overtaken \ {r}
                        [] OTHER      -> overtaken \cup Overtaken(q, r)
      /\ CloseOver(q, r)
      /\ UNCHANGED <<member, roleID, role, agreed>>

\* A refusal, an error, the death of the process, or an update that finds no
\* row: nothing is written.
Fail(q) ==
  /\ Open(q)
  /\ Close(q)
  /\ UNCHANGED <<rows, history>>

-----------------------------------------------------------------------------
Ask(q) ==
  \/ \E u \in User, op \in {"accept", "leave"} : AskSelf(q, op, u)
  \/ \E a \in User \cup {Owner}, u \in User, op \in {"invite", "approve", "kick"} :
       AskMembers(q, a, op, u)
  \/ \E a \in User \cup {Owner}, u \in User, r \in Role :
       \/ AskRoles(q, a, "assign", u, r, {})
       \/ AskRoles(q, a, "clear", u, NoRole, {})
       \/ AskRoles(q, a, "delete", Owner, r, {})
       \/ \E ps \in SUBSET Permission :
            \/ AskRoles(q, a, "create", Owner, NoRole, ps)
            \/ \E op \in {"add", "remove", "set"} :
                 AskRoles(q, a, op, Owner, r, ps)

Write(q) ==
  \/ Invite(q) \/ Activate(q) \/ Destroy(q) \/ SetRole(q)
  \/ (\E r \in Role : CreateRole(q, r)) \/ DeleteRole(q) \/ WriteMask(q)

Next ==
  \/ \E u \in User : RequestJoin(u)
  \/ \E q \in Request :
       Ask(q) \/ ReadMember(q) \/ ReadRole(q) \/ Write(q) \/ Fail(q)

Spec == Init /\ [][Next]_vars

-----------------------------------------------------------------------------
(* Properties *)

Op == {"none", "accept", "leave", "invite", "approve", "kick", "assign", "clear",
       "create", "delete", "add", "remove", "set"}

\* ... and roles are those of members, and exist.
TypeOK ==
  /\ member \in [User -> {"none", "PENDING", "REQUESTED", "ACTIVE"}]
  /\ roleID \in [User -> Role \cup {NoRole}]
  /\ role \in [Role -> {"new", "live", "gone"}]
  /\ mask \in [Role -> SUBSET Permission]
  /\ req \in [Request -> [at : {"idle", "checked", "read"}, op : Op,
                          user : User \cup {Owner},
                          role : Role \cup {NoRole}, perms : SUBSET Permission,
                          seen : SUBSET (Permission \cup Role \cup {NoRole}),
                          stale : BOOLEAN]]
  /\ agreed \in [User -> SUBSET {"user", "group", "role"}]
  /\ added \in [Role -> SUBSET Permission]
  /\ removed \in [Role -> SUBSET Permission]
  /\ overtaken \subseteq User \cup Role
  /\ \A u \in User :
       roleID[u] # NoRole => member[u] # "none" /\ role[roleID[u]] = "live"

\* An active member and the group have both agreed to this membership, not to
\* an earlier one, and a role was given to this membership.  The exception is
\* a row that was deleted and made anew under a request that had read it.
MembershipIsAgreed ==
  \A u \in User \ overtaken :
    /\ member[u] = "ACTIVE" => {"user", "group"} \subseteq agreed[u]
    /\ roleID[u] # NoRole => "role" \in agreed[u]

\* What a request on a mask has answered stays so until another is asked for
\* the contrary.  The exception is a mask that a request has written after
\* another had written it under its hands.
MaskAsAnswered ==
  \A r \in Role \ overtaken :
    added[r] \subseteq mask[r] /\ removed[r] \cap mask[r] = {}
=============================================================================

------------------------------- MODULE FsTree -------------------------------
(***************************************************************************)
(* The tree of file system nodes, kept twice: as rows of fs_node with a    *)
(* parentID in PostgreSQL and as relations of SpiceDB (owner, parent,      *)
(* block_inherit, is_trashed), which answer the permission checks.         *)
(*                                                                         *)
(* Every operation of FileSystemService runs as a request: it reads the    *)
(* rows it needs and applies the rules of FSNodePolicyService (Look), asks *)
(* SpiceDB (Ask), writes rows in a transaction (Write), writes SpiceDB     *)
(* while that transaction is open (Mirror), and commits (Commit).  The     *)
(* steps of requests interleave; the database and SpiceDB can fail.        *)
(*                                                                         *)
(* FsAclManagerService writes the relation parent with the folder as its   *)
(* resource and the child as its subject, while the schema walks from the  *)
(* resource of parent to its subject: what the schema calls the parents of *)
(* a node are its children.                                                *)
(*                                                                         *)
(* An operator whose name ends in Slip is a plausible mistake in the       *)
(* definition that follows it.                                             *)
(*                                                                         *)
(* The bytes of files, quotas and the erasure of trashed nodes are in      *)
(* FileStore and FsDeletion; the audit rows of grants are in AceOutbox.    *)
(***************************************************************************)
EXTENDS Naturals, Sequences, FiniteSets

CONSTANTS
  User,        \* users
  Request,     \* requests in flight at one time
  Role,        \* relations one user grants another on a node
  Null,        \* no node: the parent of a root, an absent parentID
  Seed,        \* trees there are at the start, see SeedAssumption
  MaxNode,     \* bound: nodes created, those of the seed included
  Plans        \* bound: how many calls of each kind one behaviour has

ASSUME RoleAssumption == Role \subseteq {"reader", "editor", "manager"}
ASSUME BoundAssumption == MaxNode \in Nat
ASSUME UserAssumption == IsFiniteSet(User)

\* A seed lists nodes in the order of their creation: the owner, the type, and
\* the position of the parent in the list, 0 for the root of the owner.
ASSUME SeedAssumption ==
  \A s \in Seed :
    /\ s \in Seq([by : User, type : {"folder", "file", "link"}, under : Nat])
    /\ Len(s) <= MaxNode
    /\ \A i \in 1 .. Len(s) : s[i].under < i

\* generateDeterministicID: one id for each owner and tag.
SystemID(tag, u) == [tag |-> tag, of |-> u]
Root(u) == SystemID("ROOT", u)
Trash(u) == SystemID("TRASH", u)

\* uuidv7(): a new id for each node a request creates.
FreshID(i) == [tag |-> "none", of |-> i]

SystemNode == {SystemID(tag, u) : tag \in {"ROOT", "TRASH"}, u \in User}
UserNode == {FreshID(i) : i \in 1 .. MaxNode}
NodeID == SystemNode \cup UserNode

ASSUME NullAssumption == Null \notin NodeID \cup User

IsSystem(n) == n \in SystemNode

Op == {"createFolder", "createFile", "createLink", "get", "update", "move",
       "softDelete", "restore", "purge"}

\* The calls of AccessControlController that share a node.
AclCall == {"grant", "revoke"}

ASSUME PlanAssumption == Plans \subseteq [Op \cup AclCall -> Nat]

Creates == {"createFolder", "createFile", "createLink"}

FSAction == {"CREATE_FOLDER", "CREATE_FILE", "CREATE_LINK", "READ", "MOVE",
             "UPDATE", "DELETE", "HARD_DELETE", "RESTORE"}

\* AssertOperation: one check of assertPermissionsBatch.
AssertOperation ==
  [action : FSAction, sourceID : NodeID \cup {Null},
   targetParentID : NodeID \cup {Null}, onlyParentCheck : BOOLEAN]

Phase == {"idle", "look", "ask", "open", "written", "mirrored"}

VARIABLES
  node,       \* ids of the rows of fs_node
  nodeType,   \* nodeType and isLink: "folder", "file" or "link"
  ownerID,    \* owner of a created node
  parentID,
  deletedAt,  \* nodes whose deletedAt is set
  oldPath,    \* metadata.trash.oldPath
  task,       \* fs_deletion_task of the node: "none", "soft_deleted", "pending"
  owner,      \* SpiceDB: <<node, user>>
  parent,     \* SpiceDB: <<resource, subject>>
  blocked,    \* SpiceDB: resources of block_inherit
  isTrashed,  \* SpiceDB: resources of is_trashed
  role,       \* SpiceDB: <<node, relation, user>>
  req,        \* requests
  minted,     \* ids given out so far
  coming,     \* calls of each kind still to come
  notes       \* history, see NoNotes

rowVars == <<node, nodeType, ownerID, parentID, deletedAt, oldPath, task>>
aclVars == <<owner, parent, blocked, isTrashed, role>>
vars == <<rowVars, aclVars, req, minted, coming, notes>>

Idle ==
  [phase |-> "idle", op |-> "get", user |-> Null,
   nodeID |-> Null, target |-> Null, inherit |-> FALSE, checks |-> <<>>,
   seenParent |-> Null, seenPath |-> Null, seenType |-> "folder",
   overtaken |-> FALSE]

\* torn: nodes of which SpiceDB keeps what the database did not commit;
\* crossed: nodes that got another parent between the read and the write of a
\* move or a soft delete; raced: a move committed although SpiceDB had changed since it asked.
NoNotes == [torn |-> {}, crossed |-> {}, raced |-> FALSE]

-----------------------------------------------------------------------------
(* Permissions: the schema of SpiceDB *)

\* The nodes one edge leads to, from its second node to its first.
Widened(low, edges) == low \cup {e[1] : e \in {d \in edges : d[2] \in low}}

\* The nodes the edges lead to from those of base, in any number of steps.
Reach(base, edges) ==
  LET reach[k \in Nat] == IF k = 0 THEN base ELSE Widened(reach[k - 1], edges)
  IN  reach[Cardinality(NodeID)]

\* A permission p defined as base + parent->p - barred: the nodes of base and
\* all from which the relation parent leads there over nodes with p, but for
\* the barred ones.
Inherited(base, barred) ==
  Reach(base, {d \in parent : d[2] \notin barred}) \ barred

Owned(u) == {n \in NodeID : <<n, u>> \in owner}

HasRole(u, roles) == {n \in NodeID : \E x \in roles : <<n, x, u>> \in role}

RecursiveOwned(u) == Inherited(Owned(u), {})

InTrash == isTrashed \cup {e[1] : e \in {d \in parent : d[2] \in isTrashed}}

Viewable(u) ==
  Inherited(RecursiveOwned(u) \cup HasRole(u, {"reader", "editor", "manager"}),
            blocked)

\* Slip: what is in the trash can still be edited.
EditableSlip(u) ==
  Inherited(RecursiveOwned(u) \cup HasRole(u, {"editor", "manager"}), blocked)

Editable(u) ==
  Inherited(RecursiveOwned(u) \cup HasRole(u, {"editor", "manager"}),
            blocked \cup InTrash)

Deletable(u) == (Owned(u) \cup HasRole(u, {"manager"})) \ InTrash

Restorable(u) == (RecursiveOwned(u) \cup HasRole(u, {"manager"})) \cap InTrash

\* Slip: the two nodes of the check are swapped.
LeadsToSlip(n, target) == target \in Inherited({n}, {})

\* The permission ancestors of the node n, asked for the target of a move.
LeadsTo(n, target) == n \in Inherited({target}, {})

-----------------------------------------------------------------------------
(* Rules on the rows: FSNodePolicyService.assertAllowed *)

Check(action, source, target, only) ==
  [action |-> action, sourceID |-> source, targetParentID |-> target,
   onlyParentCheck |-> only]

\* The target parent of a check: without one it is the root of the user, but
\* for a soft delete.
Goal(u, c) ==
  IF c.targetParentID # Null THEN c.targetParentID
  ELSE IF c.action = "DELETE" THEN Null ELSE Root(u)

\* The node the rules and the permissions are about.
Subject(u, c) == IF c.onlyParentCheck THEN Goal(u, c) ELSE c.sourceID

\* systemTagRules
TagAllows(n, action) ==
  IF n.tag = "ROOT"
  THEN action \in {"READ", "CREATE_LINK", "CREATE_FILE", "CREATE_FOLDER"}
  ELSE action = "READ"

TrashedRules(n, action) ==
  n \in deletedAt <=> action \in {"RESTORE", "HARD_DELETE"}

MoveRules(n, goal) ==
  /\ nodeType[goal] = "folder"
  /\ n # goal
  /\ parentID[n] # goal

Allowed(u, c) ==
  /\ Subject(u, c) \in node
  /\ c.targetParentID # Null => c.targetParentID \in node
  /\ TrashedRules(Subject(u, c), c.action)
  /\ ~ c.onlyParentCheck /\ Goal(u, c) # Null => MoveRules(c.sourceID, Goal(u, c))
  /\ IsSystem(Subject(u, c)) => TagAllows(Subject(u, c), c.action)

\* systemOwnershipCheck: no permission is asked for a system node of one's own.
OwnSystemNode(u, c) == IsSystem(Subject(u, c)) /\ Subject(u, c).of = u

\* caseRequirementsCollect: the permissions asked for, each on a node.
Requirements(u, c) ==
  LET n == Subject(u, c)
  IN  CASE c.action = "MOVE" -> {<<"edit", n>>, <<"edit", Goal(u, c)>>}
        [] c.action \in {"CREATE_FOLDER", "CREATE_FILE", "CREATE_LINK", "UPDATE"} ->
             {<<"edit", n>>}
        [] c.action = "READ" -> {<<"view", n>>}
        [] c.action = "DELETE" -> {<<"delete", n>>}
        [] c.action \in {"RESTORE", "HARD_DELETE"} -> {<<"restore", n>>}

\* checkBulkPermissions, fully consistent: the relations as they are.
Permits(u, permission, n) ==
  CASE permission = "view" -> n \in Viewable(u)
    [] permission = "edit" -> n \in Editable(u)
    [] permission = "delete" -> n \in Deletable(u)
    [] permission = "restore" -> n \in Restorable(u)

\* RequirementExecutionEngineService.execute
Granted(u, c) ==
  \/ OwnSystemNode(u, c)
  \/ /\ \A q \in Requirements(u, c) : Permits(u, q[1], q[2])
     /\ c.action = "MOVE" => ~ LeadsTo(c.sourceID, Goal(u, c))

-----------------------------------------------------------------------------
(* Requests *)

\* The checks an operation starts with; to is the target of a link.
ChecksOf(op, n, p, to) ==
  CASE op = "createFolder" -> <<Check("CREATE_FOLDER", Null, p, TRUE)>>
    [] op = "createFile" -> <<Check("CREATE_FILE", Null, p, TRUE)>>
    [] op = "createLink" -> <<Check("READ", to, Null, FALSE),
                              Check("CREATE_LINK", p, Null, FALSE)>>
    [] op = "get" -> <<Check("READ", n, Null, FALSE)>>
    [] op = "update" -> <<Check("UPDATE", n, Null, FALSE)>>
    [] op = "move" -> <<Check("MOVE", n, p, FALSE)>>
    [] op = "softDelete" -> <<Check("DELETE", n, Null, FALSE)>>
    [] op = "restore" -> <<Check("RESTORE", n, Null, FALSE)>>
    [] op = "purge" -> <<Check("HARD_DELETE", n, Null, FALSE)>>

\* The nodes of a seed, each under its parent, with the relations createNode
\* wrote for it, and nothing under way.
Seeded(s) ==
  LET ids == {FreshID(i) : i \in 1 .. Len(s)}
      under(n) == IF s[n.of].under = 0 THEN Root(s[n.of].by)
                  ELSE FreshID(s[n.of].under)
  IN  /\ node = ids \cup {Root(s[i].by) : i \in 1 .. Len(s)}
      /\ nodeType = [n \in NodeID |-> IF n \in ids THEN s[n.of].type ELSE "folder"]
      /\ ownerID = [n \in NodeID |-> IF n \in ids THEN s[n.of].by ELSE Null]
      /\ parentID = [n \in NodeID |-> IF n \in ids THEN under(n) ELSE Null]
      /\ owner = {<<n, s[n.of].by>> : n \in ids}
      /\ parent = {<<under(n), n>> : n \in ids}
      /\ minted = Len(s)

Init ==
  /\ \E s \in Seed : Seeded(s)
  /\ deletedAt = {} /\ blocked = {} /\ isTrashed = {} /\ role = {}
  /\ oldPath = [n \in NodeID |-> Null]
  /\ task = [n \in NodeID |-> "none"]
  /\ req = [r \in Request |-> Idle]
  /\ coming \in Plans
  /\ notes = NoNotes

Start(r, u, op, n, p, inherit, to) ==
  /\ req[r].phase = "idle"
  /\ coming[op] > 0
  /\ coming' = [coming EXCEPT ![op] = @ - 1]
  /\ req' = [req EXCEPT ![r] =
       [Idle EXCEPT !.phase = "look", !.op = op, !.user = u, !.nodeID = n,
                    !.target = p, !.inherit = inherit,
                    !.checks = ChecksOf(op, n, p, to)]]
  /\ UNCHANGED <<rowVars, aclVars, minted, notes>>

\* The routes of FileSystemController.  The DTOs of files, links, updates and
\* moves take ids of version 7 only, those of created nodes; a folder may name
\* any parent, the other routes any node.
CreateFolder(r, u, p) == Start(r, u, "createFolder", Null, p, FALSE, Null)

CreateFile(r, u, p) == Start(r, u, "createFile", Null, p, FALSE, Null)

\* Without a parent resolveCoreCheck refuses: a systemTag is never given.
CreateLink(r, u, p, to) == Start(r, u, "createLink", Null, p, FALSE, to)

Get(r, u, n) == Start(r, u, "get", n, Null, FALSE, Null)

Update(r, u, n, inherit) == Start(r, u, "update", n, Null, inherit, Null)

Move(r, u, n, p) == Start(r, u, "move", n, p, FALSE, Null)

SoftDelete(r, u, n) == Start(r, u, "softDelete", n, Null, FALSE, Null)

Restore(r, u, n) == Start(r, u, "restore", n, Null, FALSE, Null)

Purge(r, u, n) == Start(r, u, "purge", n, Null, FALSE, Null)

End(r) == req' = [req EXCEPT ![r] = Idle]

\* SystemFolderService.ensure, a statement of its own: a row that is there
\* stays (ignoreDuplicates), and the root comes with the trash.
Ensure(u, n) ==
  /\ n \notin node
  /\ node' = node \cup {Root(u), n}
  /\ parentID' = [parentID EXCEPT ![n] = IF n = Root(u) THEN Null ELSE Root(u)]
  /\ UNCHANGED <<nodeType, ownerID, deletedAt, oldPath, task, aclVars, req,
                 minted, coming, notes>>

-----------------------------------------------------------------------------
(* Checks *)

\* assertPermissionsBatch makes the root when a check names no target.
NeedsRoot(r) ==
  /\ req[r].phase = "look"
  /\ Head(req[r].checks).targetParentID = Null

EnsureRoot(r) == NeedsRoot(r) /\ Ensure(req[r].user, Root(req[r].user))

\* The row the service goes on with is the one of its first check: a restore
\* keeps it when it is checked as a move, and a creation has none.
Keeps(r) ==
  \/ req[r].op = "restore" /\ Head(req[r].checks).action = "MOVE"
  \/ Head(req[r].checks).sourceID = Null

\* The rows of a check are read and the rules applied to them.
Look(r) ==
  LET c == Head(req[r].checks)
      n == c.sourceID
  IN  /\ req[r].phase = "look"
      /\ NeedsRoot(r) => Root(req[r].user) \in node
      /\ Allowed(req[r].user, c)
      /\ req' = [req EXCEPT
           ![r].phase = "ask",
           ![r].seenParent = IF Keeps(r) THEN @ ELSE parentID[n],
           ![r].seenPath = IF Keeps(r) THEN @ ELSE oldPath[n],
           ![r].seenType = IF Keeps(r) THEN @ ELSE nodeType[n]]
      /\ UNCHANGED <<rowVars, aclVars, minted, coming, notes>>

\* A rule refuses, or the database or SpiceDB fails.
Refuse(r) ==
  /\ req[r].phase \in {"look", "ask", "open"}
  /\ End(r)
  /\ UNCHANGED <<rowVars, aclVars, minted, coming, notes>>

\* What the service still checks when SpiceDB has granted the first check: a
\* restore is checked as a move to where the node was.
ChecksAfter(r) ==
  LET q == req[r]
      first == Head(q.checks)
  IN  IF first.action = "RESTORE" /\ q.seenPath # Null
      THEN <<Check("MOVE", q.nodeID, q.seenPath, FALSE)>>
      ELSE Tail(q.checks)

\* AssertTargetService.assert: a link leads to a file.
TargetRules(r) ==
  req[r].op = "createLink" /\ Head(req[r].checks).action = "READ"
    => req[r].seenType = "file"

Ask(r) ==
  LET rest == ChecksAfter(r)
  IN  /\ req[r].phase = "ask"
      /\ Granted(req[r].user, Head(req[r].checks))
      /\ TargetRules(r)
      /\ IF rest # <<>>
         THEN req' = [req EXCEPT ![r].phase = "look", ![r].checks = rest]
         ELSE IF req[r].op = "get"
              THEN End(r)
              ELSE req' = [req EXCEPT ![r].phase = "open", ![r].checks = <<>>]
      /\ UNCHANGED <<rowVars, aclVars, minted, coming, notes>>

-----------------------------------------------------------------------------
(* Transactions *)

InTx(q) == req[q].phase \in {"written", "mirrored"}

WritesRow(op) == op \in {"update", "move", "softDelete", "restore"}
WritesTask(op) == op \in {"softDelete", "restore", "purge"}

\* No open transaction holds the row or the task the request writes.
Unlocked(r) ==
  \A q \in Request \ {r} :
    InTx(q) /\ req[q].nodeID = req[r].nodeID =>
      /\ ~ (WritesRow(req[q].op) /\ WritesRow(req[r].op))
      /\ ~ (WritesTask(req[q].op) /\ WritesTask(req[r].op))

\* The folder a created or moved node goes to.
NewParent(r) == IF req[r].target = Null THEN Root(req[r].user) ELSE req[r].target

EnsureTrash(r) ==
  /\ req[r].phase = "open" /\ req[r].op = "softDelete"
  /\ req[r].seenType # "link"
  /\ Ensure(req[r].user, Trash(req[r].user))

\* Slip: the task of a soft delete is overwritten.
TaskRulesSlip(r) == req[r].op = "restore" => task[req[r].nodeID] = "soft_deleted"

\* The task of the node allows the operation: its nodeID is unique, and
\* DeletionTaskService.restore looks for a soft deleted one.
TaskRules(r) ==
  LET t == task[req[r].nodeID]
  IN  /\ req[r].op \in {"softDelete", "purge"} => t = "none"
      /\ req[r].op = "restore" => t = "soft_deleted"

\* The transaction is opened and the row is written.
WriteRow(r) ==
  LET q == req[r]
  IN  /\ q.phase = "open" /\ q.op \notin Creates
      /\ q.op = "softDelete" => q.seenType # "link" /\ Trash(q.user) \in node
      /\ q.op = "move" /\ q.target # Null => q.target \in node
      /\ Unlocked(r)
      /\ TaskRules(r)
      /\ req' = [req EXCEPT ![r].phase = "written"]
      /\ notes' = [notes EXCEPT !.crossed =
           IF q.op \in {"move", "softDelete"} /\ parentID[q.nodeID] # q.seenParent
           THEN @ \cup {q.nodeID} ELSE @]
      /\ UNCHANGED <<rowVars, aclVars, minted, coming>>

\* The same for a new node, under an id of its own.
WriteNew(r) ==
  LET q == req[r]
  IN  /\ q.phase = "open" /\ q.op \in Creates
      /\ minted < MaxNode
      /\ NewParent(r) \in node
      /\ minted' = minted + 1
      /\ req' = [req EXCEPT ![r].phase = "written",
                            ![r].nodeID = FreshID(minted + 1)]
      /\ UNCHANGED <<rowVars, aclVars, coming, notes>>

\* SoftDeleteService destroys a link at once; the foreign key takes it out of
\* the rows below it, which wait for the transactions that write them.
DestroyLink(r) ==
  LET n == req[r].nodeID
  IN  /\ req[r].phase = "open" /\ req[r].op = "softDelete"
      /\ req[r].seenType = "link"
      /\ \A q \in Request \ {r} :
           InTx(q) => n \notin {req[q].nodeID, req[q].target, parentID[req[q].nodeID]}
      /\ node' = node \ {n}
      /\ parentID' = [m \in NodeID |->
                        IF m = n \/ parentID[m] = n THEN Null ELSE parentID[m]]
      /\ End(r)
      /\ UNCHANGED <<nodeType, ownerID, deletedAt, oldPath, task, aclVars,
                     minted, coming, notes>>

-----------------------------------------------------------------------------
(* FsAclManagerService: the relations of one operation *)

\* Slip: the relation to the old folder is left.
ReparentedSlip(n, old, new) == parent \cup {<<new, n>>}

\* changeParent
Reparented(n, old, new) == (parent \ {<<old, n>>}) \cup {<<new, n>>}

\* createNode
GrantNode(r) ==
  /\ req[r].op \in Creates
  /\ owner' = owner \cup {<<req[r].nodeID, req[r].user>>}
  /\ parent' = parent \cup {<<NewParent(r), req[r].nodeID>>}
  /\ UNCHANGED <<blocked, isTrashed, role>>

\* Slip: a missing parent is granted like any other.
ChangeParentSlip(r) ==
  /\ req[r].op = "move"
  /\ parent' = Reparented(req[r].nodeID, req[r].seenParent, req[r].target)
  /\ UNCHANGED <<owner, blocked, isTrashed, role>>

\* SpiceDB takes no empty id: a move without a target, or of a node whose
\* parentID is null, fails here.
ChangeParent(r) ==
  /\ req[r].op = "move"
  /\ req[r].seenParent # Null /\ req[r].target # Null
  /\ parent' = Reparented(req[r].nodeID, req[r].seenParent, req[r].target)
  /\ UNCHANGED <<owner, blocked, isTrashed, role>>

\* switchInheritPermission
SwitchInherit(r) ==
  /\ req[r].op = "update"
  /\ blocked' = IF req[r].inherit THEN blocked \cup {req[r].nodeID}
                ELSE blocked \ {req[r].nodeID}
  /\ UNCHANGED <<owner, parent, isTrashed, role>>

\* Slip: a restore leaves the mark of the soft delete.
MarkTrashedSlip(r) ==
  /\ req[r].op \in {"softDelete", "restore"}
  /\ isTrashed' = isTrashed \cup
       (IF req[r].op = "softDelete" THEN {req[r].nodeID} ELSE {})
  /\ UNCHANGED <<owner, parent, blocked, role>>

\* The grant of SoftDeleteService and the revoke of RestoreService, which is
\* there when the changeParent after it fails, see CommitRestore.
MarkTrashed(r) ==
  /\ req[r].op \in {"softDelete", "restore"}
  /\ isTrashed' = IF req[r].op = "softDelete" THEN isTrashed \cup {req[r].nodeID}
                  ELSE isTrashed \ {req[r].nodeID}
  /\ UNCHANGED <<owner, parent, blocked, role>>

WriteAcl(r) ==
  GrantNode(r) \/ ChangeParent(r) \/ SwitchInherit(r) \/ MarkTrashed(r)

\* q has asked SpiceDB and not yet committed when r changes what it was told.
Overtakes(r, q) ==
  /\ req[q].phase \in {"open", "written", "mirrored"}
  /\ \/ req[r].op = "move" /\ req[q].op = "move"
     \/ req[r].op = "softDelete" /\ NewParent(q) = req[r].nodeID

\* executeBatch succeeds.
Mirror(r) ==
  /\ req[r].phase = "written"
  /\ WriteAcl(r)
  /\ req' = [q \in Request |->
       IF q = r THEN [req[r] EXCEPT !.phase = "mirrored"]
       ELSE [req[q] EXCEPT !.overtaken = @ \/ Overtakes(r, q)]]
  /\ UNCHANGED <<rowVars, minted, coming, notes>>

\* executeBatch writes but its answer is lost: the caller rolls back.
MirrorLost(r) ==
  /\ req[r].phase = "written"
  /\ WriteAcl(r)
  /\ req' = [q \in Request |->
       IF q = r THEN Idle
       ELSE [req[q] EXCEPT !.overtaken = @ \/ Overtakes(r, q)]]
  /\ notes' = [notes EXCEPT !.torn = @ \cup {req[r].nodeID}]
  /\ UNCHANGED <<rowVars, minted, coming>>

\* The transaction is rolled back: a statement, executeBatch or the commit
\* fails, or the process dies.  SpiceDB keeps what was written to it.
Rollback(r) ==
  /\ InTx(r)
  /\ End(r)
  /\ notes' = [notes EXCEPT !.torn =
       IF req[r].phase = "mirrored" THEN @ \cup {req[r].nodeID} ELSE @]
  /\ UNCHANGED <<rowVars, aclVars, minted, coming>>

-----------------------------------------------------------------------------
(* Commits *)

\* Slip: the commit does not wait for the relations.
MayCommitSlip(r) == InTx(r)

\* Every relation is written before the commit; a purge has none.
MayCommit(r) ==
  req[r].phase = (IF req[r].op = "purge" THEN "written" ELSE "mirrored")

TypeOf(op) ==
  CASE op = "createFolder" -> "folder"
    [] op = "createFile" -> "file"
    [] op = "createLink" -> "link"

CommitNew(r) ==
  LET n == req[r].nodeID
  IN  /\ req[r].op \in Creates
      /\ node' = node \cup {n}
      /\ nodeType' = [nodeType EXCEPT ![n] = TypeOf(req[r].op)]
      /\ ownerID' = [ownerID EXCEPT ![n] = req[r].user]
      /\ parentID' = [parentID EXCEPT ![n] = NewParent(r)]
      /\ UNCHANGED <<deletedAt, oldPath, task>>

CommitMove(r) ==
  /\ req[r].op = "move"
  /\ parentID' = [parentID EXCEPT ![req[r].nodeID] =
                    IF req[r].nodeID \in node THEN req[r].target ELSE @]
  /\ UNCHANGED <<node, nodeType, ownerID, deletedAt, oldPath, task>>

\* The name and the other fields of an update are not kept here.
CommitUpdate(r) == req[r].op = "update" /\ UNCHANGED rowVars

CommitSoftDelete(r) ==
  LET n == req[r].nodeID
  IN  /\ req[r].op = "softDelete"
      /\ parentID' = [parentID EXCEPT ![n] = Trash(req[r].user)]
      /\ deletedAt' = deletedAt \cup {n}
      /\ oldPath' = [oldPath EXCEPT ![n] = req[r].seenParent]
      /\ task' = [task EXCEPT ![n] = "soft_deleted"]
      /\ UNCHANGED <<node, nodeType, ownerID>>

\* Without a folder changeParent is given no parents and does nothing.  With
\* one it is given the node as the old parent and no new one, whose empty id
\* SpiceDB does not take: all that is left is to roll back.
CommitRestore(r) ==
  LET n == req[r].nodeID
  IN  /\ req[r].op = "restore" /\ req[r].seenPath = Null
      /\ parentID' = [parentID EXCEPT ![n] = req[r].seenPath]
      /\ deletedAt' = deletedAt \ {n}
      /\ oldPath' = [oldPath EXCEPT ![n] = Null]
      /\ task' = [task EXCEPT ![n] = "none"]
      /\ UNCHANGED <<node, nodeType, ownerID>>

CommitPurge(r) ==
  /\ req[r].op = "purge"
  /\ task' = [task EXCEPT ![req[r].nodeID] = "pending"]
  /\ UNCHANGED <<node, nodeType, ownerID, parentID, deletedAt, oldPath>>

Commit(r) ==
  /\ MayCommit(r)
  /\ \/ CommitNew(r) \/ CommitMove(r) \/ CommitUpdate(r)
     \/ CommitSoftDelete(r) \/ CommitRestore(r) \/ CommitPurge(r)
  /\ End(r)
  /\ notes' = [notes EXCEPT !.raced =
                 @ \/ (req[r].op = "move" /\ req[r].overtaken)]
  /\ UNCHANGED <<aclVars, minted, coming>>

-----------------------------------------------------------------------------
\* AccessControlController: a relation on a created node is granted, revoked.
Share(n, x, u) ==
  /\ coming["grant"] > 0
  /\ coming' = [coming EXCEPT !["grant"] = @ - 1]
  /\ role' = role \cup {<<n, x, u>>}
  /\ UNCHANGED <<rowVars, owner, parent, blocked, isTrashed, req, minted, notes>>

Unshare(n, x, u) ==
  /\ coming["revoke"] > 0
  /\ coming' = [coming EXCEPT !["revoke"] = @ - 1]
  /\ role' = role \ {<<n, x, u>>}
  /\ UNCHANGED <<rowVars, owner, parent, blocked, isTrashed, req, minted, notes>>

\* The ids of version 7 and of version 5 a user can have been given.
V7 == {FreshID(i) : i \in 1 .. minted}
Known == V7 \cup SystemNode

Begin(r, u) ==
  \/ \E p \in Known \cup {Null} : CreateFolder(r, u, p)
  \/ \E p \in V7 \cup {Null} : CreateFile(r, u, p)
  \/ \E p, to \in V7 : CreateLink(r, u, p, to)
  \/ \E n \in Known : Get(r, u, n) \/ SoftDelete(r, u, n)
                       \/ Restore(r, u, n) \/ Purge(r, u, n)
  \/ \E n \in V7, inherit \in BOOLEAN : Update(r, u, n, inherit)
  \/ \E n \in V7, p \in V7 \cup {Null} : Move(r, u, n, p)

Step(r) ==
  \/ EnsureRoot(r)
  \/ Look(r)
  \/ Ask(r)
  \/ Refuse(r)
  \/ EnsureTrash(r)
  \/ WriteRow(r)
  \/ WriteNew(r)
  \/ DestroyLink(r)
  \/ Mirror(r)
  \/ MirrorLost(r)
  \/ Rollback(r)
  \/ Commit(r)

Next ==
  \/ \E r \in Request, u \in User : Begin(r, u)
  \/ \E r \in Request : Step(r)
  \/ \E n \in V7, x \in Role, u \in User : Share(n, x, u) \/ Unshare(n, x, u)

Spec == Init /\ [][Next]_vars

-----------------------------------------------------------------------------
(* Properties *)

TypeOK ==
  /\ node \subseteq NodeID
  /\ nodeType \in [NodeID -> {"folder", "file", "link"}]
  /\ ownerID \in [NodeID -> User \cup {Null}]
  /\ parentID \in [NodeID -> NodeID \cup {Null}]
  /\ deletedAt \subseteq UserNode
  /\ oldPath \in [NodeID -> NodeID \cup {Null}]
  /\ task \in [NodeID -> {"none", "soft_deleted", "pending"}]
  /\ owner \subseteq UserNode \X User
  /\ parent \subseteq NodeID \X UserNode
  /\ blocked \subseteq UserNode
  /\ isTrashed \subseteq UserNode
  /\ role \subseteq UserNode \X Role \X User
  /\ req \in [Request ->
       [phase : Phase, op : Op, user : User \cup {Null},
        nodeID : NodeID \cup {Null}, target : NodeID \cup {Null},
        inherit : BOOLEAN, checks : Seq(AssertOperation),
        seenParent : NodeID \cup {Null}, seenPath : NodeID \cup {Null},
        seenType : {"folder", "file", "link"}, overtaken : BOOLEAN]]
  /\ minted \in 0 .. MaxNode
  /\ coming \in [Op \cup AclCall -> Nat]
  /\ notes \in [torn : SUBSET NodeID, crossed : SUBSET NodeID, raced : BOOLEAN]

Created == node \cap UserNode

\* A created node is never without the relation that makes it its owner's: the
\* grant of createNode precedes the commit of the row.
RowsHaveOwner ==
  \A n \in Created : <<n, ownerID[n]>> \in owner

\* No open transaction is about the node, and none left SpiceDB with what the
\* database does not have.
Settled(n) ==
  /\ n \notin notes.torn
  /\ \A r \in Request : InTx(r) => req[r].nodeID # n

\* Where a node is for SpiceDB: a node in the trash stays where it was.
Home(n) == IF n \in deletedAt THEN oldPath[n] ELSE parentID[n]

\* The relation parent mirrors the rows: SpiceDB knows one folder for a node
\* and it is the one of its row, or was before the trash, whatever fails in
\* between; two requests that read the same row and then both change it
\* (crossed) leave two folders behind.
ParentMirror ==
  \A n \in Created :
    Settled(n) /\ n \notin notes.crossed /\ Home(n) # Null =>
      {p \in NodeID : <<p, n>> \in parent} = {Home(n)}

\* The rows as edges from a folder to what is in it.
RowEdges == {<<parentID[m], m>> : m \in {n \in NodeID : parentID[n] # Null}}

\* The nodes above n for the rows.
Above(n) == Reach({parentID[n]} \ {Null}, RowEdges)

MovesEnded ==
  /\ ~ notes.raced /\ notes.torn = {}
  /\ \A r \in Request : ~ (InTx(r) /\ req[r].op = "move")

\* A move is allowed by what SpiceDB says, which is written before the rows:
\* still the rows hold no folder that is its own descendant once the moves
\* have ended, unless one committed although SpiceDB had changed since it
\* asked (raced) or SpiceDB has kept what was rolled back (torn).
Acyclic ==
  MovesEnded => \A n \in Created : n \notin Above(n)

\* The row, the deletion task and SpiceDB agree on what is in the trash.
TrashAgrees ==
  \A n \in Created : Settled(n) =>
    /\ n \in deletedAt <=> n \in isTrashed
    /\ n \in deletedAt <=> task[n] = "soft_deleted"

\* Nothing gets into a folder that is in the trash, for the rows and for
\* SpiceDB, unless the folder was deleted when the request had already asked.
NoneIntoTrash ==
  [][\A n \in node' \ (deletedAt' \cup notes.crossed) :
       LET p == parentID'[n]
       IN  p \in deletedAt \cap isTrashed /\ (n \notin node \/ parentID[n] # p) =>
             \E r \in Request : req[r].overtaken]_vars

\* What is in the trash and came from a folder stays there: a restore into a
\* folder is refused or fails in SpiceDB, and a purge meets the task of the
\* soft delete.  Only a soft delete that did not see an earlier one (crossed)
\* can be undone.
TrashIsFinal ==
  [][\A n \in (deletedAt \cap node) \ notes.crossed : oldPath[n] # Null =>
       n \in deletedAt' /\ task'[n] = "soft_deleted"]_vars

\* What the schema says of in_trash (is_trashed + parent->is_trashed, the
\* relation of inheritance): a node is in the trash for SpiceDB when it, or
\* the folder it is in, is in the trash.
InTrashWithFolder ==
  (\A r \in Request : req[r].phase = "idle") /\ notes.torn = {} =>
    \A n \in Created : n \in InTrash => {n, Home(n)} \cap deletedAt # {}
=============================================================================

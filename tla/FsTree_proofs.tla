--------------------------- MODULE FsTree_proofs ---------------------------
(***************************************************************************)
(* Proofs about FsTree, for all users, requests, roles, seeds, bounds and  *)
(* plans.                                                                  *)
(***************************************************************************)
EXTENDS FsTree, SequenceTheorems, TLAPS

RequestRecord ==
  [phase : Phase, op : Op, user : User \cup {Null},
   nodeID : NodeID \cup {Null}, target : NodeID \cup {Null},
   inherit : BOOLEAN, checks : Seq(AssertOperation),
   seenParent : NodeID \cup {Null}, seenPath : NodeID \cup {Null},
   seenType : {"folder", "file", "link"}, overtaken : BOOLEAN]

TrashNode == {Trash(u) : u \in User}

Asked == {"open", "written", "mirrored"}

\* The row of the request's node has been read.
HasLooked(q) == q.phase \in {"ask"} \cup Asked \/ q.seenPath # Null

\* The check that is under way is the one of the operation.
ChecksFit(q) ==
  LET c == Head(q.checks)
  IN  /\ q.checks # <<>>
      /\ q.op \notin Creates =>
           /\ c.sourceID = q.nodeID /\ ~ c.onlyParentCheck
           /\ Tail(q.checks) = <<>>
      /\ q.op \in {"softDelete", "restore", "purge"} =>
           c.action \in {"DELETE", "RESTORE", "HARD_DELETE", "MOVE"}
      /\ q.op = "restore" =>
           \/ c.action = "RESTORE"
           \/ c.action = "MOVE" /\ q.seenPath # Null
      /\ q.op = "softDelete" => c.action = "DELETE"
      /\ q.op = "move" => c.action = "MOVE" /\ c.targetParentID = q.target
      /\ q.op \in {"createFolder", "createFile"} =>
           /\ c.onlyParentCheck /\ c.targetParentID = q.target
           /\ c.action \in {"CREATE_FOLDER", "CREATE_FILE"}
           /\ Tail(q.checks) = <<>>
      /\ q.op = "createLink" =>
           \/ /\ c.action = "READ"
              /\ Tail(q.checks) = <<Check("CREATE_LINK", q.target, Null, FALSE)>>
           \/ q.checks = <<Check("CREATE_LINK", q.target, Null, FALSE)>>

\* What a request in a phase is about.
Fits(q) ==
  /\ q.phase # "idle" => q.user \in User
  /\ q.phase # "idle" /\ q.op \in {"update", "move"} => q.nodeID \in UserNode
  /\ q.phase # "idle" /\ q.op = "move" => q.target \in UserNode \cup {Null}
  /\ q.phase # "idle" /\ q.op = "createLink" => q.target \in UserNode
  /\ q.phase \in {"look", "ask"} => ChecksFit(q)
  /\ q.phase \in {"look", "ask", "open"} /\ q.op \in Creates => q.nodeID = Null
  /\ q.phase \in {"ask"} \cup Asked /\ q.op \in {"softDelete", "restore", "purge"} =>
       q.nodeID \in UserNode
  /\ q.phase \in {"ask"} \cup Asked /\ q.op \in Creates =>
       q.target \notin TrashNode
  /\ q.phase \in {"written", "mirrored"} => q.nodeID \in UserNode
  /\ q.phase \in Asked => q.op # "get"

RequestsFit == \A r \in Request : Fits(req[r])

\* The relation of the owner is there before the row.
MirroredHasOwner ==
  \A r \in Request : req[r].phase = "mirrored" /\ req[r].op \in Creates =>
    <<req[r].nodeID, req[r].user>> \in owner

\* Open transactions exclude each other on a row and on a task.
Locks ==
  \A r, q \in Request :
    r # q /\ InTx(r) /\ InTx(q) /\ req[r].nodeID = req[q].nodeID =>
      /\ ~ (WritesRow(req[q].op) /\ WritesRow(req[r].op))
      /\ ~ (WritesTask(req[q].op) /\ WritesTask(req[r].op))

\* The row and the task agree, and an open transaction has what it found.
TaskOfRow ==
  /\ \A n \in UserNode : n \in deletedAt <=> task[n] = "soft_deleted"
  /\ \A r \in Request : InTx(r) => TaskRules(r)

MirroredIn(n, ops) ==
  \E r \in Request :
    req[r].phase = "mirrored" /\ req[r].nodeID = n /\ req[r].op \in ops

\* SpiceDB marks what is deleted, but where a transaction is open.
Marked ==
  /\ \A n \in UserNode \ notes.torn :
       MirroredIn(n, {"softDelete", "restore"}) \/ (n \in deletedAt <=> n \in isTrashed)
  /\ \A r \in Request :
       req[r].phase = "mirrored" /\ req[r].nodeID \notin notes.torn =>
         /\ req[r].op = "softDelete" => req[r].nodeID \in isTrashed
         /\ req[r].op = "restore" => req[r].nodeID \notin isTrashed

Numbered(r) ==
  HasLooked(req[r]) /\ req[r].nodeID \in UserNode => req[r].nodeID.of <= minted

\* Ids are used once.
IdsAreFresh ==
  /\ \A n \in (node \cup deletedAt) \cap UserNode : n.of <= minted
  /\ \A e \in parent : e[2].of <= minted
  /\ \A r \in Request : Numbered(r)

Par(n) == {p \in NodeID : <<p, n>> \in parent}

\* What r makes is not known to q.
Apart(r, q) ==
  InTx(r) /\ req[r].op \in Creates /\ HasLooked(req[q]) =>
    req[q].nodeID # req[r].nodeID

\* What an open creation makes is not known to any other request.
NewIsAlone ==
  /\ \A r, q \in Request : r # q => Apart(r, q)
  /\ \A r \in Request : InTx(r) /\ req[r].op \in Creates =>
       /\ req[r].nodeID \notin node \cup deletedAt
       /\ req[r].phase = "written" => Par(req[r].nodeID) = {}
       /\ req[r].phase = "mirrored" => Par(req[r].nodeID) = {NewParent(r)}

Uncrossed == Created \ notes.crossed

\* The places a request has read are not in a trash.
SeesNoTrash(r) ==
  req[r].nodeID \notin notes.crossed =>
    /\ req[r].op \in {"move", "softDelete"} /\ req[r].phase \in {"ask"} \cup Asked =>
         req[r].seenParent \notin TrashNode
    /\ req[r].op = "restore" => req[r].seenPath \notin TrashNode

\* What is deleted is in a trash, and nothing else is.
TrashHome ==
  /\ \A n \in Uncrossed :
       /\ n \in deletedAt => parentID[n] \in TrashNode
       /\ n \notin deletedAt => parentID[n] \notin TrashNode
  /\ \A n \in UserNode \ notes.crossed : oldPath[n] \notin TrashNode
  /\ \A r \in Request : SeesNoTrash(r)

\* A move or a soft delete finds the parent it has read.
HeldParent ==
  \A r \in Request :
    InTx(r) /\ req[r].op \in {"move", "softDelete"} /\ req[r].nodeID \in Uncrossed =>
      /\ parentID[req[r].nodeID] = req[r].seenParent
      /\ req[r].nodeID \notin deletedAt

MirroredMove ==
  \A r \in Request : req[r].phase = "mirrored" /\ req[r].op = "move" =>
    req[r].seenParent # Null /\ req[r].target # Null

RestoresOrphan(r) ==
  LET q == req[r]
      n == q.nodeID
      kept == n \in deletedAt /\ oldPath[n] = q.seenPath
  IN  q.op = "restore" /\ n \in Uncrossed =>
        /\ q.phase = "look" /\ q.seenPath # Null => kept
        /\ q.phase = "ask" =>
             /\ Head(q.checks).action = "RESTORE"
             /\ IF q.seenPath # Null THEN kept ELSE Home(n) = Null
        /\ q.phase \in Asked => q.seenPath = Null /\ Home(n) = Null

\* Only an orphan is ever restored.
OrphansAreRestored == \A r \in Request : RestoresOrphan(r)

\* SpiceDB has the folder of the row.
Mirrors ==
  /\ \A n \in Uncrossed \ notes.torn :
       MirroredIn(n, {"move"}) \/ Home(n) = Null \/ Par(n) = {Home(n)}
  /\ \A r \in Request :
       req[r].phase = "mirrored" /\ req[r].op = "move"
       /\ req[r].nodeID \in Uncrossed \ notes.torn => Par(req[r].nodeID) = {req[r].target}

KeepsGoal(r) ==
  req[r].phase \in Asked /\ req[r].op \in Creates \cup {"move"}
  /\ ~ req[r].overtaken => NewParent(r) \notin isTrashed

\* A request that was not overtaken puts nothing into the trash.
GoalIsKept == \A r \in Request : KeepsGoal(r)

\* The inductive invariant.
IInv ==
  /\ TypeOK
  /\ RequestsFit
  /\ RowsHaveOwner /\ MirroredHasOwner
  /\ Locks /\ TaskOfRow /\ Marked
  /\ IdsAreFresh /\ NewIsAlone
  /\ TrashHome /\ HeldParent /\ MirroredMove /\ OrphansAreRestored /\ Mirrors
  /\ GoalIsKept

-----------------------------------------------------------------------------
(* Ids, checks and requests *)

LEMMA Ids ==
  /\ SystemNode \subseteq NodeID /\ UserNode \subseteq NodeID
  /\ SystemNode \cap UserNode = {}
  /\ NodeID = SystemNode \cup UserNode
  /\ TrashNode \subseteq SystemNode
  /\ \A u \in User : Root(u) \in SystemNode \ TrashNode /\ Trash(u) \in TrashNode
  /\ Null \notin NodeID
<1>1. SystemNode \cap UserNode = {}
  BY DEF SystemNode, UserNode, SystemID, FreshID
<1>2. \A u \in User : Root(u) \in SystemNode /\ Trash(u) \in SystemNode
  BY DEF SystemNode, Root, Trash
<1>3. \A u, v \in User : Root(u) # Trash(v)
  BY DEF Root, Trash, SystemID
<1>. QED BY <1>1, <1>2, <1>3, NullAssumption DEF NodeID, TrashNode

LEMMA FreshIds ==
  /\ \A i \in 1 .. MaxNode : FreshID(i) \in UserNode /\ FreshID(i).of = i
  /\ \A n \in UserNode : n.of \in 1 .. MaxNode /\ n = FreshID(n.of)
  /\ \A n \in UserNode : ~ IsSystem(n)
<1>1. \A i \in 1 .. MaxNode : FreshID(i) \in UserNode /\ FreshID(i).of = i
  BY DEF UserNode, FreshID
<1>2. \A n \in UserNode : n.of \in 1 .. MaxNode /\ n = FreshID(n.of)
  BY DEF UserNode, FreshID
<1>. QED BY <1>1, <1>2, Ids DEF IsSystem

RowsTyped ==
  /\ node \subseteq NodeID
  /\ nodeType \in [NodeID -> {"folder", "file", "link"}]
  /\ ownerID \in [NodeID -> User \cup {Null}]
  /\ parentID \in [NodeID -> NodeID \cup {Null}]
  /\ deletedAt \subseteq UserNode
  /\ oldPath \in [NodeID -> NodeID \cup {Null}]
  /\ task \in [NodeID -> {"none", "soft_deleted", "pending"}]

AclTyped ==
  /\ owner \subseteq UserNode \X User
  /\ parent \subseteq NodeID \X UserNode
  /\ blocked \subseteq UserNode
  /\ isTrashed \subseteq UserNode
  /\ role \subseteq UserNode \X Role \X User

ReqsTyped == req \in [Request -> RequestRecord]

RestTyped ==
  /\ minted \in 0 .. MaxNode
  /\ coming \in [Op \cup AclCall -> Nat]
  /\ notes \in [torn : SUBSET NodeID, crossed : SUBSET NodeID, raced : BOOLEAN]

LEMMA TypeParts == TypeOK <=> RowsTyped /\ AclTyped /\ ReqsTyped /\ RestTyped
BY DEF TypeOK, RowsTyped, AclTyped, ReqsTyped, RestTyped, RequestRecord

LEMMA TypePartsNext ==
  ASSUME RowsTyped', AclTyped', ReqsTyped', RestTyped'
  PROVE  TypeOK'
BY DEF TypeOK, RowsTyped, AclTyped, ReqsTyped, RestTyped, RequestRecord

LEMMA CheckTyped ==
  ASSUME NEW a \in FSAction, NEW n \in NodeID \cup {Null},
         NEW p \in NodeID \cup {Null}, NEW b \in BOOLEAN
  PROVE  Check(a, n, p, b) \in AssertOperation
BY DEF Check, AssertOperation

LEMMA ChecksOfTyped ==
  ASSUME NEW op \in Op, NEW n \in NodeID \cup {Null},
         NEW p \in NodeID \cup {Null}, NEW to \in NodeID \cup {Null}
  PROVE  ChecksOf(op, n, p, to) \in Seq(AssertOperation)
<1>1. \A a \in FSAction, m, g \in NodeID \cup {Null}, b \in BOOLEAN :
        Check(a, m, g, b) \in AssertOperation
  BY CheckTyped
<1>2. {"CREATE_FOLDER", "CREATE_FILE", "CREATE_LINK", "READ", "MOVE",
       "UPDATE", "DELETE", "HARD_DELETE", "RESTORE"} \subseteq FSAction
  BY DEF FSAction
<1>3. \A x \in AssertOperation : <<x>> \in Seq(AssertOperation)
  OBVIOUS
<1>4. \A x, y \in AssertOperation : <<x, y>> \in Seq(AssertOperation)
  OBVIOUS
<1>5. Null \in NodeID \cup {Null} OBVIOUS
<1>. HIDE DEF Check
<1>. QED BY <1>1, <1>2, <1>3, <1>4, <1>5 DEF ChecksOf, Op

\* The first check of a request, and those after it.
LEMMA HeadOfChecks ==
  ASSUME ReqsTyped, NEW r \in Request, req[r].checks # <<>>
  PROVE  /\ Head(req[r].checks) \in AssertOperation
         /\ Tail(req[r].checks) \in Seq(AssertOperation)
<1>1. req[r].checks \in Seq(AssertOperation)
  BY DEF ReqsTyped, RequestRecord
<1>. QED BY <1>1, HeadTailProperties

Others(r) == \A q \in Request \ {r} : req'[q] = req[q]

\* r goes on in another phase; what it was asked for stays.
GoesTo(r, ph) ==
  /\ Others(r)
  /\ req'[r].phase = ph
  /\ req'[r].op = req[r].op /\ req'[r].user = req[r].user
  /\ req'[r].target = req[r].target /\ req'[r].inherit = req[r].inherit
  /\ req'[r].overtaken = req[r].overtaken

Reads(r) ==
  /\ req'[r].seenParent = req[r].seenParent
  /\ req'[r].seenPath = req[r].seenPath
  /\ req'[r].seenType = req[r].seenType

LEMMA SetReq ==
  ASSUME ReqsTyped, NEW r \in Request, NEW v \in RequestRecord,
         req' = [req EXCEPT ![r] = v]
  PROVE  ReqsTyped' /\ Others(r) /\ req'[r] = v
BY DEF ReqsTyped, Others

LEMMA IdleTyped == Idle \in RequestRecord
BY DEF Idle, RequestRecord, Phase, Op

LEMMA EndShape ==
  ASSUME ReqsTyped, NEW r \in Request, End(r)
  PROVE  ReqsTyped' /\ Others(r) /\ req'[r] = Idle
BY IdleTyped, SetReq DEF End

LEMMA IdleFits ==
  /\ Idle.phase = "idle" /\ Idle.op = "get" /\ Idle.nodeID = Null
  /\ Idle.seenPath = Null
  /\ Idle.phase \notin {"look", "ask", "open", "written", "mirrored"}
BY DEF Idle

-----------------------------------------------------------------------------
(* What each step does to the requests *)

\* A call a route lets through.
Call(op, n, p, to) ==
  /\ op \in Op /\ n \in NodeID \cup {Null} /\ p \in NodeID \cup {Null}
  /\ to \in NodeID \cup {Null}
  /\ op \in Creates <=> n = Null
  /\ op \in {"update", "move"} => n \in UserNode
  /\ op = "move" => p \in UserNode \cup {Null}
  /\ op = "createLink" => p \in UserNode

LEMMA StartShape ==
  ASSUME ReqsTyped, NEW r \in Request, NEW u \in User, NEW op, NEW n, NEW p,
         NEW inherit \in BOOLEAN, NEW to, Call(op, n, p, to),
         Start(r, u, op, n, p, inherit, to)
  PROVE  /\ ReqsTyped' /\ Others(r)
         /\ req[r].phase = "idle" /\ req'[r].phase = "look"
         /\ req'[r].op = op /\ req'[r].user = u /\ req'[r].nodeID = n
         /\ req'[r].target = p /\ req'[r].checks = ChecksOf(op, n, p, to)
         /\ req'[r].seenPath = Null /\ ~ req'[r].overtaken
<1> DEFINE v == [Idle EXCEPT !.phase = "look", !.op = op, !.user = u, !.nodeID = n,
                             !.target = p, !.inherit = inherit,
                             !.checks = ChecksOf(op, n, p, to)]
<1>1. ChecksOf(op, n, p, to) \in Seq(AssertOperation)
  BY ChecksOfTyped DEF Call
<1>2. v \in RequestRecord
  BY <1>1, IdleTyped DEF RequestRecord, Phase, Call
<1>3. /\ v.phase = "look" /\ v.op = op /\ v.user = u /\ v.nodeID = n
      /\ v.target = p /\ v.checks = ChecksOf(op, n, p, to)
      /\ v.seenPath = Null /\ ~ v.overtaken
  BY DEF Idle
<1>4. req' = [req EXCEPT ![r] = v] /\ req[r].phase = "idle"
  BY DEF Start
<1>5. ReqsTyped' /\ Others(r) /\ req'[r] = v
  BY <1>2, <1>4, SetReq
<1>. QED BY <1>3, <1>4, <1>5

LEMMA KnownTyped ==
  ASSUME minted \in 0 .. MaxNode
  PROVE  V7 \subseteq UserNode /\ Known \subseteq NodeID
<1>1. V7 \subseteq UserNode
  BY BoundAssumption DEF V7, UserNode
<1>. QED BY <1>1, Ids DEF Known

LEMMA BeginStarts ==
  ASSUME RestTyped, NEW r \in Request, NEW u \in User, Begin(r, u)
  PROVE  \E op, n, p, to, inherit :
           Call(op, n, p, to) /\ inherit \in BOOLEAN /\ Start(r, u, op, n, p, inherit, to)
<1>1. V7 \subseteq UserNode /\ Known \subseteq NodeID /\ UserNode \subseteq NodeID
  BY KnownTyped, Ids DEF RestTyped
<1>2. ASSUME NEW p \in Known \cup {Null}, CreateFolder(r, u, p)
      PROVE  Call("createFolder", Null, p, Null)
             /\ Start(r, u, "createFolder", Null, p, FALSE, Null)
  BY <1>1, <1>2 DEF CreateFolder, Call, Op, Creates
<1>3. ASSUME NEW p \in V7 \cup {Null}, CreateFile(r, u, p)
      PROVE  Call("createFile", Null, p, Null)
             /\ Start(r, u, "createFile", Null, p, FALSE, Null)
  BY <1>1, <1>3 DEF CreateFile, Call, Op, Creates
<1>4. ASSUME NEW p \in V7, NEW to \in V7, CreateLink(r, u, p, to)
      PROVE  Call("createLink", Null, p, to)
             /\ Start(r, u, "createLink", Null, p, FALSE, to)
  BY <1>1, <1>4 DEF CreateLink, Call, Op, Creates
<1>5. ASSUME NEW n \in Known,
             Get(r, u, n) \/ SoftDelete(r, u, n) \/ Restore(r, u, n) \/ Purge(r, u, n)
      PROVE  \E op \in {"get", "softDelete", "restore", "purge"} :
               Call(op, n, Null, Null) /\ Start(r, u, op, n, Null, FALSE, Null)
  BY <1>1, <1>5, NullAssumption
  DEF Get, SoftDelete, Restore, Purge, Call, Op, Creates
<1>6. ASSUME NEW n \in V7, NEW inherit \in BOOLEAN, Update(r, u, n, inherit)
      PROVE  Call("update", n, Null, Null)
             /\ Start(r, u, "update", n, Null, inherit, Null)
  BY <1>1, <1>6, NullAssumption DEF Update, Call, Op, Creates
<1>7. ASSUME NEW n \in V7, NEW p \in V7 \cup {Null}, Move(r, u, n, p)
      PROVE  Call("move", n, p, Null)
             /\ Start(r, u, "move", n, p, FALSE, Null)
  BY <1>1, <1>7, NullAssumption DEF Move, Call, Op, Creates
<1>. QED BY <1>2, <1>3, <1>4, <1>5, <1>6, <1>7 DEF Begin

\* Look: the row of the first check is kept.
LEMMA LookShape ==
  ASSUME RowsTyped, ReqsTyped, RequestsFit, NEW r \in Request, Look(r)
  PROVE  /\ ReqsTyped'
         /\ req[r].phase = "look" /\ GoesTo(r, "ask")
         /\ req'[r].nodeID = req[r].nodeID /\ req'[r].checks = req[r].checks
         /\ Keeps(r) => Reads(r)
         /\ ~ Keeps(r) =>
              LET n == Head(req[r].checks).sourceID
              IN  /\ req'[r].seenParent = parentID[n]
                  /\ req'[r].seenPath = oldPath[n]
                  /\ req'[r].seenType = nodeType[n]
<1> DEFINE n == Head(req[r].checks).sourceID
           v == [req[r] EXCEPT
                   !.phase = "ask",
                   !.seenParent = IF Keeps(r) THEN @ ELSE parentID[n],
                   !.seenPath = IF Keeps(r) THEN @ ELSE oldPath[n],
                   !.seenType = IF Keeps(r) THEN @ ELSE nodeType[n]]
<1>1. req[r].phase = "look" /\ req' = [req EXCEPT ![r] = v]
  BY DEF Look, ReqsTyped
<1>2. Head(req[r].checks) \in AssertOperation
  BY <1>1, HeadOfChecks DEF RequestsFit, Fits, ChecksFit
<1>3. ~ Keeps(r) => n \in NodeID
  BY <1>2 DEF Keeps, AssertOperation
<1>4. /\ ~ Keeps(r) => parentID[n] \in NodeID \cup {Null}
      /\ ~ Keeps(r) => oldPath[n] \in NodeID \cup {Null}
      /\ ~ Keeps(r) => nodeType[n] \in {"folder", "file", "link"}
  BY <1>3 DEF RowsTyped
<1>5. req[r] \in RequestRecord
  BY DEF ReqsTyped
<1>6. v \in RequestRecord
  BY <1>4, <1>5 DEF RequestRecord, Phase
<1>7. ReqsTyped' /\ Others(r) /\ req'[r] = v
  BY <1>1, <1>6, SetReq
<1>8. /\ v.phase = "ask" /\ v.op = req[r].op /\ v.user = req[r].user
      /\ v.target = req[r].target /\ v.inherit = req[r].inherit
      /\ v.overtaken = req[r].overtaken
      /\ v.nodeID = req[r].nodeID /\ v.checks = req[r].checks
      /\ v.seenParent = (IF Keeps(r) THEN req[r].seenParent ELSE parentID[n])
      /\ v.seenPath = (IF Keeps(r) THEN req[r].seenPath ELSE oldPath[n])
      /\ v.seenType = (IF Keeps(r) THEN req[r].seenType ELSE nodeType[n])
  BY <1>5 DEF RequestRecord
<1>. QED BY <1>1, <1>7, <1>8 DEF GoesTo, Reads

\* Ask: the next check, the end of a read, or the transaction.
LEMMA AskShape ==
  ASSUME RowsTyped, ReqsTyped, RequestsFit, NEW r \in Request, Ask(r)
  PROVE  /\ ReqsTyped'
         /\ req[r].phase = "ask"
         /\ \/ /\ GoesTo(r, "look") /\ Reads(r)
               /\ req'[r].nodeID = req[r].nodeID
               /\ ChecksAfter(r) # <<>> /\ req'[r].checks = ChecksAfter(r)
            \/ Others(r) /\ req'[r] = Idle
            \/ /\ GoesTo(r, "open") /\ Reads(r)
               /\ req'[r].nodeID = req[r].nodeID
               /\ ChecksAfter(r) = <<>> /\ req[r].op # "get"
<1>1. req[r].phase = "ask" BY DEF Ask
<1>2. req[r] \in RequestRecord BY DEF ReqsTyped
<1>3. /\ Head(req[r].checks) \in AssertOperation
      /\ Tail(req[r].checks) \in Seq(AssertOperation)
  BY <1>1, HeadOfChecks DEF RequestsFit, Fits, ChecksFit
<1>4. Check("MOVE", req[r].nodeID, req[r].seenPath, FALSE) \in AssertOperation
  BY <1>2, CheckTyped DEF RequestRecord, FSAction
<1>5. ChecksAfter(r) \in Seq(AssertOperation)
  <2>1. \A x \in AssertOperation : <<x>> \in Seq(AssertOperation)
    OBVIOUS
  <2>. QED BY <1>3, <1>4, <2>1 DEF ChecksAfter
<1>6. ASSUME NEW ph \in {"look", "open"}, NEW s \in Seq(AssertOperation),
             req' = [req EXCEPT ![r].phase = ph, ![r].checks = s]
      PROVE  ReqsTyped' /\ GoesTo(r, ph) /\ Reads(r)
             /\ req'[r].nodeID = req[r].nodeID /\ req'[r].checks = s
  <2> DEFINE v == [req[r] EXCEPT !.phase = ph, !.checks = s]
  <2>1. /\ v \in RequestRecord
        /\ v.phase = ph /\ v.op = req[r].op /\ v.user = req[r].user
        /\ v.target = req[r].target /\ v.inherit = req[r].inherit
        /\ v.overtaken = req[r].overtaken
        /\ v.nodeID = req[r].nodeID /\ v.checks = s
        /\ v.seenParent = req[r].seenParent
        /\ v.seenPath = req[r].seenPath
        /\ v.seenType = req[r].seenType
    BY <1>2 DEF RequestRecord, Phase
  <2>2. req' = [req EXCEPT ![r] = v]
    BY <1>6 DEF ReqsTyped
  <2>3. ReqsTyped' /\ Others(r) /\ req'[r] = v
    BY <2>1, <2>2, SetReq
  <2>. QED BY <2>1, <2>3 DEF GoesTo, Reads
<1>7. CASE ChecksAfter(r) # <<>>
  <2>1. req' = [req EXCEPT ![r].phase = "look", ![r].checks = ChecksAfter(r)]
    BY <1>7 DEF Ask
  <2>. QED BY <1>1, <1>5, <1>6, <1>7, <2>1
<1>8. CASE ChecksAfter(r) = <<>> /\ req[r].op = "get"
  BY <1>1, <1>8, EndShape DEF Ask
<1>9. CASE ChecksAfter(r) = <<>> /\ req[r].op # "get"
  <2>1. req' = [req EXCEPT ![r].phase = "open", ![r].checks = <<>>]
    BY <1>9 DEF Ask
  <2>2. <<>> \in Seq(AssertOperation) OBVIOUS
  <2>. QED BY <1>1, <1>6, <1>9, <2>1, <2>2
<1>. QED BY <1>7, <1>8, <1>9

\* WriteRow and WriteNew open the transaction.
LEMMA WriteRowShape ==
  ASSUME ReqsTyped, NEW r \in Request, WriteRow(r)
  PROVE  /\ ReqsTyped'
         /\ req[r].phase = "open" /\ GoesTo(r, "written") /\ Reads(r)
         /\ req'[r].nodeID = req[r].nodeID
<1> DEFINE v == [req[r] EXCEPT !.phase = "written"]
<1>1. req[r].phase = "open" /\ req' = [req EXCEPT ![r] = v]
  BY DEF WriteRow, ReqsTyped
<1>2. /\ v \in RequestRecord
      /\ v.phase = "written" /\ v.op = req[r].op /\ v.user = req[r].user
      /\ v.target = req[r].target /\ v.inherit = req[r].inherit
      /\ v.overtaken = req[r].overtaken /\ v.nodeID = req[r].nodeID
      /\ v.seenParent = req[r].seenParent /\ v.seenPath = req[r].seenPath
      /\ v.seenType = req[r].seenType
  BY DEF ReqsTyped, RequestRecord, Phase
<1>3. ReqsTyped' /\ Others(r) /\ req'[r] = v
  BY <1>1, <1>2, SetReq
<1>. QED BY <1>1, <1>2, <1>3 DEF GoesTo, Reads

LEMMA WriteNewShape ==
  ASSUME ReqsTyped, RestTyped, NEW r \in Request, WriteNew(r)
  PROVE  /\ ReqsTyped'
         /\ req[r].phase = "open" /\ GoesTo(r, "written") /\ Reads(r)
         /\ req'[r].nodeID = FreshID(minted + 1)
         /\ FreshID(minted + 1) \in UserNode /\ FreshID(minted + 1).of = minted + 1
         /\ minted' = minted + 1
<1> DEFINE n == FreshID(minted + 1)
           v == [req[r] EXCEPT !.phase = "written", !.nodeID = n]
<1>1. req[r].phase = "open" /\ req' = [req EXCEPT ![r] = v] /\ minted' = minted + 1
  BY DEF WriteNew, ReqsTyped
<1>2. n \in UserNode /\ n.of = minted + 1
  <2>1. minted + 1 \in 1 .. MaxNode
    BY BoundAssumption DEF WriteNew, RestTyped
  <2>. QED BY <2>1, FreshIds
<1>3. n \in NodeID
  BY <1>2, Ids
<1>4. /\ v \in RequestRecord
      /\ v.phase = "written" /\ v.op = req[r].op /\ v.user = req[r].user
      /\ v.target = req[r].target /\ v.inherit = req[r].inherit
      /\ v.overtaken = req[r].overtaken /\ v.nodeID = n
      /\ v.seenParent = req[r].seenParent /\ v.seenPath = req[r].seenPath
      /\ v.seenType = req[r].seenType
  BY <1>3 DEF ReqsTyped, RequestRecord, Phase
<1>5. ReqsTyped' /\ Others(r) /\ req'[r] = v
  BY <1>1, <1>4, SetReq
<1>. QED BY <1>1, <1>2, <1>4, <1>5 DEF GoesTo, Reads

\* q keeps all but what r takes from it when it writes to SpiceDB.
Stays(q) ==
  /\ req'[q].op = req[q].op /\ req'[q].user = req[q].user
  /\ req'[q].nodeID = req[q].nodeID
  /\ req'[q].target = req[q].target /\ req'[q].checks = req[q].checks
  /\ req'[q].seenParent = req[q].seenParent /\ req'[q].seenPath = req[q].seenPath

OthersTold(r) ==
  \A q \in Request \ {r} :
    /\ Stays(q) /\ req'[q].phase = req[q].phase
    /\ req'[q].overtaken = (req[q].overtaken \/ Overtakes(r, q))

LEMMA MirrorShape ==
  ASSUME ReqsTyped, NEW r \in Request, Mirror(r)
  PROVE  /\ ReqsTyped' /\ req[r].phase = "written"
         /\ OthersTold(r)
         /\ Stays(r) /\ req'[r].phase = "mirrored"
         /\ req'[r].overtaken = req[r].overtaken
<1> DEFINE v(q) == IF q = r THEN [req[r] EXCEPT !.phase = "mirrored"]
                   ELSE [req[q] EXCEPT !.overtaken = @ \/ Overtakes(r, q)]
<1>1. req[r].phase = "written" /\ req' = [q \in Request |-> v(q)]
  BY DEF Mirror
<1>2. \A q \in Request : req[q] \in RequestRecord
  BY DEF ReqsTyped
<1>3. \A q \in Request : Overtakes(r, q) \in BOOLEAN
  BY DEF Overtakes
<1>4. /\ [req[r] EXCEPT !.phase = "mirrored"] \in RequestRecord
      /\ \A q \in Request :
           [req[q] EXCEPT !.overtaken = @ \/ Overtakes(r, q)] \in RequestRecord
  BY <1>2, <1>3 DEF RequestRecord, Phase
<1>5. ReqsTyped'
  BY <1>1, <1>4 DEF ReqsTyped
<1>6. \A q \in Request : req'[q] = v(q)
  BY <1>1
<1>7. OthersTold(r)
  <2>1. SUFFICES ASSUME NEW q \in Request \ {r}
                 PROVE  /\ Stays(q) /\ req'[q].phase = req[q].phase
                        /\ req'[q].overtaken = (req[q].overtaken \/ Overtakes(r, q))
    BY DEF OthersTold
  <2>2. req'[q] = [req[q] EXCEPT !.overtaken = @ \/ Overtakes(r, q)]
    BY <1>6
  <2>. QED BY <1>2, <2>2 DEF Stays, RequestRecord
<1>8. Stays(r) /\ req'[r].phase = "mirrored" /\ req'[r].overtaken = req[r].overtaken
  BY <1>2, <1>6 DEF Stays, RequestRecord
<1>. QED BY <1>1, <1>5, <1>7, <1>8

LEMMA MirrorLostShape ==
  ASSUME ReqsTyped, NEW r \in Request, MirrorLost(r)
  PROVE  /\ ReqsTyped' /\ req[r].phase = "written"
         /\ OthersTold(r) /\ req'[r] = Idle
<1> DEFINE v(q) == IF q = r THEN Idle
                   ELSE [req[q] EXCEPT !.overtaken = @ \/ Overtakes(r, q)]
<1>1. req[r].phase = "written" /\ req' = [q \in Request |-> v(q)]
  BY DEF MirrorLost
<1>2. \A q \in Request : req[q] \in RequestRecord
  BY DEF ReqsTyped
<1>3. \A q \in Request : Overtakes(r, q) \in BOOLEAN
  BY DEF Overtakes
<1>4. \A q \in Request :
        [req[q] EXCEPT !.overtaken = @ \/ Overtakes(r, q)] \in RequestRecord
  BY <1>2, <1>3 DEF RequestRecord, Phase
<1>5. ReqsTyped'
  BY <1>1, <1>4, IdleTyped DEF ReqsTyped
<1>6. \A q \in Request : req'[q] = v(q)
  BY <1>1
<1>7. OthersTold(r)
  BY <1>2, <1>6 DEF OthersTold, Stays, RequestRecord
<1>. QED BY <1>1, <1>5, <1>6, <1>7

-----------------------------------------------------------------------------
(* Steps of a request that has no transaction *)

LEMMA Parts ==
  ASSUME IInv
  PROVE  RowsTyped /\ AclTyped /\ ReqsTyped /\ RestTyped
BY TypeParts DEF IInv

\* What a request may hold without a transaction.
Holds(r) ==
  /\ ~ InTx(r)
  /\ Fits(req[r])
  /\ Numbered(r)
  /\ \A q \in Request \ {r} : Apart(q, r)
  /\ SeesNoTrash(r) /\ RestoresOrphan(r) /\ KeepsGoal(r)

\* The steps before the transaction disturb nothing but the request.
LEMMA QuietStep ==
  ASSUME IInv, NEW r \in Request, UNCHANGED <<rowVars, aclVars, minted, notes>>,
         RestTyped', ReqsTyped', Others(r), ~ InTx(r), Holds(r)'
  PROVE  IInv'
<1>1. UNCHANGED <<node, nodeType, ownerID, parentID, deletedAt, oldPath, task,
                  owner, parent, blocked, isTrashed, role, minted, notes>>
  BY DEF rowVars, aclVars
<1>2. \A q \in Request \ {r} : req'[q] = req[q]
  BY DEF Others
<1>3. /\ \A q \in Request : InTx(q)' => q # r
      /\ \A q \in Request : req'[q].phase \in {"written", "mirrored"} => q # r
      /\ \A q \in Request : InTx(q) <=> InTx(q)'
  BY <1>2 DEF Holds, InTx
<1>4. TypeOK'
  BY <1>1, Parts, TypePartsNext DEF RowsTyped, AclTyped
<1>5. RequestsFit'
  BY <1>2 DEF IInv, RequestsFit, Holds
<1>6. RowsHaveOwner' /\ MirroredHasOwner'
  BY <1>1, <1>2, <1>3 DEF IInv, RowsHaveOwner, MirroredHasOwner, Created
<1>7. Locks'
  BY <1>2, <1>3 DEF IInv, Locks
<1>8. TaskOfRow'
  BY <1>1, <1>2, <1>3 DEF IInv, TaskOfRow, TaskRules
<1>9. \A n, ops : MirroredIn(n, ops)' <=> MirroredIn(n, ops)
  BY <1>2, <1>3 DEF MirroredIn, InTx
<1>10. Marked'
  BY <1>1, <1>2, <1>3, <1>9 DEF IInv, Marked
<1>11. IdsAreFresh'
  BY <1>1, <1>2 DEF IInv, IdsAreFresh, Numbered, Holds
<1>12. NewIsAlone'
  BY <1>1, <1>2, <1>3 DEF IInv, NewIsAlone, Holds, Apart, InTx, NewParent, Par
<1>13. TrashHome'
  BY <1>1, <1>2 DEF IInv, TrashHome, SeesNoTrash, Holds, Uncrossed, Created
<1>14. HeldParent' /\ MirroredMove'
  BY <1>1, <1>2, <1>3 DEF IInv, HeldParent, MirroredMove, Uncrossed, Created
<1>15. OrphansAreRestored'
  BY <1>1, <1>2
  DEF IInv, OrphansAreRestored, RestoresOrphan, Holds, Uncrossed, Created, Home
<1>16. Mirrors'
  BY <1>1, <1>2, <1>3, <1>9 DEF IInv, Mirrors, Uncrossed, Created, Home, Par
<1>17. GoalIsKept'
  BY <1>1, <1>2 DEF IInv, GoalIsKept, KeepsGoal, Holds, NewParent
<1>. QED
  BY <1>4, <1>5, <1>6, <1>7, <1>8, <1>10, <1>11, <1>12, <1>13, <1>14, <1>15,
     <1>16, <1>17 DEF IInv

LEMMA IdleHolds ==
  ASSUME NEW r \in Request, req'[r] = Idle
  PROVE  Holds(r)' /\ ~ InTx(r)'
BY IdleFits, Ids
DEF Holds, InTx, Fits, Numbered, Apart, SeesNoTrash, RestoresOrphan, KeepsGoal,
    HasLooked, Asked, Creates

\* The checks of a call fit it.
LEMMA ChecksOfFit ==
  ASSUME NEW q, NEW to \in NodeID \cup {Null},
         Call(q.op, q.nodeID, q.target, to),
         q.checks = ChecksOf(q.op, q.nodeID, q.target, to)
  PROVE  ChecksFit(q)
<1> DEFINE c == Head(q.checks)
<1>1. ASSUME NEW x, q.checks = <<x>>
      PROVE  q.checks # <<>> /\ c = x /\ Tail(q.checks) = <<>>
  BY <1>1
<1>2. CASE q.op = "createLink"
  <2>1. q.checks = <<Check("READ", to, Null, FALSE),
                     Check("CREATE_LINK", q.target, Null, FALSE)>>
    BY <1>2 DEF ChecksOf
  <2>2. q.checks # <<>> /\ c = Check("READ", to, Null, FALSE)
        /\ Tail(q.checks) = <<Check("CREATE_LINK", q.target, Null, FALSE)>>
    <3>1. ASSUME NEW x, NEW y, q.checks = <<x, y>>
          PROVE  q.checks # <<>> /\ c = x /\ Tail(q.checks) = <<y>>
      BY <3>1
    <3>. QED BY <2>1, <3>1
  <2>3. c.action = "READ"
    BY <2>2 DEF Check
  <2>. QED BY <1>2, <2>2, <2>3 DEF ChecksFit, Creates
<1>3. CASE q.op \in {"createFolder", "createFile"}
  <2>1. PICK a \in {"CREATE_FOLDER", "CREATE_FILE"} :
          q.checks = <<Check(a, Null, q.target, TRUE)>>
    BY <1>3 DEF ChecksOf
  <2>2. /\ q.checks # <<>> /\ c = Check(a, Null, q.target, TRUE)
        /\ Tail(q.checks) = <<>>
    BY <1>1, <2>1
  <2>3. c.action = a /\ c.targetParentID = q.target /\ c.onlyParentCheck
    BY <2>2 DEF Check
  <2>. QED BY <1>3, <2>2, <2>3 DEF ChecksFit, Creates
<1>4. CASE q.op \notin Creates
  <2>1. PICK a :
          /\ q.checks = <<Check(a, q.nodeID, IF q.op = "move" THEN q.target ELSE Null, FALSE)>>
          /\ q.op = "move" => a = "MOVE"
          /\ q.op = "softDelete" => a = "DELETE"
          /\ q.op = "restore" => a = "RESTORE"
          /\ q.op = "purge" => a = "HARD_DELETE"
    BY <1>4 DEF ChecksOf, Call, Op, Creates
  <2>2. /\ q.checks # <<>> /\ Tail(q.checks) = <<>>
        /\ c = Check(a, q.nodeID, IF q.op = "move" THEN q.target ELSE Null, FALSE)
    BY <1>1, <2>1
  <2>3. c.action = a /\ c.sourceID = q.nodeID /\ ~ c.onlyParentCheck
        /\ (q.op = "move" => c.targetParentID = q.target)
    BY <2>2 DEF Check
  <2>. QED BY <1>4, <2>1, <2>2, <2>3 DEF ChecksFit, Creates
<1>. QED BY <1>2, <1>3, <1>4 DEF Creates

LEMMA BeginKeeps ==
  ASSUME IInv, NEW r \in Request, NEW u \in User, Begin(r, u)
  PROVE  IInv'
<1>1. PICK op, n, p, to, inherit :
        Call(op, n, p, to) /\ inherit \in BOOLEAN /\ Start(r, u, op, n, p, inherit, to)
  BY BeginStarts, Parts
<1>2. /\ ReqsTyped' /\ Others(r)
      /\ req[r].phase = "idle" /\ req'[r].phase = "look"
      /\ req'[r].op = op /\ req'[r].user = u /\ req'[r].nodeID = n
      /\ req'[r].target = p /\ req'[r].checks = ChecksOf(op, n, p, to)
      /\ req'[r].seenPath = Null /\ ~ req'[r].overtaken
  BY <1>1, StartShape, Parts
<1>3. UNCHANGED <<rowVars, aclVars, minted, notes>>
  BY <1>1 DEF Start
<1>4. RestTyped'
  <2>1. op \in Op /\ coming \in [Op \cup AclCall -> Nat]
    BY <1>1, Parts DEF Call, RestTyped
  <2>2. coming[op] > 0 /\ coming' = [coming EXCEPT ![op] = coming[op] - 1]
    BY <1>1 DEF Start
  <2>3. coming' \in [Op \cup AclCall -> Nat]
    BY <2>1, <2>2
  <2>. QED BY <1>3, <2>3, Parts DEF RestTyped
<1>5. ~ InTx(r) /\ ~ InTx(r)' /\ ~ HasLooked(req'[r])
  BY <1>2 DEF InTx, HasLooked, Asked
<1>6. ChecksFit(req'[r])
  BY <1>1, <1>2, ChecksOfFit DEF Call
<1>7. Fits(req'[r])
  BY <1>1, <1>2, <1>6 DEF Fits, Call, Asked
<1>8. Holds(r)'
  BY <1>2, <1>5, <1>7, Ids
  DEF Holds, Numbered, Apart, SeesNoTrash, RestoresOrphan, KeepsGoal, Asked
<1>. QED BY <1>2, <1>3, <1>4, <1>5, <1>8, QuietStep

LEMMA RefuseKeeps ==
  ASSUME IInv, NEW r \in Request, Refuse(r)
  PROVE  IInv'
<1>1. ReqsTyped' /\ Others(r) /\ req'[r] = Idle
  BY EndShape, Parts DEF Refuse
<1>2. UNCHANGED <<rowVars, aclVars, minted, notes, coming>> /\ ~ InTx(r)
  BY DEF Refuse, InTx
<1>3. RestTyped'
  BY <1>2, Parts DEF RestTyped
<1>. QED BY <1>1, <1>2, <1>3, IdleHolds, QuietStep

\* What the rules let through.
LEMMA LookAllows ==
  ASSUME IInv, NEW r \in Request, Look(r)
  PROVE  LET q == req[r]
             c == Head(q.checks)
         IN  /\ q.phase = "look" /\ ChecksFit(q) /\ q.user \in User
             /\ q.op \notin Creates => q.nodeID = c.sourceID /\ q.nodeID \in node
             /\ q.op \in {"softDelete", "restore", "purge"} => q.nodeID \in UserNode
             /\ q.op \in Creates => q.target \notin TrashNode
             /\ q.op \notin Creates =>
                  (q.nodeID \in deletedAt <=> c.action \in {"RESTORE", "HARD_DELETE"})
<1> DEFINE q == req[r]
           c == Head(q.checks)
<1>1. q.phase = "look" /\ Allowed(q.user, c)
  BY DEF Look
<1>2. Fits(q) /\ ChecksFit(q) /\ q.user \in User
  BY <1>1 DEF IInv, RequestsFit, Fits
<1>3. Subject(q.user, c) \in node /\ TrashedRules(Subject(q.user, c), c.action)
      /\ (IsSystem(Subject(q.user, c)) => TagAllows(Subject(q.user, c), c.action))
  BY <1>1 DEF Allowed
<1>4. ASSUME q.op \notin Creates
      PROVE  c.sourceID = q.nodeID /\ Subject(q.user, c) = q.nodeID
  BY <1>2, <1>4 DEF ChecksFit, Subject
<1>5. ASSUME q.op \in {"softDelete", "restore", "purge"}
      PROVE  q.nodeID \in UserNode
  <2>1. Subject(q.user, c) = q.nodeID
    BY <1>4, <1>5 DEF Creates
  <2>2. c.action \in {"DELETE", "RESTORE", "HARD_DELETE", "MOVE"}
    BY <1>2, <1>5 DEF ChecksFit
  <2>3. ~ IsSystem(q.nodeID)
    BY <1>3, <2>1, <2>2 DEF TagAllows
  <2>. QED BY <1>3, <2>1, <2>3, Parts, Ids DEF IsSystem, RowsTyped
<1>6. ASSUME q.op \in Creates
      PROVE  q.target \notin TrashNode
  <2>1. CASE q.op = "createLink"
    BY <1>1, <1>2, <2>1, Ids DEF Fits
  <2>2. CASE q.op \in {"createFolder", "createFile"}
    <3>1. c.onlyParentCheck /\ c.targetParentID = q.target
          /\ c.action \in {"CREATE_FOLDER", "CREATE_FILE"}
      BY <1>2, <2>2 DEF ChecksFit
    <3>2. SUFFICES ASSUME q.target \in TrashNode PROVE FALSE
      OBVIOUS
    <3>3. Subject(q.user, c) = q.target
      BY <3>1, <3>2, Ids DEF Subject, Goal
    <3>4. IsSystem(q.target) /\ q.target.tag = "TRASH"
      BY <3>2, Ids DEF IsSystem, TrashNode, Trash, SystemID
    <3>. QED BY <1>3, <3>1, <3>3, <3>4 DEF TagAllows
  <2>. QED BY <1>6, <2>1, <2>2 DEF Creates
<1>. QED BY <1>1, <1>2, <1>3, <1>4, <1>5, <1>6 DEF TrashedRules

LEMMA LookKeeps ==
  ASSUME IInv, NEW r \in Request, Look(r)
  PROVE  IInv'
<1> DEFINE q == req[r]
           c == Head(q.checks)
           n == q.nodeID
<1>1. /\ ReqsTyped' /\ q.phase = "look" /\ GoesTo(r, "ask")
      /\ req'[r].nodeID = n /\ req'[r].checks = q.checks
      /\ Keeps(r) => Reads(r)
      /\ ~ Keeps(r) => /\ req'[r].seenParent = parentID[c.sourceID]
                       /\ req'[r].seenPath = oldPath[c.sourceID]
                       /\ req'[r].seenType = nodeType[c.sourceID]
  BY LookShape, Parts DEF IInv
<1>2. UNCHANGED <<node, parentID, deletedAt, oldPath, minted, notes, isTrashed>>
      /\ UNCHANGED <<rowVars, aclVars, minted, coming, notes>>
  BY DEF Look, rowVars, aclVars
<1>3. /\ ChecksFit(q) /\ q.user \in User
      /\ q.op \notin Creates => n = c.sourceID /\ n \in node
      /\ q.op \in {"softDelete", "restore", "purge"} => n \in UserNode
      /\ q.op \in Creates => q.target \notin TrashNode
      /\ q.op \notin Creates =>
           (n \in deletedAt <=> c.action \in {"RESTORE", "HARD_DELETE"})
  BY LookAllows
<1>4. /\ req'[r].phase = "ask" /\ req'[r].op = q.op /\ req'[r].user = q.user
      /\ req'[r].target = q.target
  BY <1>1 DEF GoesTo
<1>5. Keeps(r) => /\ req'[r].seenParent = q.seenParent
                  /\ req'[r].seenPath = q.seenPath
  BY <1>1 DEF Reads
<1>6. q.op \notin Creates /\ Keeps(r) => q.op = "restore" /\ c.action = "MOVE"
  BY <1>3, Parts, Ids DEF Keeps, RowsTyped
<1>7. q.op = "restore" /\ c.action = "MOVE" => Keeps(r)
  BY DEF Keeps
<1>8. Fits(q)
  BY DEF IInv, RequestsFit
<1>9. q.op \in {"move", "softDelete", "restore"} => n \in UserNode
  BY <1>1, <1>3, <1>8 DEF Fits
<1>10. ChecksFit(req'[r])
  <2>1. q.op = "restore" => \/ c.action = "RESTORE"
                            \/ c.action = "MOVE" /\ req'[r].seenPath # Null
    BY <1>3, <1>5, <1>7 DEF ChecksFit
  <2>. QED BY <1>1, <1>3, <1>4, <2>1 DEF ChecksFit
<1>11. Fits(req'[r])
  BY <1>1, <1>3, <1>4, <1>8, <1>10 DEF Fits, Asked
<1>12. n \in UserNode => n.of <= minted /\ q.op \notin Creates
  BY <1>1, <1>3, <1>8, Ids DEF Fits, IInv, IdsAreFresh
<1>13. \A p \in Request \ {r} : Apart(p, r)'
  <2>1. SUFFICES ASSUME NEW p \in Request \ {r}, InTx(p), req[p].op \in Creates
                 PROVE  n # req[p].nodeID
    BY <1>1 DEF Apart, InTx, GoesTo, Others
  <2>2. req[p].nodeID \in UserNode /\ req[p].nodeID \notin node
    BY <2>1 DEF IInv, NewIsAlone, RequestsFit, Fits, InTx
  <2>. QED BY <1>3, <1>12, <2>2
<1>14. SeesNoTrash(r)'
  <2>1. ASSUME n \notin notes.crossed, q.op \in {"move", "softDelete"}
        PROVE  req'[r].seenParent \notin TrashNode
    <3>1. ~ Keeps(r) /\ n \in Uncrossed
      BY <1>3, <1>6, <1>9, <2>1 DEF Creates, Uncrossed, Created
    <3>2. n \notin deletedAt /\ c.sourceID = n
      BY <1>3, <2>1 DEF ChecksFit, Creates
    <3>. QED BY <1>1, <3>1, <3>2 DEF IInv, TrashHome
  <2>2. ASSUME n \notin notes.crossed, q.op = "restore"
        PROVE  req'[r].seenPath \notin TrashNode
    <3>1. n \in UserNode \ notes.crossed /\ c.sourceID = n
      BY <1>3, <1>9, <2>2 DEF Creates
    <3>2. CASE Keeps(r)
      BY <1>5, <2>2, <3>2 DEF IInv, TrashHome, SeesNoTrash
    <3>. QED BY <1>1, <3>1, <3>2 DEF IInv, TrashHome
  <2>. QED BY <1>1, <1>2, <1>4, <2>1, <2>2 DEF SeesNoTrash
<1>15. RestoresOrphan(r)'
  <2>1. ASSUME q.op = "restore", n \in Uncrossed
        PROVE  /\ c.action = "RESTORE" /\ n \in deletedAt
               /\ req'[r].seenPath = oldPath[n]
    <3>1. n = c.sourceID /\ n # Null
      BY <1>3, <2>1, Ids DEF Creates, Uncrossed, Created
    <3>2. c.action # "MOVE"
      <4>1. SUFFICES ASSUME c.action = "MOVE" PROVE FALSE
        OBVIOUS
      <4>2. q.seenPath # Null
        BY <1>3, <2>1, <4>1 DEF ChecksFit
      <4>3. n \in deletedAt
        BY <1>1, <2>1, <4>2 DEF IInv, OrphansAreRestored, RestoresOrphan
      <4>. QED BY <1>3, <2>1, <4>1, <4>3 DEF Creates
    <3>3. c.action = "RESTORE"
      BY <1>3, <2>1, <3>2 DEF ChecksFit
    <3>4. ~ Keeps(r)
      BY <3>1, <3>3 DEF Keeps
    <3>. QED BY <1>1, <1>3, <2>1, <3>1, <3>3, <3>4 DEF Creates
  <2>2. req'[r].phase \notin Asked \cup {"look"}
    BY <1>4 DEF Asked
  <2>. QED BY <1>1, <1>2, <1>4, <2>1, <2>2
       DEF RestoresOrphan, Home, Uncrossed, Created
<1>16. Holds(r)'
  BY <1>1, <1>2, <1>4, <1>11, <1>12, <1>13, <1>14, <1>15
  DEF Holds, InTx, Numbered, KeepsGoal, Asked
<1>17. RestTyped' /\ ~ InTx(r)
  BY <1>1, <1>2, Parts DEF RestTyped, InTx
<1>. QED BY <1>1, <1>2, <1>16, <1>17, QuietStep DEF GoesTo

\* The permission to edit a node says that it is not in the trash.
LEMMA EditableNotTrashed ==
  ASSUME NEW u, NEW n, Permits(u, "edit", n)
  PROVE  n \notin isTrashed
<1>1. n \in Editable(u)
  BY DEF Permits
<1>2. n \notin InTrash
  BY <1>1 DEF Editable, Inherited
<1>. QED BY <1>2 DEF InTrash

\* SpiceDB has let a creation or a move into its folder.
LEMMA GrantedGoal ==
  ASSUME IInv, NEW r \in Request, req[r].phase = "ask",
         Granted(req[r].user, Head(req[r].checks)),
         req[r].op = "move" \/ (req[r].op \in Creates /\ ChecksAfter(r) = <<>>)
  PROVE  NewParent(r) \notin isTrashed
<1> DEFINE q == req[r]
           c == Head(q.checks)
<1>1. ChecksFit(q) /\ Fits(q)
  BY DEF IInv, RequestsFit, Fits
<1>2. isTrashed \subseteq UserNode
  BY Parts DEF AclTyped
<1>3. ASSUME NEW n, OwnSystemNode(q.user, c), n = Subject(q.user, c)
      PROVE  n \notin UserNode
  BY <1>3, FreshIds DEF OwnSystemNode
<1>4. CASE q.op = "move"
  <2>1. c.action = "MOVE" /\ c.targetParentID = q.target /\ ~ c.onlyParentCheck
        /\ c.sourceID = q.nodeID /\ q.nodeID \in UserNode
    BY <1>1, <1>4 DEF ChecksFit, Fits, Creates
  <2>2. Subject(q.user, c) = q.nodeID /\ Goal(q.user, c) = NewParent(r)
    BY <2>1 DEF Subject, Goal, NewParent
  <2>3. ~ OwnSystemNode(q.user, c)
    BY <1>3, <2>1, <2>2
  <2>4. <<"edit", NewParent(r)>> \in Requirements(q.user, c)
    BY <2>1, <2>2 DEF Requirements
  <2>5. Permits(q.user, "edit", NewParent(r))
    BY <2>3, <2>4 DEF Granted
  <2>. QED BY <2>5, EditableNotTrashed
<1>5. CASE q.op \in Creates /\ ChecksAfter(r) = <<>>
  <2>1. /\ c.action \in {"CREATE_FOLDER", "CREATE_FILE", "CREATE_LINK"}
        /\ Subject(q.user, c) = NewParent(r)
    <3>1. CASE q.op \in {"createFolder", "createFile"}
      BY <1>1, <3>1 DEF ChecksFit, Subject, Goal, NewParent
    <3>2. CASE q.op = "createLink"
      <4>1. c.action # "READ"
        <5>1. SUFFICES ASSUME c.action = "READ" PROVE FALSE
          OBVIOUS
        <5>2. ChecksAfter(r) = Tail(q.checks)
          BY <5>1 DEF ChecksAfter
        <5>3. \/ Tail(q.checks) = <<Check("CREATE_LINK", q.target, Null, FALSE)>>
              \/ q.checks = <<Check("CREATE_LINK", q.target, Null, FALSE)>>
          BY <1>1, <3>2 DEF ChecksFit
        <5>4. \A x : <<x>> # <<>>
          OBVIOUS
        <5>5. q.checks # <<Check("CREATE_LINK", q.target, Null, FALSE)>>
          <6>1. SUFFICES ASSUME NEW x, x.action = "CREATE_LINK", q.checks = <<x>>
                         PROVE  FALSE
            BY DEF Check
          <6>2. c = x
            BY <6>1
          <6>. QED BY <5>1, <6>1, <6>2
        <5>. QED BY <1>5, <5>2, <5>3, <5>4, <5>5
      <4>2. q.checks = <<Check("CREATE_LINK", q.target, Null, FALSE)>>
        BY <1>1, <3>2, <4>1 DEF ChecksFit
      <4>3. ASSUME NEW x, q.checks = <<x>> PROVE c = x
        BY <4>3
      <4>4. c = Check("CREATE_LINK", q.target, Null, FALSE)
        BY <4>2, <4>3
      <4>5. q.target # Null
        BY <1>1, <3>2, Ids DEF Fits
      <4>. QED BY <4>4, <4>5 DEF Check, Subject, NewParent
    <3>. QED BY <1>5, <3>1, <3>2 DEF Creates
  <2>2. CASE OwnSystemNode(q.user, c)
    BY <1>2, <1>3, <2>1, <2>2
  <2>3. CASE ~ OwnSystemNode(q.user, c)
    <3>1. <<"edit", NewParent(r)>> \in Requirements(q.user, c)
      BY <2>1 DEF Requirements
    <3>2. Permits(q.user, "edit", NewParent(r))
      BY <2>3, <3>1 DEF Granted
    <3>. QED BY <3>2, EditableNotTrashed
  <2>. QED BY <2>2, <2>3
<1>. QED BY <1>4, <1>5

\* What is still checked fits the request.
LEMMA RestFits ==
  ASSUME NEW r \in Request, ChecksFit(req[r]), ChecksAfter(r) # <<>>,
         NEW q, q.op = req[r].op, q.nodeID = req[r].nodeID,
         q.target = req[r].target, q.seenPath = req[r].seenPath,
         q.checks = ChecksAfter(r)
  PROVE  ChecksFit(q)
<1> DEFINE c == Head(req[r].checks)
<1>0. ASSUME NEW x, q.checks = <<x>>
      PROVE  q.checks # <<>> /\ Head(q.checks) = x /\ Tail(q.checks) = <<>>
  BY <1>0
<1>1. CASE c.action = "RESTORE" /\ req[r].seenPath # Null
  <2>1. q.checks = <<Check("MOVE", req[r].nodeID, req[r].seenPath, FALSE)>>
    BY <1>1 DEF ChecksAfter
  <2>2. Head(q.checks) = Check("MOVE", req[r].nodeID, req[r].seenPath, FALSE)
        /\ q.checks # <<>> /\ Tail(q.checks) = <<>>
    BY <1>0, <2>1
  <2>3. req[r].op \notin Creates \cup {"move", "softDelete"}
    <3>1. ASSUME req[r].op = "createLink" PROVE FALSE
      <4>1. req[r].checks = <<Check("CREATE_LINK", req[r].target, Null, FALSE)>>
        BY <1>1, <3>1 DEF ChecksFit
      <4>2. ASSUME NEW x, req[r].checks = <<x>> PROVE c = x
        BY <4>2
      <4>. QED BY <1>1, <4>1, <4>2 DEF Check
    <3>. QED BY <1>1, <3>1 DEF ChecksFit, Creates
  <2>. QED BY <1>1, <2>2, <2>3 DEF ChecksFit, Check, Creates
<1>2. CASE ~ (c.action = "RESTORE" /\ req[r].seenPath # Null)
  <2>1. q.checks = Tail(req[r].checks)
    BY <1>2 DEF ChecksAfter
  <2>2. req[r].op = "createLink"
    BY <2>1 DEF ChecksFit, Creates
  <2>3. q.checks = <<Check("CREATE_LINK", req[r].target, Null, FALSE)>>
    <3>1. ASSUME NEW x, req[r].checks = <<x>> PROVE Tail(req[r].checks) = <<>>
      BY <3>1
    <3>. QED BY <2>1, <2>2, <3>1 DEF ChecksFit
  <2>4. q.checks # <<>>
    BY <1>0, <2>3
  <2>. QED BY <2>2, <2>3, <2>4 DEF ChecksFit, Creates
<1>. QED BY <1>1, <1>2

LEMMA AskKeeps ==
  ASSUME IInv, NEW r \in Request, Ask(r)
  PROVE  IInv'
<1> DEFINE q == req[r]
<1>1. /\ ReqsTyped' /\ q.phase = "ask"
      /\ \/ /\ GoesTo(r, "look") /\ Reads(r) /\ req'[r].nodeID = q.nodeID
            /\ ChecksAfter(r) # <<>> /\ req'[r].checks = ChecksAfter(r)
         \/ Others(r) /\ req'[r] = Idle
         \/ /\ GoesTo(r, "open") /\ Reads(r) /\ req'[r].nodeID = q.nodeID
            /\ ChecksAfter(r) = <<>> /\ q.op # "get"
  BY AskShape, Parts DEF IInv
<1>2. UNCHANGED <<node, parentID, deletedAt, oldPath, minted, notes, isTrashed>>
      /\ UNCHANGED <<rowVars, aclVars, minted, coming, notes>>
  BY DEF Ask, rowVars, aclVars
<1>3. RestTyped' /\ ~ InTx(r) /\ Others(r)
  BY <1>1, <1>2, Parts DEF RestTyped, InTx, GoesTo
<1>4. Fits(q) /\ Numbered(r) /\ SeesNoTrash(r) /\ RestoresOrphan(r)
      /\ (\A p \in Request \ {r} : Apart(p, r)) /\ HasLooked(q)
  BY <1>1
  DEF IInv, RequestsFit, IdsAreFresh, NewIsAlone, TrashHome, OrphansAreRestored,
      HasLooked
<1>5. ASSUME GoesTo(r, "look") \/ GoesTo(r, "open"), Reads(r),
             req'[r].nodeID = q.nodeID
      PROVE  /\ Numbered(r)' /\ SeesNoTrash(r)' /\ ~ InTx(r)'
             /\ \A p \in Request \ {r} : Apart(p, r)'
             /\ req'[r].op = q.op /\ req'[r].user = q.user
             /\ req'[r].target = q.target /\ req'[r].seenPath = q.seenPath
             /\ NewParent(r)' = NewParent(r)
  BY <1>1, <1>2, <1>4, <1>5
  DEF Numbered, SeesNoTrash, Apart, InTx, GoesTo, Others, Reads, NewParent, Asked
<1>6. CASE GoesTo(r, "look") /\ Reads(r) /\ req'[r].nodeID = q.nodeID
           /\ ChecksAfter(r) # <<>> /\ req'[r].checks = ChecksAfter(r)
  <2>1. req'[r].phase = "look"
    BY <1>6 DEF GoesTo
  <2>2. ChecksFit(req'[r])
    BY <1>1, <1>4, <1>5, <1>6, RestFits DEF Fits
  <2>3. Fits(req'[r])
    BY <1>1, <1>4, <1>5, <1>6, <2>1, <2>2 DEF Fits, Asked
  <2>4. RestoresOrphan(r)'
    BY <1>1, <1>2, <1>4, <1>5, <1>6, <2>1
    DEF RestoresOrphan, Uncrossed, Created, Asked
  <2>5. KeepsGoal(r)'
    BY <2>1 DEF KeepsGoal, Asked
  <2>. QED BY <1>1, <1>2, <1>3, <1>5, <1>6, <2>3, <2>4, <2>5, QuietStep DEF Holds
<1>7. CASE Others(r) /\ req'[r] = Idle
  BY <1>1, <1>2, <1>3, <1>7, IdleHolds, QuietStep
<1>8. CASE GoesTo(r, "open") /\ Reads(r) /\ req'[r].nodeID = q.nodeID
           /\ ChecksAfter(r) = <<>> /\ q.op # "get"
  <2>1. req'[r].phase = "open"
    BY <1>8 DEF GoesTo
  <2>2. Fits(req'[r])
    BY <1>1, <1>4, <1>5, <1>8, <2>1 DEF Fits, Asked
  <2>3. RestoresOrphan(r)'
    <3>1. ASSUME q.op = "restore", q.nodeID \in Uncrossed
          PROVE  q.seenPath = Null /\ Home(q.nodeID) = Null
      <4>1. Head(q.checks).action = "RESTORE"
        BY <1>1, <1>4, <3>1 DEF RestoresOrphan
      <4>2. q.seenPath = Null
        <5>1. \A x : <<x>> # <<>>
          OBVIOUS
        <5>. QED BY <1>8, <4>1, <5>1 DEF ChecksAfter
      <4>. QED BY <1>1, <1>4, <3>1, <4>2 DEF RestoresOrphan
    <3>. QED BY <1>2, <1>5, <1>8, <2>1, <3>1
         DEF RestoresOrphan, Uncrossed, Created, Home
  <2>4. KeepsGoal(r)'
    <3>1. ASSUME q.op \in Creates \cup {"move"}
          PROVE  NewParent(r) \notin isTrashed
      BY <1>1, <1>8, <3>1, GrantedGoal DEF Ask
    <3>. QED BY <1>2, <1>5, <1>8, <3>1 DEF KeepsGoal
  <2>. QED BY <1>1, <1>2, <1>3, <1>5, <1>8, <2>2, <2>3, <2>4, QuietStep DEF Holds
<1>. QED BY <1>1, <1>6, <1>7, <1>8

-----------------------------------------------------------------------------
(* Steps on system folders, and a step on grants *)

\* Nothing is said of system folders.
LEMMA SystemStep ==
  ASSUME IInv, Created' = Created, RowsTyped', AclTyped', RestTyped',
         \A n \in UserNode : parentID'[n] = parentID[n],
         UNCHANGED <<nodeType, ownerID, deletedAt, oldPath, task, owner, parent,
                     isTrashed, req, minted, notes>>
  PROVE  IInv'
<1>1. TypeOK'
  BY Parts, TypePartsNext DEF ReqsTyped
<1>2. \A r \in Request : InTx(r) => req[r].nodeID \in UserNode
  BY DEF IInv, RequestsFit, Fits, InTx
<1>3. RequestsFit' /\ Locks' /\ TaskOfRow' /\ MirroredHasOwner' /\ GoalIsKept'
      /\ MirroredMove'
  BY DEF IInv, RequestsFit, Locks, TaskOfRow, InTx, TaskRules, MirroredHasOwner,
         GoalIsKept, KeepsGoal, NewParent, MirroredMove
<1>4. RowsHaveOwner'
  BY DEF IInv, RowsHaveOwner
<1>5. Marked'
  BY DEF IInv, Marked, MirroredIn
<1>6. IdsAreFresh'
  <2>1. \A n \in UserNode : n \in node' <=> n \in node
    BY DEF Created
  <2>. QED BY <2>1 DEF IInv, IdsAreFresh, Numbered
<1>7. NewIsAlone'
  <2>1. \A n \in UserNode : n \in node' <=> n \in node
    BY DEF Created
  <2>. QED BY <1>2, <2>1 DEF IInv, NewIsAlone, Apart, InTx, Par, NewParent
<1>8. \A n \in Uncrossed : n \in UserNode /\ Home(n)' = Home(n)
  BY DEF Uncrossed, Created, Home
<1>9. Uncrossed' = Uncrossed
  BY DEF Uncrossed
<1>10. TrashHome'
  BY <1>8, <1>9 DEF IInv, TrashHome, SeesNoTrash
<1>11. HeldParent'
  BY <1>8, <1>9 DEF IInv, HeldParent, InTx
<1>12. OrphansAreRestored'
  BY <1>8, <1>9 DEF IInv, OrphansAreRestored, RestoresOrphan
<1>13. Mirrors'
  BY <1>8, <1>9 DEF IInv, Mirrors, MirroredIn, Par
<1>. QED
  BY <1>1, <1>3, <1>4, <1>5, <1>6, <1>7, <1>10, <1>11, <1>12, <1>13 DEF IInv

LEMMA EnsureKeeps ==
  ASSUME IInv, NEW u \in User, NEW n \in {Root(u), Trash(u)}, Ensure(u, n)
  PROVE  IInv'
<1>1. {Root(u), n} \subseteq SystemNode
  BY Ids
<1>2. UNCHANGED <<nodeType, ownerID, deletedAt, oldPath, task, owner, parent,
                  blocked, isTrashed, role, req, minted, coming, notes>>
  BY DEF Ensure, aclVars
<1>3. node' = node \cup {Root(u), n}
      /\ parentID' = [parentID EXCEPT ![n] = IF n = Root(u) THEN Null ELSE Root(u)]
  BY DEF Ensure
<1>4. Created' = Created
  BY <1>1, <1>3, Ids DEF Created
<1>5. \A m \in UserNode : parentID'[m] = parentID[m]
  BY <1>1, <1>3, Ids, Parts DEF RowsTyped
<1>6. RowsTyped'
  BY <1>1, <1>2, <1>3, Ids, Parts DEF RowsTyped
<1>7. AclTyped' /\ RestTyped'
  BY <1>2, Parts DEF AclTyped, RestTyped
<1>. QED BY <1>2, <1>4, <1>5, <1>6, <1>7, SystemStep

\* Neither is anything said of blocked and of role.
LEMMA ShareKeeps ==
  ASSUME IInv, NEW n \in V7, NEW x \in Role, NEW u \in User,
         Share(n, x, u) \/ Unshare(n, x, u)
  PROVE  IInv'
<1>1. UNCHANGED <<node, nodeType, ownerID, parentID, deletedAt, oldPath, task,
                  owner, parent, blocked, isTrashed, req, minted, notes>>
  BY DEF Share, Unshare, rowVars
<1>2. n \in UserNode
  BY KnownTyped, Parts DEF RestTyped
<1>3. role' \subseteq UserNode \X Role \X User
  <2>1. role' \subseteq role \cup {<<n, x, u>>} /\ role \subseteq UserNode \X Role \X User
    BY Parts DEF Share, Unshare, AclTyped
  <2>. QED BY <1>2, <2>1
<1>4. AclTyped' /\ RowsTyped'
  BY <1>1, <1>3, Parts DEF AclTyped, RowsTyped
<1>5. RestTyped'
  <2>1. "grant" \in Op \cup AclCall /\ "revoke" \in Op \cup AclCall
    BY DEF AclCall
  <2>2. coming \in [Op \cup AclCall -> Nat]
    BY Parts DEF RestTyped
  <2>3. PICK c \in Op \cup AclCall :
          coming[c] > 0 /\ coming' = [coming EXCEPT ![c] = coming[c] - 1]
    BY <2>1 DEF Share, Unshare
  <2>4. coming' \in [Op \cup AclCall -> Nat]
    BY <2>2, <2>3
  <2>. QED BY <1>1, <2>4, Parts DEF RestTyped
<1>6. Created' = Created
  BY <1>1 DEF Created
<1>. QED BY <1>1, <1>4, <1>5, <1>6, SystemStep

-----------------------------------------------------------------------------
(* The start of a transaction *)

LEMMA NotesTyped ==
  ASSUME RestTyped, NEW t \in SUBSET NodeID, NEW b \in BOOLEAN,
         \/ notes' = [notes EXCEPT !.torn = t]
         \/ notes' = [notes EXCEPT !.crossed = t]
         \/ notes' = [notes EXCEPT !.raced = b],
         UNCHANGED <<minted, coming>>
  PROVE  RestTyped'
BY DEF RestTyped

LEMMA WriteRowKeeps ==
  ASSUME IInv, NEW r \in Request, WriteRow(r)
  PROVE  IInv'
<1> DEFINE q == req[r]
           n == q.nodeID
<1>1. /\ ReqsTyped' /\ q.phase = "open" /\ GoesTo(r, "written") /\ Reads(r)
      /\ req'[r].nodeID = n
  BY WriteRowShape, Parts
<1>2. UNCHANGED <<node, nodeType, ownerID, parentID, deletedAt, oldPath, task,
                  owner, parent, blocked, isTrashed, role, minted, coming>>
  BY DEF WriteRow, rowVars, aclVars
<1>3. q.op \notin Creates /\ Unlocked(r) /\ TaskRules(r)
  BY DEF WriteRow
<1>4. Fits(q) /\ q.op \in Op
  BY Parts DEF IInv, RequestsFit, ReqsTyped, RequestRecord
<1>5. n \in UserNode /\ n \in NodeID
  BY <1>1, <1>3, <1>4, Ids DEF Fits, Asked, Op, Creates
<1>6. /\ \A p \in Request \ {r} : req'[p] = req[p]
      /\ req'[r].phase = "written" /\ req'[r].op = q.op /\ req'[r].user = q.user
      /\ req'[r].target = q.target /\ req'[r].overtaken = q.overtaken
      /\ req'[r].seenParent = q.seenParent /\ req'[r].seenPath = q.seenPath
  BY <1>1 DEF GoesTo, Others, Reads
<1>7. /\ notes'.torn = notes.torn /\ notes.crossed \subseteq notes'.crossed
      /\ q.op \in {"move", "softDelete"} /\ parentID[n] # q.seenParent =>
           n \in notes'.crossed
      /\ RestTyped'
  <2> DEFINE t == IF q.op \in {"move", "softDelete"} /\ parentID[n] # q.seenParent
                  THEN notes.crossed \cup {n} ELSE notes.crossed
  <2>1. notes' = [notes EXCEPT !.crossed = t]
    BY DEF WriteRow
  <2>2. notes \in [torn : SUBSET NodeID, crossed : SUBSET NodeID, raced : BOOLEAN]
    BY Parts DEF RestTyped
  <2>3. t \in SUBSET NodeID
    BY <1>5, <2>2
  <2>4. RestTyped'
    BY <1>2, <2>1, <2>3, NotesTyped, Parts
  <2>5. notes'.torn = notes.torn /\ notes'.crossed = t
    BY <2>1, <2>2
  <2>. QED BY <2>4, <2>5
<1>8. Uncrossed' \subseteq Uncrossed
  BY <1>2, <1>7 DEF Uncrossed, Created
<1>9. /\ \A p \in Request : InTx(p)' <=> InTx(p) \/ p = r
      /\ ~ InTx(r)
      /\ \A m, ops : MirroredIn(m, ops)' <=> MirroredIn(m, ops)
      /\ \A p \in Request : req'[p].phase = "mirrored" => p # r
  BY <1>1, <1>6 DEF InTx, MirroredIn
<1>10. TypeOK'
  BY <1>1, <1>2, <1>7, Parts, TypePartsNext DEF RowsTyped, AclTyped
<1>11. RequestsFit'
  <2>1. Fits(req'[r])
    BY <1>1, <1>4, <1>5, <1>6 DEF Fits, Asked
  <2>. QED BY <1>6, <2>1 DEF IInv, RequestsFit
<1>12. RowsHaveOwner' /\ MirroredHasOwner' /\ MirroredMove'
  BY <1>2, <1>6, <1>9
  DEF IInv, RowsHaveOwner, MirroredHasOwner, MirroredMove, Created
<1>13. Locks'
  BY <1>1, <1>3, <1>6, <1>9 DEF IInv, Locks, Unlocked
<1>14. TaskOfRow'
  BY <1>1, <1>2, <1>3, <1>6, <1>9 DEF IInv, TaskOfRow, TaskRules
<1>15. Marked'
  BY <1>2, <1>6, <1>7, <1>9 DEF IInv, Marked
<1>16. IdsAreFresh'
  BY <1>1, <1>2, <1>6 DEF IInv, IdsAreFresh, Numbered, HasLooked, Asked
<1>17. NewIsAlone'
  BY <1>1, <1>2, <1>3, <1>6, <1>9
  DEF IInv, NewIsAlone, Apart, HasLooked, Asked, Par, NewParent
<1>18. TrashHome'
  BY <1>1, <1>2, <1>6, <1>7, <1>8
  DEF IInv, TrashHome, SeesNoTrash, Asked
<1>19. HeldParent'
  <2>1. ASSUME q.op \in {"move", "softDelete"}, n \in Uncrossed'
        PROVE  parentID[n] = q.seenParent /\ n \notin deletedAt
    <3>1. parentID[n] = q.seenParent /\ n \in Uncrossed /\ n \notin notes.crossed
      BY <1>7, <1>8, <2>1 DEF Uncrossed
    <3>2. CASE q.op = "softDelete"
      BY <1>3, <1>5, <3>1, <3>2 DEF TaskRules, IInv, TaskOfRow
    <3>3. CASE q.op = "move"
      <4>1. q.seenParent \notin TrashNode
        BY <1>1, <3>1, <3>3 DEF IInv, TrashHome, SeesNoTrash, Asked
      <4>. QED BY <3>1, <4>1 DEF IInv, TrashHome
    <3>. QED BY <2>1, <3>1, <3>2, <3>3
  <2>. QED BY <1>1, <1>2, <1>6, <1>8, <1>9, <2>1 DEF IInv, HeldParent
<1>20. OrphansAreRestored'
  BY <1>1, <1>2, <1>6, <1>8
  DEF IInv, OrphansAreRestored, RestoresOrphan, Home, Asked
<1>21. Mirrors'
  BY <1>1, <1>2, <1>6, <1>7, <1>8, <1>9 DEF IInv, Mirrors, Home, Par
<1>22. GoalIsKept'
  BY <1>1, <1>2, <1>6 DEF IInv, GoalIsKept, KeepsGoal, NewParent, Asked
<1>. QED
  BY <1>10, <1>11, <1>12, <1>13, <1>14, <1>15, <1>16, <1>17, <1>18, <1>19,
     <1>20, <1>21, <1>22 DEF IInv

LEMMA WriteNewKeeps ==
  ASSUME IInv, NEW r \in Request, WriteNew(r)
  PROVE  IInv'
<1> DEFINE q == req[r]
           n == FreshID(minted + 1)
<1>1. /\ ReqsTyped' /\ q.phase = "open" /\ GoesTo(r, "written") /\ Reads(r)
      /\ req'[r].nodeID = n /\ n \in UserNode /\ n.of = minted + 1
      /\ minted' = minted + 1
  BY WriteNewShape, Parts
<1>2. UNCHANGED <<node, nodeType, ownerID, parentID, deletedAt, oldPath, task,
                  owner, parent, blocked, isTrashed, role, coming, notes>>
  BY DEF WriteNew, rowVars, aclVars
<1>3. q.op \in Creates /\ minted < MaxNode /\ minted \in Nat
  BY Parts, BoundAssumption DEF WriteNew, RestTyped
<1>4. /\ \A p \in Request \ {r} : req'[p] = req[p]
      /\ req'[r].phase = "written" /\ req'[r].op = q.op /\ req'[r].user = q.user
      /\ req'[r].target = q.target /\ req'[r].overtaken = q.overtaken
      /\ req'[r].seenPath = q.seenPath
  BY <1>1 DEF GoesTo, Others, Reads
<1>5. /\ \A p \in Request : InTx(p)' <=> InTx(p) \/ p = r
      /\ ~ InTx(r)
      /\ \A m, ops : MirroredIn(m, ops)' <=> MirroredIn(m, ops)
      /\ \A p \in Request : req'[p].phase = "mirrored" => p # r
  BY <1>1, <1>4 DEF InTx, MirroredIn
<1>6. /\ q.op \notin {"update", "move", "softDelete", "restore", "purge"}
      /\ ~ WritesRow(q.op) /\ ~ WritesTask(q.op)
  BY <1>3 DEF Creates, WritesRow, WritesTask
<1>7. TypeOK'
  <2>1. RestTyped'
    BY <1>1, <1>2, <1>3, Parts, BoundAssumption DEF RestTyped
  <2>. QED BY <1>1, <1>2, <2>1, Parts, TypePartsNext DEF RowsTyped, AclTyped
<1>8. RequestsFit'
  <2>1. Fits(q)
    BY DEF IInv, RequestsFit
  <2>2. Fits(req'[r])
    BY <1>1, <1>3, <1>4, <1>6, <2>1 DEF Fits, Asked
  <2>. QED BY <1>4, <2>2 DEF IInv, RequestsFit
<1>9. RowsHaveOwner' /\ MirroredHasOwner' /\ MirroredMove'
  BY <1>2, <1>4, <1>5
  DEF IInv, RowsHaveOwner, MirroredHasOwner, MirroredMove, Created
<1>10. Locks'
  BY <1>4, <1>5, <1>6 DEF IInv, Locks
<1>11. TaskOfRow'
  BY <1>2, <1>4, <1>5, <1>6 DEF IInv, TaskOfRow, TaskRules
<1>12. Marked'
  BY <1>2, <1>4, <1>5 DEF IInv, Marked
<1>13. /\ \A m \in (node \cup deletedAt) \cap UserNode : m.of <= minted
       /\ \A e \in parent : e[2].of <= minted
       /\ \A p \in Request : Numbered(p)
  BY DEF IInv, IdsAreFresh
<1>14. /\ \A m \in UserNode : m.of \in Nat
       /\ \A e \in parent : e[2].of \in Nat
  <2>1. \A m \in UserNode : m.of \in Nat
    BY FreshIds
  <2>2. \A e \in parent : e[2] \in UserNode
    BY Parts DEF AclTyped
  <2>. QED BY <2>1, <2>2
<1>15. IdsAreFresh'
  BY <1>1, <1>2, <1>3, <1>4, <1>13, <1>14 DEF IdsAreFresh, Numbered
<1>16. /\ n \notin node \cup deletedAt
       /\ \A p \in Request : HasLooked(req[p]) => req[p].nodeID # n
       /\ Par(n) = {}
  BY <1>1, <1>3, <1>13 DEF Numbered, Par
<1>17. NewIsAlone'
  <2>1. ASSUME NEW p \in Request, NEW s \in Request, p # s
        PROVE  Apart(p, s)'
    <3>1. CASE p = r
      BY <1>1, <1>4, <1>16, <2>1, <3>1 DEF Apart, InTx
    <3>2. CASE s = r
      BY <1>1, <1>4, <1>16, <2>1, <3>2 DEF Apart, InTx, HasLooked, Asked
    <3>3. CASE p # r /\ s # r
      BY <1>4, <2>1, <3>3 DEF Apart, InTx, IInv, NewIsAlone
    <3>. QED BY <3>1, <3>2, <3>3
  <2>2. ASSUME NEW p \in Request, InTx(p)', req'[p].op \in Creates
        PROVE  /\ req'[p].nodeID \notin node \cup deletedAt
               /\ req'[p].phase = "written" => Par(req'[p].nodeID) = {}
               /\ req'[p].phase = "mirrored" => Par(req'[p].nodeID) = {NewParent(p)'}
    <3>1. CASE p = r
      BY <1>1, <1>4, <1>16, <3>1
    <3>2. CASE p # r
      BY <1>4, <1>5, <2>2, <3>2 DEF IInv, NewIsAlone, NewParent
    <3>. QED BY <3>1, <3>2
  <2>. QED BY <1>2, <2>1, <2>2 DEF NewIsAlone, Par
<1>18. TrashHome'
  BY <1>2, <1>4, <1>6 DEF IInv, TrashHome, SeesNoTrash, Uncrossed, Created
<1>19. HeldParent'
  BY <1>2, <1>4, <1>5, <1>6 DEF IInv, HeldParent, Uncrossed, Created
<1>20. OrphansAreRestored'
  BY <1>2, <1>4, <1>6
  DEF IInv, OrphansAreRestored, RestoresOrphan, Home, Uncrossed, Created
<1>21. Mirrors'
  BY <1>2, <1>4, <1>5 DEF IInv, Mirrors, Home, Par, Uncrossed, Created
<1>22. GoalIsKept'
  BY <1>1, <1>2, <1>4 DEF IInv, GoalIsKept, KeepsGoal, NewParent, Asked
<1>. QED
  BY <1>7, <1>8, <1>9, <1>10, <1>11, <1>12, <1>15, <1>17, <1>18, <1>19, <1>20,
     <1>21, <1>22 DEF IInv

-----------------------------------------------------------------------------
(* The end of a request *)

\* Whatever ends a request leaves the others as they are.
LEMMA Leaves ==
  ASSUME IInv, NEW r \in Request, Others(r), req'[r] = Idle
  PROVE  /\ RequestsFit' /\ Locks' /\ MirroredMove'
         /\ \A p \in Request \ {r} : req'[p] = req[p]
         /\ \A p \in Request : InTx(p)' => InTx(p) /\ p # r
         /\ \A p \in Request : HasLooked(req'[p]) => HasLooked(req[p]) /\ p # r
         /\ \A p \in Request : req'[p].phase \in {"look", "ask"} \cup Asked => p # r
         /\ \A p \in Request : Apart(p, r)' /\ Apart(r, p)'
         /\ SeesNoTrash(r)' /\ RestoresOrphan(r)' /\ KeepsGoal(r)' /\ Numbered(r)'
         /\ \A n, ops : MirroredIn(n, ops)' => MirroredIn(n, ops)
         /\ \A n, ops :
              MirroredIn(n, ops) /\ ~ MirroredIn(n, ops)' =>
                req[r].phase = "mirrored" /\ req[r].nodeID = n /\ req[r].op \in ops
<1>1. \A p \in Request \ {r} : req'[p] = req[p]
  BY DEF Others
<1>2. /\ req'[r].phase = "idle" /\ req'[r].op = "get"
      /\ ~ InTx(r)' /\ ~ HasLooked(req'[r])
  BY IdleFits DEF InTx, HasLooked, Asked
<1>3. RequestsFit'
  BY <1>1, IdleHolds DEF IInv, RequestsFit, Holds
<1>4. \A p \in Request : InTx(p)' => InTx(p) /\ p # r
  BY <1>1, <1>2 DEF InTx
<1>5. Locks'
  BY <1>1, <1>4 DEF IInv, Locks
<1>6. MirroredMove'
  BY <1>1, <1>2 DEF IInv, MirroredMove
<1>7. \A p \in Request : HasLooked(req'[p]) => HasLooked(req[p]) /\ p # r
  BY <1>1, <1>2
<1>8. \A p \in Request : Apart(p, r)' /\ Apart(r, p)'
  BY <1>2 DEF Apart
<1>9. SeesNoTrash(r)' /\ RestoresOrphan(r)' /\ KeepsGoal(r)' /\ Numbered(r)'
  BY IdleHolds DEF Holds
<1>10. /\ \A n, ops : MirroredIn(n, ops)' => MirroredIn(n, ops)
       /\ \A n, ops :
            MirroredIn(n, ops) /\ ~ MirroredIn(n, ops)' =>
              req[r].phase = "mirrored" /\ req[r].nodeID = n /\ req[r].op \in ops
  BY <1>1, <1>2 DEF MirroredIn
<1>. QED
  BY <1>1, <1>2, <1>3, <1>4, <1>5, <1>6, <1>7, <1>8, <1>9, <1>10 DEF Asked

LEMMA RollbackKeeps ==
  ASSUME IInv, NEW r \in Request, Rollback(r)
  PROVE  IInv'
<1> DEFINE n == req[r].nodeID
<1>1. ReqsTyped' /\ Others(r) /\ req'[r] = Idle
  BY EndShape, Parts DEF Rollback
<1>2. UNCHANGED <<node, nodeType, ownerID, parentID, deletedAt, oldPath, task,
                  owner, parent, blocked, isTrashed, role, minted, coming>>
  BY DEF Rollback, rowVars, aclVars
<1>3. n \in NodeID
  BY Ids DEF IInv, RequestsFit, Fits, Rollback, InTx
<1>4. /\ notes'.crossed = notes.crossed /\ notes.torn \subseteq notes'.torn
      /\ req[r].phase = "mirrored" => n \in notes'.torn
      /\ RestTyped'
  <2> DEFINE t == IF req[r].phase = "mirrored" THEN notes.torn \cup {n} ELSE notes.torn
  <2>1. notes' = [notes EXCEPT !.torn = t]
    BY DEF Rollback
  <2>2. notes \in [torn : SUBSET NodeID, crossed : SUBSET NodeID, raced : BOOLEAN]
    BY Parts DEF RestTyped
  <2>3. t \in SUBSET NodeID
    BY <1>3, <2>2
  <2>4. RestTyped'
    BY <1>2, <2>1, <2>3, NotesTyped, Parts
  <2>5. notes'.torn = t /\ notes'.crossed = notes.crossed
    BY <2>1, <2>2
  <2>. QED BY <2>4, <2>5
<1>5. /\ RequestsFit' /\ Locks' /\ MirroredMove'
      /\ \A p \in Request \ {r} : req'[p] = req[p]
      /\ \A p \in Request : InTx(p)' => InTx(p) /\ p # r
      /\ \A p \in Request : HasLooked(req'[p]) => HasLooked(req[p]) /\ p # r
      /\ \A p \in Request : req'[p].phase \in {"look", "ask"} \cup Asked => p # r
      /\ \A p \in Request : Apart(p, r)' /\ Apart(r, p)'
      /\ SeesNoTrash(r)' /\ RestoresOrphan(r)' /\ KeepsGoal(r)' /\ Numbered(r)'
      /\ \A m, ops : MirroredIn(m, ops)' => MirroredIn(m, ops)
      /\ \A m, ops :
           MirroredIn(m, ops) /\ ~ MirroredIn(m, ops)' =>
             req[r].phase = "mirrored" /\ n = m /\ req[r].op \in ops
  BY <1>1, Leaves
<1>6. TypeOK'
  BY <1>1, <1>2, <1>4, Parts, TypePartsNext DEF RowsTyped, AclTyped
<1>7. Uncrossed' = Uncrossed
  BY <1>2, <1>4 DEF Uncrossed, Created
<1>8. RowsHaveOwner' /\ MirroredHasOwner'
  BY <1>2, <1>5 DEF IInv, RowsHaveOwner, MirroredHasOwner, Created, Asked
<1>9. TaskOfRow'
  BY <1>2, <1>5 DEF IInv, TaskOfRow, TaskRules
<1>10. Marked'
  BY <1>2, <1>4, <1>5 DEF IInv, Marked, Asked
<1>11. IdsAreFresh'
  BY <1>2, <1>5 DEF IInv, IdsAreFresh, Numbered
<1>12. NewIsAlone'
  BY <1>2, <1>5 DEF IInv, NewIsAlone, Apart, InTx, Par, NewParent
<1>13. TrashHome'
  BY <1>2, <1>4, <1>5, <1>7 DEF IInv, TrashHome, SeesNoTrash
<1>14. HeldParent'
  BY <1>2, <1>5, <1>7 DEF IInv, HeldParent
<1>15. OrphansAreRestored'
  BY <1>2, <1>5, <1>7 DEF IInv, OrphansAreRestored, RestoresOrphan, Home
<1>16. Mirrors'
  BY <1>2, <1>4, <1>5, <1>7 DEF IInv, Mirrors, Home, Par, Asked
<1>17. GoalIsKept'
  BY <1>2, <1>5 DEF IInv, GoalIsKept, KeepsGoal, NewParent
<1>. QED
  BY <1>5, <1>6, <1>8, <1>9, <1>10, <1>11, <1>12, <1>13, <1>14, <1>15, <1>16,
     <1>17 DEF IInv

LEMMA DestroyLinkKeeps ==
  ASSUME IInv, NEW r \in Request, DestroyLink(r)
  PROVE  IInv'
<1> DEFINE n == req[r].nodeID
<1>1. ReqsTyped' /\ Others(r) /\ req'[r] = Idle
  BY EndShape, Parts DEF DestroyLink
<1>2. /\ UNCHANGED <<nodeType, ownerID, deletedAt, oldPath, task, owner, parent,
                     blocked, isTrashed, role, minted, coming, notes>>
      /\ req[r].phase = "open" /\ req[r].op = "softDelete"
      /\ node' = node \ {n}
      /\ parentID' = [m \in NodeID |->
                        IF m = n \/ parentID[m] = n THEN Null ELSE parentID[m]]
      /\ \A p \in Request \ {r} : InTx(p) => n # req[p].nodeID
                                             /\ n # parentID[req[p].nodeID]
  BY DEF DestroyLink, aclVars
<1>3. n \in UserNode /\ n \notin TrashNode
  BY <1>2, Ids DEF IInv, RequestsFit, Fits, Asked
<1>4. /\ \A m \in NodeID : m # n /\ parentID[m] # n => parentID'[m] = parentID[m]
      /\ \A m \in NodeID : parentID'[m] \in {Null, parentID[m]}
  BY <1>2
<1>5. /\ RequestsFit' /\ Locks' /\ MirroredMove'
      /\ \A p \in Request \ {r} : req'[p] = req[p]
      /\ \A p \in Request : InTx(p)' => InTx(p) /\ p # r
      /\ \A p \in Request : HasLooked(req'[p]) => HasLooked(req[p]) /\ p # r
      /\ \A p \in Request : req'[p].phase \in {"look", "ask"} \cup Asked => p # r
      /\ \A p \in Request : Apart(p, r)' /\ Apart(r, p)'
      /\ SeesNoTrash(r)' /\ RestoresOrphan(r)' /\ KeepsGoal(r)' /\ Numbered(r)'
      /\ \A m, ops : MirroredIn(m, ops)' <=> MirroredIn(m, ops)
  BY <1>1, <1>2, Leaves
<1>6. TypeOK'
  <2>1. RowsTyped'
    BY <1>2, Parts DEF RowsTyped
  <2>. QED BY <1>1, <1>2, <2>1, Parts, TypePartsNext DEF AclTyped, RestTyped
<1>7. Uncrossed' = Uncrossed \ {n} /\ Uncrossed \subseteq NodeID
  BY <1>2, Ids DEF Uncrossed, Created
<1>8. RowsHaveOwner' /\ MirroredHasOwner'
  BY <1>2, <1>5 DEF IInv, RowsHaveOwner, MirroredHasOwner, Created, Asked
<1>9. TaskOfRow'
  BY <1>2, <1>5 DEF IInv, TaskOfRow, TaskRules
<1>10. Marked'
  BY <1>2, <1>5 DEF IInv, Marked, Asked
<1>11. IdsAreFresh'
  BY <1>2, <1>5 DEF IInv, IdsAreFresh, Numbered
<1>12. NewIsAlone'
  BY <1>2, <1>5 DEF IInv, NewIsAlone, Apart, InTx, Par, NewParent
<1>13. TrashHome'
  <2>1. ASSUME NEW m \in Uncrossed'
        PROVE  /\ m \in deletedAt => parentID'[m] \in TrashNode
               /\ m \notin deletedAt => parentID'[m] \notin TrashNode
    <3>1. m \in Uncrossed /\ m # n /\ m \in NodeID
      BY <1>7
    <3>2. CASE m \in deletedAt
      <4>1. parentID[m] \in TrashNode
        BY <3>1, <3>2 DEF IInv, TrashHome
      <4>. QED BY <1>3, <1>4, <3>1, <3>2, <4>1
    <3>3. CASE m \notin deletedAt
      BY <1>4, <3>1, <3>3, Ids DEF IInv, TrashHome
    <3>. QED BY <3>2, <3>3
  <2>. QED BY <1>2, <1>5, <2>1 DEF IInv, TrashHome, SeesNoTrash
<1>14. HeldParent'
  <2>1. ASSUME NEW p \in Request \ {r}, InTx(p)
        PROVE  parentID'[req[p].nodeID] = parentID[req[p].nodeID]
    <3>1. req[p].nodeID \in NodeID
      BY <2>1, Ids DEF IInv, RequestsFit, Fits, InTx
    <3>. QED BY <1>2, <1>4, <2>1, <3>1
  <2>. QED BY <1>2, <1>5, <1>7, <2>1 DEF IInv, HeldParent
<1>15. \A m \in Uncrossed' : Home(m)' \in {Null, Home(m)}
  BY <1>2, <1>4, <1>7 DEF Home
<1>16. OrphansAreRestored'
  BY <1>2, <1>5, <1>7, <1>15 DEF IInv, OrphansAreRestored, RestoresOrphan
<1>17. Mirrors'
  BY <1>2, <1>5, <1>7, <1>15 DEF IInv, Mirrors, Par, Asked
<1>18. GoalIsKept'
  BY <1>2, <1>5 DEF IInv, GoalIsKept, KeepsGoal, NewParent
<1>. QED
  BY <1>5, <1>6, <1>8, <1>9, <1>10, <1>11, <1>12, <1>13, <1>14, <1>16, <1>17,
     <1>18 DEF IInv

-----------------------------------------------------------------------------
(* The relations *)

\* What the alternatives of WriteAcl do, n being the node of the request.
LEMMA AclEffect ==
  ASSUME IInv, NEW r \in Request, req[r].phase = "written", WriteAcl(r),
         NEW n, n = req[r].nodeID
  PROVE  LET q == req[r]
         IN  /\ n \in UserNode /\ n \in NodeID
             /\ AclTyped'
             /\ owner \subseteq owner'
             /\ q.op \in Creates => <<n, q.user>> \in owner'
             /\ \A m \in NodeID : m # n => (m \in isTrashed' <=> m \in isTrashed)
             /\ q.op \notin {"softDelete", "restore"} => isTrashed' = isTrashed
             /\ q.op = "softDelete" => isTrashed' = isTrashed \cup {n}
             /\ q.op = "restore" => isTrashed' = isTrashed \ {n}
             /\ \A e \in parent' : e \in parent \/ e[2] = n
             /\ \A m \in NodeID : m # n => Par(m)' = Par(m)
             /\ q.op \notin Creates \cup {"move"} => parent' = parent
             /\ q.op \in Creates => Par(n)' = Par(n) \cup {NewParent(r)}
             /\ q.op = "move" =>
                  /\ q.seenParent # Null /\ q.target # Null
                  /\ Par(n)' = (Par(n) \ {q.seenParent}) \cup {q.target}
<1> DEFINE q == req[r]
<1>1. n \in UserNode /\ n \in NodeID /\ q.user \in User
  BY Ids DEF IInv, RequestsFit, Fits
<1>2. q.target \in NodeID \cup {Null} /\ q.seenParent \in NodeID \cup {Null}
  BY Parts DEF ReqsTyped, RequestRecord
<1>3. /\ owner \subseteq UserNode \X User /\ parent \subseteq NodeID \X UserNode
      /\ blocked \subseteq UserNode /\ isTrashed \subseteq UserNode
      /\ role \subseteq UserNode \X Role \X User
  BY Parts DEF AclTyped
<1>4. NewParent(r) \in NodeID
  BY <1>1, <1>2, Ids DEF NewParent
<1>5. CASE GrantNode(r)
  <2>1. /\ q.op \in Creates
        /\ owner' = owner \cup {<<n, q.user>>}
        /\ parent' = parent \cup {<<NewParent(r), n>>}
        /\ blocked' = blocked /\ isTrashed' = isTrashed /\ role' = role
    BY <1>5 DEF GrantNode
  <2>2. owner' \subseteq UserNode \X User /\ parent' \subseteq NodeID \X UserNode
    BY <1>1, <1>3, <1>4, <2>1
  <2>3. /\ \A m \in NodeID : m # n => Par(m)' = Par(m)
        /\ Par(n)' = Par(n) \cup {NewParent(r)}
    <3>1. ASSUME NEW m \in NodeID, m # n
          PROVE  Par(m)' = Par(m)
      <4>1. \A p \in NodeID : <<p, m>> \in parent' <=> <<p, m>> \in parent
        BY <2>1, <3>1
      <4>. QED BY <4>1 DEF Par
    <3>2. \A p \in NodeID : <<p, n>> \in parent' <=> <<p, n>> \in parent \/ p = NewParent(r)
      BY <2>1
    <3>3. Par(n)' = Par(n) \cup {NewParent(r)}
      BY <1>4, <3>2 DEF Par
    <3>. QED BY <3>1, <3>3
  <2>4. /\ \A e \in parent' : e \in parent \/ e[2] = n
        /\ owner \subseteq owner' /\ <<n, q.user>> \in owner'
    BY <2>1
  <2>. QED BY <1>1, <1>3, <2>1, <2>2, <2>3, <2>4 DEF AclTyped, Creates
<1>6. CASE ChangeParent(r)
  <2>1. /\ q.op = "move" /\ q.seenParent # Null /\ q.target # Null
        /\ parent' = (parent \ {<<q.seenParent, n>>}) \cup {<<q.target, n>>}
        /\ owner' = owner /\ blocked' = blocked /\ isTrashed' = isTrashed
        /\ role' = role
    BY <1>6 DEF ChangeParent, Reparented
  <2>2. parent' \subseteq NodeID \X UserNode
    BY <1>1, <1>2, <1>3, <2>1
  <2>3. /\ \A m \in NodeID : m # n => Par(m)' = Par(m)
        /\ Par(n)' = (Par(n) \ {q.seenParent}) \cup {q.target}
    <3>1. ASSUME NEW m \in NodeID, m # n
          PROVE  Par(m)' = Par(m)
      <4>1. \A p \in NodeID : <<p, m>> \in parent' <=> <<p, m>> \in parent
        BY <2>1, <3>1
      <4>. QED BY <4>1 DEF Par
    <3>2. \A p \in NodeID : <<p, n>> \in parent' <=>
                            \/ <<p, n>> \in parent /\ p # q.seenParent
                            \/ p = q.target
      BY <2>1
    <3>3. q.target \in NodeID
      BY <1>2, <2>1
    <3>4. Par(n)' = (Par(n) \ {q.seenParent}) \cup {q.target}
      BY <3>2, <3>3 DEF Par
    <3>. QED BY <3>1, <3>4
  <2>4. \A e \in parent' : e \in parent \/ e[2] = n
    BY <2>1
  <2>. QED BY <1>1, <1>3, <2>1, <2>2, <2>3, <2>4 DEF AclTyped, Creates
<1>7. CASE SwitchInherit(r)
  <2>1. /\ q.op = "update" /\ blocked' \subseteq UserNode
        /\ owner' = owner /\ parent' = parent /\ isTrashed' = isTrashed
        /\ role' = role
    BY <1>1, <1>3, <1>7 DEF SwitchInherit
  <2>. QED BY <1>1, <1>3, <2>1 DEF AclTyped, Creates, Par
<1>8. CASE MarkTrashed(r)
  <2>1. /\ q.op \in {"softDelete", "restore"}
        /\ isTrashed' = (IF q.op = "softDelete" THEN isTrashed \cup {n}
                         ELSE isTrashed \ {n})
        /\ owner' = owner /\ parent' = parent /\ blocked' = blocked
        /\ role' = role
    BY <1>8 DEF MarkTrashed
  <2>2. isTrashed' \subseteq UserNode
    BY <1>1, <1>3, <2>1
  <2>. QED BY <1>1, <1>3, <2>1, <2>2 DEF AclTyped, Creates, Par
<1>. QED BY <1>5, <1>6, <1>7, <1>8 DEF WriteAcl

\* What the other requests keep when r has written n to SpiceDB.
LEMMA OthersKeep ==
  ASSUME IInv, NEW r \in Request, req[r].phase = "written", WriteAcl(r),
         NEW n, n = req[r].nodeID, OthersTold(r), UNCHANGED <<rowVars, minted>>,
         notes'.crossed = notes.crossed
  PROVE  \A q \in Request \ {r} :
           /\ InTx(q)' <=> InTx(q)
           /\ Fits(req'[q]) /\ Numbered(q)' /\ SeesNoTrash(q)' /\ RestoresOrphan(q)'
           /\ TaskRules(q)' <=> TaskRules(q)
           /\ NewParent(q)' = NewParent(q)
           /\ req'[q].op = req[q].op /\ req'[q].nodeID = req[q].nodeID
           /\ req'[q].phase = req[q].phase /\ req'[q].user = req[q].user
           /\ req'[q].target = req[q].target
           /\ req'[q].seenParent = req[q].seenParent
           /\ KeepsGoal(q)'
<1>1. SUFFICES ASSUME NEW q \in Request \ {r}
               PROVE  /\ InTx(q)' <=> InTx(q)
                      /\ Fits(req'[q]) /\ Numbered(q)' /\ SeesNoTrash(q)'
                      /\ RestoresOrphan(q)'
                      /\ TaskRules(q)' <=> TaskRules(q)
                      /\ NewParent(q)' = NewParent(q)
                      /\ req'[q].op = req[q].op /\ req'[q].nodeID = req[q].nodeID
                      /\ req'[q].phase = req[q].phase /\ req'[q].user = req[q].user
                      /\ req'[q].target = req[q].target
                      /\ req'[q].seenParent = req[q].seenParent
                      /\ KeepsGoal(q)'
  OBVIOUS
<1>2. /\ req'[q].op = req[q].op /\ req'[q].user = req[q].user
      /\ req'[q].nodeID = req[q].nodeID /\ req'[q].target = req[q].target
      /\ req'[q].checks = req[q].checks /\ req'[q].phase = req[q].phase
      /\ req'[q].seenParent = req[q].seenParent
      /\ req'[q].seenPath = req[q].seenPath
      /\ req'[q].overtaken = (req[q].overtaken \/ Overtakes(r, q))
  BY DEF OthersTold, Stays
<1>3. UNCHANGED <<node, parentID, deletedAt, oldPath, task, minted>>
  BY DEF rowVars
<1>4. Fits(req'[q])
  <2>1. Fits(req[q])
    BY DEF IInv, RequestsFit
  <2>2. ChecksFit(req[q]) => ChecksFit(req'[q])
    BY <1>2 DEF ChecksFit
  <2>. QED BY <1>2, <2>1, <2>2 DEF Fits
<1>5. Numbered(q)' /\ SeesNoTrash(q)'
  BY <1>2, <1>3 DEF IInv, IdsAreFresh, TrashHome, Numbered, SeesNoTrash, HasLooked
<1>6. RestoresOrphan(q)'
  BY <1>2, <1>3
  DEF IInv, OrphansAreRestored, RestoresOrphan, Uncrossed, Created, Home
<1>7. KeepsGoal(q)'
  <2>1. SUFFICES ASSUME req[q].phase \in Asked, req[q].op \in Creates \cup {"move"},
                        ~ req[q].overtaken, ~ Overtakes(r, q)
                 PROVE  NewParent(q) \notin isTrashed'
    BY <1>2 DEF KeepsGoal, NewParent
  <2>2. NewParent(q) \notin isTrashed
    BY <2>1 DEF IInv, GoalIsKept, KeepsGoal
  <2>3. req[r].op = "softDelete" => NewParent(q) # n
    BY <2>1 DEF Overtakes, Asked
  <2>. QED BY <2>2, <2>3, AclEffect
<1>. QED BY <1>2, <1>3, <1>4, <1>5, <1>6, <1>7 DEF InTx, TaskRules, NewParent

LEMMA MirrorKeeps ==
  ASSUME IInv, NEW r \in Request, Mirror(r)
  PROVE  IInv'
<1> DEFINE q == req[r]
<1>1. /\ ReqsTyped' /\ q.phase = "written" /\ OthersTold(r)
      /\ Stays(r) /\ req'[r].phase = "mirrored"
      /\ req'[r].overtaken = q.overtaken
  BY MirrorShape, Parts
<1>2. /\ WriteAcl(r) /\ UNCHANGED <<rowVars, minted, coming, notes>>
      /\ UNCHANGED <<node, nodeType, ownerID, parentID, deletedAt, oldPath, task>>
  BY DEF Mirror, rowVars
<1>3. PICK n : n = q.nodeID
  OBVIOUS
<1>4. /\ req'[r].op = q.op /\ req'[r].user = q.user /\ req'[r].nodeID = n
      /\ req'[r].target = q.target /\ req'[r].checks = q.checks
      /\ req'[r].seenParent = q.seenParent /\ req'[r].seenPath = q.seenPath
      /\ NewParent(r)' = NewParent(r)
  BY <1>1, <1>3 DEF Stays, NewParent
<1>5. /\ n \in UserNode /\ n \in NodeID
      /\ AclTyped'
      /\ owner \subseteq owner'
      /\ q.op \in Creates => <<n, q.user>> \in owner'
      /\ \A m \in NodeID : m # n => (m \in isTrashed' <=> m \in isTrashed)
      /\ q.op \notin {"softDelete", "restore"} => isTrashed' = isTrashed
      /\ q.op = "softDelete" => isTrashed' = isTrashed \cup {n}
      /\ q.op = "restore" => isTrashed' = isTrashed \ {n}
      /\ \A e \in parent' : e \in parent \/ e[2] = n
      /\ \A m \in NodeID : m # n => Par(m)' = Par(m)
      /\ q.op \notin Creates \cup {"move"} => parent' = parent
      /\ q.op \in Creates => Par(n)' = Par(n) \cup {NewParent(r)}
      /\ q.op = "move" =>
           /\ q.seenParent # Null /\ q.target # Null
           /\ Par(n)' = (Par(n) \ {q.seenParent}) \cup {q.target}
  BY <1>1, <1>2, <1>3, AclEffect
<1>6. \A p \in Request \ {r} :
        /\ InTx(p)' <=> InTx(p)
        /\ Fits(req'[p]) /\ Numbered(p)' /\ SeesNoTrash(p)' /\ RestoresOrphan(p)'
        /\ TaskRules(p)' <=> TaskRules(p)
        /\ NewParent(p)' = NewParent(p)
        /\ req'[p].op = req[p].op /\ req'[p].nodeID = req[p].nodeID
        /\ req'[p].phase = req[p].phase /\ req'[p].user = req[p].user
        /\ req'[p].target = req[p].target
        /\ req'[p].seenParent = req[p].seenParent
        /\ KeepsGoal(p)'
  BY <1>1, <1>2, <1>3, OthersKeep
<1>7. /\ InTx(r) /\ InTx(r)' /\ HasLooked(q) /\ HasLooked(req'[r])
      /\ \A p \in Request : InTx(p)' <=> InTx(p)
      /\ \A m, ops : MirroredIn(m, ops) => MirroredIn(m, ops)'
      /\ \A ops : q.op \in ops => MirroredIn(n, ops)'
  BY <1>1, <1>4, <1>6 DEF InTx, HasLooked, Asked, MirroredIn
<1>8. TypeOK'
  BY <1>1, <1>2, <1>5, Parts, TypePartsNext DEF RowsTyped, RestTyped
<1>9. RequestsFit'
  <2>1. Fits(q)
    BY DEF IInv, RequestsFit
  <2>2. Fits(req'[r])
    BY <1>1, <1>3, <1>4, <2>1 DEF Fits, Asked
  <2>. QED BY <1>6, <2>2 DEF RequestsFit
<1>10. RowsHaveOwner'
  BY <1>2, <1>5 DEF IInv, RowsHaveOwner, Created
<1>11. MirroredHasOwner'
  BY <1>4, <1>5, <1>6 DEF IInv, MirroredHasOwner
<1>12. Locks'
  BY <1>3, <1>4, <1>6, <1>7 DEF IInv, Locks
<1>13. TaskOfRow'
  <2>1. TaskRules(r)' <=> TaskRules(r)
    BY <1>2, <1>3, <1>4 DEF TaskRules
  <2>. QED BY <1>2, <1>6, <1>7, <2>1 DEF IInv, TaskOfRow
<1>14. Marked'
  <2>1. ASSUME NEW m \in UserNode \ notes.torn,
               ~ MirroredIn(m, {"softDelete", "restore"})'
        PROVE  m \in deletedAt <=> m \in isTrashed'
    <3>1. m \in deletedAt <=> m \in isTrashed
      BY <1>7, <2>1 DEF IInv, Marked
    <3>2. m \in isTrashed' <=> m \in isTrashed
      BY <1>5, <1>7, <2>1, Ids
    <3>. QED BY <3>1, <3>2
  <2>2. ASSUME NEW p \in Request, req'[p].phase = "mirrored",
               req'[p].nodeID \notin notes.torn
        PROVE  /\ req'[p].op = "softDelete" => req'[p].nodeID \in isTrashed'
               /\ req'[p].op = "restore" => req'[p].nodeID \notin isTrashed'
    <3>1. CASE p = r
      BY <1>4, <1>5, <3>1
    <3>2. CASE p # r
      <4>1. /\ req[p].op = "softDelete" => req[p].nodeID \in isTrashed
            /\ req[p].op = "restore" => req[p].nodeID \notin isTrashed
        BY <1>6, <2>2, <3>2 DEF IInv, Marked
      <4>2. SUFFICES ASSUME req[p].op \in {"softDelete", "restore"}
                     PROVE  req[p].nodeID \in isTrashed' <=> req[p].nodeID \in isTrashed
        BY <1>6, <3>2, <4>1
      <4>3. InTx(p) /\ req[p].nodeID \in NodeID
        BY <1>6, <2>2, <3>2, Ids DEF InTx, IInv, RequestsFit, Fits
      <4>4. q.op \in {"softDelete", "restore"} => req[p].nodeID # n
        BY <1>3, <1>7, <3>2, <4>2, <4>3 DEF IInv, Locks, WritesTask
      <4>. QED BY <1>5, <4>3, <4>4
    <3>. QED BY <3>1, <3>2
  <2>. QED BY <1>2, <2>1, <2>2 DEF Marked
<1>15. IdsAreFresh'
  <2>1. Numbered(r) /\ n.of <= minted
    BY <1>3, <1>5, <1>7 DEF IInv, IdsAreFresh, Numbered
  <2>2. Numbered(r)'
    BY <1>2, <1>4, <2>1 DEF Numbered
  <2>. QED BY <1>2, <1>5, <1>6, <2>1, <2>2 DEF IInv, IdsAreFresh
<1>16. NewIsAlone'
  <2>1. \A p \in Request : req'[p].op = req[p].op /\ req'[p].nodeID = req[p].nodeID
                            /\ (HasLooked(req'[p]) => HasLooked(req[p]))
    <3>1. \A p \in Request \ {r} : req'[p].seenPath = req[p].seenPath
      BY <1>1 DEF OthersTold, Stays
    <3>. QED BY <1>3, <1>4, <1>6, <1>7, <3>1 DEF HasLooked
  <2>2. \A p, s \in Request : p # s => Apart(p, s)'
    BY <1>7, <2>1 DEF IInv, NewIsAlone, Apart
  <2>3. ASSUME NEW p \in Request, InTx(p), req[p].op \in Creates
        PROVE  /\ req[p].nodeID \notin node \cup deletedAt
               /\ req'[p].phase = "written" => Par(req[p].nodeID)' = {}
               /\ req'[p].phase = "mirrored" => Par(req[p].nodeID)' = {NewParent(p)'}
    <3>1. CASE p = r
      <4>1. Par(n) = {} /\ n \notin node \cup deletedAt
        BY <1>1, <1>3, <2>3, <3>1 DEF IInv, NewIsAlone
      <4>2. Par(n)' = {NewParent(r)}
        BY <1>5, <2>3, <3>1, <4>1
      <4>. QED BY <1>1, <1>3, <1>4, <3>1, <4>1, <4>2
    <3>2. CASE p # r
      <4>1. PICK m \in NodeID : m = req[p].nodeID
        BY <2>3, Ids DEF InTx, IInv, RequestsFit, Fits
      <4>2. m # n
        BY <1>3, <1>7, <2>3, <3>2, <4>1 DEF IInv, NewIsAlone, Apart
      <4>3. Par(m)' = Par(m)
        BY <1>5, <4>2
      <4>. QED BY <1>6, <2>3, <3>2, <4>1, <4>3 DEF IInv, NewIsAlone
    <3>. QED BY <3>1, <3>2
  <2>. QED BY <1>2, <1>7, <2>1, <2>2, <2>3 DEF NewIsAlone
<1>17. SeesNoTrash(r)' /\ RestoresOrphan(r)' /\ KeepsGoal(r)'
  <2>1. SeesNoTrash(r) /\ RestoresOrphan(r)
    BY DEF IInv, TrashHome, OrphansAreRestored
  <2>2. SeesNoTrash(r)'
    BY <1>1, <1>2, <1>3, <1>4, <2>1 DEF SeesNoTrash, Asked
  <2>3. RestoresOrphan(r)'
    BY <1>1, <1>2, <1>3, <1>4, <2>1
    DEF RestoresOrphan, Asked, Uncrossed, Created, Home
  <2>4. KeepsGoal(r)'
    <3>1. q.op \in Creates \cup {"move"} => isTrashed' = isTrashed
      BY <1>5 DEF Creates
    <3>2. KeepsGoal(r)
      BY DEF IInv, GoalIsKept
    <3>. QED BY <1>1, <1>4, <3>1, <3>2 DEF KeepsGoal, Asked
  <2>. QED BY <2>2, <2>3, <2>4
<1>18. TrashHome'
  BY <1>2, <1>6, <1>17 DEF IInv, TrashHome, Uncrossed, Created
<1>19. HeldParent' /\ MirroredMove'
  BY <1>2, <1>3, <1>4, <1>5, <1>6, <1>7
  DEF IInv, HeldParent, MirroredMove, Uncrossed, Created
<1>20. OrphansAreRestored' /\ GoalIsKept'
  BY <1>6, <1>17 DEF OrphansAreRestored, GoalIsKept
<1>21. Mirrors'
  <2>1. n \in Uncrossed => q.op \notin Creates
    BY <1>3, <1>7 DEF IInv, NewIsAlone, Uncrossed, Created
  <2>2. /\ Uncrossed' = Uncrossed /\ Uncrossed \subseteq NodeID
        /\ notes' = notes
        /\ \A m \in Uncrossed : Home(m)' = Home(m)
    BY <1>2, Ids DEF Uncrossed, Created, Home
  <2>3. \A m \in Uncrossed :
          ~ (m = n /\ q.op = "move") => Par(m)' = Par(m)
    BY <1>5, <2>1, <2>2 DEF Par
  <2>4. ASSUME NEW m \in Uncrossed \ notes.torn
        PROVE  MirroredIn(m, {"move"})' \/ Home(m)' = Null \/ Par(m)' = {Home(m)'}
    <3>1. CASE m = n /\ q.op = "move"
      BY <1>7, <3>1
    <3>2. CASE ~ (m = n /\ q.op = "move")
      <4>1. Par(m)' = Par(m) /\ Home(m)' = Home(m)
        BY <2>2, <2>3, <3>2
      <4>2. MirroredIn(m, {"move"}) \/ Home(m) = Null \/ Par(m) = {Home(m)}
        BY DEF IInv, Mirrors
      <4>. QED BY <1>7, <4>1, <4>2
    <3>. QED BY <3>1, <3>2
  <2>5. ASSUME NEW p \in Request, req'[p].phase = "mirrored", req'[p].op = "move",
               req'[p].nodeID \in Uncrossed \ notes.torn
        PROVE  Par(req[p].nodeID)' = {req'[p].target}
    <3>1. CASE p = r
      <4>1. n \in Uncrossed \ notes.torn /\ q.op = "move"
        BY <1>4, <2>5, <3>1
      <4>2. parentID[n] = q.seenParent /\ n \notin deletedAt
        BY <1>3, <1>7, <4>1 DEF IInv, HeldParent
      <4>3. Home(n) = q.seenParent /\ q.seenParent # Null
        BY <1>5, <4>1, <4>2 DEF Home
      <4>4. ~ MirroredIn(n, {"move"})
        <5>1. SUFFICES ASSUME NEW s \in Request, req[s].phase = "mirrored",
                              req[s].nodeID = n, req[s].op = "move"
                       PROVE  FALSE
          BY DEF MirroredIn
        <5>2. InTx(s) /\ s # r
          BY <1>1, <5>1 DEF InTx
        <5>. QED BY <1>3, <1>7, <4>1, <5>1, <5>2 DEF IInv, Locks, WritesRow
      <4>5. Par(n) = {q.seenParent}
        BY <4>1, <4>3, <4>4 DEF IInv, Mirrors
      <4>6. Par(n)' = {q.target}
        BY <1>5, <4>1, <4>5
      <4>. QED BY <1>4, <3>1, <4>6
    <3>2. CASE p # r
      <4>1. PICK m : m = req[p].nodeID
        OBVIOUS
      <4>2. Par(m) = {req[p].target} /\ m \in Uncrossed
        BY <1>6, <2>5, <3>2, <4>1 DEF IInv, Mirrors
      <4>3. ~ (m = n /\ q.op = "move")
        BY <1>3, <1>6, <1>7, <2>5, <3>2, <4>1 DEF IInv, Locks, WritesRow, InTx
      <4>4. Par(m)' = Par(m)
        BY <2>3, <4>2, <4>3
      <4>. QED BY <1>6, <3>2, <4>1, <4>2, <4>4
    <3>. QED BY <3>1, <3>2
  <2>. QED BY <2>2, <2>4, <2>5 DEF Mirrors
<1>. QED
  BY <1>8, <1>9, <1>10, <1>11, <1>12, <1>13, <1>14, <1>15, <1>16, <1>18, <1>19,
     <1>20, <1>21 DEF IInv

LEMMA MirrorLostKeeps ==
  ASSUME IInv, NEW r \in Request, MirrorLost(r)
  PROVE  IInv'
<1> DEFINE q == req[r]
<1>1. ReqsTyped' /\ q.phase = "written" /\ OthersTold(r) /\ req'[r] = Idle
  BY MirrorLostShape, Parts
<1>2. /\ WriteAcl(r) /\ UNCHANGED <<rowVars, minted, coming>>
      /\ UNCHANGED <<node, nodeType, ownerID, parentID, deletedAt, oldPath, task>>
  BY DEF MirrorLost, rowVars
<1>3. PICK n : n = q.nodeID
  OBVIOUS
<1>4. /\ n \in UserNode /\ n \in NodeID
      /\ AclTyped'
      /\ owner \subseteq owner'
      /\ \A m \in NodeID : m # n => (m \in isTrashed' <=> m \in isTrashed)
      /\ \A e \in parent' : e \in parent \/ e[2] = n
      /\ \A m \in NodeID : m # n => Par(m)' = Par(m)
  BY <1>1, <1>2, <1>3, AclEffect
<1>5. /\ notes'.torn = notes.torn \cup {n} /\ notes'.crossed = notes.crossed
      /\ RestTyped'
  <2>1. notes \in [torn : SUBSET NodeID, crossed : SUBSET NodeID, raced : BOOLEAN]
    BY Parts DEF RestTyped
  <2>2. notes' = [notes EXCEPT !.torn = notes.torn \cup {n}]
    BY <1>3 DEF MirrorLost
  <2>3. notes.torn \cup {n} \in SUBSET NodeID
    BY <1>4, <2>1
  <2>4. RestTyped'
    BY <1>2, <2>2, <2>3, NotesTyped, Parts
  <2>. QED BY <2>1, <2>2, <2>4
<1>6. \A p \in Request \ {r} :
        /\ InTx(p)' <=> InTx(p)
        /\ Fits(req'[p]) /\ Numbered(p)' /\ SeesNoTrash(p)' /\ RestoresOrphan(p)'
        /\ TaskRules(p)' <=> TaskRules(p)
        /\ NewParent(p)' = NewParent(p)
        /\ req'[p].op = req[p].op /\ req'[p].nodeID = req[p].nodeID
        /\ req'[p].phase = req[p].phase /\ req'[p].user = req[p].user
        /\ req'[p].target = req[p].target
        /\ req'[p].seenParent = req[p].seenParent
        /\ KeepsGoal(p)'
  BY <1>1, <1>2, <1>3, <1>5, OthersKeep
<1>7. /\ Fits(req'[r]) /\ Numbered(r)' /\ SeesNoTrash(r)' /\ RestoresOrphan(r)'
      /\ KeepsGoal(r)' /\ ~ InTx(r)' /\ ~ HasLooked(req'[r])
      /\ req'[r].phase \notin {"written", "mirrored"} /\ req'[r].op = "get"
  BY <1>1, IdleHolds, IdleFits DEF Holds, HasLooked, Asked
<1>8. /\ InTx(r) /\ HasLooked(q)
      /\ \A p \in Request : InTx(p)' => InTx(p) /\ p # r
      /\ \A p \in Request : req'[p].phase = "mirrored" => p # r
      /\ \A m, ops : MirroredIn(m, ops) <=> MirroredIn(m, ops)'
  BY <1>1, <1>6, <1>7 DEF InTx, HasLooked, Asked, MirroredIn
<1>9. TypeOK'
  BY <1>1, <1>2, <1>4, <1>5, Parts, TypePartsNext DEF RowsTyped
<1>10. RequestsFit' /\ OrphansAreRestored' /\ GoalIsKept'
  BY <1>6, <1>7 DEF RequestsFit, OrphansAreRestored, GoalIsKept
<1>11. RowsHaveOwner' /\ MirroredHasOwner'
  BY <1>2, <1>4, <1>6, <1>8 DEF IInv, RowsHaveOwner, MirroredHasOwner, Created
<1>12. Locks'
  BY <1>6, <1>8 DEF IInv, Locks
<1>13. TaskOfRow'
  BY <1>2, <1>6, <1>8 DEF IInv, TaskOfRow
<1>14. Marked'
  <2>1. ASSUME NEW m \in UserNode \ notes'.torn
        PROVE  m \in NodeID /\ m # n /\ m \in UserNode \ notes.torn
    BY <1>5, Ids
  <2>2. ASSUME NEW p \in Request, req'[p].phase = "mirrored"
        PROVE  req[p].nodeID \in UserNode
    BY <1>6, <1>8, <2>2 DEF IInv, RequestsFit, Fits
  <2>. QED BY <1>2, <1>4, <1>6, <1>8, <2>1, <2>2 DEF IInv, Marked
<1>15. IdsAreFresh'
  <2>1. n.of <= minted
    BY <1>3, <1>4, <1>8 DEF IInv, IdsAreFresh, Numbered
  <2>. QED BY <1>2, <1>4, <1>6, <1>7, <2>1 DEF IInv, IdsAreFresh
<1>16. NewIsAlone'
  <2>1. \A p \in Request \ {r} : HasLooked(req'[p]) => HasLooked(req[p])
    BY <1>1, <1>6 DEF HasLooked, OthersTold, Stays
  <2>2. ASSUME NEW p \in Request, NEW s \in Request, p # s
        PROVE  Apart(p, s)'
    BY <1>6, <1>7, <1>8, <2>1, <2>2 DEF IInv, NewIsAlone, Apart
  <2>3. ASSUME NEW p \in Request \ {r}, InTx(p), req[p].op \in Creates
        PROVE  /\ req[p].nodeID \notin node \cup deletedAt
               /\ req'[p].phase = "written" => Par(req[p].nodeID)' = {}
               /\ req'[p].phase = "mirrored" => Par(req[p].nodeID)' = {NewParent(p)'}
    <3>1. PICK m \in NodeID : m = req[p].nodeID
      BY <2>3, Ids DEF InTx, IInv, RequestsFit, Fits
    <3>2. m # n
      BY <1>3, <1>8, <2>3, <3>1 DEF IInv, NewIsAlone, Apart
    <3>3. Par(m)' = Par(m)
      BY <1>4, <3>2
    <3>4. Par(req[p].nodeID)' = Par(m)'
      BY <1>6, <3>1
    <3>. QED BY <1>6, <2>3, <3>1, <3>3, <3>4 DEF IInv, NewIsAlone
  <2>. QED BY <1>2, <1>6, <1>8, <2>2, <2>3 DEF NewIsAlone
<1>17. /\ Uncrossed' = Uncrossed /\ Uncrossed \subseteq NodeID
       /\ \A m \in Uncrossed : Home(m)' = Home(m)
  BY <1>2, <1>5, Ids DEF Uncrossed, Created, Home
<1>18. TrashHome'
  BY <1>2, <1>5, <1>6, <1>7, <1>17 DEF IInv, TrashHome
<1>19. HeldParent' /\ MirroredMove'
  BY <1>2, <1>6, <1>8, <1>17 DEF IInv, HeldParent, MirroredMove
<1>20. Mirrors'
  <2>1. \A m \in Uncrossed' \ notes'.torn :
          /\ m \in Uncrossed \ notes.torn
          /\ Par(m)' = Par(m) /\ Home(m)' = Home(m)
    BY <1>4, <1>5, <1>17
  <2>2. \A m \in Uncrossed' \ notes'.torn :
          MirroredIn(m, {"move"})' \/ Home(m)' = Null \/ Par(m)' = {Home(m)'}
    BY <1>8, <2>1 DEF IInv, Mirrors
  <2>3. ASSUME NEW p \in Request, req'[p].phase = "mirrored", req'[p].op = "move",
               req'[p].nodeID \in Uncrossed' \ notes'.torn
        PROVE  Par(req[p].nodeID)' = {req'[p].target}
    <3>1. p # r
      BY <1>8, <2>3
    <3>2. PICK m : m = req[p].nodeID
      OBVIOUS
    <3>3. Par(m) = {req[p].target} /\ Par(m)' = Par(m)
      BY <1>6, <2>1, <2>3, <3>1, <3>2 DEF IInv, Mirrors
    <3>. QED BY <1>6, <3>1, <3>2, <3>3
  <2>. QED BY <1>6, <1>8, <2>2, <2>3 DEF Mirrors
<1>. QED
  BY <1>9, <1>10, <1>11, <1>12, <1>13, <1>14, <1>15, <1>16, <1>18, <1>19, <1>20
  DEF IInv

-----------------------------------------------------------------------------
(* The commits *)

\* The rows other than n stay.
OnlyRow(n) ==
  \A m \in UserNode \ {n} :
    /\ m \in node' <=> m \in node
    /\ ownerID'[m] = ownerID[m] /\ parentID'[m] = parentID[m]
    /\ m \in deletedAt' <=> m \in deletedAt
    /\ oldPath'[m] = oldPath[m] /\ task'[m] = task[m]

\* What a commit has to do for its row, that the invariant holds.
LEMMA CommitStep ==
  ASSUME IInv, NEW r \in Request, InTx(r), NEW n, n = req[r].nodeID,
         Others(r), req'[r] = Idle, ReqsTyped', RowsTyped', RestTyped',
         UNCHANGED <<owner, parent, blocked, isTrashed, role, minted>>,
         notes'.torn = notes.torn, notes'.crossed = notes.crossed,
         OnlyRow(n),
         n \in node' => <<n, ownerID'[n]>> \in owner,
         n \in deletedAt' <=> task'[n] = "soft_deleted",
         WritesTask(req[r].op) \/ task'[n] = task[n],
         n \notin notes.torn =>
           \/ n \in deletedAt' <=> n \in isTrashed
           \/ MirroredIn(n, {"softDelete", "restore"})',
         n \in Uncrossed' =>
           /\ n \in deletedAt' => parentID'[n] \in TrashNode
           /\ n \notin deletedAt' => parentID'[n] \notin TrashNode,
         n \notin notes.crossed => oldPath'[n] \notin TrashNode,
         \/ req[r].op \in Creates \/ WritesRow(req[r].op)
         \/ /\ parentID'[n] = parentID[n]
            /\ n \in deletedAt' => n \in deletedAt,
         \/ req[r].op \in Creates
         \/ /\ n \in node' => n \in node
            /\ n \in Uncrossed =>
                 /\ n \in deletedAt /\ oldPath[n] # Null =>
                      n \in deletedAt' /\ oldPath'[n] = oldPath[n]
                 /\ Home(n) = Null => (IF n \in deletedAt' THEN oldPath'[n]
                                       ELSE parentID'[n]) = Null,
         n \in Uncrossed' \ notes.torn =>
           \/ MirroredIn(n, {"move"})'
           \/ (IF n \in deletedAt' THEN oldPath'[n] ELSE parentID'[n]) = Null
           \/ Par(n) = {IF n \in deletedAt' THEN oldPath'[n] ELSE parentID'[n]}
  PROVE  IInv'
<1>1. n \in UserNode /\ HasLooked(req[r])
  BY DEF IInv, RequestsFit, Fits, InTx, HasLooked, Asked
<1>2. /\ RequestsFit' /\ Locks' /\ MirroredMove'
      /\ \A p \in Request \ {r} : req'[p] = req[p]
      /\ \A p \in Request : InTx(p)' => InTx(p) /\ p # r
      /\ \A p \in Request : HasLooked(req'[p]) => HasLooked(req[p]) /\ p # r
      /\ \A p \in Request : req'[p].phase \in {"look", "ask"} \cup Asked => p # r
      /\ \A p \in Request : Apart(p, r)' /\ Apart(r, p)'
      /\ SeesNoTrash(r)' /\ RestoresOrphan(r)' /\ KeepsGoal(r)' /\ Numbered(r)'
      /\ \A m, ops : MirroredIn(m, ops)' => MirroredIn(m, ops)
      /\ \A m, ops : MirroredIn(m, ops) /\ ~ MirroredIn(m, ops)' => n = m
  BY Leaves
<1>3. /\ \A p \in Request \ {r} : HasLooked(req[p]) /\ req[r].op \in Creates =>
           req[p].nodeID # n
      /\ \A p \in Request \ {r} : InTx(p) /\ req[p].op \in Creates =>
           req[p].nodeID # n
      /\ \A p \in Request \ {r} : InTx(p) /\ req[p].nodeID = n =>
           /\ ~ (WritesRow(req[p].op) /\ WritesRow(req[r].op))
           /\ ~ (WritesTask(req[p].op) /\ WritesTask(req[r].op))
  BY <1>1 DEF IInv, NewIsAlone, Apart, Locks
<1>4. \A p \in Request : InTx(p) => req[p].nodeID \in UserNode /\ HasLooked(req[p])
  BY DEF IInv, RequestsFit, Fits, InTx, HasLooked, Asked
<1>5. /\ \A m \in Uncrossed' : m # n => m \in Uncrossed /\ Home(m)' = Home(m)
      /\ \A m \in Uncrossed' : m \in UserNode
  BY DEF OnlyRow, Uncrossed, Created, Home
<1>6. /\ Home(n)' = IF n \in deletedAt' THEN oldPath'[n] ELSE parentID'[n]
      /\ \A m : Par(m)' = Par(m)
  BY DEF Home, Par
<1>7. TypeOK'
  BY Parts, TypePartsNext DEF AclTyped
<1>8. RowsHaveOwner' /\ MirroredHasOwner'
  <2>1. \A m \in Created' : m = n \/ (m \in Created /\ ownerID'[m] = ownerID[m])
    BY DEF Created, OnlyRow
  <2>. QED BY <1>2, <2>1
       DEF IInv, RowsHaveOwner, MirroredHasOwner, Created, Asked
<1>9. TaskOfRow'
  <2>1. ASSUME NEW p \in Request, InTx(p)'
        PROVE  TaskRules(p)'
    <3>1. InTx(p) /\ p # r /\ req'[p] = req[p] /\ TaskRules(p)
      BY <1>2, <2>1 DEF IInv, TaskOfRow
    <3>2. CASE req[p].op \in {"softDelete", "purge", "restore"}
      <4>1. req[p].nodeID # n \/ task'[n] = task[n]
        BY <1>3, <3>1, <3>2 DEF WritesTask
      <4>2. task'[req[p].nodeID] = task[req[p].nodeID]
        BY <1>4, <3>1, <4>1 DEF OnlyRow
      <4>. QED BY <3>1, <4>2 DEF TaskRules
    <3>. QED BY <3>1, <3>2 DEF TaskRules
  <2>2. \A m \in UserNode : m \in deletedAt' <=> task'[m] = "soft_deleted"
    BY DEF OnlyRow, IInv, TaskOfRow
  <2>. QED BY <2>1, <2>2 DEF TaskOfRow
<1>10. Marked'
  <2>1. ASSUME NEW m \in UserNode \ notes.torn
        PROVE  MirroredIn(m, {"softDelete", "restore"})'
               \/ (m \in deletedAt' <=> m \in isTrashed)
    <3>1. CASE m # n
      BY <1>2, <3>1 DEF OnlyRow, IInv, Marked
    <3>. QED BY <3>1
  <2>. QED BY <1>2, <2>1 DEF IInv, Marked, Asked
<1>11. IdsAreFresh'
  <2>1. n.of <= minted
    BY <1>1 DEF IInv, IdsAreFresh, Numbered
  <2>2. \A m \in (node' \cup deletedAt') \cap UserNode :
          m = n \/ m \in node \cup deletedAt
    BY DEF OnlyRow
  <2>. QED BY <1>2, <2>1, <2>2 DEF IInv, IdsAreFresh, Numbered
<1>12. NewIsAlone'
  <2>1. \A p, s \in Request : p # s => Apart(p, s)'
    BY <1>2 DEF IInv, NewIsAlone, Apart, InTx
  <2>2. ASSUME NEW p \in Request, InTx(p)', req'[p].op \in Creates
        PROVE  /\ req'[p].nodeID \notin node' \cup deletedAt'
               /\ req'[p].phase = "written" => Par(req[p].nodeID) = {}
               /\ req'[p].phase = "mirrored" => Par(req[p].nodeID) = {NewParent(p)}
               /\ req'[p] = req[p]
    <3>1. InTx(p) /\ p # r /\ req'[p] = req[p] /\ req[p].nodeID # n
      BY <1>2, <1>3, <2>2
    <3>. QED BY <1>4, <2>2, <3>1 DEF OnlyRow, IInv, NewIsAlone
  <2>. QED BY <1>6, <2>1, <2>2 DEF NewIsAlone, Par, NewParent
<1>13. TrashHome'
  <2>1. \A m \in Uncrossed' :
          /\ m \in deletedAt' => parentID'[m] \in TrashNode
          /\ m \notin deletedAt' => parentID'[m] \notin TrashNode
    BY <1>5 DEF OnlyRow, IInv, TrashHome
  <2>2. \A m \in UserNode \ notes.crossed : oldPath'[m] \notin TrashNode
    BY DEF OnlyRow, IInv, TrashHome
  <2>. QED BY <1>2, <2>1, <2>2 DEF IInv, TrashHome, SeesNoTrash
<1>14. HeldParent'
  <2>1. ASSUME NEW p \in Request, InTx(p)', req'[p].op \in {"move", "softDelete"},
               req'[p].nodeID \in Uncrossed'
        PROVE  /\ parentID'[req'[p].nodeID] = req'[p].seenParent
               /\ req'[p].nodeID \notin deletedAt'
    <3>1. InTx(p) /\ p # r /\ req'[p] = req[p] /\ req[p].nodeID \in UserNode
      BY <1>2, <1>4, <2>1
    <3>2. CASE req[p].nodeID # n
      BY <1>5, <2>1, <3>1, <3>2 DEF OnlyRow, IInv, HeldParent
    <3>3. CASE req[p].nodeID = n
      <4>1. req[r].op \notin Creates /\ ~ WritesRow(req[r].op)
        BY <1>3, <1>4, <2>1, <3>1, <3>3 DEF WritesRow
      <4>2. n \in Uncrossed
        BY <1>1, <2>1, <3>1, <3>3, <4>1 DEF Uncrossed, Created
      <4>. QED BY <2>1, <3>1, <3>3, <4>1, <4>2 DEF IInv, HeldParent
    <3>. QED BY <3>2, <3>3
  <2>. QED BY <2>1 DEF HeldParent
<1>15. OrphansAreRestored'
  <2>1. ASSUME NEW p \in Request, p # r
        PROVE  RestoresOrphan(p)'
    <3>1. req'[p] = req[p] /\ RestoresOrphan(p)
      BY <1>2, <2>1 DEF IInv, OrphansAreRestored
    <3>2. CASE req[p].nodeID # n
      <4>1. SUFFICES ASSUME req[p].nodeID \in Uncrossed'
                     PROVE  RestoresOrphan(p)'
        BY <3>1 DEF RestoresOrphan
      <4>2. PICK m : m = req[p].nodeID
        OBVIOUS
      <4>3. /\ m \in Uncrossed /\ Home(m)' = Home(m) /\ oldPath'[m] = oldPath[m]
            /\ m \in deletedAt' <=> m \in deletedAt
        BY <1>5, <3>1, <3>2, <4>1, <4>2 DEF OnlyRow
      <4>4. Home(req[p].nodeID)' = Home(m)'
        BY <3>1, <4>2
      <4>. QED BY <3>1, <4>2, <4>3, <4>4 DEF RestoresOrphan
    <3>3. CASE req[p].nodeID = n /\ ~ HasLooked(req[p])
      BY <3>1, <3>3 DEF RestoresOrphan, HasLooked
    <3>4. CASE req[p].nodeID = n /\ HasLooked(req[p])
      <4>1. SUFFICES ASSUME n \in Uncrossed'
                     PROVE  RestoresOrphan(p)'
        BY <3>1, <3>4 DEF RestoresOrphan
      <4>2. n \in Uncrossed
        BY <1>1, <1>3, <2>1, <3>4, <4>1 DEF Uncrossed, Created
      <4>3. /\ n \in deletedAt /\ oldPath[n] # Null =>
                 n \in deletedAt' /\ oldPath'[n] = oldPath[n]
            /\ Home(n) = Null => Home(n)' = Null
        BY <1>3, <1>6, <2>1, <3>4, <4>2
      <4>4. Home(req[p].nodeID)' = Home(n)'
        BY <3>1, <3>4
      <4>. QED BY <3>1, <3>4, <4>2, <4>3, <4>4 DEF RestoresOrphan
    <3>. QED BY <3>2, <3>3, <3>4
  <2>. QED BY <1>2, <2>1 DEF OrphansAreRestored
<1>16. Mirrors'
  <2>1. ASSUME NEW m \in Uncrossed' \ notes.torn
        PROVE  MirroredIn(m, {"move"})' \/ Home(m)' = Null \/ Par(m) = {Home(m)'}
    <3>1. CASE m = n
      BY <1>6, <3>1
    <3>2. CASE m # n
      BY <1>2, <1>5, <3>2 DEF IInv, Mirrors
    <3>. QED BY <3>1, <3>2
  <2>2. ASSUME NEW p \in Request, req'[p].phase = "mirrored", req'[p].op = "move",
               req'[p].nodeID \in Uncrossed' \ notes.torn
        PROVE  Par(req[p].nodeID) = {req[p].target} /\ req'[p] = req[p]
    <3>1. p # r /\ req'[p] = req[p] /\ InTx(p)
      BY <1>2, <2>2 DEF Asked, InTx
    <3>2. req[p].nodeID \in Uncrossed
      <4>1. CASE req[p].nodeID = n
        BY <1>1, <1>3, <1>4, <2>2, <3>1, <4>1 DEF Uncrossed, Created
      <4>. QED BY <1>5, <2>2, <3>1, <4>1
    <3>. QED BY <2>2, <3>1, <3>2 DEF IInv, Mirrors
  <2>. QED BY <1>6, <2>1, <2>2 DEF Mirrors
<1>17. GoalIsKept'
  BY <1>2 DEF IInv, GoalIsKept, KeepsGoal, NewParent
<1>. QED
  BY <1>2, <1>7, <1>8, <1>9, <1>10, <1>11, <1>12, <1>13, <1>14, <1>15, <1>16,
     <1>17 DEF IInv

LEMMA CommitShape ==
  ASSUME IInv, NEW r \in Request, Commit(r)
  PROVE  /\ InTx(r) /\ Others(r) /\ req'[r] = Idle /\ ReqsTyped' /\ RestTyped'
         /\ UNCHANGED <<owner, parent, blocked, isTrashed, role, minted>>
         /\ notes'.torn = notes.torn /\ notes'.crossed = notes.crossed
         /\ req[r].op # "purge" => req[r].phase = "mirrored"
         /\ req[r].op = "purge" => req[r].phase = "written"
         /\ req[r].nodeID \in UserNode /\ req[r].nodeID \in NodeID
         /\ req[r].user \in User
<1>1. req[r].phase = (IF req[r].op = "purge" THEN "written" ELSE "mirrored")
  BY DEF Commit, MayCommit
<1>2. ReqsTyped' /\ Others(r) /\ req'[r] = Idle
  BY EndShape, Parts DEF Commit
<1>3. UNCHANGED <<owner, parent, blocked, isTrashed, role, minted, coming>>
  BY DEF Commit, aclVars
<1>4. notes \in [torn : SUBSET NodeID, crossed : SUBSET NodeID, raced : BOOLEAN]
  BY Parts DEF RestTyped
<1>5. PICK b \in BOOLEAN : notes' = [notes EXCEPT !.raced = b]
  <2>1. notes' = [notes EXCEPT !.raced =
                    notes.raced \/ (req[r].op = "move" /\ req[r].overtaken)]
    BY DEF Commit
  <2>. QED BY <2>1
<1>6. notes'.torn = notes.torn /\ notes'.crossed = notes.crossed
  BY <1>4, <1>5
<1>7. RestTyped'
  BY <1>3, <1>4, <1>5, NotesTyped, Parts
<1>8. Fits(req[r])
  BY DEF IInv, RequestsFit
<1>. QED BY <1>1, <1>2, <1>3, <1>6, <1>7, <1>8, Ids DEF InTx, Fits

LEMMA CommitNewKeeps ==
  ASSUME IInv, NEW r \in Request, Commit(r), CommitNew(r)
  PROVE  IInv'
<1>1. PICK n : n = req[r].nodeID
  OBVIOUS
<1>2. /\ InTx(r) /\ Others(r) /\ req'[r] = Idle /\ ReqsTyped' /\ RestTyped'
      /\ UNCHANGED <<owner, parent, blocked, isTrashed, role, minted>>
      /\ notes'.torn = notes.torn /\ notes'.crossed = notes.crossed
      /\ req[r].op # "purge" => req[r].phase = "mirrored"
      /\ n \in UserNode /\ n \in NodeID /\ req[r].user \in User
  BY <1>1, CommitShape
<1>3. /\ req[r].op \in Creates
      /\ node' = node \cup {n}
      /\ nodeType' = [nodeType EXCEPT ![n] = TypeOf(req[r].op)]
      /\ ownerID' = [ownerID EXCEPT ![n] = req[r].user]
      /\ parentID' = [parentID EXCEPT ![n] = NewParent(r)]
      /\ deletedAt' = deletedAt /\ oldPath' = oldPath /\ task' = task
  BY <1>1 DEF CommitNew
<1>4. /\ n \notin node \cup deletedAt
      /\ Par(n) = {NewParent(r)}
      /\ <<n, req[r].user>> \in owner
  BY <1>1, <1>2, <1>3 DEF IInv, NewIsAlone, MirroredHasOwner, Creates
<1>5. NewParent(r) \in NodeID \ TrashNode
  <2>1. req[r].target \in NodeID \cup {Null}
    BY Parts DEF ReqsTyped, RequestRecord
  <2>2. req[r].target \notin TrashNode
    BY <1>2, <1>3 DEF IInv, RequestsFit, Fits, InTx, Asked
  <2>. QED BY <1>2, <2>1, <2>2, Ids DEF NewParent
<1>6. RowsTyped'
  <2>1. TypeOf(req[r].op) \in {"folder", "file", "link"}
    BY <1>3 DEF Creates, TypeOf
  <2>. QED BY <1>2, <1>3, <1>5, <2>1, Parts DEF RowsTyped
<1>7. /\ parentID'[n] = NewParent(r) /\ ownerID'[n] = req[r].user
      /\ OnlyRow(n)
  BY <1>2, <1>3, Ids, Parts DEF RowsTyped, OnlyRow
<1>8. n \in deletedAt' <=> task'[n] = "soft_deleted"
  BY <1>2, <1>3 DEF IInv, TaskOfRow
<1>9. n \notin notes.torn =>
        \/ n \in deletedAt' <=> n \in isTrashed
        \/ MirroredIn(n, {"softDelete", "restore"})'
  <2>1. MirroredIn(n, {"softDelete", "restore"}) =>
          MirroredIn(n, {"softDelete", "restore"})'
    BY <1>2, <1>3, Leaves DEF Creates
  <2>. QED BY <1>2, <1>3, <2>1 DEF IInv, Marked
<1>10. n \notin notes.crossed => oldPath'[n] \notin TrashNode
  BY <1>2, <1>3 DEF IInv, TrashHome
<1>. QED
  BY <1>1, <1>2, <1>3, <1>4, <1>5, <1>6, <1>7, <1>8, <1>9, <1>10, CommitStep

LEMMA CommitMoveKeeps ==
  ASSUME IInv, NEW r \in Request, Commit(r), CommitMove(r)
  PROVE  IInv'
<1>1. PICK n : n = req[r].nodeID
  OBVIOUS
<1>2. /\ InTx(r) /\ Others(r) /\ req'[r] = Idle /\ ReqsTyped' /\ RestTyped'
      /\ UNCHANGED <<owner, parent, blocked, isTrashed, role, minted>>
      /\ notes'.torn = notes.torn /\ notes'.crossed = notes.crossed
      /\ req[r].op # "purge" => req[r].phase = "mirrored"
      /\ n \in UserNode /\ n \in NodeID
  BY <1>1, CommitShape
<1>3. /\ req[r].op = "move" /\ req[r].phase = "mirrored"
      /\ parentID' = [parentID EXCEPT ![n] =
                        IF n \in node THEN req[r].target ELSE parentID[n]]
      /\ UNCHANGED <<node, nodeType, ownerID, deletedAt, oldPath, task>>
  BY <1>1, <1>2 DEF CommitMove
<1>4. req[r].target \in UserNode /\ req[r].target \notin TrashNode
      /\ req[r].seenParent # Null
  BY <1>3, Ids DEF IInv, RequestsFit, Fits, MirroredMove
<1>5. RowsTyped'
  BY <1>2, <1>3, <1>4, Ids, Parts DEF RowsTyped
<1>6. /\ n \in node => parentID'[n] = req[r].target
      /\ OnlyRow(n)
  BY <1>2, <1>3, Ids, Parts DEF RowsTyped, OnlyRow
<1>7. WritesRow(req[r].op) /\ req[r].op \notin Creates
  BY <1>3 DEF WritesRow, Creates
<1>8. /\ n \in deletedAt' <=> task'[n] = "soft_deleted"
      /\ n \in node' => <<n, ownerID'[n]>> \in owner
      /\ n \notin notes.crossed => oldPath'[n] \notin TrashNode
  BY <1>2, <1>3 DEF IInv, TaskOfRow, RowsHaveOwner, TrashHome, Created
<1>9. n \notin notes.torn =>
        \/ n \in deletedAt' <=> n \in isTrashed
        \/ MirroredIn(n, {"softDelete", "restore"})'
  <2>1. MirroredIn(n, {"softDelete", "restore"}) =>
          MirroredIn(n, {"softDelete", "restore"})'
    BY <1>2, <1>3, Leaves
  <2>. QED BY <1>2, <1>3, <2>1 DEF IInv, Marked
<1>10. n \in Uncrossed =>
         /\ n \notin deletedAt /\ Home(n) # Null
         /\ n \notin notes.torn => Par(n) = {req[r].target}
  BY <1>1, <1>2, <1>3, <1>4 DEF IInv, HeldParent, Mirrors, Home
<1>11. Uncrossed' = Uncrossed /\ (n \in Uncrossed => n \in node)
  BY <1>2, <1>3 DEF Uncrossed, Created
<1>12. n \in Uncrossed' => n \notin deletedAt' /\ parentID'[n] = req[r].target
  BY <1>3, <1>6, <1>10, <1>11
<1>. QED
  BY <1>1, <1>2, <1>3, <1>4, <1>5, <1>6, <1>7, <1>8, <1>9, <1>10, <1>11, <1>12,
     CommitStep

LEMMA CommitSoftDeleteKeeps ==
  ASSUME IInv, NEW r \in Request, Commit(r), CommitSoftDelete(r)
  PROVE  IInv'
<1>1. PICK n : n = req[r].nodeID
  OBVIOUS
<1>2. /\ InTx(r) /\ Others(r) /\ req'[r] = Idle /\ ReqsTyped' /\ RestTyped'
      /\ UNCHANGED <<owner, parent, blocked, isTrashed, role, minted>>
      /\ notes'.torn = notes.torn /\ notes'.crossed = notes.crossed
      /\ req[r].op # "purge" => req[r].phase = "mirrored"
      /\ n \in UserNode /\ n \in NodeID /\ req[r].user \in User
  BY <1>1, CommitShape
<1>3. /\ req[r].op = "softDelete" /\ req[r].phase = "mirrored"
      /\ parentID' = [parentID EXCEPT ![n] = Trash(req[r].user)]
      /\ deletedAt' = deletedAt \cup {n}
      /\ oldPath' = [oldPath EXCEPT ![n] = req[r].seenParent]
      /\ task' = [task EXCEPT ![n] = "soft_deleted"]
      /\ UNCHANGED <<node, nodeType, ownerID>>
  BY <1>1, <1>2 DEF CommitSoftDelete
<1>4. req[r].seenParent \in NodeID \cup {Null} /\ Trash(req[r].user) \in TrashNode
  BY <1>2, Ids, Parts DEF ReqsTyped, RequestRecord
<1>5. RowsTyped'
  BY <1>2, <1>3, <1>4, Ids, Parts DEF RowsTyped
<1>6. /\ parentID'[n] = Trash(req[r].user) /\ oldPath'[n] = req[r].seenParent
      /\ task'[n] = "soft_deleted" /\ OnlyRow(n)
  BY <1>2, <1>3, Ids, Parts DEF RowsTyped, OnlyRow
<1>7. WritesRow(req[r].op) /\ WritesTask(req[r].op) /\ req[r].op \notin Creates
  BY <1>3 DEF WritesRow, WritesTask, Creates
<1>8. n \in node' => <<n, ownerID'[n]>> \in owner
  BY <1>2, <1>3 DEF IInv, RowsHaveOwner, Created
<1>9. n \notin notes.torn => n \in isTrashed
  BY <1>1, <1>3 DEF IInv, Marked
<1>10. n \notin notes.crossed => oldPath'[n] \notin TrashNode
  BY <1>1, <1>3, <1>6 DEF IInv, TrashHome, SeesNoTrash, Asked
<1>11. Uncrossed' = Uncrossed /\ (n \in Uncrossed => n \in node)
  BY <1>2, <1>3 DEF Uncrossed, Created
<1>12. n \in Uncrossed => Home(n) = req[r].seenParent /\ n \notin deletedAt
  BY <1>1, <1>2, <1>3 DEF IInv, HeldParent, Home
<1>13. n \in Uncrossed \ notes.torn =>
         MirroredIn(n, {"move"})' \/ Home(n) = Null \/ Par(n) = {Home(n)}
  <2>1. MirroredIn(n, {"move"}) => MirroredIn(n, {"move"})'
    BY <1>2, <1>3, Leaves
  <2>. QED BY <2>1 DEF IInv, Mirrors
<1>14. n \in deletedAt'
  BY <1>3
<1>. QED
  BY <1>1, <1>2, <1>3, <1>4, <1>5, <1>6, <1>7, <1>8, <1>9, <1>10, <1>11, <1>12,
     <1>13, <1>14, CommitStep

LEMMA CommitRestoreKeeps ==
  ASSUME IInv, NEW r \in Request, Commit(r), CommitRestore(r)
  PROVE  IInv'
<1>1. PICK n : n = req[r].nodeID
  OBVIOUS
<1>2. /\ InTx(r) /\ Others(r) /\ req'[r] = Idle /\ ReqsTyped' /\ RestTyped'
      /\ UNCHANGED <<owner, parent, blocked, isTrashed, role, minted>>
      /\ notes'.torn = notes.torn /\ notes'.crossed = notes.crossed
      /\ req[r].op # "purge" => req[r].phase = "mirrored"
      /\ n \in UserNode /\ n \in NodeID
  BY <1>1, CommitShape
<1>3. /\ req[r].op = "restore" /\ req[r].phase = "mirrored"
      /\ parentID' = [parentID EXCEPT ![n] = req[r].seenPath]
      /\ deletedAt' = deletedAt \ {n}
      /\ oldPath' = [oldPath EXCEPT ![n] = Null]
      /\ task' = [task EXCEPT ![n] = "none"]
      /\ UNCHANGED <<node, nodeType, ownerID>>
  BY <1>1, <1>2 DEF CommitRestore
<1>4. req[r].seenPath \in NodeID \cup {Null} /\ Null \notin TrashNode
  BY Ids, Parts DEF ReqsTyped, RequestRecord
<1>5. RowsTyped'
  BY <1>2, <1>3, <1>4, Parts DEF RowsTyped
<1>6. /\ parentID'[n] = req[r].seenPath /\ oldPath'[n] = Null
      /\ task'[n] = "none" /\ n \notin deletedAt' /\ OnlyRow(n)
  BY <1>2, <1>3, Ids, Parts DEF RowsTyped, OnlyRow
<1>7. WritesRow(req[r].op) /\ WritesTask(req[r].op) /\ req[r].op \notin Creates
  BY <1>3 DEF WritesRow, WritesTask, Creates
<1>8. n \in node' => <<n, ownerID'[n]>> \in owner
  BY <1>2, <1>3 DEF IInv, RowsHaveOwner, Created
<1>9. n \notin notes.torn => n \notin isTrashed
  BY <1>1, <1>3 DEF IInv, Marked
<1>10. n \notin notes.crossed => req[r].seenPath \notin TrashNode
  BY <1>1, <1>3 DEF IInv, TrashHome, SeesNoTrash
<1>11. Uncrossed' = Uncrossed /\ (n \in Uncrossed => n \in node /\ n \notin notes.crossed)
  BY <1>2, <1>3 DEF Uncrossed, Created
<1>12. n \in Uncrossed => req[r].seenPath = Null /\ oldPath[n] = Null
  <2>1. n \in deletedAt
    BY <1>1, <1>2, <1>3 DEF IInv, TaskOfRow, TaskRules
  <2>. QED BY <1>1, <1>3, <2>1 DEF IInv, OrphansAreRestored, RestoresOrphan, Asked, Home
<1>. QED
  BY <1>1, <1>2, <1>3, <1>4, <1>5, <1>6, <1>7, <1>8, <1>9, <1>10, <1>11, <1>12,
     CommitStep

\* An update and a purge leave the row.
LEMMA CommitRestKeeps ==
  ASSUME IInv, NEW r \in Request, Commit(r), CommitUpdate(r) \/ CommitPurge(r)
  PROVE  IInv'
<1>1. PICK n : n = req[r].nodeID
  OBVIOUS
<1>2. /\ InTx(r) /\ Others(r) /\ req'[r] = Idle /\ ReqsTyped' /\ RestTyped'
      /\ UNCHANGED <<owner, parent, blocked, isTrashed, role, minted>>
      /\ notes'.torn = notes.torn /\ notes'.crossed = notes.crossed
      /\ n \in UserNode /\ n \in NodeID
  BY <1>1, CommitShape
<1>3. /\ req[r].op \in {"update", "purge"}
      /\ UNCHANGED <<node, nodeType, ownerID, parentID, deletedAt, oldPath>>
      /\ task' = task \/ (req[r].op = "purge" /\ task' = [task EXCEPT ![n] = "pending"])
  BY <1>1 DEF CommitUpdate, CommitPurge, rowVars
<1>4. RowsTyped'
  BY <1>2, <1>3, Parts DEF RowsTyped
<1>5. OnlyRow(n)
  BY <1>2, <1>3, Ids, Parts DEF RowsTyped, OnlyRow
<1>6. n \in deletedAt' <=> task'[n] = "soft_deleted"
  <2>1. n \in deletedAt <=> task[n] = "soft_deleted"
    BY <1>2 DEF IInv, TaskOfRow
  <2>2. req[r].op = "purge" => task[n] = "none"
    BY <1>1, <1>2 DEF IInv, TaskOfRow, TaskRules
  <2>3. task[n] = task'[n] \/ (req[r].op = "purge" /\ task'[n] = "pending")
    BY <1>2, <1>3, Parts DEF RowsTyped
  <2>. QED BY <1>3, <2>1, <2>2, <2>3
<1>7. WritesTask(req[r].op) \/ task'[n] = task[n]
  BY <1>3 DEF WritesTask
<1>8. /\ n \in node' => <<n, ownerID'[n]>> \in owner
      /\ n \notin notes.crossed => oldPath'[n] \notin TrashNode
      /\ n \in Uncrossed =>
           /\ n \in deletedAt => parentID[n] \in TrashNode
           /\ n \notin deletedAt => parentID[n] \notin TrashNode
  BY <1>2, <1>3 DEF IInv, RowsHaveOwner, TrashHome, Created
<1>9. /\ Uncrossed' = Uncrossed
      /\ Home(n) = IF n \in deletedAt' THEN oldPath'[n] ELSE parentID'[n]
  BY <1>2, <1>3 DEF Uncrossed, Created, Home
<1>10. /\ MirroredIn(n, {"softDelete", "restore"}) =>
            MirroredIn(n, {"softDelete", "restore"})'
       /\ MirroredIn(n, {"move"}) => MirroredIn(n, {"move"})'
  BY <1>2, <1>3, Leaves
<1>11. n \notin notes.torn =>
         \/ n \in deletedAt' <=> n \in isTrashed
         \/ MirroredIn(n, {"softDelete", "restore"})'
  BY <1>2, <1>3, <1>10 DEF IInv, Marked
<1>12. n \in Uncrossed \ notes.torn =>
         MirroredIn(n, {"move"})' \/ Home(n) = Null \/ Par(n) = {Home(n)}
  BY <1>10 DEF IInv, Mirrors
<1>. QED
  BY <1>1, <1>2, <1>3, <1>4, <1>5, <1>6, <1>7, <1>8, <1>9, <1>11, <1>12, CommitStep

LEMMA CommitKeeps ==
  ASSUME IInv, NEW r \in Request, Commit(r)
  PROVE  IInv'
BY CommitNewKeeps, CommitMoveKeeps, CommitSoftDeleteKeeps, CommitRestoreKeeps,
   CommitRestKeeps DEF Commit

-----------------------------------------------------------------------------
(* The invariant *)

LEMMA SeedStart ==
  ASSUME NEW s \in Seed, Seeded(s)
  PROVE  /\ node \subseteq NodeID
         /\ nodeType \in [NodeID -> {"folder", "file", "link"}]
         /\ ownerID \in [NodeID -> User \cup {Null}]
         /\ parentID \in [NodeID -> NodeID \cup {Null}]
         /\ owner \subseteq UserNode \X User
         /\ parent \subseteq NodeID \X UserNode
         /\ minted \in 0 .. MaxNode
         /\ \A n \in Created :
              /\ <<n, ownerID[n]>> \in owner /\ n.of <= minted
              /\ parentID[n] \in NodeID \ TrashNode
              /\ Par(n) = {parentID[n]}
         /\ \A e \in parent : e[2].of <= minted
<1> DEFINE ids == {FreshID(i) : i \in 1 .. Len(s)}
           under(n) == IF s[n.of].under = 0 THEN Root(s[n.of].by)
                       ELSE FreshID(s[n.of].under)
<1>1. /\ Len(s) \in Nat /\ Len(s) <= MaxNode
      /\ \A i \in 1 .. Len(s) :
           /\ s[i].by \in User /\ s[i].type \in {"folder", "file", "link"}
           /\ s[i].under \in Nat /\ s[i].under < i
  <2>1. /\ s \in Seq([by : User, type : {"folder", "file", "link"}, under : Nat])
        /\ Len(s) <= MaxNode
        /\ \A i \in 1 .. Len(s) : s[i].under < i
    BY SeedAssumption
  <2>2. \A i \in 1 .. Len(s) :
          s[i] \in [by : User, type : {"folder", "file", "link"}, under : Nat]
    <3>1. ASSUME NEW S, s \in Seq(S)
          PROVE  \A i \in 1 .. Len(s) : s[i] \in S
      BY <3>1
    <3>. QED BY <2>1, <3>1
  <2>. QED BY <2>1, <2>2
<1>2. /\ node = ids \cup {Root(s[i].by) : i \in 1 .. Len(s)}
      /\ nodeType = [n \in NodeID |-> IF n \in ids THEN s[n.of].type ELSE "folder"]
      /\ ownerID = [n \in NodeID |-> IF n \in ids THEN s[n.of].by ELSE Null]
      /\ parentID = [n \in NodeID |-> IF n \in ids THEN under(n) ELSE Null]
      /\ owner = {<<n, s[n.of].by>> : n \in ids}
      /\ parent = {<<under(n), n>> : n \in ids}
      /\ minted = Len(s)
  BY DEF Seeded
<1>3. \A n \in ids : n \in UserNode /\ n.of \in 1 .. Len(s) /\ n = FreshID(n.of)
  <2>1. \A i \in 1 .. Len(s) : i \in 1 .. MaxNode
    BY <1>1, BoundAssumption
  <2>. QED BY <2>1, FreshIds
<1>4. \A n \in ids : under(n) \in NodeID \ TrashNode
  <2>1. SUFFICES ASSUME NEW n \in ids
                 PROVE  under(n) \in NodeID \ TrashNode
    OBVIOUS
  <2>2. n.of \in 1 .. Len(s)
    BY <1>3
  <2>3. CASE s[n.of].under = 0
    BY <1>1, <2>2, <2>3, Ids
  <2>4. CASE s[n.of].under # 0
    <3>1. s[n.of].under \in 1 .. MaxNode
      BY <1>1, <2>2, <2>4, BoundAssumption
    <3>2. FreshID(s[n.of].under) \in UserNode
      BY <3>1, FreshIds
    <3>. QED BY <2>4, <3>2, Ids
  <2>. QED BY <2>3, <2>4
<1>5. \A i \in 1 .. Len(s) : Root(s[i].by) \in SystemNode
  BY <1>1, Ids
<1>6. node \subseteq NodeID /\ Created = ids
  BY <1>2, <1>3, <1>5, Ids DEF Created
<1>7. \A n \in ids : s[n.of].type \in {"folder", "file", "link"} /\ s[n.of].by \in User
  BY <1>1, <1>3
<1> HIDE DEF ids, under
<1>8. /\ nodeType \in [NodeID -> {"folder", "file", "link"}]
      /\ ownerID \in [NodeID -> User \cup {Null}]
      /\ parentID \in [NodeID -> NodeID \cup {Null}]
  BY <1>2, <1>4, <1>7
<1>9. owner \subseteq UserNode \X User /\ parent \subseteq NodeID \X UserNode
  BY <1>2, <1>3, <1>4, <1>7
<1>10. minted \in 0 .. MaxNode
  BY <1>1, <1>2
<1>11. \A n \in ids : n \in NodeID /\ ownerID[n] = s[n.of].by /\ parentID[n] = under(n)
  BY <1>2, <1>3, Ids
<1>12. \A n \in ids : <<n, ownerID[n]>> \in owner /\ n.of <= minted
  <2>1. \A n \in ids : <<n, ownerID[n]>> \in owner
    BY <1>2, <1>11
  <2>2. \A n \in ids : n.of <= Len(s)
    BY <1>1, <1>3
  <2>. QED BY <1>2, <2>1, <2>2
<1>13. \A n \in ids : Par(n) = {parentID[n]}
  <2>1. SUFFICES ASSUME NEW n \in ids
                 PROVE  Par(n) = {under(n)}
    BY <1>11
  <2>2. \A p \in NodeID : <<p, n>> \in parent <=> p = under(n)
    BY <1>2, <2>1
  <2>. QED BY <1>4, <2>2 DEF Par
<1>14. \A e \in parent : e[2].of <= minted
  BY <1>2, <1>12
<1>. QED BY <1>4, <1>6, <1>8, <1>9, <1>10, <1>11, <1>12, <1>13, <1>14

LEMMA InitIInv == Init => IInv
<1> SUFFICES ASSUME Init PROVE IInv
  OBVIOUS
<1>1. PICK s \in Seed : Seeded(s)
  BY DEF Init
<1>2. /\ node \subseteq NodeID
      /\ nodeType \in [NodeID -> {"folder", "file", "link"}]
      /\ ownerID \in [NodeID -> User \cup {Null}]
      /\ parentID \in [NodeID -> NodeID \cup {Null}]
      /\ owner \subseteq UserNode \X User
      /\ parent \subseteq NodeID \X UserNode
      /\ minted \in 0 .. MaxNode
      /\ \A n \in Created :
           /\ <<n, ownerID[n]>> \in owner /\ n.of <= minted
           /\ parentID[n] \in NodeID \ TrashNode
           /\ Par(n) = {parentID[n]}
      /\ \A e \in parent : e[2].of <= minted
  BY <1>1, SeedStart
<1>3. /\ deletedAt = {} /\ blocked = {} /\ isTrashed = {} /\ role = {}
      /\ oldPath = [n \in NodeID |-> Null]
      /\ task = [n \in NodeID |-> "none"]
      /\ req = [r \in Request |-> Idle]
      /\ coming \in Plans
      /\ notes = [torn |-> {}, crossed |-> {}, raced |-> FALSE]
  BY DEF Init, NoNotes
<1>4. TypeOK
  <2>1. ReqsTyped
    BY <1>3, IdleTyped DEF ReqsTyped
  <2>2. RowsTyped /\ AclTyped
    BY <1>2, <1>3 DEF RowsTyped, AclTyped
  <2>3. RestTyped
    BY <1>2, <1>3, PlanAssumption DEF RestTyped
  <2>. QED BY <2>1, <2>2, <2>3, TypeParts
<1>5. \A r \in Request :
        /\ req[r].phase = "idle" /\ req[r].op = "get" /\ ~ InTx(r)
        /\ ~ HasLooked(req[r]) /\ req[r].phase \notin Asked
        /\ Fits(req[r])
  BY <1>3, IdleFits, Ids DEF InTx, HasLooked, Asked, Fits, Creates
<1>6. RequestsFit /\ MirroredHasOwner /\ Locks /\ HeldParent /\ MirroredMove
      /\ OrphansAreRestored /\ GoalIsKept
  BY <1>5
  DEF RequestsFit, MirroredHasOwner, Locks, HeldParent, MirroredMove,
      OrphansAreRestored, RestoresOrphan, GoalIsKept, KeepsGoal
<1>7. RowsHaveOwner
  BY <1>2 DEF RowsHaveOwner
<1>8. TaskOfRow /\ Marked
  BY <1>3, <1>5, Ids DEF TaskOfRow, Marked
<1>9. IdsAreFresh /\ NewIsAlone
  BY <1>2, <1>3, <1>5 DEF IdsAreFresh, Numbered, NewIsAlone, Apart, Created
<1>10. TrashHome
  BY <1>2, <1>3, <1>5, Ids DEF TrashHome, SeesNoTrash, Uncrossed
<1>11. Mirrors
  BY <1>2, <1>3, <1>5 DEF Mirrors, Uncrossed, Home
<1>. QED BY <1>4, <1>6, <1>7, <1>8, <1>9, <1>10, <1>11 DEF IInv

LEMMA NextIInv == IInv /\ [Next]_vars => IInv'
<1> SUFFICES ASSUME IInv, [Next]_vars PROVE IInv'
  OBVIOUS
<1>1. CASE \E r \in Request, u \in User : Begin(r, u)
  BY <1>1, BeginKeeps
<1>2. ASSUME NEW r \in Request, Step(r)
      PROVE  IInv'
  <2>1. CASE EnsureRoot(r)
    <3>1. req[r].user \in User
      BY <2>1 DEF EnsureRoot, NeedsRoot, IInv, RequestsFit, Fits
    <3>. QED BY <2>1, <3>1, EnsureKeeps DEF EnsureRoot
  <2>2. CASE EnsureTrash(r)
    <3>1. req[r].user \in User
      BY <2>2 DEF EnsureTrash, IInv, RequestsFit, Fits
    <3>. QED BY <2>2, <3>1, EnsureKeeps DEF EnsureTrash
  <2>. QED
    BY <1>2, <2>1, <2>2, LookKeeps, AskKeeps, RefuseKeeps, WriteRowKeeps,
       WriteNewKeeps, DestroyLinkKeeps, MirrorKeeps, MirrorLostKeeps,
       RollbackKeeps, CommitKeeps DEF Step
<1>3. CASE \E n \in V7, x \in Role, u \in User : Share(n, x, u) \/ Unshare(n, x, u)
  BY <1>3, ShareKeeps
<1>4. CASE UNCHANGED vars
  <2>1. UNCHANGED <<node, nodeType, ownerID, parentID, deletedAt, oldPath, task,
                    owner, parent, blocked, isTrashed, role, req, minted, coming,
                    notes>>
    BY <1>4 DEF vars, rowVars, aclVars
  <2>2. Created' = Created /\ RowsTyped' /\ AclTyped' /\ RestTyped'
    BY <2>1, Parts DEF Created, RowsTyped, AclTyped, RestTyped
  <2>. QED BY <2>1, <2>2, SystemStep
<1>. QED BY <1>1, <1>2, <1>3, <1>4 DEF Next

THEOREM Invariance == Spec => []IInv
<1>. QED BY InitIInv, NextIInv, PTL DEF Spec

-----------------------------------------------------------------------------
(* Theorems *)

\* The variables keep their types.
THEOREM TypeCorrect == Spec => []TypeOK
<1>1. IInv => TypeOK
  BY DEF IInv
<1>. QED BY Invariance, <1>1, PTL

\* The owner of a row has the relation owner on it: createNode's grant is
\* there before the row is.
THEOREM RowsHaveOwnerCorrect == Spec => []RowsHaveOwner
<1>1. IInv => RowsHaveOwner
  BY DEF IInv
<1>. QED BY Invariance, <1>1, PTL

\* For a settled node SpiceDB knows one folder, that of the row.
THEOREM ParentMirrorCorrect == Spec => []ParentMirror
<1>1. IInv => ParentMirror
  <2>1. SUFFICES ASSUME IInv, NEW n \in Created, Settled(n),
                        n \notin notes.crossed, Home(n) # Null
                 PROVE  {p \in NodeID : <<p, n>> \in parent} = {Home(n)}
    BY DEF ParentMirror
  <2>2. n \in Uncrossed \ notes.torn /\ ~ MirroredIn(n, {"move"})
    BY <2>1 DEF Uncrossed, Settled, MirroredIn, InTx
  <2>. QED BY <2>1, <2>2 DEF IInv, Mirrors, Par
<1>. QED BY Invariance, <1>1, PTL

\* Row, deletion task and SpiceDB agree on what is in the trash.
THEOREM TrashAgreesCorrect == Spec => []TrashAgrees
<1>1. IInv => TrashAgrees
  <2>1. SUFFICES ASSUME IInv, NEW n \in Created, Settled(n)
                 PROVE  /\ n \in deletedAt <=> n \in isTrashed
                        /\ n \in deletedAt <=> task[n] = "soft_deleted"
    BY DEF TrashAgrees
  <2>2. n \in UserNode \ notes.torn /\ ~ MirroredIn(n, {"softDelete", "restore"})
    BY <2>1 DEF Created, Settled, MirroredIn, InTx
  <2>. QED BY <2>1, <2>2 DEF IInv, Marked, TaskOfRow
<1>. QED BY Invariance, <1>1, PTL

\* Only the commit of a restore takes a row out of the trash.
LEMMA StaysDeleted ==
  ASSUME Next, NEW n \in deletedAt, n \notin deletedAt'
  PROVE  \E r \in Request :
           Commit(r) /\ req[r].op = "restore" /\ req[r].nodeID = n
<1>1. ASSUME NEW r \in Request, NEW u \in User, Begin(r, u)
      PROVE  deletedAt' = deletedAt
  BY <1>1
  DEF Begin, CreateFolder, CreateFile, CreateLink, Get, SoftDelete, Restore, Purge,
      Update, Move, Start, rowVars
<1>2. ASSUME NEW m, NEW x, NEW u, Share(m, x, u) \/ Unshare(m, x, u)
      PROVE  deletedAt' = deletedAt
  BY <1>2 DEF Share, Unshare, rowVars
<1>3. PICK r \in Request : Step(r)
  BY <1>1, <1>2 DEF Next
<1>4. Commit(r)
  BY <1>3
  DEF Step, EnsureRoot, EnsureTrash, Ensure, Look, Ask, Refuse, WriteRow, WriteNew,
      DestroyLink, Mirror, MirrorLost, Rollback, rowVars
<1>. QED
  BY <1>4
  DEF Commit, CommitNew, CommitMove, CommitUpdate, CommitSoftDelete, CommitRestore,
      CommitPurge, rowVars

\* What is in the trash and came from a folder is never restored nor purged.
THEOREM TrashIsFinalCorrect == Spec => TrashIsFinal
<1> DEFINE A == \A n \in (deletedAt \cap node) \ notes.crossed : oldPath[n] # Null =>
                  n \in deletedAt' /\ task'[n] = "soft_deleted"
<1>1. IInv /\ IInv' /\ [Next]_vars => [A]_vars
  <2>1. SUFFICES ASSUME IInv, IInv', Next,
                        NEW n \in (deletedAt \cap node) \ notes.crossed,
                        oldPath[n] # Null
                 PROVE  n \in deletedAt' /\ task'[n] = "soft_deleted"
    OBVIOUS
  <2>2. n \in UserNode /\ n \in Uncrossed
    BY <2>1, Parts DEF RowsTyped, Uncrossed, Created
  <2>3. n \in deletedAt'
    <3>1. SUFFICES ASSUME NEW r \in Request, Commit(r), req[r].op = "restore",
                          req[r].nodeID = n
                   PROVE  FALSE
      BY <2>1, StaysDeleted
    <3>2. req[r].phase \in Asked
      BY <2>1, <3>1 DEF Commit, MayCommit, Asked
    <3>3. Home(n) = Null
      BY <2>1, <2>2, <3>1, <3>2 DEF IInv, OrphansAreRestored, RestoresOrphan
    <3>. QED BY <2>1, <3>3 DEF Home
  <2>. QED BY <2>1, <2>2, <2>3 DEF IInv, TaskOfRow
<1>. QED BY Invariance, <1>1, PTL DEF Spec, TrashIsFinal

\* A system folder is in no created one.
SystemHome == \A n \in SystemNode : parentID[n] \notin UserNode

LEMMA SystemHomeKept ==
  ASSUME IInv, SystemHome, [Next]_vars
  PROVE  SystemHome'
<1>1. parentID \in [NodeID -> NodeID \cup {Null}]
  BY Parts DEF RowsTyped
<1>2. CASE parentID' = parentID
  BY <1>2 DEF SystemHome
<1>3. ASSUME NEW r \in Request, DestroyLink(r)
      PROVE  SystemHome'
  BY <1>1, <1>3, Ids DEF DestroyLink, SystemHome
<1>4. ASSUME NEW u \in User, NEW m \in {Root(u), Trash(u)}, Ensure(u, m)
      PROVE  SystemHome'
  <2>1. Root(u) \in SystemNode /\ m \in SystemNode
    BY Ids
  <2>2. parentID' = [parentID EXCEPT ![m] = IF m = Root(u) THEN Null ELSE Root(u)]
    BY <1>4 DEF Ensure
  <2>. QED BY <1>1, <2>1, <2>2, Ids DEF SystemHome
<1>5. ASSUME NEW r \in Request, Commit(r)
      PROVE  SystemHome'
  <2>1. req[r].nodeID \in UserNode
    BY <1>5, CommitShape
  <2>2. \A n \in NodeID : n # req[r].nodeID => parentID'[n] = parentID[n]
    BY <1>1, <1>5
    DEF Commit, CommitNew, CommitMove, CommitUpdate, CommitSoftDelete,
        CommitRestore, CommitPurge, rowVars
  <2>. QED BY <2>1, <2>2, Ids DEF SystemHome
<1>6. ASSUME NEW r \in Request, EnsureRoot(r) \/ EnsureTrash(r)
      PROVE  \E u \in User : \E m \in {Root(u), Trash(u)} : Ensure(u, m)
  BY <1>6 DEF EnsureRoot, EnsureTrash, NeedsRoot, IInv, RequestsFit, Fits
<1>7. ASSUME NEW r \in Request, Step(r)
      PROVE  SystemHome'
  <2>1. CASE EnsureRoot(r) \/ EnsureTrash(r)
    BY <1>4, <1>6, <2>1
  <2>2. CASE parentID' = parentID
    BY <1>2, <2>2
  <2>. QED
    BY <1>3, <1>5, <1>7, <2>1, <2>2
    DEF Step, Look, Ask, Refuse, WriteRow, WriteNew, Mirror, MirrorLost, Rollback,
        rowVars
<1>8. ASSUME NEW r, NEW u, Begin(r, u)
      PROVE  parentID' = parentID
  BY <1>8
  DEF Begin, CreateFolder, CreateFile, CreateLink, Get, SoftDelete, Restore, Purge,
      Update, Move, Start, rowVars
<1>9. ASSUME NEW m, NEW x, NEW u, Share(m, x, u) \/ Unshare(m, x, u)
      PROVE  parentID' = parentID
  BY <1>9 DEF Share, Unshare, rowVars
<1>. QED BY <1>2, <1>7, <1>8, <1>9 DEF Next, vars, rowVars

LEMMA SystemHomeAlways == Spec => []SystemHome
<1>1. Init => SystemHome
  <2>1. SUFFICES ASSUME NEW s \in Seed, Seeded(s)
                 PROVE  SystemHome
    BY DEF Init
  <2>2. \A n \in SystemNode : \A i : n # FreshID(i)
    BY DEF SystemNode, SystemID, FreshID
  <2>3. \A n \in SystemNode : n \notin {FreshID(i) : i \in 1 .. Len(s)}
    BY <2>2
  <2>4. \A n \in SystemNode : parentID[n] = Null
    BY <2>1, <2>3, Ids DEF Seeded
  <2>. QED BY <2>4, Ids DEF SystemHome
<1>. QED BY <1>1, Invariance, SystemHomeKept, PTL DEF Spec

\* What a step writes to parentID.
LEMMA Reparents ==
  ASSUME IInv, SystemHome, Next, NEW n \in node', n \notin node \/ parentID'[n] # parentID[n]
  PROVE  \/ parentID'[n] = Null \/ parentID'[n] \in SystemNode
         \/ n \in deletedAt'
         \/ \E r \in Request :
              Commit(r) /\ req[r].nodeID = n /\ parentID'[n] = NewParent(r)
              /\ req[r].op \in Creates \cup {"move"}
         \/ \E r \in Request :
              Commit(r) /\ req[r].op = "restore" /\ req[r].nodeID = n
              /\ n \in node /\ parentID'[n] = req[r].seenPath
<1>0. parentID \in [NodeID -> NodeID \cup {Null}] /\ node \subseteq NodeID
  BY Parts DEF RowsTyped
<1>1. ASSUME NEW r \in Request, NEW u \in User, Begin(r, u)
      PROVE  FALSE
  <2>1. node' = node /\ parentID' = parentID
    BY <1>1
    DEF Begin, CreateFolder, CreateFile, CreateLink, Get, SoftDelete, Restore, Purge,
        Update, Move, Start, rowVars
  <2>. QED BY <2>1
<1>2. ASSUME NEW m, NEW x, NEW u, Share(m, x, u) \/ Unshare(m, x, u)
      PROVE  FALSE
  BY <1>2 DEF Share, Unshare, rowVars
<1>3. PICK r \in Request : Step(r)
  BY <1>1, <1>2 DEF Next
<1>4. CASE EnsureRoot(r) \/ EnsureTrash(r)
  <2>1. PICK u \in User : \E m \in {Root(u), Trash(u)} : Ensure(u, m)
    BY <1>4 DEF EnsureRoot, EnsureTrash, NeedsRoot, IInv, RequestsFit, Fits
  <2>2. PICK m \in {Root(u), Trash(u)} :
        /\ node' = node \cup {Root(u), m}
        /\ parentID' = [parentID EXCEPT ![m] = IF m = Root(u) THEN Null ELSE Root(u)]
    BY <2>1 DEF Ensure
  <2>3. Root(u) \in SystemNode /\ m \in NodeID /\ Root(u) \in NodeID
    BY Ids
  <2>4. CASE n = m
    BY <1>0, <2>2, <2>3, <2>4
  <2>5. CASE n # m
    <3>1. parentID'[n] = parentID[n] /\ n \notin node /\ n = Root(u)
      BY <1>0, <2>2, <2>3, <2>5
    <3>2. n \in SystemNode /\ parentID[n] \notin UserNode
      BY <2>3, <3>1 DEF SystemHome
    <3>. QED BY <1>0, <3>1, <3>2, Ids
  <2>. QED BY <2>4, <2>5
<1>5. CASE DestroyLink(r)
  BY <1>0, <1>5 DEF DestroyLink
<1>6. CASE Commit(r)
  <2>1. req[r].nodeID \in NodeID
    BY <1>6, CommitShape
  <2>2. CASE CommitNew(r)
    BY <1>0, <1>6, <2>1, <2>2 DEF CommitNew
  <2>3. CASE CommitMove(r)
    <3>1. req[r].op = "move" /\ n = req[r].nodeID /\ parentID'[n] = req[r].target
      BY <1>0, <2>1, <2>3 DEF CommitMove
    <3>2. req[r].target # Null
      BY <1>6, <3>1 DEF IInv, MirroredMove, Commit, MayCommit
    <3>. QED BY <1>6, <3>1, <3>2 DEF NewParent
  <2>4. CASE CommitSoftDelete(r)
    BY <1>0, <2>1, <2>4 DEF CommitSoftDelete
  <2>5. CASE CommitRestore(r)
    BY <1>0, <1>6, <2>1, <2>5 DEF CommitRestore
  <2>6. CASE CommitUpdate(r) \/ CommitPurge(r)
    BY <2>6 DEF CommitUpdate, CommitPurge, rowVars
  <2>. QED BY <1>6, <2>2, <2>3, <2>4, <2>5, <2>6 DEF Commit
<1>. QED
  BY <1>3, <1>4, <1>5, <1>6
  DEF Step, Look, Ask, Refuse, WriteRow, WriteNew, Mirror, MirrorLost, Rollback,
      rowVars

\* Nothing gets into a folder in the trash but by a request overtaken by its
\* soft delete.
THEOREM NoneIntoTrashCorrect == Spec => NoneIntoTrash
<1> DEFINE A == \A n \in node' \ (deletedAt' \cup notes.crossed) :
                  LET p == parentID'[n]
                  IN  p \in deletedAt \cap isTrashed
                      /\ (n \notin node \/ parentID[n] # p) =>
                        \E r \in Request : req[r].overtaken
<1>1. IInv /\ SystemHome /\ [Next]_vars => [A]_vars
  <2>1. SUFFICES ASSUME IInv, SystemHome, Next, NEW n \in node' \ (deletedAt' \cup notes.crossed),
                        parentID'[n] \in deletedAt \cap isTrashed,
                        n \notin node \/ parentID[n] # parentID'[n],
                        \A r \in Request : ~ req[r].overtaken
                 PROVE  FALSE
    OBVIOUS
  <2>2. parentID'[n] \in UserNode
    BY <2>1, Parts DEF AclTyped
  <2>3. parentID'[n] # Null /\ parentID'[n] \notin SystemNode
    BY <2>2, Ids
  <2>4. ASSUME NEW r \in Request, Commit(r), parentID'[n] = NewParent(r),
               req[r].op \in Creates \cup {"move"}
        PROVE  FALSE
    <3>1. req[r].phase \in Asked
      BY <2>1, <2>4, CommitShape DEF InTx, Asked
    <3>. QED BY <2>1, <2>4, <3>1 DEF IInv, GoalIsKept, KeepsGoal
  <2>5. ASSUME NEW r \in Request, Commit(r), req[r].op = "restore",
               req[r].nodeID = n, n \in node, parentID'[n] = req[r].seenPath
        PROVE  FALSE
    <3>1. req[r].phase \in Asked /\ n \in UserNode
      BY <2>1, <2>5, CommitShape DEF InTx, Asked
    <3>2. n \in Uncrossed
      BY <2>1, <2>5, <3>1 DEF Uncrossed, Created
    <3>. QED BY <2>1, <2>3, <2>5, <3>1, <3>2
         DEF IInv, OrphansAreRestored, RestoresOrphan
  <2>. QED BY <2>1, <2>3, <2>4, <2>5, Reparents
<1>. QED BY Invariance, SystemHomeAlways, <1>1, PTL DEF Spec, NoneIntoTrash
=============================================================================

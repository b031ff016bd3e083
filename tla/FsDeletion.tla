------------------------------ MODULE FsDeletion ------------------------------
(***************************************************************************)
(* Deletion of file system nodes: the tables fs_node, fs_quota_usage and   *)
(* fs_deletion_task, the requests that write them, and the three worker    *)
(* loops of DeletionWorkerService that drive a deletion task through       *)
(*                                                                         *)
(*   pending -> deleting -> deleting_external -> processing_external       *)
(*                                                                         *)
(* A statement of the worker is one SQL statement and is one action here.  *)
(* deleteExternal is not: it holds a transaction open while the ACE outbox *)
(* commits its own one, so its select, the outbox commit and its own       *)
(* commit are three actions, and the process may die between any two.      *)
(*                                                                         *)
(* A task row is identified by its nodeID, which ix_deletion_task_node_id  *)
(* makes unique.  Node ids are numbers: uuidv7 ids are compared with < and *)
(* grow with the time of creation.  Rows of links are left out: the        *)
(* soft delete destroys them at once, without a task.                      *)
(*                                                                         *)
(* An operator whose name ends in Slip is a plausible mistake in the       *)
(* definition after it; no behaviour of the specification uses one.        *)
(***************************************************************************)
EXTENDS Integers, FiniteSets

CONSTANTS
  MaxNode,         \* bound: rows ever inserted in fs_node
  User,            \* owners
  Owner,           \* ownerID of the row that gets an id
  SizeOf,          \* SUM("sizeCache") of a set of rows
  LimitBytes,      \* fs_quota_usage.limitBytes
  SelectTaskLimit, \* selectTaskLimit
  BatchSize,       \* batchSizePerParentLimit
  LastRequest      \* bound: time after which no deletion is requested

NodeID == 1..MaxNode

Null  == 0   \* SQL NULL
Root  == 1   \* the ROOT folder of the owner
Trash == 2   \* the TRASH folder of the owner

\* SUM is an additive measure; the system folders hold no bytes.
ASSUME FsDeletionAssumption ==
  /\ MaxNode \in Nat /\ MaxNode >= 2
  /\ Owner \in [NodeID -> User]
  /\ LimitBytes \in [User -> Nat]
  /\ SelectTaskLimit \in Nat \ {0}
  /\ BatchSize \in Nat \ {0}
  /\ LastRequest \in Nat

ASSUME SizeAssumption ==
  /\ SizeOf \in [SUBSET NodeID -> Nat]
  /\ \A S, T \in SUBSET NodeID :
       S \cap T = {} => SizeOf[S \cup T] = SizeOf[S] + SizeOf[T]
  /\ SizeOf[{Root, Trash}] = 0

\* The statuses the worker drives a task through, in this order.
Pipeline == {"pending", "deleting", "deleting_external", "processing_external"}

DeletionTaskStatus == {"soft_deleted"} \cup Pipeline

VARIABLES
  node,         \* ids that have a row in fs_node
  parentID,     \* fs_node.parentID
  status,       \* status of the task of a node, "none" without a row
  lastProcessedChildID,
  createdAt,    \* fs_deletion_task.createdAt
  clock,        \* NOW(), advanced by the statements that insert tasks
  usedBytes,    \* fs_quota_usage.usedBytes
  tx,           \* the transaction of deleteExternal: its step and its tasks
  outbox,       \* nodes whose resource the ACE outbox was told to erase
  late          \* history: nodes put below their parent when it, or they
                \* themselves, had a task already

nodeVars == <<node, parentID>>
taskVars == <<status, lastProcessedChildID, createdAt, clock>>
extVars  == <<tx, outbox>>
vars     == <<nodeVars, taskVars, usedBytes, extVars, late>>

-----------------------------------------------------------------------------
(* Helpers *)

Children(p) == {n \in node : parentID[n] = p}

TasksIn(st) == {n \in NodeID : status[n] = st}

\* SELECT ... WHERE status = st ORDER BY "createdAt" LIMIT SelectTaskLimit:
\* S is one of the answers (rows with equal createdAt come in any order).
IsOldest(S, st) ==
  /\ S \subseteq TasksIn(st)
  /\ Cardinality(S) <= SelectTaskLimit
  /\ Cardinality(S) < SelectTaskLimit => S = TasksIn(st)
  /\ \A n \in S, m \in TasksIn(st) \ S : createdAt[n] <= createdAt[m]

\* Without ORDER BY id.
IsBatchSlip(B, last, p) ==
  LET rest == {n \in Children(p) : n > lastProcessedChildID[p]}
  IN  /\ B \subseteq rest
      /\ Cardinality(B) <= BatchSize
      /\ Cardinality(B) < BatchSize => B = rest
      /\ IF B = {} THEN last = lastProcessedChildID[p]
                   ELSE last \in B /\ \A n \in B : n <= last

\* The rows B of the lateral join for one parent, the children after the last
\* one processed in the order of their ids, at most BatchSize of them; and
\* last, the value COALESCE(MAX(childNodeID), lastProcessedChildID).
IsBatch(B, last, p) ==
  LET rest == {n \in Children(p) : n > lastProcessedChildID[p]}
  IN  /\ B \subseteq rest
      /\ Cardinality(B) <= BatchSize
      /\ Cardinality(B) < BatchSize => B = rest
      /\ \A n \in B, m \in rest \ B : n < m
      /\ IF B = {} THEN last = lastProcessedChildID[p]
                   ELSE last \in B /\ \A n \in B : n <= last

\* <= for <.
ScanDoneSlip(B) == Cardinality(B) <= BatchSize

\* Only a full batch counts.
ScanDoneNeverSlip(B) == Cardinality(B) = BatchSize

\* processedCount < batchSizePerParentLimit: there are no more children.
ScanDone(B) == Cardinality(B) < BatchSize

OwnedBy(S, u) == {n \in S : Owner[n] = u}

\* Without GROUP BY "ownerID".
RefundSlip(u, S) ==
  LET left == usedBytes[u] - SizeOf[S]
  IN  IF left < 0 THEN 0 ELSE left

\* Without GREATEST either.
RefundRawSlip(u, S) == usedBytes[u] - SizeOf[S]

\* GREATEST(0, usedBytes - total)
Refund(u, S) ==
  LET left == usedBytes[u] - SizeOf[OwnedBy(S, u)]
  IN  IF left < 0 THEN 0 ELSE left

\* The foreign key fs_node.parentID is ON DELETE SET NULL.
UnlinkFrom(S) ==
  [n \in NodeID |-> IF n \in node /\ parentID[n] \in S THEN Null
                    ELSE parentID[n]]

\* Bookkeeping for the history variable.
Attach(n, p) ==
  late' = IF status'[p] = "none" /\ status'[n] = "none" THEN late \ {n}
          ELSE late \cup {n}

-----------------------------------------------------------------------------
Init ==
  /\ node = {Root, Trash}
  /\ parentID = [n \in NodeID |-> IF n = Trash THEN Root ELSE Null]
  /\ status = [n \in NodeID |-> "none"]
  /\ lastProcessedChildID = [n \in NodeID |-> Null]
  /\ createdAt = [n \in NodeID |-> 0]
  /\ clock = 0
  /\ usedBytes = [u \in User |-> 0]
  /\ tx = [step |-> "idle", tasks |-> {}]
  /\ outbox = {}
  /\ late = {}

-----------------------------------------------------------------------------
(* Requests.  Their permission checks read rows and SpiceDB before the     *)
(* transaction starts and hold no lock, so by the time of the write only   *)
(* what the database enforces is known: the rows exist.  TRASH is never    *)
(* the target: creation there is against its policy rule, and nobody holds *)
(* EDIT on it.                                                             *)

\* FsQuotaService.checkAndAdjust, with bytes to add, on the locked row.
Charge(u, bytes) ==
  /\ bytes > 0 => usedBytes[u] + bytes <= LimitBytes[u]
  /\ usedBytes' = [usedBytes EXCEPT ![u] = @ + bytes]

\* CreateFileService.create and CreateFolderService.create: the row, and for
\* a file the quota, in one transaction.  The id is drawn before the commit,
\* so rows need not appear in the order of their ids.
CreateNode(n, p) ==
  /\ n \notin node /\ status[n] = "none"
  /\ p \in node \ {Trash}
  /\ Charge(Owner[n], SizeOf[{n}])
  /\ node' = node \cup {n}
  /\ parentID' = [parentID EXCEPT ![n] = p]
  /\ UNCHANGED <<taskVars, extVars>>
  /\ Attach(n, p)

\* MoveNodeService.move: the new parent is any other existing folder (two
\* overlapping moves can each pass the subtree check of the other).
MoveNode(n, p) ==
  /\ n \in node \ {Root, Trash}
  /\ p \in node \ {n, parentID[n], Trash}
  /\ parentID' = [parentID EXCEPT ![n] = p]
  /\ UNCHANGED <<node, taskVars, usedBytes, extVars>>
  /\ Attach(n, p)

\* ON CONFLICT DO UPDATE.
CreateTaskSlip(n, type) ==
  /\ clock < LastRequest
  /\ status' = [status EXCEPT ![n] = type]
  /\ lastProcessedChildID' = [lastProcessedChildID EXCEPT ![n] = Null]
  /\ createdAt' = [createdAt EXCEPT ![n] = clock + 1]
  /\ clock' = clock + 1

\* DeletionTaskService.create: refused by the unique index when the node has
\* a task already.
CreateTask(n, type) ==
  /\ status[n] = "none"
  /\ clock < LastRequest
  /\ status' = [status EXCEPT ![n] = type]
  /\ lastProcessedChildID' = [lastProcessedChildID EXCEPT ![n] = Null]
  /\ createdAt' = [createdAt EXCEPT ![n] = clock + 1]
  /\ clock' = clock + 1

\* SoftDeleteService.delete: into the trash and a SOFT_DELETED task.
SoftDelete(n) ==
  /\ n \in node \ {Root, Trash}
  /\ CreateTask(n, "soft_deleted")
  /\ parentID' = [parentID EXCEPT ![n] = Trash]
  /\ late' = late \ {n}
  /\ UNCHANGED <<node, usedBytes, extVars>>

\* The transaction of RestoreService.restore: out of the trash, and
\* DeletionTaskService.restore deletes the SOFT_DELETED task.
Restore(n, p) ==
  /\ n \in node /\ p \in node \ {n, Trash}
  /\ status[n] = "soft_deleted"
  /\ status' = [status EXCEPT ![n] = "none"]
  /\ parentID' = [parentID EXCEPT ![n] = p]
  /\ Attach(n, p)
  /\ UNCHANGED <<node, lastProcessedChildID, createdAt, clock, usedBytes,
                 extVars>>

\* DeletionTaskService.create with PENDING, the transaction of
\* PurgeService.purge.  The service looks for deletedAt before it, so the
\* insert succeeds only when a Restore has come in between; the worker does
\* not depend on that.
Purge(n) ==
  /\ n \in node \ {Root, Trash}
  /\ CreateTask(n, "pending")
  /\ UNCHANGED <<nodeVars, usedBytes, extVars, late>>

-----------------------------------------------------------------------------
(* Worker loops *)

\* For each parent in S, queue the children in batch[p], remember the last
\* one, and let the task go on to deleting once a batch was not full.
QueueChildren(S, batch, last) ==
  LET new == {n \in UNION {batch[p] : p \in S} : status[n] = "none"}
  IN  /\ status' = [n \in NodeID |->
                      IF n \in new THEN "pending"
                      ELSE IF n \in S /\ ScanDone(batch[n]) THEN "deleting"
                           ELSE status[n]]
      /\ lastProcessedChildID' = [n \in NodeID |->
                                    IF n \in new THEN Null
                                    ELSE IF n \in S THEN last[n]
                                         ELSE lastProcessedChildID[n]]
      /\ createdAt' = [n \in NodeID |-> IF n \in new THEN clock + 1
                                        ELSE createdAt[n]]
      /\ clock' = IF new = {} THEN clock ELSE clock + 1

\* selectInsertNewTaskQuery: the oldest pending tasks, the next batch of
\* children of each.
PendingStep ==
  /\ \E S \in SUBSET NodeID :
       /\ S # {}
       /\ IsOldest(S, "pending")
       /\ \E batch \in [S -> SUBSET UNION {Children(p) : p \in S}],
             last \in [S -> NodeID \cup {Null}] :
            /\ \A p \in S : IsBatch(batch[p], last[p], p)
            /\ QueueChildren(S, batch, last)
  /\ UNCHANGED <<nodeVars, usedBytes, extVars, late>>

\* deleteNodesAndUpdateQuotaQuery
DeletingStep ==
  \E S \in SUBSET NodeID :
    /\ S # {}
    /\ IsOldest(S, "deleting")
    /\ node' = node \ S
    /\ parentID' = UnlinkFrom(S)
    /\ usedBytes' = [u \in User |-> Refund(u, S \cap node)]
    /\ status' = [n \in NodeID |-> IF n \in S THEN "deleting_external"
                                   ELSE status[n]]
    /\ UNCHANGED <<lastProcessedChildID, createdAt, clock, extVars, late>>

\* deleteExternal, first part: lock some of the tasks (no ORDER BY).
ExternalSelect ==
  /\ tx.step = "idle"
  /\ \E S \in SUBSET TasksIn("deleting_external") :
       /\ S # {}
       /\ Cardinality(S) <= SelectTaskLimit
       /\ Cardinality(S) < SelectTaskLimit => S = TasksIn("deleting_external")
       /\ tx' = [step |-> "locked", tasks |-> S]
  /\ UNCHANGED <<nodeVars, taskVars, usedBytes, outbox, late>>

\* aceOutboxService.deleteResource commits a transaction of its own.
ExternalSend ==
  /\ tx.step = "locked"
  /\ outbox' = outbox \cup tx.tasks
  /\ tx' = [tx EXCEPT !.step = "sent"]
  /\ UNCHANGED <<nodeVars, taskVars, usedBytes, late>>

\* The update before the outbox is told.
ExternalCommitSlip ==
  /\ tx.step = "locked"
  /\ status' = [n \in NodeID |-> IF n \in tx.tasks THEN "processing_external"
                                 ELSE status[n]]
  /\ tx' = [step |-> "idle", tasks |-> {}]
  /\ UNCHANGED <<nodeVars, lastProcessedChildID, createdAt, clock, usedBytes,
                 outbox, late>>

\* The update to PROCESSING_EXTERNAL and the commit.
ExternalCommit ==
  /\ tx.step = "sent"
  /\ status' = [n \in NodeID |-> IF n \in tx.tasks THEN "processing_external"
                                 ELSE status[n]]
  /\ tx' = [step |-> "idle", tasks |-> {}]
  /\ UNCHANGED <<nodeVars, lastProcessedChildID, createdAt, clock, usedBytes,
                 outbox, late>>

\* The outbox refuses, the database fails, or the process dies: rollback.
ExternalRollback ==
  /\ tx.step # "idle"
  /\ tx' = [step |-> "idle", tasks |-> {}]
  /\ UNCHANGED <<nodeVars, taskVars, usedBytes, outbox, late>>

-----------------------------------------------------------------------------
Request ==
  \/ \E n, p \in NodeID : CreateNode(n, p) \/ MoveNode(n, p) \/ Restore(n, p)
  \/ \E n \in NodeID : SoftDelete(n) \/ Purge(n)

Worker ==
  \/ PendingStep
  \/ DeletingStep
  \/ ExternalSelect
  \/ ExternalSend
  \/ ExternalCommit

Next == Request \/ Worker \/ ExternalRollback

\* The loops run for ever and retry after an error; a statement does not
\* fail for ever, nor does the process die in every deleteExternal.
Fairness ==
  /\ WF_vars(PendingStep)
  /\ WF_vars(DeletingStep)
  /\ WF_vars(ExternalSelect)
  /\ SF_vars(ExternalSend)
  /\ SF_vars(ExternalCommit)

Spec == Init /\ [][Next]_vars

FairSpec == Spec /\ Fairness

-----------------------------------------------------------------------------
(* Properties *)

TypeOK ==
  /\ node \subseteq NodeID
  /\ parentID \in [NodeID -> NodeID \cup {Null}]
  /\ status \in [NodeID -> {"none"} \cup DeletionTaskStatus]
  /\ lastProcessedChildID \in [NodeID -> NodeID \cup {Null}]
  /\ createdAt \in [NodeID -> Nat]
  /\ clock \in Nat
  /\ usedBytes \in [User -> Nat]
  /\ tx \in [step : {"idle", "locked", "sent"}, tasks : SUBSET NodeID]
  /\ outbox \subseteq NodeID
  /\ late \subseteq NodeID

\* The quota of a user is what the rows the user owns add up to, whatever
\* creations and worker passes are interleaved: CreateFileService charges a
\* file once, deleteNodesAndUpdateQuotaQuery refunds it once, and GREATEST
\* never has anything to hide.
QuotaMatchesNodes ==
  \A u \in User : usedBytes[u] = SizeOf[OwnedBy(node, u)]

\* The scan of a parent misses no child: a child with an id up to
\* lastProcessedChildID, and any child once the parent is in deleting, has a
\* task of its own in the pipeline, unless it was put there after the parent
\* had its task.  A scan that goes on after a crash depends on it.
ScannedChildrenQueued ==
  \A p \in NodeID : \A n \in Children(p) \ late :
    \/ status[p] = "deleting"
    \/ status[p] = "pending" /\ n <= lastProcessedChildID[p]
    => status[n] \in Pipeline

\* A row that lost its parent to the worker (the foreign key set parentID to
\* NULL) is on its way out itself, unless it was attached too late.
OrphansAreLate ==
  \A n \in node \ {Root} :
    parentID[n] = Null => status[n] \in Pipeline \/ n \in late

\* Grants are only handed over for erasure when the node row is gone, and a
\* task only rests in processing_external when its node was handed over,
\* wherever the process dies between the two commits of deleteExternal.
HandOverAfterDeletion ==
  /\ outbox \cap node = {}
  /\ TasksIn("processing_external") \subseteq outbox

\* Whoever is queued for deletion is erased: the row goes and the outbox is
\* told.
QueuedIsErased ==
  \A n \in NodeID :
    status[n] = "pending" ~> n \notin node /\ n \in outbox

\* What deletion promises, without tables and loops: see NodeErasure.
Erasure == INSTANCE NodeErasure WITH
  Node   <- NodeID,
  Seed   <- {Root, Trash},
  live   <- node,
  doomed <- {n \in NodeID : status[n] \in Pipeline},
  erased <- outbox,
  used   <- usedBytes

ErasureSpec == Erasure!Spec
=============================================================================

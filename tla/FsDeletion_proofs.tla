--------------------------- MODULE FsDeletion_proofs ---------------------------
(***************************************************************************)
(* Proofs about FsDeletion, for every number of nodes, every owner and     *)
(* size of a node and every batch size.                                    *)
(***************************************************************************)
EXTENDS FsDeletion, FiniteSetTheorems, TLAPS

\* A task of a system folder never exists, so its row stays, and its place.
SystemFoldersStay ==
  /\ {Root, Trash} \subseteq node
  /\ parentID[Root] = Null /\ parentID[Trash] \in {Root, Null}
  /\ status[Root] = "none" /\ status[Trash] = "none"

\* Past deleting, the row is gone.
DeletedIsGone ==
  \A n \in NodeID :
    status[n] \in {"deleting_external", "processing_external"} => n \notin node

\* A trashed node that was not moved by a request of before is in the trash.
TrashedIsInTrash ==
  \A n \in node \ late : status[n] = "soft_deleted" => parentID[n] = Trash

\* What the open transaction of deleteExternal holds.
ExternalTx ==
  /\ tx.tasks \subseteq TasksIn("deleting_external")
  /\ tx.step = "sent" => tx.tasks \subseteq outbox
  /\ outbox \subseteq TasksIn("deleting_external")
                        \cup TasksIn("processing_external")

\* The inductive invariant.
IInv ==
  /\ TypeOK
  /\ SystemFoldersStay
  /\ DeletedIsGone
  /\ TrashedIsInTrash
  /\ ExternalTx
  /\ ScannedChildrenQueued
  /\ OrphansAreLate
  /\ HandOverAfterDeletion
  /\ QuotaMatchesNodes

LEMMA Constants ==
  /\ Root \in NodeID /\ Trash \in NodeID /\ Root # Trash
  /\ Null \notin NodeID
  /\ NodeID \subseteq Nat
BY FsDeletionAssumption DEF NodeID, Root, Trash, Null

\* SUM over nothing is 0.
LEMMA SizeOfEmpty == SizeOf[{}] = 0
<1>1. SizeOf[{} \cup {}] = SizeOf[{}] + SizeOf[{}]
  BY SizeAssumption
<1>2. SizeOf[{}] \in Nat /\ {} \cup {} = {}
  BY SizeAssumption
<1>. QED BY <1>1, <1>2

\* Inserting a row adds its size.
LEMMA SizeOfInsert ==
  ASSUME NEW S \in SUBSET NodeID, NEW n \in NodeID \ S, NEW u \in User
  PROVE  SizeOf[OwnedBy(S \cup {n}, u)] =
           SizeOf[OwnedBy(S, u)] + (IF Owner[n] = u THEN SizeOf[{n}] ELSE 0)
<1>1. CASE Owner[n] = u
  <2>1. OwnedBy(S \cup {n}, u) = OwnedBy(S, u) \cup {n}
    BY <1>1 DEF OwnedBy
  <2>2. OwnedBy(S, u) \cap {n} = {} /\ OwnedBy(S, u) \in SUBSET NodeID
    BY DEF OwnedBy
  <2>. QED BY <1>1, <2>1, <2>2, SizeAssumption
<1>2. CASE Owner[n] # u
  <2>1. OwnedBy(S \cup {n}, u) = OwnedBy(S, u) BY <1>2 DEF OwnedBy
  <2>2. SizeOf[OwnedBy(S, u)] \in Nat BY SizeAssumption DEF OwnedBy
  <2>. QED BY <1>2, <2>1, <2>2
<1>. QED BY <1>1, <1>2

\* Deleting rows takes their size off, and never below 0.
LEMMA SizeOfDelete ==
  ASSUME NEW S \in SUBSET NodeID, NEW D \in SUBSET NodeID, NEW u \in User
  PROVE  /\ SizeOf[OwnedBy(S \ D, u)] =
              SizeOf[OwnedBy(S, u)] - SizeOf[OwnedBy(D \cap S, u)]
         /\ SizeOf[OwnedBy(S \ D, u)] \in Nat
         /\ SizeOf[OwnedBy(S, u)] \in Nat
         /\ SizeOf[OwnedBy(D \cap S, u)] \in Nat
<1>1. OwnedBy(S, u) = OwnedBy(S \ D, u) \cup OwnedBy(D \cap S, u)
  BY DEF OwnedBy
<1>2. OwnedBy(S \ D, u) \cap OwnedBy(D \cap S, u) = {}
  BY DEF OwnedBy
<1>3. /\ OwnedBy(S \ D, u) \in SUBSET NodeID
      /\ OwnedBy(D \cap S, u) \in SUBSET NodeID
      /\ OwnedBy(S, u) \in SUBSET NodeID
  BY DEF OwnedBy
<1>4. SizeOf[OwnedBy(S, u)] =
        SizeOf[OwnedBy(S \ D, u)] + SizeOf[OwnedBy(D \cap S, u)]
  BY <1>1, <1>2, <1>3, SizeAssumption
<1>5. /\ SizeOf[OwnedBy(S \ D, u)] \in Nat
      /\ SizeOf[OwnedBy(D \cap S, u)] \in Nat
      /\ SizeOf[OwnedBy(S, u)] \in Nat
  BY <1>3, SizeAssumption
<1>. QED BY <1>4, <1>5

-----------------------------------------------------------------------------
\* Initially there are the two system folders and nothing else.
LEMMA InitIInv == Init => IInv
<1> SUFFICES ASSUME Init PROVE IInv
  OBVIOUS
<1> USE DEF Init
<1>1. TypeOK
  BY Constants DEF TypeOK
<1>2. SystemFoldersStay
  BY Constants DEF SystemFoldersStay
<1>3. DeletedIsGone /\ TrashedIsInTrash
  BY Constants DEF DeletedIsGone, TrashedIsInTrash
<1>4. ExternalTx /\ HandOverAfterDeletion
  BY Constants DEF ExternalTx, HandOverAfterDeletion, TasksIn
<1>5. ScannedChildrenQueued
  BY Constants DEF ScannedChildrenQueued, Children
<1>6. OrphansAreLate
  BY Constants DEF OrphansAreLate, Root, Trash, Null
<1>7. QuotaMatchesNodes
  <2> SUFFICES ASSUME NEW u \in User
               PROVE  usedBytes[u] = SizeOf[OwnedBy(node, u)]
    BY DEF QuotaMatchesNodes
  <2>1. {Root, Trash} \in SUBSET NodeID
    BY Constants
  <2>2. SizeOf[{Root, Trash}] = 0
    BY SizeAssumption
  <2>3. /\ OwnedBy({Root, Trash}, u) \in SUBSET NodeID
        /\ {Root, Trash} \ OwnedBy({Root, Trash}, u) \in SUBSET NodeID
    BY <2>1 DEF OwnedBy
  <2>4. /\ OwnedBy({Root, Trash}, u) \cup ({Root, Trash} \ OwnedBy({Root, Trash}, u))
             = {Root, Trash}
        /\ OwnedBy({Root, Trash}, u) \cap ({Root, Trash} \ OwnedBy({Root, Trash}, u))
             = {}
    BY DEF OwnedBy
  <2>5. SizeOf[{Root, Trash}] = SizeOf[OwnedBy({Root, Trash}, u)]
               + SizeOf[{Root, Trash} \ OwnedBy({Root, Trash}, u)]
    BY <2>3, <2>4, SizeAssumption
  <2>6. /\ SizeOf[OwnedBy({Root, Trash}, u)] \in Nat
        /\ SizeOf[{Root, Trash} \ OwnedBy({Root, Trash}, u)] \in Nat
    BY <2>3, SizeAssumption
  <2>7. SizeOf[OwnedBy({Root, Trash}, u)] = 0
    BY <2>2, <2>5, <2>6
  <2>. QED BY <2>7
<1>. QED BY <1>1, <1>2, <1>3, <1>4, <1>5, <1>6, <1>7 DEF IInv

-----------------------------------------------------------------------------
(* Each request preserves the invariant. *)

LEMMA CreateNodeStep ==
  ASSUME IInv, NEW n \in NodeID, NEW p \in NodeID, CreateNode(n, p)
  PROVE  IInv'
<1> USE DEF IInv, CreateNode, Charge, Attach, taskVars, extVars
<1>1. /\ n \notin node /\ status[n] = "none" /\ p \in node /\ p # Null
      /\ Owner[n] \in User
      /\ \A m \in NodeID : m \notin late' => m = n \/ m \notin late
  BY Constants, FsDeletionAssumption
<1>2. TypeOK'
  <2>1. SizeOf[{n}] \in Nat
    BY SizeAssumption
  <2>. QED BY <2>1, <1>1 DEF TypeOK
<1>3. SystemFoldersStay' /\ DeletedIsGone' /\ TrashedIsInTrash'
  BY <1>1 DEF TypeOK, SystemFoldersStay, DeletedIsGone, TrashedIsInTrash
<1>4. ExternalTx'
  BY DEF ExternalTx, TasksIn
<1>5. ScannedChildrenQueued'
  BY <1>1 DEF TypeOK, ScannedChildrenQueued, Children
<1>6. OrphansAreLate'
  BY <1>1 DEF TypeOK, OrphansAreLate
<1>7. HandOverAfterDeletion'
  BY <1>1 DEF HandOverAfterDeletion, ExternalTx, TasksIn
<1>8. QuotaMatchesNodes'
  <2> SUFFICES ASSUME NEW u \in User
               PROVE  usedBytes'[u] = SizeOf[OwnedBy(node \cup {n}, u)]
    BY DEF QuotaMatchesNodes
  <2>1. usedBytes'[u] =
          usedBytes[u] + (IF Owner[n] = u THEN SizeOf[{n}] ELSE 0)
    BY <1>1 DEF TypeOK
  <2>2. usedBytes[u] = SizeOf[OwnedBy(node, u)]
    BY DEF QuotaMatchesNodes
  <2>3. SizeOf[OwnedBy(node \cup {n}, u)] =
          SizeOf[OwnedBy(node, u)] + (IF Owner[n] = u THEN SizeOf[{n}] ELSE 0)
    BY <1>1, SizeOfInsert DEF TypeOK
  <2>. QED BY <2>1, <2>2, <2>3
<1>. QED BY <1>2, <1>3, <1>4, <1>5, <1>6, <1>7, <1>8

LEMMA MoveNodeStep ==
  ASSUME IInv, NEW n \in NodeID, NEW p \in NodeID, MoveNode(n, p)
  PROVE  IInv'
<1> USE DEF IInv, MoveNode, Attach, taskVars, extVars
<1>1. /\ n \in node /\ p \in node /\ p # Null
      /\ \A m \in NodeID : m \notin late' => m = n \/ m \notin late
      /\ n \notin late' => status[n] = "none" /\ status[p] = "none"
  BY Constants
<1>2. TypeOK'
  BY <1>1 DEF TypeOK
<1>3. SystemFoldersStay' /\ DeletedIsGone' /\ TrashedIsInTrash'
  BY <1>1 DEF TypeOK, SystemFoldersStay, DeletedIsGone, TrashedIsInTrash
<1>4. ExternalTx' /\ HandOverAfterDeletion' /\ QuotaMatchesNodes'
  BY DEF ExternalTx, HandOverAfterDeletion, QuotaMatchesNodes, TasksIn
<1>5. ScannedChildrenQueued'
  BY <1>1 DEF TypeOK, ScannedChildrenQueued, Children
<1>6. OrphansAreLate'
  BY <1>1 DEF TypeOK, OrphansAreLate
<1>. QED BY <1>2, <1>3, <1>4, <1>5, <1>6

LEMMA SoftDeleteStep ==
  ASSUME IInv, NEW n \in NodeID, SoftDelete(n)
  PROVE  IInv'
<1> USE DEF IInv, SoftDelete, CreateTask, extVars
<1>1. /\ n \in node /\ n # Root /\ n # Trash /\ status[n] = "none"
      /\ Trash # Null /\ Trash \in NodeID
  BY Constants
<1>2. TypeOK'
  BY <1>1, Constants DEF TypeOK, DeletionTaskStatus
<1>3. SystemFoldersStay' /\ DeletedIsGone' /\ TrashedIsInTrash'
  BY <1>1, Constants
     DEF TypeOK, SystemFoldersStay, DeletedIsGone, TrashedIsInTrash
<1>4. ExternalTx' /\ HandOverAfterDeletion'
  BY <1>1 DEF TypeOK, ExternalTx, HandOverAfterDeletion, TasksIn
<1>5. QuotaMatchesNodes'
  BY DEF QuotaMatchesNodes
<1>6. ScannedChildrenQueued'
  BY <1>1 DEF TypeOK, SystemFoldersStay, ScannedChildrenQueued, Children,
              Pipeline
<1>7. OrphansAreLate'
  BY <1>1 DEF TypeOK, OrphansAreLate, Pipeline
<1>. QED BY <1>2, <1>3, <1>4, <1>5, <1>6, <1>7

LEMMA RestoreStep ==
  ASSUME IInv, NEW n \in NodeID, NEW p \in NodeID, Restore(n, p)
  PROVE  IInv'
<1> USE DEF IInv, Restore, Attach, extVars
<1>1. /\ n \in node /\ p \in node /\ p # Null /\ p # n
      /\ status[n] = "soft_deleted"
      /\ \A m \in NodeID : m \notin late' => m = n \/ m \notin late
      /\ n \notin late' => status'[p] = "none"
  BY Constants
<1>2. TypeOK'
  BY <1>1 DEF TypeOK
<1>3. SystemFoldersStay' /\ DeletedIsGone' /\ TrashedIsInTrash'
  BY <1>1, Constants
     DEF TypeOK, SystemFoldersStay, DeletedIsGone, TrashedIsInTrash
<1>4. ExternalTx' /\ HandOverAfterDeletion'
  BY <1>1 DEF TypeOK, ExternalTx, HandOverAfterDeletion, TasksIn
<1>5. QuotaMatchesNodes'
  BY DEF QuotaMatchesNodes
<1>6. ScannedChildrenQueued'
  BY <1>1 DEF TypeOK, ScannedChildrenQueued, Children, Pipeline
<1>7. OrphansAreLate'
  BY <1>1 DEF TypeOK, OrphansAreLate, Pipeline
<1>. QED BY <1>2, <1>3, <1>4, <1>5, <1>6, <1>7

LEMMA PurgeStep ==
  ASSUME IInv, NEW n \in NodeID, Purge(n)
  PROVE  IInv'
<1> USE DEF IInv, Purge, CreateTask, nodeVars, extVars
<1>1. /\ n \in node /\ n # Root /\ n # Trash /\ status[n] = "none"
      /\ \A m \in NodeID : ~ (m <= Null)
  BY Constants DEF NodeID, Null
<1>2. TypeOK'
  BY <1>1, Constants DEF TypeOK, DeletionTaskStatus, Pipeline
<1>3. SystemFoldersStay' /\ DeletedIsGone' /\ TrashedIsInTrash'
  BY <1>1, Constants
     DEF TypeOK, SystemFoldersStay, DeletedIsGone, TrashedIsInTrash
<1>4. ExternalTx' /\ HandOverAfterDeletion'
  BY <1>1 DEF TypeOK, ExternalTx, HandOverAfterDeletion, TasksIn
<1>5. QuotaMatchesNodes'
  BY DEF QuotaMatchesNodes
<1>6. ScannedChildrenQueued'
  BY <1>1 DEF TypeOK, ScannedChildrenQueued, Children, Pipeline
<1>7. OrphansAreLate'
  BY <1>1 DEF TypeOK, OrphansAreLate, Pipeline
<1>. QED BY <1>2, <1>3, <1>4, <1>5, <1>6, <1>7

-----------------------------------------------------------------------------
(* Each step of the worker preserves the invariant. *)

\* A child that is due to be queued, and was not put below its parent too
\* late, is in the pipeline or has no task: a trashed one is in the trash,
\* and the trash is never being deleted.
LEMMA ChildOfQueued ==
  ASSUME IInv, NEW p \in NodeID, status[p] # "none",
         NEW m \in Children(p) \ late
  PROVE  m \in NodeID /\ (status[m] = "none" \/ status[m] \in Pipeline)
BY DEF IInv, TypeOK, TrashedIsInTrash, SystemFoldersStay, Children,
       DeletionTaskStatus

LEMMA PendingStepStep ==
  ASSUME IInv, PendingStep
  PROVE  IInv'
<1> USE DEF nodeVars, extVars
<1>1. PICK S \in SUBSET NodeID :
        \E batch \in [S -> SUBSET UNION {Children(p) : p \in S}],
           last \in [S -> NodeID \cup {Null}] :
          /\ IsOldest(S, "pending")
          /\ \A p \in S : IsBatch(batch[p], last[p], p)
          /\ QueueChildren(S, batch, last)
  BY DEF PendingStep
<1>2. PICK batch \in [S -> SUBSET UNION {Children(p) : p \in S}],
           last \in [S -> NodeID \cup {Null}] :
          /\ IsOldest(S, "pending")
          /\ \A p \in S : IsBatch(batch[p], last[p], p)
          /\ QueueChildren(S, batch, last)
  BY <1>1
<1> DEFINE new == {n \in UNION {batch[p] : p \in S} : status[n] = "none"}
<1>3. /\ status' = [n \in NodeID |->
                      IF n \in new THEN "pending"
                      ELSE IF n \in S /\ ScanDone(batch[n]) THEN "deleting"
                           ELSE status[n]]
      /\ lastProcessedChildID' = [n \in NodeID |->
                                    IF n \in new THEN Null
                                    ELSE IF n \in S THEN last[n]
                                         ELSE lastProcessedChildID[n]]
      /\ createdAt' = [n \in NodeID |-> IF n \in new THEN clock + 1
                                        ELSE createdAt[n]]
      /\ clock' = IF new = {} THEN clock ELSE clock + 1
  BY <1>2 DEF QueueChildren
<1>4. /\ node' = node /\ parentID' = parentID /\ usedBytes' = usedBytes
      /\ tx' = tx /\ outbox' = outbox /\ late' = late
  BY DEF PendingStep
<1>5. /\ \A n \in S : n \in NodeID /\ status[n] = "pending"
      /\ \A p \in S : batch[p] \subseteq Children(p)
  BY <1>2 DEF IsOldest, TasksIn, IsBatch
<1>6. /\ \A n \in new : n \in node /\ n \in NodeID /\ status[n] = "none"
      /\ \A n \in new : n # Root /\ n # Trash
  <2>1. \A n \in new : n \in node /\ n \in NodeID /\ status[n] = "none"
    BY <1>5 DEF Children, IInv, TypeOK
  <2>2. \A n \in new : \E p \in S : parentID[n] = p /\ status[p] = "pending"
    BY <1>5 DEF Children
  <2>3. parentID[Root] = Null /\ parentID[Trash] \in {Root, Null}
    BY DEF IInv, SystemFoldersStay
  <2>. QED BY <2>1, <2>2, <2>3, <1>5, Constants DEF IInv, SystemFoldersStay
<1> HIDE DEF new
<1>7. TypeOK'
  BY <1>3, <1>4, Constants DEF IInv, TypeOK, DeletionTaskStatus, Pipeline
<1>8. \A m \in NodeID : status[m] \in Pipeline => status'[m] \in Pipeline
  BY <1>3 DEF Pipeline
<1>9. SystemFoldersStay' /\ DeletedIsGone' /\ TrashedIsInTrash'
  BY <1>3, <1>4, <1>5, <1>6, Constants
     DEF IInv, TypeOK, SystemFoldersStay, DeletedIsGone, TrashedIsInTrash
<1>10. ExternalTx' /\ HandOverAfterDeletion'
  BY <1>3, <1>4, <1>5, <1>6
     DEF IInv, TypeOK, ExternalTx, HandOverAfterDeletion, TasksIn
<1>11. QuotaMatchesNodes'
  BY <1>4 DEF IInv, QuotaMatchesNodes
<1>12. OrphansAreLate'
  BY <1>4, <1>8 DEF IInv, TypeOK, OrphansAreLate
<1>13. ScannedChildrenQueued'
  <2> SUFFICES ASSUME NEW p \in NodeID, NEW m \in Children(p) \ late,
                      \/ status'[p] = "deleting"
                      \/ status'[p] = "pending" /\ m <= lastProcessedChildID'[p]
               PROVE  status'[m] \in Pipeline
    BY <1>4 DEF ScannedChildrenQueued, Children
  <2>1. m \in NodeID /\ m \in Nat /\ ~ (m <= Null)
    BY Constants DEF IInv, TypeOK, Children, NodeID, Null
  <2>2. p \notin new
    BY <2>1, <1>3
  <2>3. status[p] # "none"
    BY <2>2, <1>3, <1>5
  <2>4. m \in NodeID /\ (status[m] = "none" \/ status[m] \in Pipeline)
    BY <2>3, ChildOfQueued
  <2>5. CASE p \notin S
    BY <2>1, <2>2, <2>5, <1>3, <1>8 DEF IInv, ScannedChildrenQueued
  <2>6. CASE p \in S
    <3>1. m \in batch[p] => status'[m] \in Pipeline
      <4>1. m \in batch[p] /\ status[m] = "none" => m \in new
        BY <2>6 DEF new
      <4>. QED BY <4>1, <2>4, <1>3, <1>8 DEF Pipeline
    <3>2. m <= lastProcessedChildID[p] => status'[m] \in Pipeline
      BY <2>1, <2>6, <1>5, <1>8 DEF IInv, ScannedChildrenQueued
    <3>3. m \in batch[p] \/ m <= lastProcessedChildID[p]
      <4> DEFINE rest == {n \in Children(p) : n > lastProcessedChildID[p]}
      <4>1. /\ Cardinality(batch[p]) < BatchSize => batch[p] = rest
            /\ \A n \in batch[p], k \in rest \ batch[p] : n < k
            /\ IF batch[p] = {} THEN last[p] = lastProcessedChildID[p]
                                ELSE last[p] \in batch[p]
        BY <2>6, <1>2 DEF IsBatch
      <4>2. lastProcessedChildID[p] \in Int /\ last[p] \in Int
        <5>1. lastProcessedChildID[p] \in NodeID \cup {Null}
          BY DEF IInv, TypeOK
        <5>2. last[p] \in NodeID \cup {Null}
          BY <2>6
        <5>. QED BY <5>1, <5>2 DEF NodeID, Null
      <4>3. m \in rest \/ m <= lastProcessedChildID[p]
        BY <2>1, <4>2
      <4>4. CASE ScanDone(batch[p])
        BY <4>1, <4>3, <4>4 DEF ScanDone
      <4>5. CASE ~ ScanDone(batch[p])
        <5>1. m <= last[p]
          BY <4>5, <2>2, <2>6, <1>3, <1>5
        <5>2. batch[p] # {} /\ m \in rest \ batch[p] => last[p] < m
          BY <4>1
        <5>. QED BY <5>1, <5>2, <4>1, <4>2, <4>3, <2>1
      <4>. QED BY <4>4, <4>5
    <3>. QED BY <3>1, <3>2, <3>3
  <2>. QED BY <2>5, <2>6
<1>. QED BY <1>7, <1>9, <1>10, <1>11, <1>12, <1>13 DEF IInv

LEMMA DeletingStepStep ==
  ASSUME IInv, DeletingStep
  PROVE  IInv'
<1> USE DEF extVars
<1>1. PICK S \in SUBSET NodeID :
        /\ IsOldest(S, "deleting")
        /\ node' = node \ S
        /\ parentID' = UnlinkFrom(S)
        /\ usedBytes' = [u \in User |-> Refund(u, S \cap node)]
        /\ status' = [n \in NodeID |-> IF n \in S THEN "deleting_external"
                                       ELSE status[n]]
  BY DEF DeletingStep
<1>2. /\ lastProcessedChildID' = lastProcessedChildID
      /\ createdAt' = createdAt /\ clock' = clock
      /\ tx' = tx /\ outbox' = outbox /\ late' = late
  BY DEF DeletingStep
<1>3. \A n \in S : status[n] = "deleting"
  BY <1>1 DEF IsOldest, TasksIn
<1>4. /\ parentID' \in [NodeID -> NodeID \cup {Null}]
      /\ \A n \in node' :
           \/ parentID'[n] = parentID[n] /\ parentID[n] \notin S
           \/ parentID'[n] = Null /\ parentID[n] \in S
  BY <1>1, Constants DEF IInv, TypeOK, UnlinkFrom
<1>5. QuotaMatchesNodes' /\ usedBytes' \in [User -> Nat]
  <2> SUFFICES ASSUME NEW u \in User
               PROVE  /\ Refund(u, S \cap node) = SizeOf[OwnedBy(node \ S, u)]
                      /\ Refund(u, S \cap node) \in Nat
    BY <1>1 DEF QuotaMatchesNodes
  <2>1. usedBytes[u] = SizeOf[OwnedBy(node, u)]
    BY DEF IInv, QuotaMatchesNodes
  <2>2. /\ SizeOf[OwnedBy(node \ S, u)] =
             SizeOf[OwnedBy(node, u)] - SizeOf[OwnedBy(S \cap node, u)]
        /\ SizeOf[OwnedBy(node \ S, u)] \in Nat
    BY SizeOfDelete DEF IInv, TypeOK
  <2>. QED BY <2>1, <2>2 DEF Refund
<1>6. TypeOK'
  BY <1>1, <1>2, <1>4, <1>5
     DEF IInv, TypeOK, DeletionTaskStatus, Pipeline
<1>7. SystemFoldersStay' /\ DeletedIsGone'
  BY <1>1, <1>3, <1>4, Constants
     DEF IInv, TypeOK, SystemFoldersStay, DeletedIsGone
<1>8. TrashedIsInTrash'
  BY <1>1, <1>2, <1>3, <1>4, Constants
     DEF IInv, TypeOK, SystemFoldersStay, TrashedIsInTrash
<1>9. ExternalTx' /\ HandOverAfterDeletion'
  BY <1>1, <1>2, <1>3
     DEF IInv, TypeOK, ExternalTx, HandOverAfterDeletion, TasksIn
<1>10. \A n \in NodeID : status[n] \in Pipeline => status'[n] \in Pipeline
  BY <1>1 DEF Pipeline
<1>11. ScannedChildrenQueued'
  <2> SUFFICES ASSUME NEW p \in NodeID, NEW n \in node' \ late,
                      parentID'[n] = p,
                      \/ status'[p] = "deleting"
                      \/ status'[p] = "pending" /\ n <= lastProcessedChildID[p]
               PROVE  status'[n] \in Pipeline
    BY <1>2 DEF ScannedChildrenQueued, Children
  <2>1. n \in Children(p) \ late /\ n \in NodeID
    BY <1>1, <1>4, Constants DEF IInv, TypeOK, Children
  <2>2. status'[p] = status[p]
    BY <1>1
  <2>. QED BY <2>1, <2>2, <1>10 DEF IInv, ScannedChildrenQueued
<1>12. OrphansAreLate'
  <2> SUFFICES ASSUME NEW n \in node' \ {Root}, parentID'[n] = Null,
                      n \notin late
               PROVE  status'[n] \in Pipeline
    BY <1>2 DEF OrphansAreLate
  <2>1. n \in node \ {Root} /\ n \in NodeID
    BY <1>1 DEF IInv, TypeOK
  <2>2. CASE parentID[n] = Null
    BY <2>1, <2>2, <1>10 DEF IInv, OrphansAreLate
  <2>3. CASE parentID[n] \in S
    BY <2>1, <2>3, <1>3, <1>10 DEF IInv, ScannedChildrenQueued, Children
  <2>. QED BY <2>2, <2>3, <1>4
<1>. QED BY <1>5, <1>6, <1>7, <1>8, <1>9, <1>11, <1>12 DEF IInv

\* The steps of deleteExternal leave nodes and quotas alone.
LEMMA ExternalStep ==
  ASSUME IInv,
         ExternalSelect \/ ExternalSend \/ ExternalCommit \/ ExternalRollback
  PROVE  IInv'
<1> USE DEF nodeVars, taskVars, IInv
<1>1. /\ node' = node /\ parentID' = parentID /\ usedBytes' = usedBytes
      /\ lastProcessedChildID' = lastProcessedChildID
      /\ createdAt' = createdAt /\ clock' = clock /\ late' = late
  BY DEF ExternalSelect, ExternalSend, ExternalCommit, ExternalRollback
<1>2. \/ status' = status
      \/ /\ tx.step = "sent"
         /\ status' = [n \in NodeID |-> IF n \in tx.tasks
                                        THEN "processing_external"
                                        ELSE status[n]]
         /\ outbox' = outbox /\ tx' = [step |-> "idle", tasks |-> {}]
  BY DEF ExternalSelect, ExternalSend, ExternalCommit, ExternalRollback
<1>3. \A n \in tx.tasks : n \in NodeID /\ status[n] = "deleting_external"
  BY DEF ExternalTx, TasksIn
<1>4. TypeOK'
  BY <1>1, <1>2 DEF TypeOK, DeletionTaskStatus, Pipeline, TasksIn,
     ExternalSelect, ExternalSend, ExternalCommit, ExternalRollback
<1>5. /\ SystemFoldersStay' /\ DeletedIsGone' /\ TrashedIsInTrash'
      /\ QuotaMatchesNodes'
  BY <1>1, <1>2, <1>3, Constants
     DEF TypeOK, SystemFoldersStay, DeletedIsGone, TrashedIsInTrash,
         QuotaMatchesNodes
<1>6. ScannedChildrenQueued' /\ OrphansAreLate'
  BY <1>1, <1>2, <1>3
     DEF TypeOK, ScannedChildrenQueued, OrphansAreLate, Children, Pipeline
<1>7. ExternalTx'
  <2>1. CASE ExternalSelect
    BY <2>1 DEF ExternalSelect, ExternalTx, TasksIn
  <2>2. CASE ExternalSend
    BY <2>2 DEF ExternalSend, ExternalTx, TasksIn, TypeOK
  <2>3. CASE ExternalCommit
    BY <2>3 DEF ExternalCommit, ExternalTx, TasksIn, TypeOK
  <2>4. CASE ExternalRollback
    BY <2>4 DEF ExternalRollback, ExternalTx, TasksIn
  <2>. QED BY <2>1, <2>2, <2>3, <2>4
<1>8. HandOverAfterDeletion'
  <2>1. CASE ExternalSend
    BY <2>1, <1>1, <1>3
       DEF ExternalSend, DeletedIsGone, HandOverAfterDeletion, TasksIn
  <2>2. CASE ExternalCommit
    BY <2>2, <1>1, <1>2
       DEF ExternalCommit, ExternalTx, HandOverAfterDeletion, TasksIn, TypeOK
  <2>3. CASE ExternalSelect \/ ExternalRollback
    BY <2>3 DEF ExternalSelect, ExternalRollback, HandOverAfterDeletion, TasksIn
  <2>. QED BY <2>1, <2>2, <2>3
<1>. QED BY <1>4, <1>5, <1>6, <1>7, <1>8

-----------------------------------------------------------------------------
(* The invariants *)

LEMMA NextIInv == IInv /\ [Next]_vars => IInv'
<1> SUFFICES ASSUME IInv, [Next]_vars PROVE IInv'
  OBVIOUS
<1>1. CASE Request
  <2>1. ASSUME NEW n \in NodeID, NEW p \in NodeID,
               CreateNode(n, p) \/ MoveNode(n, p) \/ Restore(n, p)
        PROVE  IInv'
    BY <2>1, CreateNodeStep, MoveNodeStep, RestoreStep
  <2>2. ASSUME NEW n \in NodeID, SoftDelete(n) \/ Purge(n)
        PROVE  IInv'
    BY <2>2, SoftDeleteStep, PurgeStep
  <2>. QED BY <1>1, <2>1, <2>2 DEF Request
<1>2. CASE Worker \/ ExternalRollback
  BY <1>2, PendingStepStep, DeletingStepStep, ExternalStep DEF Worker
<1>3. CASE UNCHANGED vars
  BY <1>3
     DEF vars, nodeVars, taskVars, extVars, IInv, TypeOK, SystemFoldersStay,
         DeletedIsGone, TrashedIsInTrash, ExternalTx, ScannedChildrenQueued,
         OrphansAreLate, HandOverAfterDeletion, QuotaMatchesNodes,
         TasksIn, Children
<1>. QED BY <1>1, <1>2, <1>3 DEF Next

\* The inductive invariant holds in every behaviour.
THEOREM Inductive == Spec => []IInv
<1>1. Init => IInv
  BY InitIInv
<1>2. IInv /\ [Next]_vars => IInv'
  BY NextIInv
<1>. QED BY <1>1, <1>2, PTL DEF Spec

\* Every variable keeps its type: no quota row ever becomes negative.
THEOREM TypeCorrect == Spec => []TypeOK
<1>1. IInv => TypeOK
  BY DEF IInv
<1>. QED BY <1>1, Inductive, PTL

\* The quota of a user is the sum of the rows the user owns, for every
\* assignment of owners and sizes: a creation charges what the deletion of
\* the row by the worker refunds.
THEOREM QuotaCorrect == Spec => []QuotaMatchesNodes
<1>1. IInv => QuotaMatchesNodes
  BY DEF IInv
<1>. QED BY <1>1, Inductive, PTL

\* The scan of the children in batches skips none, for every batch size.
THEOREM ScanComplete == Spec => []ScannedChildrenQueued
<1>1. IInv => ScannedChildrenQueued
  BY DEF IInv
<1>. QED BY <1>1, Inductive, PTL

\* A row the foreign key cut off from its deleted parent is on its way out,
\* unless it was put below the parent after the parent was queued.
THEOREM OnlyLateOrphans == Spec => []OrphansAreLate
<1>1. IInv => OrphansAreLate
  BY DEF IInv
<1>. QED BY <1>1, Inductive, PTL

\* Grants are handed over for erasure after the row is gone, and before the
\* task says so.
THEOREM HandOverOrder == Spec => []HandOverAfterDeletion
<1>1. IInv => HandOverAfterDeletion
  BY DEF IInv
<1>. QED BY <1>1, Inductive, PTL

-----------------------------------------------------------------------------
(* FsDeletion implements NodeErasure *)

Doomed == {n \in NodeID : status[n] \in Pipeline}

LEMMA InitErasure == Init => Erasure!Init
BY Constants DEF Init, Erasure!Init, Pipeline

\* A pass over the pending tasks dooms the children it queues.
LEMMA PendingDooms ==
  ASSUME IInv, PendingStep
  PROVE  \E D \in SUBSET NodeID : Erasure!Doom(D)
<1>1. PICK S \in SUBSET NodeID :
        \E batch \in [S -> SUBSET UNION {Children(p) : p \in S}],
           last \in [S -> NodeID \cup {Null}] :
          /\ IsOldest(S, "pending")
          /\ \A p \in S : IsBatch(batch[p], last[p], p)
          /\ QueueChildren(S, batch, last)
  BY DEF PendingStep
<1>2. PICK batch \in [S -> SUBSET UNION {Children(p) : p \in S}],
           last \in [S -> NodeID \cup {Null}] :
          /\ IsOldest(S, "pending")
          /\ \A p \in S : IsBatch(batch[p], last[p], p)
          /\ QueueChildren(S, batch, last)
  BY <1>1
<1> DEFINE new == {n \in UNION {batch[p] : p \in S} : status[n] = "none"}
<1>3. status' = [n \in NodeID |->
                   IF n \in new THEN "pending"
                   ELSE IF n \in S /\ ScanDone(batch[n]) THEN "deleting"
                        ELSE status[n]]
  BY <1>2 DEF QueueChildren
<1>4. /\ \A n \in S : n \in NodeID /\ status[n] = "pending"
      /\ \A p \in S : batch[p] \subseteq Children(p)
  BY <1>2 DEF IsOldest, TasksIn, IsBatch
<1>5. \A n \in new : /\ n \in node /\ n \in NodeID
                     /\ \E p \in S : parentID[n] = p /\ status[p] = "pending"
  BY <1>4 DEF Children, IInv, TypeOK
<1>6. \A n \in new : n # Root /\ n # Trash
  <2>1. parentID[Root] = Null /\ parentID[Trash] \in {Root, Null}
    BY DEF IInv, SystemFoldersStay
  <2>. QED BY <2>1, <1>5, <1>4, Constants DEF IInv, SystemFoldersStay
<1> HIDE DEF new
<1>7. new \in SUBSET NodeID /\ new \subseteq node \ {Root, Trash}
  BY <1>5, <1>6
<1>8. Doomed' = Doomed \cup new
  BY <1>3, <1>4, <1>5 DEF Doomed, Pipeline
<1>9. node' = node /\ outbox' = outbox /\ usedBytes' = usedBytes
  BY DEF PendingStep, nodeVars, extVars
<1>10. PICK D \in SUBSET NodeID : D = new
  BY <1>7
<1>11. Erasure!Doom(D)
  BY <1>7, <1>8, <1>9, <1>10 DEF Erasure!Doom, Doomed
<1>. QED BY <1>11

\* A pass over the deleting tasks makes rows of doomed nodes disappear.
LEMMA DeletingErases ==
  ASSUME IInv, DeletingStep
  PROVE  \E D \in SUBSET NodeID : Erasure!Disappear(D)
<1>1. PICK S \in SUBSET NodeID :
        /\ IsOldest(S, "deleting")
        /\ node' = node \ S
        /\ usedBytes' = [u \in User |-> Refund(u, S \cap node)]
        /\ status' = [n \in NodeID |-> IF n \in S THEN "deleting_external"
                                       ELSE status[n]]
  BY DEF DeletingStep
<1>2. \A n \in S : n \in NodeID /\ status[n] = "deleting"
  BY <1>1 DEF IsOldest, TasksIn
<1>3. Doomed' = Doomed
  BY <1>1, <1>2 DEF Doomed, Pipeline
<1>4. S \cap node \subseteq node \cap Doomed
  BY <1>2 DEF Doomed, Pipeline
<1>5. usedBytes' = [u \in User |->
                      usedBytes[u] - SizeOf[Erasure!Owned(S \cap node, u)]]
  <2> SUFFICES ASSUME NEW u \in User
               PROVE  Refund(u, S \cap node) =
                        usedBytes[u] - SizeOf[Erasure!Owned(S \cap node, u)]
    BY <1>1
  <2>1. usedBytes[u] = SizeOf[OwnedBy(node, u)]
    BY DEF IInv, QuotaMatchesNodes
  <2>2. /\ SizeOf[OwnedBy(node \ S, u)] =
             SizeOf[OwnedBy(node, u)] - SizeOf[OwnedBy(S \cap node, u)]
        /\ SizeOf[OwnedBy(node \ S, u)] \in Nat
    BY SizeOfDelete DEF IInv, TypeOK
  <2>3. Erasure!Owned(S \cap node, u) = OwnedBy(S \cap node, u)
    BY DEF Erasure!Owned, OwnedBy
  <2>. QED BY <2>1, <2>2, <2>3 DEF Refund
<1>6. outbox' = outbox
  BY DEF DeletingStep, extVars
<1>7. node' = node \ (S \cap node)
  BY <1>1
<1>8. Erasure!Disappear(S \cap node)
  BY <1>3, <1>4, <1>5, <1>6, <1>7 DEF Erasure!Disappear, Doomed
<1>. QED BY <1>8

LEMMA NextErasure == IInv /\ [Next]_vars => [Erasure!Next]_Erasure!vars
<1> SUFFICES ASSUME IInv, [Next]_vars PROVE [Erasure!Next]_Erasure!vars
  OBVIOUS
<1> USE DEF Erasure!vars
<1>1. ASSUME NEW n \in NodeID, NEW p \in NodeID, CreateNode(n, p)
      PROVE  Erasure!Appear(n)
  BY <1>1, FsDeletionAssumption
     DEF CreateNode, Charge, taskVars, extVars, IInv, TypeOK, Erasure!Appear, Pipeline
<1>2. ASSUME NEW n \in NodeID, NEW p \in NodeID, MoveNode(n, p)
      PROVE  UNCHANGED Erasure!vars
  BY <1>2 DEF MoveNode, taskVars, extVars
<1>3. ASSUME NEW n \in NodeID, NEW p \in NodeID, Restore(n, p)
      PROVE  UNCHANGED Erasure!vars
  BY <1>3 DEF Restore, extVars, IInv, TypeOK, Pipeline
<1>4. ASSUME NEW n \in NodeID, SoftDelete(n)
      PROVE  UNCHANGED Erasure!vars
  BY <1>4 DEF SoftDelete, CreateTask, extVars, IInv, TypeOK, Pipeline
<1>5. ASSUME NEW n \in NodeID, Purge(n)
      PROVE  Erasure!Doom({n})
  BY <1>5 DEF Purge, CreateTask, nodeVars, extVars, IInv, TypeOK, Pipeline,
              Erasure!Doom
<1>6. ASSUME ExternalSend
      PROVE  Erasure!GiveUp(tx.tasks)
  BY <1>6 DEF ExternalSend, nodeVars, taskVars, IInv, TypeOK, ExternalTx,
              DeletedIsGone, TasksIn, Pipeline, Erasure!GiveUp
<1>7. ASSUME ExternalCommit
      PROVE  UNCHANGED Erasure!vars
  BY <1>7 DEF ExternalCommit, nodeVars, IInv, TypeOK, ExternalTx, TasksIn,
              Pipeline
<1>8. ASSUME ExternalSelect \/ ExternalRollback
      PROVE  UNCHANGED Erasure!vars
  BY <1>8 DEF ExternalSelect, ExternalRollback, nodeVars, taskVars
<1>9. ASSUME UNCHANGED vars
      PROVE  UNCHANGED Erasure!vars
  BY <1>9 DEF vars, nodeVars, taskVars, extVars
<1>10. ASSUME Request
       PROVE  Erasure!Next \/ UNCHANGED Erasure!vars
  BY <1>1, <1>2, <1>3, <1>4, <1>5, <1>10 DEF Request, Erasure!Next
<1>11. tx.tasks \in SUBSET NodeID
  BY DEF IInv, TypeOK
<1>12. ASSUME Worker
       PROVE  Erasure!Next \/ UNCHANGED Erasure!vars
  BY <1>6, <1>7, <1>8, <1>11, <1>12, PendingDooms, DeletingErases
     DEF Worker, Erasure!Next
<1>. QED BY <1>8, <1>9, <1>10, <1>12 DEF Next

\* The tables and the worker loops keep the promises of NodeErasure: a row
\* disappears only after it was queued, is charged and refunded once, and its
\* grants are given up for erasure only after it is gone.
THEOREM ImplementsErasure == Spec => ErasureSpec
<1>1. Init => Erasure!Init
  BY InitErasure
<1>2. IInv /\ [Next]_vars => [Erasure!Next]_Erasure!vars
  BY NextErasure
<1>. QED BY <1>1, <1>2, Inductive, PTL DEF Spec, ErasureSpec, Erasure!Spec
=============================================================================

---------------------------- MODULE FileStore_proofs ----------------------------
(***************************************************************************)
(* Proofs about FileStore, for every set of contents, uploads and removals. *)
(***************************************************************************)
EXTENDS FileStore, FiniteSetTheorems, TLAPS

\* Phases in which an upload has the row of its content locked.
HasRow == {"found", "cleared", "created", "finalizing", "renamed"}

\* Phases before the attachment is committed.
Before == {"idle", "written", "hashed", "absent", "found", "cleared", "created"}

\* One request at a time has the row of a content locked.
OneHolder ==
  /\ \A u, v \in Upload :
       /\ up[u] \in HasRow /\ up[v] \in HasRow
       /\ ContentOf[u] = ContentOf[v]
       => u = v
  /\ \A u \in Upload, r \in Remover :
       up[u] \in HasRow /\ rem[r].at = "locked"
         => ContentOf[u] # ContentOf[rem[r].media]
  /\ \A r, s \in Remover :
       /\ rem[r].at = "locked" /\ rem[s].at = "locked"
       /\ ContentOf[rem[r].media] = ContentOf[rem[s].media]
       => r = s

\* A phase says whether the row of the content is there, and an upload that
\* has not committed has no attachment.
RowExists ==
  \A u \in Upload :
    /\ up[u] = "created" => life[ContentOf[u]] = "none"
    /\ up[u] \in {"found", "cleared", "committed", "finalizing", "renamed"}
         => life[ContentOf[u]] # "none"
    /\ u \in attached => life[ContentOf[u]] # "none" /\ up[u] \notin Before

\* A removal that has deleted the media is the only one to have done so, and
\* the attachment is still there for it.
OneDestroyer ==
  /\ \A r \in Remover : rem[r].at # "idle" => rem[r].media \in Media
  /\ \A r \in Remover :
       rem[r].at \in {"destroyed", "locked"} => rem[r].media \in attached
  /\ \A r, s \in Remover :
       /\ rem[r].at \in {"destroyed", "locked"}
       /\ rem[s].at \in {"destroyed", "locked"}
       /\ rem[r].media = rem[s].media
       => r = s

\* Until there is a row nobody removes the temporary file, and a moved file
\* stays.
FileOnDisk ==
  \A u \in Upload :
    /\ /\ up[u] \in {"written", "hashed", "absent", "created"}
       /\ life[ContentOf[u]] = "none"
       => ContentOf[u] \in temp
    /\ up[u] = "renamed" => ContentOf[u] \in final

\* The inductive invariant.
IInv ==
  /\ TypeOK
  /\ OneHolder
  /\ RowExists
  /\ OneDestroyer
  /\ FileOnDisk
  /\ RefCountIsAttachments
  /\ ReadyHasFile
  /\ DeletingIsUnused
  /\ FileIsKept

\* The assumptions on the constants, as they are used.
LEMMA Constants ==
  /\ \A u \in Upload : ContentOf[u] \in Content
  /\ Media \subseteq Upload /\ IsFiniteSet(Upload)
BY FileStoreAssumption

\* An attachment more is one more for its content and none for the others.
LEMMA CountAttach ==
  ASSUME NEW A \in SUBSET Upload, NEW u \in Upload \ A, NEW c \in Content
  PROVE  /\ Cardinality(A \cap Of(c)) \in Nat
         /\ Cardinality((A \cup {u}) \cap Of(c)) =
              Cardinality(A \cap Of(c)) + (IF ContentOf[u] = c THEN 1 ELSE 0)
<1>1. IsFiniteSet(A \cap Of(c)) /\ Cardinality(A \cap Of(c)) \in Nat
  BY Constants, FS_Subset, FS_CardinalityType DEF Of
<1>2. CASE ContentOf[u] = c
  <2>1. (A \cup {u}) \cap Of(c) = (A \cap Of(c)) \cup {u}
    BY <1>2 DEF Of
  <2>2. u \notin A \cap Of(c)
    OBVIOUS
  <2>. QED BY <1>1, <1>2, <2>1, <2>2, FS_AddElement
<1>3. CASE ContentOf[u] # c
  <2>1. (A \cup {u}) \cap Of(c) = A \cap Of(c)
    BY <1>3 DEF Of
  <2>. QED BY <1>1, <1>3, <2>1
<1>. QED BY <1>2, <1>3

\* An attachment less is one less for its content, which had one at least.
LEMMA CountDetach ==
  ASSUME NEW A \in SUBSET Upload, NEW u \in A, NEW c \in Content
  PROVE  /\ Cardinality(A \cap Of(c)) \in Nat
         /\ Cardinality((A \ {u}) \cap Of(c)) \in Nat
         /\ Cardinality((A \ {u}) \cap Of(c)) =
              Cardinality(A \cap Of(c)) - (IF ContentOf[u] = c THEN 1 ELSE 0)
<1>1. A \ {u} \in SUBSET Upload /\ u \in Upload \ (A \ {u})
  OBVIOUS
<1>2. (A \ {u}) \cup {u} = A
  OBVIOUS
<1>. QED BY <1>1, <1>2, CountAttach

\* A temporary file is written, perhaps over one of the same content.
LEMMA KeepWriteTemp ==
  ASSUME IInv, NEW u \in Upload, WriteTemp(u)
  PROVE  IInv'
<1> USE FileStoreAssumption
       DEF IInv, WriteTemp, Goto, rows, notes, Of
<1>1. TypeOK'
  BY Constants DEF TypeOK, Phase
<1>2. OneHolder'
  BY DEF TypeOK, OneHolder, HasRow, Locked
<1>3. RowExists'
  BY DEF TypeOK, RowExists, Before
<1>4. OneDestroyer'
  BY DEF TypeOK, OneDestroyer
<1>5. FileOnDisk'
  BY DEF TypeOK, FileOnDisk, RowExists
<1>6. RefCountIsAttachments'
  BY DEF TypeOK, RefCountIsAttachments
<1>7. ReadyHasFile'
  BY DEF TypeOK, ReadyHasFile, FileOnDisk
<1>8. DeletingIsUnused'
  BY DEF TypeOK, DeletingIsUnused, RowExists
<1>9. FileIsKept'
  BY DEF TypeOK, FileIsKept, Finalizing, RowExists, FileOnDisk
<1>. QED BY <1>1, <1>2, <1>3, <1>4, <1>5, <1>6, <1>7, <1>8, <1>9

\* Only the phase of the upload changes.
LEMMA KeepStat ==
  ASSUME IInv, NEW u \in Upload, Stat(u)
  PROVE  IInv'
<1> USE FileStoreAssumption
       DEF IInv, Stat, Goto, rows, disk, notes, Of
<1>1. TypeOK'
  BY DEF TypeOK, Phase
<1>2. OneHolder'
  BY DEF TypeOK, OneHolder, HasRow, Locked
<1>3. RowExists'
  BY DEF TypeOK, RowExists, Before
<1>4. OneDestroyer'
  BY DEF TypeOK, OneDestroyer
<1>5. FileOnDisk'
  BY DEF TypeOK, FileOnDisk, RowExists
<1>6. RefCountIsAttachments'
  BY DEF TypeOK, RefCountIsAttachments
<1>7. ReadyHasFile'
  BY DEF TypeOK, ReadyHasFile, FileOnDisk
<1>8. DeletingIsUnused'
  BY DEF TypeOK, DeletingIsUnused, RowExists
<1>9. FileIsKept'
  BY DEF TypeOK, FileIsKept, Finalizing, RowExists, FileOnDisk
<1>. QED BY <1>1, <1>2, <1>3, <1>4, <1>5, <1>6, <1>7, <1>8, <1>9

\* The row is locked if it is there and free.
LEMMA KeepLookup ==
  ASSUME IInv, NEW u \in Upload, Lookup(u)
  PROVE  IInv'
<1> USE FileStoreAssumption
       DEF IInv, Lookup, Goto, rows, disk, notes, Of
<1>1. TypeOK'
  BY DEF TypeOK, Phase
<1>2. OneHolder'
  BY DEF TypeOK, OneHolder, HasRow, Locked
<1>3. RowExists'
  BY DEF TypeOK, RowExists, Before
<1>4. OneDestroyer'
  BY DEF TypeOK, OneDestroyer
<1>5. FileOnDisk'
  BY DEF TypeOK, FileOnDisk, RowExists
<1>6. RefCountIsAttachments'
  BY DEF TypeOK, RefCountIsAttachments
<1>7. ReadyHasFile'
  BY DEF TypeOK, ReadyHasFile, FileOnDisk
<1>8. DeletingIsUnused'
  BY DEF TypeOK, DeletingIsUnused, RowExists
<1>9. FileIsKept'
  BY DEF TypeOK, FileIsKept, Finalizing, RowExists, FileOnDisk
<1>. QED BY <1>1, <1>2, <1>3, <1>4, <1>5, <1>6, <1>7, <1>8, <1>9

\* Only one upload can have an insert of the content open.
LEMMA KeepInsert ==
  ASSUME IInv, NEW u \in Upload, Insert(u)
  PROVE  IInv'
<1> USE FileStoreAssumption
       DEF IInv, Insert, Goto, rows, disk, notes, Of
<1>1. TypeOK'
  BY DEF TypeOK, Phase
<1>2. OneHolder'
  BY DEF TypeOK, OneHolder, HasRow, Locked
<1>3. RowExists'
  BY DEF TypeOK, RowExists, Before
<1>4. OneDestroyer'
  BY DEF TypeOK, OneDestroyer
<1>5. FileOnDisk'
  BY DEF TypeOK, FileOnDisk, RowExists
<1>6. RefCountIsAttachments'
  BY DEF TypeOK, RefCountIsAttachments
<1>7. ReadyHasFile'
  BY DEF TypeOK, ReadyHasFile, FileOnDisk
<1>8. DeletingIsUnused'
  BY DEF TypeOK, DeletingIsUnused, RowExists
<1>9. FileIsKept'
  BY DEF TypeOK, FileIsKept, Finalizing, RowExists, FileOnDisk
<1>. QED BY <1>1, <1>2, <1>3, <1>4, <1>5, <1>6, <1>7, <1>8, <1>9

\* The temporary file is taken away from an upload that has yet to move it:
\* the content is lost from then on.
LEMMA KeepRemoveTemp ==
  ASSUME IInv, NEW u \in Upload, RemoveTemp(u)
  PROVE  IInv'
<1> USE FileStoreAssumption
       DEF IInv, RemoveTemp, Goto, rows, Of
<1>1. TypeOK'
  <2>1. lost' \subseteq Content /\ temp' \subseteq Content
    BY Constants DEF TypeOK
  <2>. QED BY <2>1 DEF TypeOK, Phase
<1>2. OneHolder'
  BY DEF TypeOK, OneHolder, HasRow, Locked
<1>3. RowExists'
  BY DEF TypeOK, RowExists, Before
<1>4. OneDestroyer'
  BY DEF TypeOK, OneDestroyer
<1>5. FileOnDisk'
  BY DEF TypeOK, FileOnDisk, RowExists
<1>6. RefCountIsAttachments'
  BY DEF TypeOK, RefCountIsAttachments
<1>7. ReadyHasFile'
  BY DEF TypeOK, ReadyHasFile, FileOnDisk
<1>8. DeletingIsUnused'
  BY DEF TypeOK, DeletingIsUnused, RowExists
<1>9. FileIsKept'
  BY DEF TypeOK, FileIsKept, Finalizing, RowExists, FileOnDisk
<1>. QED BY <1>1, <1>2, <1>3, <1>4, <1>5, <1>6, <1>7, <1>8, <1>9

\* A first attachment makes the row; any other adds a reference to it.
LEMMA KeepCommit ==
  ASSUME IInv, NEW u \in Upload, Commit(u)
  PROVE  IInv'
<1> USE FileStoreAssumption
       DEF IInv, Commit, Goto, disk, Of
<1>0. u \notin attached
  BY DEF RowExists, Before
<1>1. TypeOK'
  <2>1. refCount' \in [Content -> Nat]
    BY Constants DEF TypeOK
  <2>2. life' \in [Content -> {"none", "PENDING", "READY", "DELETING"}]
    BY Constants DEF TypeOK
  <2>3. late' \subseteq Content /\ attached' \subseteq Upload
    BY Constants DEF TypeOK
  <2>. QED BY <2>1, <2>2, <2>3 DEF TypeOK, Phase
<1>2. OneHolder'
  BY DEF TypeOK, OneHolder, HasRow, Locked
<1>3. RowExists'
  BY Constants DEF TypeOK, RowExists, Before, OneHolder, HasRow
<1>4. OneDestroyer'
  BY DEF TypeOK, OneDestroyer
<1>5. FileOnDisk'
  BY DEF TypeOK, FileOnDisk, RowExists
<1>6. RefCountIsAttachments'
  <2> SUFFICES ASSUME NEW c \in Content
               PROVE  refCount'[c] = Cardinality(attached' \cap Of(c))
    BY DEF RefCountIsAttachments
  <2>1. Cardinality(attached' \cap Of(c)) =
          refCount[c] + (IF ContentOf[u] = c THEN 1 ELSE 0)
    <3>1. attached \in SUBSET Upload /\ u \in Upload \ attached
      BY <1>0 DEF TypeOK
    <3>2. Cardinality((attached \cup {u}) \cap Of(c)) =
            Cardinality(attached \cap Of(c)) + (IF ContentOf[u] = c THEN 1 ELSE 0)
      BY ONLY <3>1, CountAttach
    <3>. QED BY <3>2 DEF RefCountIsAttachments
  <2>2. CASE ContentOf[u] = c /\ up[u] = "created"
    <3>1. attached \cap Of(c) = {}
      BY <2>2 DEF RowExists, TypeOK
    <3>2. refCount[c] = 0
      BY <3>1, FS_EmptySet DEF RefCountIsAttachments
    <3>. QED BY <2>1, <2>2, <3>2 DEF TypeOK
  <2>3. CASE ContentOf[u] = c /\ up[u] # "created"
    BY <2>1, <2>3 DEF TypeOK
  <2>4. CASE ContentOf[u] # c
    BY <2>1, <2>4 DEF TypeOK
  <2>. QED BY <2>2, <2>3, <2>4
<1>7. ReadyHasFile'
  BY DEF TypeOK, ReadyHasFile, FileOnDisk
<1>8. DeletingIsUnused'
  BY DEF TypeOK, DeletingIsUnused, RowExists
<1>9. FileIsKept'
  BY DEF TypeOK, FileIsKept, Finalizing, RowExists, FileOnDisk
<1>. QED BY <1>1, <1>2, <1>3, <1>4, <1>5, <1>6, <1>7, <1>8, <1>9

\* The row is locked for the finalisation.
LEMMA KeepFinalizeLock ==
  ASSUME IInv, NEW u \in Upload, FinalizeLock(u)
  PROVE  IInv'
<1> USE FileStoreAssumption
       DEF IInv, FinalizeLock, Goto, rows, disk, notes, Of
<1>1. TypeOK'
  BY DEF TypeOK, Phase
<1>2. OneHolder'
  BY DEF TypeOK, OneHolder, HasRow, Locked
<1>3. RowExists'
  BY DEF TypeOK, RowExists, Before
<1>4. OneDestroyer'
  BY DEF TypeOK, OneDestroyer
<1>5. FileOnDisk'
  BY DEF TypeOK, FileOnDisk, RowExists
<1>6. RefCountIsAttachments'
  BY DEF TypeOK, RefCountIsAttachments
<1>7. ReadyHasFile'
  BY DEF TypeOK, ReadyHasFile, FileOnDisk
<1>8. DeletingIsUnused'
  BY DEF TypeOK, DeletingIsUnused, RowExists
<1>9. FileIsKept'
  BY DEF TypeOK, FileIsKept, Finalizing, RowExists, FileOnDisk
<1>. QED BY <1>1, <1>2, <1>3, <1>4, <1>5, <1>6, <1>7, <1>8, <1>9

\* The file is moved if it is there.
LEMMA KeepRename ==
  ASSUME IInv, NEW u \in Upload, Rename(u)
  PROVE  IInv'
<1> USE FileStoreAssumption
       DEF IInv, Rename, Goto, rows, notes, Of
<1>1. TypeOK'
  BY DEF TypeOK, Phase
<1>2. OneHolder'
  BY DEF TypeOK, OneHolder, HasRow, Locked
<1>3. RowExists'
  BY DEF TypeOK, RowExists, Before
<1>4. OneDestroyer'
  BY DEF TypeOK, OneDestroyer
<1>5. FileOnDisk'
  BY DEF TypeOK, FileOnDisk, RowExists
<1>6. RefCountIsAttachments'
  BY DEF TypeOK, RefCountIsAttachments
<1>7. ReadyHasFile'
  BY DEF TypeOK, ReadyHasFile, FileOnDisk
<1>8. DeletingIsUnused'
  BY DEF TypeOK, DeletingIsUnused, RowExists
<1>9. FileIsKept'
  BY DEF TypeOK, FileIsKept, Finalizing, RowExists, FileOnDisk
<1>. QED BY <1>1, <1>2, <1>3, <1>4, <1>5, <1>6, <1>7, <1>8, <1>9

\* The row is ready, its file has been moved.
LEMMA KeepFinalizeCommit ==
  ASSUME IInv, NEW u \in Upload, FinalizeCommit(u)
  PROVE  IInv'
<1> USE FileStoreAssumption
       DEF IInv, FinalizeCommit, Goto, disk, Of
<1>1. TypeOK'
  BY DEF TypeOK, Phase
<1>2. OneHolder'
  BY DEF TypeOK, OneHolder, HasRow, Locked
<1>3. RowExists'
  BY DEF TypeOK, RowExists, Before
<1>4. OneDestroyer'
  BY DEF TypeOK, OneDestroyer
<1>5. FileOnDisk'
  BY DEF TypeOK, FileOnDisk, RowExists
<1>6. RefCountIsAttachments'
  BY DEF TypeOK, RefCountIsAttachments
<1>7. ReadyHasFile'
  BY DEF TypeOK, ReadyHasFile, FileOnDisk
<1>8. DeletingIsUnused'
  BY DEF TypeOK, DeletingIsUnused, RowExists
<1>9. FileIsKept'
  BY DEF TypeOK, FileIsKept, Finalizing, RowExists, FileOnDisk
<1>. QED BY <1>1, <1>2, <1>3, <1>4, <1>5, <1>6, <1>7, <1>8, <1>9

\* Nothing is locked yet.
LEMMA KeepFind ==
  ASSUME IInv, NEW r \in Remover, NEW m \in Media, Find(r, m)
  PROVE  IInv'
<1> USE FileStoreAssumption
       DEF IInv, Find, rows, disk, notes, NoRemoval, Of
<1>1. TypeOK'
  BY DEF TypeOK, Phase
<1>2. OneHolder'
  BY DEF TypeOK, OneHolder, HasRow, Locked
<1>3. RowExists'
  BY DEF TypeOK, RowExists, Before
<1>4. OneDestroyer'
  BY DEF TypeOK, OneDestroyer
<1>5. FileOnDisk'
  BY DEF TypeOK, FileOnDisk, RowExists
<1>6. RefCountIsAttachments'
  BY DEF TypeOK, RefCountIsAttachments
<1>7. ReadyHasFile'
  BY DEF TypeOK, ReadyHasFile, FileOnDisk
<1>8. DeletingIsUnused'
  BY DEF TypeOK, DeletingIsUnused, RowExists
<1>9. FileIsKept'
  BY DEF TypeOK, FileIsKept, Finalizing, RowExists, FileOnDisk
<1>. QED BY <1>1, <1>2, <1>3, <1>4, <1>5, <1>6, <1>7, <1>8, <1>9

\* Only one removal of a media gets its row, with the attachment there.
LEMMA KeepDestroyMedia ==
  ASSUME IInv, NEW r \in Remover, DestroyMedia(r)
  PROVE  IInv'
<1> USE FileStoreAssumption
       DEF IInv, DestroyMedia, rows, disk, notes, Of
<1>1. TypeOK'
  BY DEF TypeOK, Phase
<1>2. OneHolder'
  BY DEF TypeOK, OneHolder, HasRow, Locked
<1>3. RowExists'
  BY DEF TypeOK, RowExists, Before
<1>4. OneDestroyer'
  BY DEF TypeOK, OneDestroyer
<1>5. FileOnDisk'
  BY DEF TypeOK, FileOnDisk, RowExists
<1>6. RefCountIsAttachments'
  BY DEF TypeOK, RefCountIsAttachments
<1>7. ReadyHasFile'
  BY DEF TypeOK, ReadyHasFile, FileOnDisk
<1>8. DeletingIsUnused'
  BY DEF TypeOK, DeletingIsUnused, RowExists
<1>9. FileIsKept'
  BY DEF TypeOK, FileIsKept, Finalizing, RowExists, FileOnDisk
<1>. QED BY <1>1, <1>2, <1>3, <1>4, <1>5, <1>6, <1>7, <1>8, <1>9

\* The row of the file is locked.
LEMMA KeepLockFile ==
  ASSUME IInv, NEW r \in Remover, LockFile(r)
  PROVE  IInv'
<1> USE FileStoreAssumption
       DEF IInv, LockFile, rows, disk, notes, Of
<1>1. TypeOK'
  BY DEF TypeOK, Phase
<1>2. OneHolder'
  BY DEF TypeOK, OneHolder, HasRow, Locked
<1>3. RowExists'
  BY DEF TypeOK, RowExists, Before
<1>4. OneDestroyer'
  BY DEF TypeOK, OneDestroyer
<1>5. FileOnDisk'
  BY DEF TypeOK, FileOnDisk, RowExists
<1>6. RefCountIsAttachments'
  BY DEF TypeOK, RefCountIsAttachments
<1>7. ReadyHasFile'
  BY DEF TypeOK, ReadyHasFile, FileOnDisk
<1>8. DeletingIsUnused'
  BY DEF TypeOK, DeletingIsUnused, RowExists
<1>9. FileIsKept'
  BY DEF TypeOK, FileIsKept, Finalizing, RowExists, FileOnDisk
<1>. QED BY <1>1, <1>2, <1>3, <1>4, <1>5, <1>6, <1>7, <1>8, <1>9

\* The attachment was there, so the reference is there to be taken down.
LEMMA KeepDetach ==
  ASSUME IInv, NEW r \in Remover, Detach(r)
  PROVE  IInv'
<1> USE FileStoreAssumption
       DEF IInv, Detach, disk, notes, Of
<1>0. /\ rem[r].media \in attached /\ rem[r].media \in Upload
      /\ ContentOf[rem[r].media] \in Content
      /\ life[ContentOf[rem[r].media]] # "none"
      /\ refCount[ContentOf[rem[r].media]] - 1 \in Nat
  <2>1. rem[r].media \in attached /\ rem[r].media \in Upload
    BY DEF TypeOK, OneDestroyer
  <2>2. ContentOf[rem[r].media] \in Content
    BY <2>1, Constants
  <2>3. refCount[ContentOf[rem[r].media]] - 1 \in Nat
    <3>1. LET c == ContentOf[rem[r].media]
              A == attached
          IN  /\ Cardinality(A \cap Of(c)) - 1 \in Nat
              /\ refCount[c] = Cardinality(A \cap Of(c))
      <4>1. attached \in SUBSET Upload
        BY DEF TypeOK
      <4>. QED BY <2>1, <2>2, <4>1, CountDetach DEF RefCountIsAttachments
    <3>. QED BY <3>1
  <2>. QED BY <2>1, <2>2, <2>3 DEF RowExists
<1>1. TypeOK'
  <2>1. refCount' \in [Content -> Nat]
    BY <1>0 DEF TypeOK
  <2>2. life' \in [Content -> {"none", "PENDING", "READY", "DELETING"}]
    BY <1>0 DEF TypeOK
  <2>3. attached' \subseteq Upload
    BY DEF TypeOK
  <2>. QED BY <2>1, <2>2, <2>3 DEF TypeOK
<1>2. OneHolder'
  BY DEF TypeOK, OneHolder, HasRow, Locked
<1>3. RowExists'
  BY <1>0 DEF TypeOK, RowExists, Before
<1>4. OneDestroyer'
  BY DEF TypeOK, OneDestroyer
<1>5. FileOnDisk'
  BY DEF TypeOK, FileOnDisk, RowExists
<1>6. RefCountIsAttachments'
  <2> SUFFICES ASSUME NEW c \in Content
               PROVE  refCount'[c] = Cardinality(attached' \cap Of(c))
    BY DEF RefCountIsAttachments
  <2>1. attached \in SUBSET Upload
    BY DEF TypeOK
  <2>2. Cardinality(attached' \cap Of(c)) =
          refCount[c] - (IF ContentOf[rem[r].media] = c THEN 1 ELSE 0)
    <3>1. \A m \in attached :
            Cardinality((attached \ {m}) \cap Of(c)) =
              Cardinality(attached \cap Of(c)) - (IF ContentOf[m] = c THEN 1 ELSE 0)
      BY ONLY <2>1, CountDetach
    <3>2. refCount[c] = Cardinality(attached \cap Of(c))
      BY DEF RefCountIsAttachments
    <3>. QED BY <1>0, <3>1, <3>2
  <2>. QED BY <2>2 DEF TypeOK
<1>7. ReadyHasFile'
  BY DEF TypeOK, ReadyHasFile, FileOnDisk
<1>8. DeletingIsUnused'
  BY <1>0 DEF TypeOK, DeletingIsUnused
<1>9. FileIsKept'
  BY <1>0 DEF TypeOK, FileIsKept, Finalizing
<1>. QED BY <1>1, <1>2, <1>3, <1>4, <1>5, <1>6, <1>7, <1>8, <1>9

\* A failure before the commit changes no row; after it the content is lost.
LEMMA KeepUploadFails ==
  ASSUME IInv, NEW u \in Upload, UploadFails(u)
  PROVE  IInv'
<1> USE FileStoreAssumption
       DEF IInv, UploadFails, Goto, rows, disk, Of
<1>1. TypeOK'
  BY DEF TypeOK, Phase
<1>2. OneHolder'
  BY DEF TypeOK, OneHolder, HasRow, Locked
<1>3. RowExists'
  BY DEF TypeOK, RowExists, Before
<1>4. OneDestroyer'
  BY DEF TypeOK, OneDestroyer
<1>5. FileOnDisk'
  BY DEF TypeOK, FileOnDisk, RowExists
<1>6. RefCountIsAttachments'
  BY DEF TypeOK, RefCountIsAttachments
<1>7. ReadyHasFile'
  BY DEF TypeOK, ReadyHasFile, FileOnDisk
<1>8. DeletingIsUnused'
  BY DEF TypeOK, DeletingIsUnused, RowExists
<1>9. FileIsKept'
  BY DEF TypeOK, FileIsKept, Finalizing, RowExists, FileOnDisk
<1>. QED BY <1>1, <1>2, <1>3, <1>4, <1>5, <1>6, <1>7, <1>8, <1>9

\* A removal that fails changes nothing.
LEMMA KeepRemovalFails ==
  ASSUME IInv, NEW r \in Remover, RemovalFails(r)
  PROVE  IInv'
<1> USE FileStoreAssumption
       DEF IInv, RemovalFails, rows, disk, notes, Of
<1>1. TypeOK'
  BY DEF TypeOK, Phase
<1>2. OneHolder'
  BY DEF TypeOK, OneHolder, HasRow, Locked
<1>3. RowExists'
  BY DEF TypeOK, RowExists, Before
<1>4. OneDestroyer'
  BY DEF TypeOK, OneDestroyer
<1>5. FileOnDisk'
  BY DEF TypeOK, FileOnDisk, RowExists
<1>6. RefCountIsAttachments'
  BY DEF TypeOK, RefCountIsAttachments
<1>7. ReadyHasFile'
  BY DEF TypeOK, ReadyHasFile, FileOnDisk
<1>8. DeletingIsUnused'
  BY DEF TypeOK, DeletingIsUnused, RowExists
<1>9. FileIsKept'
  BY DEF TypeOK, FileIsKept, Finalizing, RowExists, FileOnDisk
<1>. QED BY <1>1, <1>2, <1>3, <1>4, <1>5, <1>6, <1>7, <1>8, <1>9

\* All locks are gone, and the contents in finalisation lost.
LEMMA KeepCrash ==
  ASSUME IInv, Crash
  PROVE  IInv'
<1> USE FileStoreAssumption
       DEF IInv, Crash, rows, disk, Of
<1>1. TypeOK'
  BY DEF TypeOK, Phase
<1>2. OneHolder'
  BY DEF TypeOK, OneHolder, HasRow, Locked
<1>3. RowExists'
  BY DEF TypeOK, RowExists, Before
<1>4. OneDestroyer'
  BY DEF TypeOK, OneDestroyer
<1>5. FileOnDisk'
  BY DEF TypeOK, FileOnDisk, RowExists
<1>6. RefCountIsAttachments'
  BY DEF TypeOK, RefCountIsAttachments
<1>7. ReadyHasFile'
  BY DEF TypeOK, ReadyHasFile, FileOnDisk
<1>8. DeletingIsUnused'
  BY DEF TypeOK, DeletingIsUnused, RowExists
<1>9. FileIsKept'
  BY DEF TypeOK, FileIsKept, Finalizing, RowExists, FileOnDisk
<1>. QED BY <1>1, <1>2, <1>3, <1>4, <1>5, <1>6, <1>7, <1>8, <1>9
-----------------------------------------------------------------------------
\* At first there is nothing.
LEMMA InitIInv == Init => IInv
<1> SUFFICES ASSUME Init PROVE IInv
  OBVIOUS
<1> USE DEF Init, NoRemoval
<1>1. TypeOK /\ OneHolder /\ RowExists /\ OneDestroyer /\ FileOnDisk
  BY DEF TypeOK, Phase, OneHolder, HasRow, RowExists, Before, OneDestroyer,
         FileOnDisk
<1>2. RefCountIsAttachments
  <2>1. \A c \in Content : attached \cap Of(c) = {}
    OBVIOUS
  <2>. QED BY <2>1, FS_EmptySet DEF RefCountIsAttachments
<1>3. ReadyHasFile /\ DeletingIsUnused /\ FileIsKept
  BY DEF ReadyHasFile, DeletingIsUnused, FileIsKept
<1>. QED BY <1>1, <1>2, <1>3 DEF IInv

\* Every action preserves the invariant.
LEMMA NextIInv == IInv /\ [Next]_vars => IInv'
<1> SUFFICES ASSUME IInv, [Next]_vars PROVE IInv'
  OBVIOUS
<1>1. ASSUME NEW u \in Upload, UploadStep(u) PROVE IInv'
  BY <1>1, KeepWriteTemp, KeepStat, KeepLookup, KeepInsert, KeepRemoveTemp,
     KeepCommit, KeepFinalizeLock, KeepRename, KeepFinalizeCommit
     DEF UploadStep
<1>2. ASSUME NEW u \in Upload, UploadFails(u) PROVE IInv'
  BY <1>2, KeepUploadFails
<1>3. ASSUME NEW r \in Remover, NEW m \in Media, Find(r, m) PROVE IInv'
  BY <1>3, KeepFind
<1>4. ASSUME NEW r \in Remover, RemovalStep(r) PROVE IInv'
  BY <1>4, KeepDestroyMedia, KeepLockFile, KeepDetach DEF RemovalStep
<1>5. ASSUME NEW r \in Remover, RemovalFails(r) PROVE IInv'
  BY <1>5, KeepRemovalFails
<1>6. CASE Crash
  BY <1>6, KeepCrash
<1>7. CASE UNCHANGED vars
  BY <1>7 DEF vars, rows, disk, notes, IInv, TypeOK, OneHolder, RowExists,
     OneDestroyer, FileOnDisk, RefCountIsAttachments, ReadyHasFile,
     DeletingIsUnused, FileIsKept, Of, Finalizing
<1>. QED BY <1>1, <1>2, <1>3, <1>4, <1>5, <1>6, <1>7 DEF Next

-----------------------------------------------------------------------------
\* The inductive invariant holds of every behaviour.
THEOREM Inductive == Spec => []IInv
BY InitIInv, NextIInv, PTL DEF Spec

\* The tables stay well-typed, and no count of references is below zero
\* however many removals of one media overlap.
THEOREM TypeCorrect == Spec => []TypeOK
<1>1. IInv => TypeOK BY DEF IInv
<1>. QED BY <1>1, Inductive, PTL

\* detachAttachment and attachFileToOwner keep refCount in step with the
\* attachments.
THEOREM CountCorrect == Spec => []RefCountIsAttachments
<1>1. IInv => RefCountIsAttachments BY DEF IInv
<1>. QED BY <1>1, Inductive, PTL

\* finalizeFileStorage writes READY only for a file in its place.
THEOREM ReadyIsThere == Spec => []ReadyHasFile
<1>1. IInv => ReadyHasFile BY DEF IInv
<1>. QED BY <1>1, Inductive, PTL

\* detachAttachment marks exactly the rows without references, but for those
\* attached or finalised after they were marked.
THEOREM MarkedIsUnused == Spec => []DeletingIsUnused
<1>1. IInv => DeletingIsUnused BY DEF IInv
<1>. QED BY <1>1, Inductive, PTL

\* A row is without a file, and without an upload that will bring it, only
\* when removeLocalTempFile of another upload, or a failure after the commit,
\* took it away.
THEOREM FileStays == Spec => []FileIsKept
<1>1. IInv => FileIsKept BY DEF IInv
<1>. QED BY <1>1, Inductive, PTL

=============================================================================

------------------------------- MODULE FileStore -------------------------------
(***************************************************************************)
(* Stored files: the tables file_storage and file_attachment, the temporary *)
(* and the final file of each content, the uploads that write them, and the *)
(* removal of a media.                                                      *)
(*                                                                          *)
(* A content is named by its hash: one row of file_storage, one temporary   *)
(* path and one final path, which all uploads of that content share.  The   *)
(* row and the paths are not written together: the temporary file comes     *)
(* first, inside the transaction of the upload, and is moved to its final   *)
(* place by another transaction after the commit.                           *)
(*                                                                          *)
(* Every SQL statement that reads what others write, or waits for a row     *)
(* lock, and every call of the file system is an action.  A transaction     *)
(* that has the row of a content locked holds the lock to its end, so the   *)
(* lock is a function of the phases of the requests, see Locked.            *)
(*                                                                          *)
(* An operator whose name ends in Slip is a plausible mistake in the        *)
(* definition after it; no behaviour of the specification uses one.         *)
(***************************************************************************)
EXTENDS Integers, FiniteSets

CONSTANTS
  Content,     \* contents, by their hash
  Upload,      \* requests that upload; the row they own has the same name
  ContentOf,   \* what an upload uploads
  Media,       \* uploads by MediaService; the others create nodes
  Remover      \* requests that remove a media

ASSUME FileStoreAssumption ==
  /\ ContentOf \in [Upload -> Content]
  /\ Media \subseteq Upload
  /\ IsFiniteSet(Upload)

VARIABLES
  life,      \* file_storage.lifecycle, "none" without a row
  refCount,  \* file_storage.refCount
  attached,  \* uploads that have their attachment and their media or node
  temp,      \* contents with a temporary file
  final,     \* contents with a file in its final place
  up,        \* phase of an upload
  rem,       \* phase and media of a removal
  lost,      \* history: contents whose temporary file was taken away, or
             \* whose finalisation was broken off, before it was moved
  late       \* history: contents attached or finalised when the row was
             \* marked DELETING already

rows  == <<life, refCount, attached>>
disk  == <<temp, final>>
notes == <<lost, late>>
vars  == <<rows, disk, up, rem, notes>>

-----------------------------------------------------------------------------
(* Helpers *)

Of(c) == {u \in Upload : ContentOf[u] = c}

\* The row of c is locked, or its insert not yet committed.
Locked(c) ==
  \/ \E u \in Of(c) :
       up[u] \in {"found", "cleared", "created", "finalizing", "renamed"}
  \/ \E r \in Remover :
       rem[r].at = "locked" /\ ContentOf[rem[r].media] = c

\* Uploads of c that have committed the row and not moved the file.
Finalizing(c) == {u \in Of(c) : up[u] \in {"committed", "finalizing"}}

Goto(u, phase) == up' = [up EXCEPT ![u] = phase]

NoRemoval == [at |-> "idle", media |-> "none"]

-----------------------------------------------------------------------------
Init ==
  /\ life = [c \in Content |-> "none"]
  /\ refCount = [c \in Content |-> 0]
  /\ attached = {}
  /\ temp = {} /\ final = {}
  /\ up = [u \in Upload |-> "idle"]
  /\ rem = [r \in Remover |-> NoRemoval]
  /\ lost = {} /\ late = {}

-----------------------------------------------------------------------------
(* The transaction of an upload: createFile, attachFile *)

\* createTempFile writes the temporary file ...
WriteTemp(u) ==
  /\ up[u] = "idle"
  /\ temp' = temp \cup {ContentOf[u]}
  /\ Goto(u, "written")
  /\ UNCHANGED <<rows, final, rem, notes>>

\* ... and looks at its size.  It may be gone by then.
Stat(u) ==
  /\ up[u] = "written"
  /\ Goto(u, IF ContentOf[u] \in temp THEN "hashed" ELSE "done")
  /\ UNCHANGED <<rows, disk, rem, notes>>

\* ingestTempFile looks for the hash, FOR UPDATE.
Lookup(u) ==
  LET c == ContentOf[u]
  IN  /\ up[u] = "hashed"
      /\ \/ life[c] = "none" /\ Goto(u, "absent")
         \/ life[c] # "none" /\ ~ Locked(c) /\ Goto(u, "found")
      /\ UNCHANGED <<rows, disk, rem, notes>>

\* Tries again until the hash is free.
InsertSlip(u) ==
  LET c == ContentOf[u]
  IN  /\ up[u] = "absent" /\ ~ Locked(c)
      /\ life[c] = "none"
      /\ Goto(u, "created")
      /\ UNCHANGED <<rows, disk, rem, notes>>

\* The insert waits for another one of the same hash.  When that commits,
\* the unique index refuses this one; ingestTempFile returns nothing, which
\* its caller cannot take apart, and the transaction rolls back.
Insert(u) ==
  LET c == ContentOf[u]
  IN  /\ up[u] = "absent" /\ ~ Locked(c)
      /\ Goto(u, IF life[c] = "none" THEN "created" ELSE "done")
      /\ UNCHANGED <<rows, disk, rem, notes>>

\* attachFile removes the temporary file when the content was there already.
RemoveTemp(u) ==
  LET c == ContentOf[u]
  IN  /\ up[u] = "found"
      /\ temp' = temp \ {c}
      /\ lost' = IF Finalizing(c) # {} THEN lost \cup {c} ELSE lost
      /\ Goto(u, "cleared")
      /\ UNCHANGED <<rows, final, rem, late>>

\* The new row starts with a reference and gets one more.
CommitSlip(u) ==
  LET c == ContentOf[u]
      new == up[u] = "created"
  IN  /\ up[u] \in {"created", "cleared"}
      /\ attached' = attached \cup {u}
      /\ refCount' = [refCount EXCEPT ![c] = IF new THEN 2 ELSE @ + 1]
      /\ life' = IF new THEN [life EXCEPT ![c] = "PENDING"] ELSE life
      /\ late' = IF life[c] = "DELETING" THEN late \cup {c} ELSE late
      /\ Goto(u, IF new THEN "committed" ELSE "done")
      /\ UNCHANGED <<disk, rem, lost>>

\* attachFileToOwner adds the attachment and a reference, and the request
\* commits them with the row it created and its media or node.
Commit(u) ==
  LET c == ContentOf[u]
      new == up[u] = "created"
  IN  /\ up[u] \in {"created", "cleared"}
      /\ attached' = attached \cup {u}
      /\ refCount' = [refCount EXCEPT ![c] = IF new THEN 1 ELSE @ + 1]
      /\ life' = IF new THEN [life EXCEPT ![c] = "PENDING"] ELSE life
      /\ late' = IF life[c] = "DELETING" THEN late \cup {c} ELSE late
      /\ Goto(u, IF new THEN "committed" ELSE "done")
      /\ UNCHANGED <<disk, rem, lost>>

-----------------------------------------------------------------------------
(* finalizeFileStorage, a transaction of its own *)

FinalizeLock(u) ==
  /\ up[u] = "committed" /\ ~ Locked(ContentOf[u])
  /\ Goto(u, "finalizing")
  /\ UNCHANGED <<rows, disk, rem, notes>>

\* Errors of finalizeFile are swallowed.
RenameSlip(u) ==
  LET c == ContentOf[u]
  IN  /\ up[u] = "finalizing"
      /\ temp' = temp \ {c}
      /\ final' = IF c \in temp THEN final \cup {c} ELSE final
      /\ Goto(u, "renamed")
      /\ UNCHANGED <<rows, rem, notes>>

\* finalizeFile; without a temporary file it throws and all is rolled back.
Rename(u) ==
  LET c == ContentOf[u]
  IN  /\ up[u] = "finalizing"
      /\ temp' = temp \ {c}
      /\ final' = IF c \in temp THEN final \cup {c} ELSE final
      /\ Goto(u, IF c \in temp THEN "renamed" ELSE "done")
      /\ UNCHANGED <<rows, rem, notes>>

FinalizeCommit(u) ==
  LET c == ContentOf[u]
  IN  /\ up[u] = "renamed"
      /\ life' = [life EXCEPT ![c] = "READY"]
      /\ late' = IF life[c] = "DELETING" THEN late \cup {c} ELSE late
      /\ Goto(u, "done")
      /\ UNCHANGED <<refCount, attached, disk, rem, lost>>

-----------------------------------------------------------------------------
(* MediaService.remove *)

\* The media and its attachment are read outside the transaction.
Find(r, m) ==
  /\ rem[r] = NoRemoval
  /\ m \in attached
  /\ rem' = [rem EXCEPT ![r] = [at |-> "found", media |-> m]]
  /\ UNCHANGED <<rows, disk, up, notes>>

\* The attachment is looked up before the media is deleted.
DestroyMediaSlip(r) ==
  LET m == rem[r].media
  IN  /\ rem[r].at = "found"
      /\ rem' = IF m \in attached THEN [rem EXCEPT ![r].at = "destroyed"]
                ELSE [rem EXCEPT ![r].at = "done"]
      /\ UNCHANGED <<rows, disk, up, notes>>

\* media.destroy waits for another removal of the same row.  When that has
\* committed, nothing is deleted here and detachAttachment does not find the
\* attachment any more.
DestroyMedia(r) ==
  LET m == rem[r].media
  IN  /\ rem[r].at = "found"
      /\ ~ \E o \in Remover :
             rem[o].at \in {"destroyed", "locked"} /\ rem[o].media = m
      /\ rem' = IF m \in attached THEN [rem EXCEPT ![r].at = "destroyed"]
                ELSE [rem EXCEPT ![r].at = "done"]
      /\ UNCHANGED <<rows, disk, up, notes>>

\* detachAttachment locks the row of the file.
LockFile(r) ==
  /\ rem[r].at = "destroyed" /\ ~ Locked(ContentOf[rem[r].media])
  /\ rem' = [rem EXCEPT ![r].at = "locked"]
  /\ UNCHANGED <<rows, disk, up, notes>>

\* Looks at the count before it is taken down.
DetachSlip(r) ==
  LET c == ContentOf[rem[r].media]
  IN  /\ rem[r].at = "locked"
      /\ attached' = attached \ {rem[r].media}
      /\ refCount' = [refCount EXCEPT ![c] = @ - 1]
      /\ life' = IF refCount[c] <= 0 THEN [life EXCEPT ![c] = "DELETING"]
                 ELSE life
      /\ rem' = [rem EXCEPT ![r].at = "done"]
      /\ UNCHANGED <<disk, up, notes>>

\* The attachment goes, the count is taken down and read again, and all is
\* committed with the deletion of the media.
Detach(r) ==
  LET c == ContentOf[rem[r].media]
  IN  /\ rem[r].at = "locked"
      /\ attached' = attached \ {rem[r].media}
      /\ refCount' = [refCount EXCEPT ![c] = @ - 1]
      /\ life' = IF refCount'[c] <= 0 THEN [life EXCEPT ![c] = "DELETING"]
                 ELSE life
      /\ rem' = [rem EXCEPT ![r].at = "done"]
      /\ UNCHANGED <<disk, up, notes>>

-----------------------------------------------------------------------------
(* Failures *)

\* The temporary file is tidied up.
UploadFailsSlip(u) ==
  LET c == ContentOf[u]
  IN  /\ up[u] \notin {"idle", "done"}
      /\ Goto(u, "done")
      /\ temp' = temp \ {c}
      /\ lost' = IF u \in Finalizing(c) THEN lost \cup {c} ELSE lost
      /\ UNCHANGED <<rows, final, rem, late>>

\* A quota, a policy or a database error: the transaction is rolled back, the
\* temporary file stays.
UploadFails(u) ==
  LET c == ContentOf[u]
  IN  /\ up[u] \notin {"idle", "done"}
      /\ Goto(u, "done")
      /\ lost' = IF u \in Finalizing(c) THEN lost \cup {c} ELSE lost
      /\ UNCHANGED <<rows, disk, rem, late>>

RemovalFails(r) ==
  /\ rem[r].at \notin {"idle", "done"}
  /\ rem' = [rem EXCEPT ![r].at = "done"]
  /\ UNCHANGED <<rows, disk, up, notes>>

\* The process dies with all its requests.
Crash ==
  LET Dead(phase) == IF phase = "idle" THEN "idle" ELSE "done"
  IN  /\ up' = [u \in Upload |-> Dead(up[u])]
      /\ rem' = [r \in Remover |-> [rem[r] EXCEPT !.at = Dead(rem[r].at)]]
      /\ lost' = lost \cup {c \in Content : Finalizing(c) # {}}
      /\ UNCHANGED <<rows, disk, late>>

-----------------------------------------------------------------------------
UploadStep(u) ==
  \/ WriteTemp(u) \/ Stat(u) \/ Lookup(u) \/ Insert(u) \/ RemoveTemp(u)
  \/ Commit(u) \/ FinalizeLock(u) \/ Rename(u) \/ FinalizeCommit(u)

RemovalStep(r) == DestroyMedia(r) \/ LockFile(r) \/ Detach(r)

Next ==
  \/ \E u \in Upload : UploadStep(u) \/ UploadFails(u)
  \/ \E r \in Remover :
       (\E m \in Media : Find(r, m)) \/ RemovalStep(r) \/ RemovalFails(r)
  \/ Crash

\* A request that runs goes on.
Fairness ==
  /\ \A u \in Upload : WF_vars(up[u] # "idle" /\ UploadStep(u))
  /\ \A r \in Remover : WF_vars(RemovalStep(r))

Spec == Init /\ [][Next]_vars

FairSpec == Spec /\ Fairness

-----------------------------------------------------------------------------
(* Properties *)

Phase == {"idle", "written", "hashed", "absent", "found", "cleared", "created",
          "committed", "finalizing", "renamed", "done"}

\* ... and no count of references below zero.
TypeOK ==
  /\ life \in [Content -> {"none", "PENDING", "READY", "DELETING"}]
  /\ refCount \in [Content -> Nat]
  /\ attached \subseteq Upload
  /\ temp \subseteq Content /\ final \subseteq Content
  /\ up \in [Upload -> Phase]
  /\ rem \in [Remover -> [at : {"idle", "found", "destroyed", "locked", "done"},
                          media : Media \cup {"none"}]]
  /\ lost \subseteq Content /\ late \subseteq Content

\* refCount counts the attachments, whatever uploads and removals overlap;
\* two removals of one media take only one reference down.
RefCountIsAttachments ==
  \A c \in Content : refCount[c] = Cardinality(attached \cap Of(c))

\* A row says READY only when its file is in place, wherever an upload fails
\* or the process dies.
ReadyHasFile ==
  \A c \in Content : life[c] = "READY" => c \in final

\* DELETING is what marks a file without references, and nothing else, but
\* for a row that was attached or finalised again after it was marked.
DeletingIsUnused ==
  \A c \in Content \ late :
    life[c] # "none" => (life[c] = "DELETING" <=> refCount[c] = 0)

\* A row has its file, or the upload that created it is about to move the
\* temporary file there.  It loses it only when another upload removes the
\* temporary file in between, or the request breaks off after its commit:
\* failed uploads and refused inserts take nothing away from others.
FileIsKept ==
  \A c \in Content \ lost :
    life[c] # "none" => \/ c \in final
                        \/ Finalizing(c) # {} /\ c \in temp

\* Every request ends: no two wait for each other's rows.
RequestsEnd ==
  /\ \A u \in Upload : up[u] # "idle" ~> up[u] = "done"
  /\ \A r \in Remover : rem[r].at # "idle" ~> rem[r].at = "done"
=============================================================================

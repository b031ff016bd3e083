------------------------------- MODULE AceOutbox -------------------------------
(***************************************************************************)
(* Erasure of the grants of deleted resources: the table ace_outbox_task,  *)
(* the loops of OutboxWorkerService that work it off, and the two stores   *)
(* that hold grants, SpiceDB (the engine) and access_control_entries (the  *)
(* audit), which applyAclChanges keeps writing meanwhile.                  *)
(*                                                                         *)
(* A grant is a tuple <<resource, subject>>.  A call to SpiceDB and an SQL *)
(* statement are one action each, and anything may happen between two of   *)
(* them: the jobs of one pass run concurrently, a job keeps a copy of its  *)
(* row in memory (task.data) which it saves at the end, a call may fail,   *)
(* and the process may die.                                                *)
(*                                                                         *)
(* Only DELETE tasks of scope RESOURCE are modelled: nothing calls         *)
(* createTaskToCreate and createTaskToDelete, and no loop picks a CREATE.  *)
(*                                                                         *)
(* An operator whose name ends in Slip is a plausible mistake in the       *)
(* definition after it; no behaviour of the specification uses one.        *)
(***************************************************************************)
EXTENDS Integers, FiniteSets

CONSTANTS
  Resource,        \* resources that get deleted
  Tuple,           \* <<resource, subject>>: the grants there may be
  Audited,         \* those granted with isOnlySpiceDB = false
  Granted,         \* those granted at the start
  Slot,            \* bound: jobs at the same time
  SelectTaskLimit, \* selectTaskLimit
  BatchSize,       \* batchSizePerParentLimit
  RecoveryLoop,    \* whether the loop DELETING is started
  MaxTask,         \* bound: rows of ace_outbox_task
  MaxSend,         \* bound: calls of deleteResource for each resource
  MaxAcl           \* bound: calls of applyAclChanges

ASSUME AceOutboxAssumption ==
  /\ \A g \in Tuple : g = <<g[1], g[2]>>
  /\ Audited \subseteq Tuple /\ Granted \subseteq Tuple
  /\ SelectTaskLimit \in Nat \ {0} /\ BatchSize \in Nat \ {0}
  /\ RecoveryLoop \in BOOLEAN
  /\ MaxTask \in Nat /\ MaxSend \in [Resource -> Nat] /\ MaxAcl \in Nat

TaskID == 1..MaxTask   \* in the order of createdAt

Stage == {"resource", "subject", "ace"}   \* the flags of DeleteTaskState

VARIABLES
  task,     \* the rows: status, resource, done = the flags set in data, and
            \* old = not updated for five minutes
  job,      \* the calls of processSingleDeleteTask: their row, the copy of
            \* its flags, and where they are
  awaited,  \* the jobs Promise.all waits for
  spice,    \* tuples in SpiceDB
  ace,      \* rows in access_control_entries
  acl,      \* the transaction of applyAclChanges
  aclCount, \* calls of applyAclChanges so far
  sent,     \* calls of deleteResource so far
  late,     \* history: <<t, g>> when grant g was changed after task t was
            \* sent
  mixed     \* history: grants last changed by a call that failed between the
            \* two stores, or that came after a task was sent

aclVars == <<acl, aclCount>>
vars == <<task, job, awaited, spice, ace, aclVars, sent, late, mixed>>

-----------------------------------------------------------------------------
(* Helpers *)

Touching(r, S) == {g \in S : r \in {g[1], g[2]}}

TasksIn(st) == {t \in TaskID : task[t].status = st}

NoTask == [status |-> "none", resource |-> "none", done |-> {}, old |-> FALSE]
NoJob  == [task |-> 0, done |-> {}, at |-> "idle"]
NoAcl  == [step |-> "idle", op |-> "none", grant |-> <<>>]

Busy == {s \in Slot : job[s].at # "idle"}

\* The audit first.
StageAfterSlip(done) ==
  IF "ace" \notin done THEN "ace"
  ELSE IF "resource" \notin done THEN "resource"
  ELSE IF "subject" \notin done THEN "subject"
  ELSE "save"

\* The first of the three ifs that applies, then task.save().
StageAfter(done) ==
  IF "resource" \notin done THEN "resource"
  ELSE IF "subject" \notin done THEN "subject"
  ELSE IF "ace" \notin done THEN "ace"
  ELSE "save"

\* The grant an open transaction of applyAclChanges works on.
InFlight == IF acl.step = "idle" THEN {} ELSE {acl.grant}

\* Rows that FOR UPDATE SKIP LOCKED passes over.
Locked == InFlight \cap Audited

\* The filter has the type of the resource only, not its id.
TargetsSlip(stage, r) ==
  CASE stage = "resource" -> spice
    [] stage = "subject"  -> {g \in spice : g[2] = r}
    [] stage = "ace"      -> Touching(r, ace) \ Locked

\* deleteByResource, deleteBySubject, deleteFromAceBatch: what they look for.
Targets(stage, r) ==
  CASE stage = "resource" -> {g \in spice : g[1] = r}
    [] stage = "subject"  -> {g \in spice : g[2] = r}
    [] stage = "ace"      -> Touching(r, ace) \ Locked

\* LIMIT, and optionalLimit with partial deletions: B is deleted.
IsLimited(B, targets) ==
  /\ B \subseteq targets
  /\ Cardinality(B) <= BatchSize
  /\ Cardinality(B) < BatchSize => B = targets

\* deleted <= batchSize
ExhaustedSlip(B) == Cardinality(B) <= BatchSize

\* deleted < batchSize
Exhausted(B) == Cardinality(B) < BatchSize

\* Bookkeeping for the history variables: g is changed now, by a call that
\* writes one store only if half.
SentFor(g) ==
  {t \in TaskID : task[t].status # "none" /\ task[t].resource \in {g[1], g[2]}}

Changed(g, half) ==
  /\ late' = late \cup SentFor(g) \X {g}
  /\ mixed' = IF half \/ SentFor(g) # {} THEN mixed \cup {g} ELSE mixed \ {g}

-----------------------------------------------------------------------------
Init ==
  /\ task = [t \in TaskID |-> NoTask]
  /\ job = [s \in Slot |-> NoJob]
  /\ awaited = {}
  /\ spice = Granted
  /\ ace = Granted \cap Audited
  /\ acl = NoAcl
  /\ aclCount = 0
  /\ sent = [r \in Resource |-> 0]
  /\ late = {}
  /\ mixed = {}

-----------------------------------------------------------------------------
(* deleteResource *)

\* upsertACEOutboxTaskQuery: a pending row of the resource gets the new data,
\* which has no flags; otherwise there is a new row.
Upsert(r) ==
  \/ \E t \in TasksIn("pending") :
       /\ task[t].resource = r
       /\ task' = [task EXCEPT ![t].done = {}, ![t].old = FALSE]
  \/ /\ \A t \in TasksIn("pending") : task[t].resource # r
     /\ \E t \in TasksIn("none") :
          /\ \A u \in TasksIn("none") : t <= u
          /\ task' = [task EXCEPT ![t] =
                        [status |-> "pending", resource |-> r,
                         done |-> {}, old |-> FALSE]]

\* The pending row now stands for all the resource has, unless a job still
\* works on the row: it was recovered too early, and may yet be completed by
\* a job that has not seen this call.
DeleteResource(r) ==
  /\ sent[r] < MaxSend[r]
  /\ sent' = [sent EXCEPT ![r] = @ + 1]
  /\ Upsert(r)
  /\ late' = {x \in late : \/ task'[x[1]].status # "pending"
                           \/ task'[x[1]].resource # r
                           \/ \E s \in Busy : job[s].task = x[1]}
  /\ UNCHANGED <<job, awaited, spice, ace, aclVars, mixed>>

-----------------------------------------------------------------------------
(* The worker *)

\* processDeleteTasks: lock some pending tasks (no ORDER BY), mark them, and
\* after the commit start a job for each with the row as it was read.
Pick ==
  /\ awaited = {}
  /\ \E S \in SUBSET TasksIn("pending") :
       /\ S # {}
       /\ Cardinality(S) <= SelectTaskLimit
       /\ Cardinality(S) < SelectTaskLimit => S = TasksIn("pending")
       /\ task' = [t \in TaskID |->
                     IF t \in S THEN [task[t] EXCEPT !.status = "processing",
                                                     !.old = FALSE]
                     ELSE task[t]]
       /\ \E slot \in [S -> Slot \ Busy] :
            /\ \A t, u \in S : slot[t] = slot[u] => t = u
            /\ awaited' = {slot[t] : t \in S}
            /\ job' = [s \in Slot |->
                         IF \E t \in S : slot[t] = s
                         THEN LET t == CHOOSE t \in S : slot[t] = s
                              IN  [task |-> t, done |-> task[t].done,
                                   at |-> StageAfter(task[t].done)]
                         ELSE job[s]]
  /\ UNCHANGED <<spice, ace, aclVars, sent, late, mixed>>

\* One stage of processSingleDeleteTask.  A full batch ends the pass.
RunStage(s, stage) ==
  LET j == job[s]
      r == task[j.task].resource
  IN  /\ j.at = stage
      /\ \E B \in SUBSET Targets(stage, r) :
           /\ IsLimited(B, Targets(stage, r))
           /\ IF stage = "ace"
                THEN ace' = ace \ B /\ UNCHANGED spice
                ELSE spice' = spice \ B /\ UNCHANGED ace
           /\ LET done == IF Exhausted(B) THEN j.done \cup {stage} ELSE j.done
              IN  job' = [job EXCEPT ![s].done = done,
                                     ![s].at = IF Exhausted(B)
                                               THEN StageAfter(done)
                                               ELSE "save"]
      /\ UNCHANGED <<task, awaited, aclVars, sent, late, mixed>>

\* save() writes the whole copy, with the status it was read with.
SaveSlip(s) ==
  LET j == job[s]
  IN  /\ j.at = "save"
      /\ task' = [task EXCEPT ![j.task].done = j.done,
                              ![j.task].old = FALSE,
                              ![j.task].status = IF Stage \subseteq j.done
                                                 THEN "completed" ELSE "processing"]
      /\ job' = [job EXCEPT ![s] = NoJob]
      /\ awaited' = awaited \ {s}
      /\ UNCHANGED <<spice, ace, aclVars, sent, late, mixed>>

\* task.save() writes what changed: the flags, and the status only when all
\* of them are set.
Save(s) ==
  LET j == job[s]
  IN  /\ j.at = "save"
      /\ task' = [task EXCEPT ![j.task].done = j.done,
                              ![j.task].old = FALSE,
                              ![j.task].status = IF Stage \subseteq j.done
                                                 THEN "completed" ELSE @]
      /\ job' = [job EXCEPT ![s] = NoJob]
      /\ awaited' = awaited \ {s}
      /\ UNCHANGED <<spice, ace, aclVars, sent, late, mixed>>

\* Promise.all goes on waiting.
FailSlip(s) ==
  /\ job[s].at # "idle"
  /\ job' = [job EXCEPT ![s] = NoJob]
  /\ UNCHANGED <<task, awaited, spice, ace, aclVars, sent, late, mixed>>

\* A call of the job throws: Promise.all rejects at once, and the loop goes
\* on while the other jobs of the pass still run.
Fail(s) ==
  /\ job[s].at # "idle"
  /\ job' = [job EXCEPT ![s] = NoJob]
  /\ awaited' = IF s \in awaited THEN {} ELSE awaited
  /\ UNCHANGED <<task, spice, ace, aclVars, sent, late, mixed>>

\* Five minutes pass without an update of the row.
GrowOld(t) ==
  /\ RecoveryLoop
  /\ task[t].status = "processing" /\ ~ task[t].old
  /\ task' = [task EXCEPT ![t].old = TRUE]
  /\ UNCHANGED <<job, awaited, spice, ace, aclVars, sent, late, mixed>>

\* selectProcessingAceTaskQuery: the first old tasks become pending again.
\* The statement fails as a whole when ix_unique_pending_resource_task would
\* be violated.
Recover ==
  /\ RecoveryLoop
  /\ LET old == {t \in TasksIn("processing") : task[t].old}
     IN  \E S \in SUBSET old :
           /\ S # {}
           /\ Cardinality(S) <= SelectTaskLimit
           /\ Cardinality(S) < SelectTaskLimit => S = old
           /\ \A t \in S, u \in old \ S : t < u
           /\ \A t \in S, u \in S \cup TasksIn("pending") :
                task[t].resource = task[u].resource => t = u
           /\ task' = [t \in TaskID |->
                         IF t \in S THEN [task[t] EXCEPT !.status = "pending",
                                                         !.old = FALSE]
                         ELSE task[t]]
  /\ UNCHANGED <<job, awaited, spice, ace, aclVars, sent, late, mixed>>

-----------------------------------------------------------------------------
(* applyAclChanges, for one grant: the row is written in a transaction that *)
(* stays open while SpiceDB is called.                                      *)

AclBegin(op, g) ==
  /\ acl.step = "idle" /\ aclCount < MaxAcl
  /\ acl' = [step |-> "open", op |-> op, grant |-> g]
  /\ aclCount' = aclCount + 1
  /\ UNCHANGED <<task, job, awaited, spice, ace, sent, late, mixed>>

\* executeBatch
AclWrite ==
  /\ acl.step = "open"
  /\ spice' = IF acl.op = "grant" THEN spice \cup {acl.grant}
              ELSE spice \ {acl.grant}
  /\ acl' = [acl EXCEPT !.step = "written"]
  /\ Changed(acl.grant, TRUE)
  /\ UNCHANGED <<task, job, awaited, ace, aclCount, sent>>

AclCommit ==
  /\ acl.step = "written"
  /\ ace' = IF acl.op = "grant" THEN ace \cup ({acl.grant} \cap Audited)
            ELSE ace \ {acl.grant}
  /\ acl' = NoAcl
  /\ Changed(acl.grant, FALSE)
  /\ UNCHANGED <<task, job, awaited, spice, aclCount, sent>>

\* The transaction rolls back, whatever SpiceDB has done already.
AclUndone ==
  /\ acl' = NoAcl
  /\ IF acl.step = "idle" THEN UNCHANGED <<late, mixed>>
     ELSE Changed(acl.grant, acl.step = "written" \/ acl.grant \in mixed)

AclFail ==
  /\ acl.step # "idle"
  /\ AclUndone
  /\ UNCHANGED <<task, job, awaited, spice, ace, aclCount, sent>>

\* The process dies: jobs and transactions are gone, rows stay.
Crash ==
  /\ Busy # {} \/ acl.step # "idle"
  /\ job' = [s \in Slot |-> NoJob]
  /\ awaited' = {}
  /\ AclUndone
  /\ UNCHANGED <<task, spice, ace, aclCount, sent>>

-----------------------------------------------------------------------------
Works ==
  \/ \E r \in Resource : DeleteResource(r)
  \/ Pick
  \/ \E s \in Slot : Save(s) \/ \E x \in Stage : RunStage(s, x)
  \/ \E t \in TaskID : GrowOld(t)
  \/ Recover
  \/ \E g \in Tuple : AclBegin("grant", g) \/ AclBegin("revoke", g)
  \/ AclWrite \/ AclCommit

Breaks == (\E s \in Slot : Fail(s)) \/ AclFail \/ Crash

Next == Works \/ Breaks

StageOf(t, x) == \E s \in Slot : job[s].task = t /\ RunStage(s, x)
SaveOf(t)     == \E s \in Slot : job[s].task = t /\ Save(s)

\* The loops run for ever and time passes.  A call does not fail for ever.
Fairness ==
  /\ WF_vars(Pick) /\ WF_vars(Recover)
  /\ \A t \in TaskID :
       /\ WF_vars(GrowOld(t))
       /\ SF_vars(SaveOf(t))
       /\ \A x \in Stage : SF_vars(StageOf(t, x))

Spec == Init /\ [][Next]_vars

FairSpec == Spec /\ Fairness

\* Nothing ever fails.
CalmSpec == Init /\ [][Works]_vars /\ Fairness

-----------------------------------------------------------------------------
(* Properties *)

\* ... and the loop only waits for jobs that run.
TypeOK ==
  /\ task \in [TaskID -> [status   : {"none", "pending", "processing", "completed"},
                          resource : Resource \cup {"none"},
                          done     : SUBSET Stage,
                          old      : BOOLEAN]]
  /\ job \in [Slot -> [task : TaskID \cup {0},
                       done : SUBSET Stage,
                       at   : Stage \cup {"idle", "save"}]]
  /\ awaited \subseteq Busy
  /\ spice \subseteq Tuple
  /\ ace \subseteq Audited
  /\ acl \in [step  : {"idle", "open", "written"},
              op    : {"none", "grant", "revoke"},
              grant : Tuple \cup {<<>>}]
  /\ aclCount \in 0..MaxAcl
  /\ sent \in [Resource -> Nat] /\ \A r \in Resource : sent[r] <= MaxSend[r]
  /\ late \subseteq TaskID \X Tuple
  /\ mixed \subseteq Tuple

\* A flag in a row tells the truth about the store, whatever jobs, failures,
\* recoveries and repeated calls of deleteResource lie in between: nothing
\* is left there of what the resource had when the task was sent.  A
\* completed task has left nothing anywhere.
FlagsAreTrue ==
  \A t \in TaskID :
    LET left(stage) == {g \in Targets(stage, task[t].resource) \ InFlight :
                          <<t, g>> \notin late}
    IN  /\ \A x \in task[t].done : left(x) = {}
        /\ task[t].status = "completed" => \A x \in Stage : left(x) = {}

\* Whoever has access through a shared grant is listed in the audit: the
\* outbox takes a grant out of SpiceDB first.  Only a change of the grant
\* that failed half way, or came after the task, can be seen to differ.
AccessIsListed ==
  \A g \in spice \cap Audited :
    \/ g \in ace
    \/ g \in mixed \cup InFlight

\* A completed task stays so, even when an older job on it saves its copy.
CompletedIsFinal ==
  [][\A t \in TaskID : task[t].status = "completed" =>
                         task'[t].status = "completed"]_vars

\* Every task is completed: one that did not finish in one pass, or whose
\* job failed or died, is taken up again.
TasksComplete ==
  \A t \in TaskID : task[t].status = "pending" ~> task[t].status = "completed"

\* What the erasure of grants promises, without rows, flags and jobs: see
\* GrantErasure.  An order is a row, open until it is completed.
Erasure == INSTANCE GrantErasure WITH
  Order      <- TaskID,
  Grant      <- Tuple,
  access     <- spice,
  listed     <- ace,
  open       <- TasksIn("pending") \cup TasksIn("processing"),
  closed     <- TasksIn("completed"),
  resourceOf <- [t \in TaskID |-> task[t].resource],
  excused    <- late,
  changing   <- InFlight

GrantErasureSpec == Erasure!Spec
=============================================================================

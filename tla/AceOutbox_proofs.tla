---------------------------- MODULE AceOutbox_proofs ----------------------------
(***************************************************************************)
(* Proofs about AceOutbox, for every set of resources and grants and every *)
(* limit of the loops.                                                     *)
(***************************************************************************)
EXTENDS AceOutbox, TLAPS

\* Stage x of task t is done in the row, or in the copy of a job, or the task
\* is completed.
Claimed(t, x) ==
  \/ x \in task[t].done
  \/ task[t].status = "completed"
  \/ \E s \in Slot : job[s].at # "idle" /\ job[s].task = t /\ x \in job[s].done

\* Nothing is left for stage x of what there was when task t was sent.
Clean(t, x) ==
  \A g \in Targets(x, task[t].resource) : g \in InFlight \/ <<t, g>> \in late

\* The copies in memory are as true as the rows.
ClaimsHold == \A t \in TaskID, x \in Stage : Claimed(t, x) => Clean(t, x)

\* The unique index on the resources of pending tasks.
OnePending ==
  \A t, u \in TasksIn("pending") : task[t].resource = task[u].resource => t = u

\* A job has a row, and comes to the audit last.
JobsStand ==
  /\ \A t \in TaskID : task[t].status = "none" => task[t].done = {}
  /\ \A s \in Slot : job[s].at # "idle" =>
       /\ job[s].task \in TaskID
       /\ task[job[s].task].status # "none"
       /\ job[s].at = "ace" => {"resource", "subject"} \subseteq job[s].done

\* A grant that was changed after a task was sent stays one that may differ.
LateIsMixed ==
  \A t \in TaskID, g \in Tuple : <<t, g>> \in late =>
    g \in mixed /\ t \in SentFor(g)

\* The open transaction of applyAclChanges has changed nothing, or has taken
\* back what it was to take back.
AclStands ==
  /\ acl.step # "idle" => acl.grant \in Tuple /\ acl.op \in {"grant", "revoke"}
  /\ acl.step = "open" /\ acl.grant \in spice \cap Audited
       => acl.grant \in ace \cup mixed
  /\ acl.step = "written" /\ acl.op = "revoke" => acl.grant \notin spice

\* What the variables task, job and acl may hold.
Rows == [status   : {"none", "pending", "processing", "completed"},
         resource : Resource \cup {"none"},
         done     : SUBSET Stage,
         old      : BOOLEAN]

Jobs == [task : TaskID \cup {0},
         done : SUBSET Stage,
         at   : Stage \cup {"idle", "save"}]

Acls == [step  : {"idle", "open", "written"},
         op    : {"none", "grant", "revoke"},
         grant : Tuple \cup {<<>>}]

\* The inductive invariant.
IInv ==
  /\ TypeOK
  /\ OnePending
  /\ JobsStand
  /\ ClaimsHold
  /\ LateIsMixed
  /\ AclStands
  /\ AccessIsListed

-----------------------------------------------------------------------------
\* The next stage of a job.
LEMMA NextStage ==
  ASSUME NEW d \in SUBSET Stage
  PROVE  /\ StageAfter(d) \in Stage \cup {"save"}
         /\ StageAfter(d) = "ace" => {"resource", "subject"} \subseteq d
<1>1. CASE "resource" \notin d
  BY <1>1 DEF StageAfter, Stage
<1>2. CASE "resource" \in d /\ "subject" \notin d
  BY <1>2 DEF StageAfter, Stage
<1>3. CASE "resource" \in d /\ "subject" \in d /\ "ace" \notin d
  BY <1>3 DEF StageAfter, Stage
<1>4. CASE "resource" \in d /\ "subject" \in d /\ "ace" \in d
  BY <1>4 DEF StageAfter, Stage
<1>. QED BY <1>1, <1>2, <1>3, <1>4

\* Who claims something has a row.
LEMMA ClaimedIsSent ==
  ASSUME IInv, NEW t \in TaskID, NEW x \in Stage, Claimed(t, x)
  PROVE  task[t].status # "none"
BY DEF IInv, JobsStand, Claimed

\* What a stage looks for is about the resource.
LEMMA TargetsTouch ==
  ASSUME NEW x \in Stage, NEW r, NEW g \in Targets(x, r)
  PROVE  r \in {g[1], g[2]}
BY DEF Targets, Touching, Stage

\* Claims hold on where the stores stay as they are.
LEMMA SameStores ==
  ASSUME ClaimsHold, UNCHANGED <<spice, ace, acl, late>>,
         \A t \in TaskID, x \in Stage :
           Claimed(t, x)' => Claimed(t, x) /\ task'[t].resource = task[t].resource
  PROVE  ClaimsHold'
<1> SUFFICES ASSUME NEW t \in TaskID, NEW x \in Stage, Claimed(t, x)'
             PROVE  Clean(t, x)'
  BY DEF ClaimsHold
<1>1. Clean(t, x) /\ task'[t].resource = task[t].resource
  BY DEF ClaimsHold
<1>. QED BY <1>1 DEF Clean, Targets, Touching, Locked, InFlight

\* Claims hold on where grants only go, or are of the open transaction and are
\* noted as late when it ends.
LEMMA AclClaims ==
  ASSUME IInv, task' = task, late \subseteq late',
         \A t \in TaskID, x \in Stage : Claimed(t, x)' => Claimed(t, x),
         \A g \in spice' : g \in spice \/ g \in InFlight,
         \A g \in ace' : g \in ace \/ g \in InFlight,
         \A g \in InFlight : \A t \in SentFor(g) : g \in InFlight' \/ <<t, g>> \in late'
  PROVE  ClaimsHold'
<1> SUFFICES ASSUME NEW t \in TaskID, NEW x \in Stage, Claimed(t, x)',
                    NEW g \in Targets(x, task[t].resource)'
             PROVE  g \in InFlight' \/ <<t, g>> \in late'
  BY DEF ClaimsHold, Clean
<1>1. Claimed(t, x) /\ task[t].status # "none"
  BY ClaimedIsSent
<1>2. task[t].resource \in {g[1], g[2]}
  BY DEF Targets, Touching, Stage
<1>3. CASE g \in InFlight
  BY <1>1, <1>2, <1>3 DEF SentFor
<1>4. CASE g \notin InFlight
  <2>1. g \in Targets(x, task[t].resource)
    BY <1>4 DEF Targets, Touching, Locked, Stage
  <2>2. <<t, g>> \in late
    BY <1>1, <1>4, <2>1 DEF IInv, ClaimsHold, Clean
  <2>. QED BY <2>2
<1>. QED BY <1>3, <1>4

\* What a change of grant g notes.
LEMMA Changes ==
  ASSUME IInv, NEW g \in Tuple, NEW half \in BOOLEAN, Changed(g, half)
  PROVE  /\ late' \subseteq TaskID \X Tuple /\ late \subseteq late'
         /\ mixed' \subseteq Tuple
         /\ \A t \in SentFor(g) : <<t, g>> \in late'
         /\ \A t \in TaskID, h \in Tuple :
              <<t, h>> \in late' => <<t, h>> \in late \/ (h = g /\ t \in SentFor(g))
         /\ half \/ SentFor(g) # {} => g \in mixed'
         /\ \A h \in Tuple : h # g => (h \in mixed' <=> h \in mixed)
<1>1. SentFor(g) \subseteq TaskID /\ late \subseteq TaskID \X Tuple /\ mixed \subseteq Tuple
  BY DEF IInv, TypeOK, SentFor
<1>2. late' = late \cup SentFor(g) \X {g}
  BY DEF Changed
<1>3. /\ half \/ SentFor(g) # {} => mixed' = mixed \cup {g}
      /\ ~ (half \/ SentFor(g) # {}) => mixed' = mixed \ {g}
  BY DEF Changed
<1>4. mixed' = mixed \cup {g} \/ mixed' = mixed \ {g}
  BY <1>3
<1>5. late' \subseteq TaskID \X Tuple /\ late \subseteq late'
  BY ONLY <1>1, <1>2, g \in Tuple
<1>6. \A t \in SentFor(g) : <<t, g>> \in late'
  BY ONLY <1>2
<1>7. \A t \in TaskID, h \in Tuple :
        <<t, h>> \in late' => <<t, h>> \in late \/ (h = g /\ t \in SentFor(g))
  BY ONLY <1>2
<1>8. mixed' \subseteq Tuple /\ \A h \in Tuple : h # g => (h \in mixed' <=> h \in mixed)
  BY ONLY <1>1, <1>4, g \in Tuple
<1>9. half \/ SentFor(g) # {} => g \in mixed'
  BY <1>3
<1>. QED BY <1>5, <1>6, <1>7, <1>8, <1>9

\* A pending row that nobody works on takes a new meaning; its flags are gone.
LEMMA KeepDelete ==
  ASSUME IInv, NEW r \in Resource, DeleteResource(r)
  PROVE  IInv'
<1> USE DEF IInv, DeleteResource, Upsert, TasksIn, aclVars
<1>a. PICK t0 \in TaskID :
        /\ \/ task[t0].status = "pending" /\ task[t0].resource = r
           \/ task[t0].status = "none" /\ \A u \in TaskID :
                task[u].status = "pending" => task[u].resource # r
        /\ task'[t0] = [status |-> "pending", resource |-> r, done |-> {}, old |-> FALSE]
        /\ \A u \in TaskID \ {t0} : task'[u] = task[u]
        /\ task' \in [TaskID -> Rows]
  <2>1. task \in [TaskID -> Rows]
    BY DEF TypeOK, Rows
  <2>2. CASE \E t \in TasksIn("pending") :
               /\ task[t].resource = r
               /\ task' = [task EXCEPT ![t].done = {}, ![t].old = FALSE]
    <3>1. PICK t \in TaskID : /\ task[t].status = "pending" /\ task[t].resource = r
                              /\ task' = [task EXCEPT ![t].done = {}, ![t].old = FALSE]
      BY <2>2
    <3>. QED BY ONLY <2>1, <3>1 DEF Rows
  <2>3. CASE /\ \A t \in TasksIn("pending") : task[t].resource # r
             /\ \E t \in TasksIn("none") :
                  task' = [task EXCEPT ![t] =
                             [status |-> "pending", resource |-> r,
                              done |-> {}, old |-> FALSE]]
    <3>1. PICK t \in TaskID :
            /\ task[t].status = "none"
            /\ task' = [task EXCEPT ![t] = [status |-> "pending", resource |-> r,
                                            done |-> {}, old |-> FALSE]]
      BY <2>3
    <3>2. \A u \in TaskID : task[u].status = "pending" => task[u].resource # r
      BY <2>3
    <3>. QED BY ONLY <2>1, <3>1, <3>2, r \in Resource DEF Rows
  <2>. QED BY <2>2, <2>3
<1>1. TypeOK'
  <2>1. task' \in [TaskID -> Rows]
    BY <1>a
  <2>2. job' \in [Slot -> Jobs]
    BY DEF TypeOK, Jobs, NoJob, Stage
  <2>3. awaited' \subseteq Busy'
    BY DEF TypeOK, Busy, NoJob
  <2>4. acl' \in Acls
    BY DEF TypeOK, Acls, NoAcl
  <2>5. /\ spice' \subseteq Tuple /\ ace' \subseteq Audited
        /\ aclCount' \in 0..MaxAcl /\ mixed' \subseteq Tuple
    BY DEF TypeOK
  <2>6. late' \subseteq TaskID \X Tuple
    BY DEF TypeOK
  <2>7. sent' \in [Resource -> Nat] /\ \A y \in Resource : sent'[y] <= MaxSend[y]
    <3>1. /\ MaxSend \in [Resource -> Nat] /\ sent \in [Resource -> Nat]
          /\ \A y \in Resource : sent[y] <= MaxSend[y]
          /\ sent[r] < MaxSend[r] /\ sent' = [sent EXCEPT ![r] = @ + 1]
      BY AceOutboxAssumption DEF AceOutboxAssumption, TypeOK
    <3>. QED BY ONLY <3>1, r \in Resource
  <2>. QED BY <2>1, <2>2, <2>3, <2>4, <2>5, <2>6, <2>7 DEF TypeOK, Rows, Jobs, Acls
<1>2. OnePending'
  BY <1>a DEF OnePending
<1>3. JobsStand'
  <2>1. job' = job /\ \A t \in TaskID :
        /\ task[t].status # "none" => task'[t].status # "none"
        /\ task'[t].status = "none" => task'[t] = task[t]
    BY <1>a
  <2>. QED BY ONLY <2>1, JobsStand DEF JobsStand
<1>4. ClaimsHold'
  <2> SUFFICES ASSUME NEW t \in TaskID, NEW x \in Stage, Claimed(t, x)'
               PROVE  Clean(t, x)'
    BY DEF ClaimsHold
  <2>1. task[t].status # "none" /\ Claimed(t, x)
    BY <1>a DEF JobsStand, Claimed
  <2>2. task'[t].resource = task[t].resource
    BY <1>a, <2>1
  <2>3. \/ task'[t].status # "pending" \/ task'[t].resource # r
        \/ \E s \in Busy : job[s].task = t
    BY <1>a DEF OnePending, Claimed, Busy
  <2>4. \A g \in Tuple : <<t, g>> \in late => <<t, g>> \in late'
    BY <2>3
  <2>5. Clean(t, x)
    BY <2>1 DEF ClaimsHold
  <2>6. Targets(x, task[t].resource) \subseteq Tuple
    BY AceOutboxAssumption DEF AceOutboxAssumption, TypeOK, Targets, Touching, Stage
  <2>. QED BY <2>2, <2>4, <2>5, <2>6 DEF Clean, Targets, Touching, Locked, InFlight
<1>5. LateIsMixed'
  <2> SUFFICES ASSUME NEW t \in TaskID, NEW g \in Tuple, <<t, g>> \in late'
               PROVE  g \in mixed /\ t \in SentFor(g)'
    BY DEF LateIsMixed
  <2>1. g \in mixed /\ t \in SentFor(g)
    BY DEF LateIsMixed
  <2>2. task'[t].resource = task[t].resource /\ task'[t].status # "none"
    BY <1>a, <2>1 DEF SentFor
  <2>. QED BY <2>1, <2>2 DEF SentFor
<1>6. AclStands'
  BY DEF TypeOK, AclStands, NoAcl
<1>7. AccessIsListed'
  BY DEF TypeOK, AclStands, AccessIsListed, InFlight, NoAcl
<1>. QED BY <1>1, <1>2, <1>3, <1>4, <1>5, <1>6, <1>7

\* A job starts with the flags of its row.
LEMMA KeepPick ==
  ASSUME IInv, Pick
  PROVE  IInv'
<1> USE DEF IInv, Pick, TasksIn, aclVars
<1> PICK S \in SUBSET TasksIn("pending") :
       /\ task' = [t \in TaskID |->
                     IF t \in S THEN [task[t] EXCEPT !.status = "processing",
                                                     !.old = FALSE]
                     ELSE task[t]]
       /\ \E slot \in [S -> Slot \ Busy] :
            /\ \A t, u \in S : slot[t] = slot[u] => t = u
            /\ awaited' = {slot[t] : t \in S}
            /\ job' = [s \in Slot |->
                         IF \E t \in S : slot[t] = s
                         THEN LET t == CHOOSE t \in S : slot[t] = s
                              IN  [task |-> t, done |-> task[t].done,
                                   at |-> StageAfter(task[t].done)]
                         ELSE job[s]]
  OBVIOUS
<1> PICK slot \in [S -> Slot \ Busy] :
      /\ awaited' = {slot[t] : t \in S}
      /\ job' = [s \in Slot |->
                   IF \E t \in S : slot[t] = s
                   THEN LET t == CHOOSE t \in S : slot[t] = s
                        IN  [task |-> t, done |-> task[t].done,
                             at |-> StageAfter(task[t].done)]
                   ELSE job[s]]
  OBVIOUS
<1>a. \A s \in Slot :
        \/ job'[s] = job[s] /\ \A t \in S : slot[t] # s
        \/ \E t \in S : job'[s] = [task |-> t, done |-> task[t].done,
                                   at |-> StageAfter(task[t].done)]
  <2> SUFFICES ASSUME NEW s \in Slot, NEW u \in S, slot[u] = s
               PROVE  \E t \in S : job'[s] = [task |-> t, done |-> task[t].done,
                                              at |-> StageAfter(task[t].done)]
    OBVIOUS
  <2> DEFINE c == CHOOSE t \in S : slot[t] = s
  <2>1. c \in S
    OBVIOUS
  <2>2. job'[s] = [task |-> c, done |-> task[c].done, at |-> StageAfter(task[c].done)]
    OBVIOUS
  <2>. QED BY <2>1, <2>2
<1>t. task \in [TaskID -> Rows]
  BY DEF TypeOK, Rows
<1>b. \A t \in TaskID :
        /\ t \notin S => task'[t] = task[t]
        /\ t \in S => /\ task[t].status = "pending"
                      /\ task'[t].status = "processing"
                      /\ task'[t].resource = task[t].resource
                      /\ task'[t].done = task[t].done
  <2>1. \A t \in S : t \in TaskID /\ task[t].status = "pending"
    OBVIOUS
  <2>2. task' = [t \in TaskID |->
                   IF t \in S THEN [task[t] EXCEPT !.status = "processing", !.old = FALSE]
                   ELSE task[t]]
    OBVIOUS
  <2>. QED BY ONLY <1>t, <2>1, <2>2 DEF Rows
<1>1. TypeOK'
  <2>1. task' \in [TaskID -> Rows]
    <3>1. /\ task \in [TaskID -> Rows]
          /\ task' = [t \in TaskID |->
                      IF t \in S THEN [task[t] EXCEPT !.status = "processing", !.old = FALSE]
                      ELSE task[t]]
      BY DEF TypeOK, Rows
    <3>. QED BY ONLY <3>1 DEF Rows
  <2>2. job' \in [Slot -> Jobs]
    <3> SUFFICES ASSUME NEW s \in Slot PROVE job'[s] \in Jobs
      BY DEF TypeOK
    <3>1. CASE job'[s] = job[s]
      BY <3>1 DEF TypeOK, Jobs
    <3>2. ASSUME NEW t \in S, job'[s] = [task |-> t, done |-> task[t].done,
                                        at |-> StageAfter(task[t].done)]
          PROVE  job'[s] \in Jobs
      BY <3>2, NextStage DEF TypeOK, Jobs
    <3>. QED BY <1>a, <3>1, <3>2
  <2>3. awaited' \subseteq Busy'
    <3>1. \A z \in awaited' : \E u \in S : z = slot[u]
      BY ONLY awaited' = {slot[t] : t \in S}
    <3>2. ASSUME NEW u \in S
          PROVE  slot[u] \in Busy'
      <4>1. PICK t \in S : job'[slot[u]] = [task |-> t, done |-> task[t].done,
                                           at |-> StageAfter(task[t].done)]
        BY <1>a
      <4>. QED BY <4>1, NextStage DEF TypeOK, Busy, Stage
    <3>. QED BY ONLY <3>1, <3>2
  <2>4. acl' \in Acls
    BY DEF TypeOK, Acls, NoAcl
  <2>5. /\ spice' \subseteq Tuple /\ ace' \subseteq Audited
        /\ aclCount' \in 0..MaxAcl
        /\ sent' \in [Resource -> Nat] /\ \A y \in Resource : sent'[y] <= MaxSend[y]
        /\ late' \subseteq TaskID \X Tuple /\ mixed' \subseteq Tuple
    BY DEF TypeOK
  <2>. QED BY <2>1, <2>2, <2>3, <2>4, <2>5 DEF TypeOK, Rows, Jobs, Acls
<1>2. OnePending'
  BY <1>b DEF OnePending
<1>3. JobsStand'
  <2>1. \A t \in TaskID : task'[t].status = "none" => task'[t].done = {}
    BY <1>b DEF JobsStand
  <2>2. ASSUME NEW s \in Slot, job'[s].at # "idle"
        PROVE  /\ job'[s].task \in TaskID
               /\ task'[job'[s].task].status # "none"
               /\ job'[s].at = "ace" => {"resource", "subject"} \subseteq job'[s].done
    <3>1. CASE job'[s] = job[s]
      <4>1. job[s].task \in TaskID /\ task[job[s].task].status # "none"
        BY <2>2, <3>1 DEF JobsStand
      <4>2. task'[job[s].task].status # "none"
        BY <1>b, <4>1
      <4>. QED BY ONLY <2>2, <3>1, <4>1, <4>2, JobsStand, s \in Slot DEF JobsStand
    <3>2. ASSUME NEW t \in S, job'[s] = [task |-> t, done |-> task[t].done,
                                         at |-> StageAfter(task[t].done)]
          PROVE  /\ job'[s].task \in TaskID
                 /\ task'[job'[s].task].status # "none"
                 /\ job'[s].at = "ace" => {"resource", "subject"} \subseteq job'[s].done
      <4>1. t \in TaskID /\ task'[t].status # "none" /\ task[t].done \in SUBSET Stage
        BY <1>b, <1>t DEF Rows
      <4>. QED BY ONLY <3>2, <4>1, NextStage
    <3>. QED BY <1>a, <3>1, <3>2
  <2>. QED BY <2>1, <2>2 DEF JobsStand
<1>4. ClaimsHold'
  <2>1. ASSUME NEW t \in TaskID, NEW x \in Stage, Claimed(t, x)'
        PROVE  Claimed(t, x) /\ task'[t].resource = task[t].resource
    <3>1. task'[t].resource = task[t].resource /\ task'[t].done = task[t].done
      BY <1>b
    <3>2. task'[t].status = "completed" => task[t].status = "completed"
      BY <1>b
    <3>3. ASSUME NEW s \in Slot, job'[s].at # "idle", job'[s].task = t,
                 x \in job'[s].done
          PROVE  Claimed(t, x)
      <4>1. CASE job'[s] = job[s]
        BY <3>3, <4>1 DEF Claimed
      <4>2. ASSUME NEW u \in S, job'[s] = [task |-> u, done |-> task[u].done,
                                           at |-> StageAfter(task[u].done)]
            PROVE  Claimed(t, x)
        BY <3>3, <4>2 DEF Claimed
      <4>. QED BY <1>a, <4>1, <4>2
    <3>. QED BY <2>1, <3>1, <3>2, <3>3 DEF Claimed
  <2>. QED BY <2>1, SameStores
<1>5. LateIsMixed'
  BY <1>b DEF LateIsMixed, SentFor
<1>6. AclStands'
  BY DEF TypeOK, AclStands, NoAcl
<1>7. AccessIsListed'
  BY DEF TypeOK, AclStands, AccessIsListed, InFlight, NoAcl
<1>. QED BY <1>1, <1>2, <1>3, <1>4, <1>5, <1>6, <1>7

\* A batch that was not full has left nothing.
LEMMA KeepStage ==
  ASSUME IInv, NEW s \in Slot, NEW x \in Stage, RunStage(s, x)
  PROVE  IInv'
<1> USE DEF IInv, RunStage, aclVars
<1> PICK B \in SUBSET Targets(x, task[job[s].task].resource) :
       /\ IsLimited(B, Targets(x, task[job[s].task].resource))
       /\ IF x = "ace"
            THEN ace' = ace \ B /\ UNCHANGED spice
            ELSE spice' = spice \ B /\ UNCHANGED ace
       /\ LET done == IF Exhausted(B) THEN job[s].done \cup {x} ELSE job[s].done
          IN  job' = [job EXCEPT ![s].done = done,
                                 ![s].at = IF Exhausted(B)
                                           THEN StageAfter(done)
                                           ELSE "save"]
  OBVIOUS
<1>a. /\ \A z \in Slot : z # s => job'[z] = job[z]
      /\ job'[s].task = job[s].task
      /\ \/ Exhausted(B) /\ job'[s].done = job[s].done \cup {x}
                         /\ job'[s].at = StageAfter(job[s].done \cup {x})
         \/ job'[s].done = job[s].done /\ job'[s].at = "save"
      /\ job' \in [Slot -> [task : TaskID \cup {0}, done : SUBSET Stage,
                            at : Stage \cup {"idle", "save"}]]
  <2>1. /\ job \in [Slot -> Jobs] /\ x \in Stage
        /\ job' = [job EXCEPT ![s].done = IF Exhausted(B) THEN job[s].done \cup {x}
                                          ELSE job[s].done,
                              ![s].at = IF Exhausted(B)
                                        THEN StageAfter(job[s].done \cup {x})
                                        ELSE "save"]
    BY DEF TypeOK, Jobs
  <2>2. StageAfter(job[s].done \cup {x}) \in Stage \cup {"save"}
    BY ONLY <2>1, NextStage, s \in Slot DEF Jobs
  <2>. QED BY ONLY <2>1, <2>2, s \in Slot DEF Jobs
<1>b. /\ x = "ace" => ace' = ace \ B /\ spice' = spice
      /\ x # "ace" => spice' = spice \ B /\ ace' = ace
      /\ job[s].at = x
      /\ job[s].at # "idle"
  BY DEF Stage
<1>1. TypeOK'
  <2>1. task' \in [TaskID -> Rows]
    BY DEF TypeOK, Rows, Stage
  <2>2. job' \in [Slot -> Jobs]
    BY <1>a, NextStage DEF TypeOK, Jobs, Stage
  <2>3. awaited' \subseteq Busy'
    BY <1>a, NextStage DEF TypeOK, Busy, Stage
  <2>4. acl' \in Acls
    BY DEF TypeOK, Acls, NoAcl
  <2>5. /\ spice' \subseteq Tuple /\ ace' \subseteq Audited
        /\ aclCount' \in 0..MaxAcl
        /\ sent' \in [Resource -> Nat] /\ \A y \in Resource : sent'[y] <= MaxSend[y]
        /\ late' \subseteq TaskID \X Tuple /\ mixed' \subseteq Tuple
    BY DEF TypeOK
  <2>. QED BY <2>1, <2>2, <2>3, <2>4, <2>5 DEF TypeOK, Rows, Jobs, Acls
<1>2. OnePending'
  BY DEF TypeOK, OnePending, TasksIn
<1>3. JobsStand'
  BY <1>a, NextStage DEF TypeOK, JobsStand, Stage
<1>4. ClaimsHold'
  <2> SUFFICES ASSUME NEW t \in TaskID, NEW y \in Stage, Claimed(t, y)'
               PROVE  Clean(t, y)'
    BY DEF ClaimsHold
  <2>1. Targets(y, task[t].resource)' \subseteq Targets(y, task[t].resource)
    BY <1>b DEF Targets, Touching, Locked, InFlight, Stage
  <2>2. CASE Claimed(t, y)
    BY <2>1, <2>2 DEF ClaimsHold, Clean, InFlight
  <2>3. CASE ~ Claimed(t, y)
    <3>1. t = job[s].task /\ y = x /\ Exhausted(B)
      BY <1>a, <2>3 DEF TypeOK, Claimed, Stage
    <3>2. B = Targets(x, task[t].resource)
      BY <3>1 DEF IsLimited, Exhausted
    <3>3. Targets(x, task[t].resource)' = {}
      BY <1>b, <3>2 DEF Targets, Touching, Locked, InFlight, Stage
    <3>. QED BY <3>1, <3>3 DEF Clean
  <2>. QED BY <2>2, <2>3
<1>5. LateIsMixed'
  BY DEF TypeOK, LateIsMixed, SentFor
<1>6. AclStands'
  BY <1>b DEF TypeOK, AclStands, IsLimited, Targets, Locked, InFlight
<1>7. AccessIsListed'
  <2> SUFFICES ASSUME NEW g \in spice' \cap Audited, g \notin ace', g \notin InFlight
               PROVE  g \in mixed
    BY DEF AccessIsListed, InFlight
  <2>1. g \in spice /\ g \in Tuple
    BY <1>b DEF TypeOK
  <2>2. CASE g \notin ace
    BY <2>1, <2>2 DEF AccessIsListed
  <2>3. CASE g \in ace
    <3> DEFINE t == job[s].task
    <3>1. x = "ace" /\ t \in TaskID /\ {"resource", "subject"} \subseteq job[s].done
      BY <1>b, <2>3 DEF JobsStand
    <3>2. g \in Targets("ace", task[t].resource)
      BY <1>b, <2>3, <3>1 DEF IsLimited
    <3>3. task[t].resource \in {g[1], g[2]}
      BY <3>2, TargetsTouch DEF Stage
    <3>4. Claimed(t, "resource") /\ Claimed(t, "subject")
      BY <3>1 DEF Claimed
    <3>5. Clean(t, "resource") /\ Clean(t, "subject")
      BY <3>1, <3>4 DEF ClaimsHold, Stage
    <3>6. \/ g \in Targets("resource", task[t].resource)
          \/ g \in Targets("subject", task[t].resource)
      BY <2>1, <3>3 DEF Targets
    <3>7. <<t, g>> \in late
      BY <3>5, <3>6 DEF Clean
    <3>. QED BY <2>1, <3>1, <3>7 DEF LateIsMixed
  <2>. QED BY <2>2, <2>3
<1>. QED BY <1>1, <1>2, <1>3, <1>4, <1>5, <1>6, <1>7

\* The row is as true as the copy.
LEMMA KeepSave ==
  ASSUME IInv, NEW s \in Slot, Save(s)
  PROVE  IInv'
<1> USE DEF IInv, Save, aclVars
<1>a. job[s].at # "idle" /\ job[s].task \in TaskID
  BY DEF JobsStand
<1>1. TypeOK'
  <2>1. task' \in [TaskID -> Rows]
    <3>1. /\ task \in [TaskID -> Rows]
          /\ job[s].task \in TaskID
          /\ job[s].done \in SUBSET Stage
          /\ task' = [task EXCEPT ![job[s].task].done = job[s].done,
                                ![job[s].task].old = FALSE,
                                ![job[s].task].status =
                                  IF Stage \subseteq job[s].done THEN "completed" ELSE @]
      BY <1>a DEF TypeOK, Rows
    <3>. QED BY ONLY <3>1 DEF Rows
  <2>2. job' \in [Slot -> Jobs]
    BY DEF TypeOK, Jobs, NoJob, Stage
  <2>3. awaited' \subseteq Busy'
    BY DEF TypeOK, Busy, NoJob
  <2>4. acl' \in Acls
    BY DEF TypeOK, Acls, NoAcl
  <2>5. /\ spice' \subseteq Tuple /\ ace' \subseteq Audited
        /\ aclCount' \in 0..MaxAcl
        /\ sent' \in [Resource -> Nat] /\ \A y \in Resource : sent'[y] <= MaxSend[y]
        /\ late' \subseteq TaskID \X Tuple /\ mixed' \subseteq Tuple
    BY DEF TypeOK
  <2>. QED BY <2>1, <2>2, <2>3, <2>4, <2>5 DEF TypeOK, Rows, Jobs, Acls
<1>2. OnePending'
  BY DEF TypeOK, OnePending, TasksIn
<1>3. JobsStand'
  BY DEF TypeOK, JobsStand, NoJob, Stage
<1>4. ClaimsHold'
  <2>1. \A t \in TaskID, x \in Stage :
          Claimed(t, x)' => Claimed(t, x) /\ task'[t].resource = task[t].resource
    BY <1>a DEF TypeOK, Claimed, NoJob
  <2>. QED BY <2>1, SameStores
<1>5. LateIsMixed'
  BY DEF TypeOK, LateIsMixed, SentFor
<1>6. AclStands'
  BY DEF TypeOK, AclStands, NoAcl
<1>7. AccessIsListed'
  BY DEF TypeOK, AclStands, AccessIsListed, InFlight, NoAcl
<1>. QED BY <1>1, <1>2, <1>3, <1>4, <1>5, <1>6, <1>7

\* A job that fails takes its copy with it.
LEMMA KeepFail ==
  ASSUME IInv, NEW s \in Slot, Fail(s)
  PROVE  IInv'
<1> USE DEF IInv, Fail, aclVars
<1>1. TypeOK'
  BY DEF TypeOK, Busy, NoJob, NoAcl, Stage
<1>2. OnePending'
  BY DEF TypeOK, OnePending, TasksIn
<1>3. JobsStand'
  BY DEF TypeOK, JobsStand, NoJob, Stage
<1>4. ClaimsHold'
  <2>1. \A t \in TaskID, x \in Stage : Claimed(t, x)' => Claimed(t, x)
    BY DEF TypeOK, Claimed, NoJob
  <2>. QED BY <2>1, SameStores
<1>5. LateIsMixed'
  BY DEF TypeOK, LateIsMixed, SentFor
<1>6. AclStands'
  BY DEF TypeOK, AclStands, NoAcl
<1>7. AccessIsListed'
  BY DEF TypeOK, AclStands, AccessIsListed, InFlight, NoAcl
<1>. QED BY <1>1, <1>2, <1>3, <1>4, <1>5, <1>6, <1>7

\* Time changes no claim.
LEMMA KeepOld ==
  ASSUME IInv, NEW t \in TaskID, GrowOld(t)
  PROVE  IInv'
<1> USE DEF IInv, GrowOld, aclVars
<1>1. TypeOK'
  <2>1. task' \in [TaskID -> Rows]
    <3>1. /\ task \in [TaskID -> Rows]
          /\ t \in TaskID
          /\ task' = [task EXCEPT ![t].old = TRUE]
      BY DEF TypeOK, Rows
    <3>. QED BY ONLY <3>1 DEF Rows
  <2>2. job' \in [Slot -> Jobs]
    BY DEF TypeOK, Jobs, NoJob, Stage
  <2>3. awaited' \subseteq Busy'
    BY DEF TypeOK, Busy, NoJob
  <2>4. acl' \in Acls
    BY DEF TypeOK, Acls, NoAcl
  <2>5. /\ spice' \subseteq Tuple /\ ace' \subseteq Audited
        /\ aclCount' \in 0..MaxAcl
        /\ sent' \in [Resource -> Nat] /\ \A y \in Resource : sent'[y] <= MaxSend[y]
        /\ late' \subseteq TaskID \X Tuple /\ mixed' \subseteq Tuple
    BY DEF TypeOK
  <2>. QED BY <2>1, <2>2, <2>3, <2>4, <2>5 DEF TypeOK, Rows, Jobs, Acls
<1>2. OnePending'
  BY DEF TypeOK, OnePending, TasksIn
<1>3. JobsStand'
  BY DEF TypeOK, JobsStand, NoJob, Stage
<1>4. ClaimsHold'
  <2>1. \A u \in TaskID, x \in Stage :
          Claimed(u, x)' => Claimed(u, x) /\ task'[u].resource = task[u].resource
    BY DEF TypeOK, Claimed
  <2>. QED BY <2>1, SameStores
<1>5. LateIsMixed'
  BY DEF TypeOK, LateIsMixed, SentFor
<1>6. AclStands'
  BY DEF TypeOK, AclStands, NoAcl
<1>7. AccessIsListed'
  BY DEF TypeOK, AclStands, AccessIsListed, InFlight, NoAcl
<1>. QED BY <1>1, <1>2, <1>3, <1>4, <1>5, <1>6, <1>7

\* Nor does the recovery, which keeps to the index.
LEMMA KeepRecover ==
  ASSUME IInv, Recover
  PROVE  IInv'
<1> USE DEF IInv, Recover, TasksIn, aclVars
<1> PICK S \in SUBSET {t \in TasksIn("processing") : task[t].old} :
       /\ \A t \in S, u \in S \cup TasksIn("pending") :
            task[t].resource = task[u].resource => t = u
       /\ task' = [t \in TaskID |->
                     IF t \in S THEN [task[t] EXCEPT !.status = "pending",
                                                     !.old = FALSE]
                     ELSE task[t]]
  OBVIOUS
<1>t. task \in [TaskID -> Rows]
  BY DEF TypeOK, Rows
<1>a. \A t \in TaskID :
        /\ t \notin S => task'[t] = task[t]
        /\ t \in S => /\ task[t].status = "processing"
                      /\ task'[t].status = "pending"
                      /\ task'[t].resource = task[t].resource
                      /\ task'[t].done = task[t].done
  BY <1>t DEF Rows
<1>1. TypeOK'
  <2>1. task' \in [TaskID -> Rows]
    <3>1. /\ task \in [TaskID -> Rows]
          /\ \A t \in TaskID : t \in S \/ t \notin S
          /\ task' = [t \in TaskID |->
                      IF t \in S THEN [task[t] EXCEPT !.status = "pending", !.old = FALSE]
                      ELSE task[t]]
      BY DEF TypeOK, Rows
    <3>. QED BY ONLY <3>1 DEF Rows
  <2>2. job' \in [Slot -> Jobs]
    BY DEF TypeOK, Jobs, NoJob, Stage
  <2>3. awaited' \subseteq Busy'
    BY DEF TypeOK, Busy, NoJob
  <2>4. acl' \in Acls
    BY DEF TypeOK, Acls, NoAcl
  <2>5. /\ spice' \subseteq Tuple /\ ace' \subseteq Audited
        /\ aclCount' \in 0..MaxAcl
        /\ sent' \in [Resource -> Nat] /\ \A y \in Resource : sent'[y] <= MaxSend[y]
        /\ late' \subseteq TaskID \X Tuple /\ mixed' \subseteq Tuple
    BY DEF TypeOK
  <2>. QED BY <2>1, <2>2, <2>3, <2>4, <2>5 DEF TypeOK, Rows, Jobs, Acls
<1>2. OnePending'
  <2> SUFFICES ASSUME NEW t \in TaskID, NEW u \in TaskID,
                      task'[t].status = "pending", task'[u].status = "pending",
                      task'[t].resource = task'[u].resource
               PROVE  t = u
    BY DEF OnePending
  <2>1. task[t].resource = task[u].resource
    BY <1>a
  <2>2. CASE t \in S
    BY <1>a, <2>1, <2>2
  <2>3. CASE u \in S
    BY <1>a, <2>1, <2>3
  <2>4. CASE t \notin S /\ u \notin S
    BY <1>a, <2>1, <2>4 DEF OnePending
  <2>. QED BY <2>2, <2>3, <2>4
<1>3. JobsStand'
  BY <1>a DEF JobsStand
<1>4. ClaimsHold'
  <2>1. \A u \in TaskID, x \in Stage :
          Claimed(u, x)' => Claimed(u, x) /\ task'[u].resource = task[u].resource
    BY <1>a DEF Claimed
  <2>. QED BY <2>1, SameStores
<1>5. LateIsMixed'
  BY <1>a DEF LateIsMixed, SentFor
<1>6. AclStands'
  BY DEF TypeOK, AclStands, NoAcl
<1>7. AccessIsListed'
  BY DEF TypeOK, AclStands, AccessIsListed, InFlight, NoAcl
<1>. QED BY <1>1, <1>2, <1>3, <1>4, <1>5, <1>6, <1>7

\* A transaction begins where the two stores agree.
LEMMA KeepBegin ==
  ASSUME IInv, NEW g \in Tuple, NEW op \in {"grant", "revoke"}, AclBegin(op, g)
  PROVE  IInv'
<1> USE DEF IInv, AclBegin, aclVars
<1>1. TypeOK'
  <2>1. acl' \in Acls
    BY DEF Acls
  <2>2. aclCount' \in 0..MaxAcl
    BY AceOutboxAssumption DEF AceOutboxAssumption, TypeOK
  <2>3. awaited' \subseteq Busy'
    BY DEF TypeOK, Busy
  <2>. QED BY <2>1, <2>2, <2>3 DEF TypeOK, Acls
<1>2. OnePending'
  BY DEF TypeOK, OnePending, TasksIn
<1>3. JobsStand'
  BY DEF TypeOK, JobsStand, NoJob, Stage
<1>4. ClaimsHold'
  <2>1. \A t \in TaskID, x \in Stage : Claimed(t, x)' => Claimed(t, x)
    BY DEF Claimed
  <2>. QED BY <2>1, AclClaims DEF InFlight
<1>5. LateIsMixed'
  BY DEF TypeOK, LateIsMixed, SentFor
<1>6. AclStands'
  BY DEF TypeOK, AclStands, AccessIsListed, InFlight
<1>7. AccessIsListed'
  BY DEF TypeOK, AclStands, AccessIsListed, InFlight, NoAcl
<1>. QED BY <1>1, <1>2, <1>3, <1>4, <1>5, <1>6, <1>7

\* What it writes to SpiceDB came after every task sent so far.
LEMMA KeepWrite ==
  ASSUME IInv, AclWrite
  PROVE  IInv'
<1> USE DEF IInv, AclWrite, aclVars
<1> DEFINE g == acl.grant
<1>a. /\ g \in Tuple
      /\ late' \subseteq TaskID \X Tuple /\ late \subseteq late'
      /\ mixed' \subseteq Tuple
      /\ \A t \in SentFor(g) : <<t, g>> \in late'
      /\ \A t \in TaskID, h \in Tuple :
           <<t, h>> \in late' => <<t, h>> \in late \/ (h = g /\ t \in SentFor(g))
      /\ g \in mixed'
      /\ \A h \in Tuple : h # g => (h \in mixed' <=> h \in mixed)
  BY Changes DEF AclStands
<1>1. TypeOK'
  <2>1. task' \in [TaskID -> Rows]
    BY DEF TypeOK, Rows, Stage
  <2>2. job' \in [Slot -> Jobs]
    BY DEF TypeOK, Jobs, NoJob, Stage
  <2>3. awaited' \subseteq Busy'
    BY DEF TypeOK, Busy, NoJob
  <2>4. acl' \in Acls
    BY DEF TypeOK, Acls, NoAcl
  <2>5. /\ spice' \subseteq Tuple /\ ace' \subseteq Audited
        /\ aclCount' \in 0..MaxAcl
        /\ sent' \in [Resource -> Nat] /\ \A y \in Resource : sent'[y] <= MaxSend[y]
        /\ late' \subseteq TaskID \X Tuple /\ mixed' \subseteq Tuple
    BY <1>a DEF TypeOK, AclStands
  <2>. QED BY <2>1, <2>2, <2>3, <2>4, <2>5 DEF TypeOK, Rows, Jobs, Acls
<1>2. OnePending'
  BY DEF TypeOK, OnePending, TasksIn
<1>3. JobsStand'
  BY DEF TypeOK, JobsStand, NoJob, Stage
<1>4. ClaimsHold'
  <2>1. \A t \in TaskID, x \in Stage : Claimed(t, x)' => Claimed(t, x)
    BY DEF Claimed, NoJob
  <2>. QED BY <2>1, <1>a, AclClaims DEF InFlight, NoAcl
<1>5. LateIsMixed'
  BY <1>a DEF TypeOK, LateIsMixed, SentFor
<1>6. AclStands'
  BY <1>a DEF TypeOK, AclStands
<1>7. AccessIsListed'
  BY <1>a DEF TypeOK, AclStands, AccessIsListed, InFlight
<1>. QED BY <1>1, <1>2, <1>3, <1>4, <1>5, <1>6, <1>7

\* So did what it commits, and then the stores agree.
LEMMA KeepCommit ==
  ASSUME IInv, AclCommit
  PROVE  IInv'
<1> USE DEF IInv, AclCommit, aclVars
<1> DEFINE g == acl.grant
<1>a. /\ g \in Tuple
      /\ late' \subseteq TaskID \X Tuple /\ late \subseteq late'
      /\ mixed' \subseteq Tuple
      /\ \A t \in SentFor(g) : <<t, g>> \in late'
      /\ \A t \in TaskID, h \in Tuple :
           <<t, h>> \in late' => <<t, h>> \in late \/ (h = g /\ t \in SentFor(g))
      /\ SentFor(g) # {} => g \in mixed'
      /\ \A h \in Tuple : h # g => (h \in mixed' <=> h \in mixed)
  BY Changes DEF AclStands
<1>b. /\ g \notin Audited => ace' = ace
      /\ g \in Audited /\ acl.op = "grant" => ace' = ace \cup {g}
      /\ g \in Audited /\ acl.op = "revoke" => ace' = ace \ {g}
  <2>1. /\ ace \subseteq Audited
        /\ acl.op = "grant" => ace' = ace \cup ({g} \cap Audited)
        /\ acl.op # "grant" => ace' = ace \ {g}
        /\ acl.op \in {"grant", "revoke"}
    BY DEF AclStands, TypeOK
  <2>. QED BY ONLY <2>1
<1>1. TypeOK'
  <2>1. task' \in [TaskID -> Rows]
    BY DEF TypeOK, Rows, Stage
  <2>2. job' \in [Slot -> Jobs]
    BY DEF TypeOK, Jobs, NoJob, Stage
  <2>3. awaited' \subseteq Busy'
    BY DEF TypeOK, Busy, NoJob
  <2>4. acl' \in Acls
    BY DEF TypeOK, Acls, NoAcl
  <2>5. /\ spice' \subseteq Tuple /\ ace' \subseteq Audited
        /\ aclCount' \in 0..MaxAcl
        /\ sent' \in [Resource -> Nat] /\ \A y \in Resource : sent'[y] <= MaxSend[y]
        /\ late' \subseteq TaskID \X Tuple /\ mixed' \subseteq Tuple
    BY <1>a, <1>b DEF TypeOK, AclStands
  <2>. QED BY <2>1, <2>2, <2>3, <2>4, <2>5 DEF TypeOK, Rows, Jobs, Acls
<1>2. OnePending'
  BY DEF TypeOK, OnePending, TasksIn
<1>3. JobsStand'
  BY DEF TypeOK, JobsStand, NoJob, Stage
<1>4. ClaimsHold'
  <2>1. \A t \in TaskID, x \in Stage : Claimed(t, x)' => Claimed(t, x)
    BY DEF Claimed, NoJob
  <2>. QED BY <2>1, <1>a, <1>b, AclClaims DEF InFlight, NoAcl
<1>5. LateIsMixed'
  BY <1>a DEF TypeOK, LateIsMixed, SentFor
<1>6. AclStands'
  BY DEF TypeOK, AclStands, NoAcl
<1>7. AccessIsListed'
  BY <1>a, <1>b DEF TypeOK, AclStands, AccessIsListed, InFlight, NoAcl
<1>. QED BY <1>1, <1>2, <1>3, <1>4, <1>5, <1>6, <1>7

\* A transaction that rolls back is accounted for when SpiceDB had been written.
LEMMA KeepAclFail ==
  ASSUME IInv, AclFail
  PROVE  IInv'
<1> USE DEF IInv, AclFail, AclUndone, aclVars
<1> DEFINE g == acl.grant
<1>a. /\ g \in Tuple
      /\ late' \subseteq TaskID \X Tuple /\ late \subseteq late'
      /\ mixed' \subseteq Tuple
      /\ \A t \in SentFor(g) : <<t, g>> \in late'
      /\ \A t \in TaskID, h \in Tuple :
           <<t, h>> \in late' => <<t, h>> \in late \/ (h = g /\ t \in SentFor(g))
      /\ (acl.step = "written" \/ g \in mixed) \/ SentFor(g) # {} => g \in mixed'
      /\ \A h \in Tuple : h # g => (h \in mixed' <=> h \in mixed)
  BY Changes DEF AclStands
<1>1. TypeOK'
  <2>1. task' \in [TaskID -> Rows]
    BY DEF TypeOK, Rows, Stage
  <2>2. job' \in [Slot -> Jobs]
    BY DEF TypeOK, Jobs, NoJob, Stage
  <2>3. awaited' \subseteq Busy'
    BY DEF TypeOK, Busy, NoJob
  <2>4. acl' \in Acls
    BY DEF TypeOK, Acls, NoAcl
  <2>5. /\ spice' \subseteq Tuple /\ ace' \subseteq Audited
        /\ aclCount' \in 0..MaxAcl
        /\ sent' \in [Resource -> Nat] /\ \A y \in Resource : sent'[y] <= MaxSend[y]
        /\ late' \subseteq TaskID \X Tuple /\ mixed' \subseteq Tuple
    BY <1>a DEF TypeOK
  <2>. QED BY <2>1, <2>2, <2>3, <2>4, <2>5 DEF TypeOK, Rows, Jobs, Acls
<1>2. OnePending'
  BY DEF TypeOK, OnePending, TasksIn
<1>3. JobsStand'
  BY DEF TypeOK, JobsStand, NoJob, Stage
<1>4. ClaimsHold'
  <2>1. \A t \in TaskID, x \in Stage : Claimed(t, x)' => Claimed(t, x)
    BY DEF Claimed, NoJob
  <2>. QED BY <2>1, <1>a, AclClaims DEF InFlight, NoAcl
<1>5. LateIsMixed'
  BY <1>a DEF TypeOK, LateIsMixed, SentFor
<1>6. AclStands'
  BY DEF TypeOK, AclStands, NoAcl
<1>7. AccessIsListed'
  BY <1>a DEF TypeOK, AclStands, AccessIsListed, InFlight, NoAcl
<1>. QED BY <1>1, <1>2, <1>3, <1>4, <1>5, <1>6, <1>7

\* So is one that dies.
LEMMA KeepCrash ==
  ASSUME IInv, Crash
  PROVE  IInv'
<1> USE DEF IInv, Crash, AclUndone, aclVars
<1>1. CASE acl.step = "idle"
  <2>1. TypeOK'
    BY <1>1 DEF TypeOK, NoJob, NoAcl
  <2>2. OnePending' /\ LateIsMixed'
    BY <1>1 DEF OnePending, TasksIn, LateIsMixed, SentFor
  <2>3. JobsStand' /\ AclStands'
    BY DEF JobsStand, AclStands, NoJob, NoAcl
  <2>4. \A t \in TaskID, x \in Stage : Claimed(t, x)' => Claimed(t, x)
    BY DEF Claimed, NoJob
  <2>5. ClaimsHold'
    BY <1>1, <2>4, AclClaims DEF InFlight
  <2>6. AccessIsListed'
    BY <1>1 DEF AccessIsListed, InFlight, NoAcl
  <2>. QED BY <2>1, <2>2, <2>3, <2>5, <2>6
<1>2. CASE acl.step # "idle"
  <2> DEFINE g == acl.grant
  <2>a. /\ g \in Tuple
        /\ late' \subseteq TaskID \X Tuple /\ late \subseteq late'
        /\ mixed' \subseteq Tuple
        /\ \A t \in SentFor(g) : <<t, g>> \in late'
        /\ \A t \in TaskID, h \in Tuple :
             <<t, h>> \in late' => <<t, h>> \in late \/ (h = g /\ t \in SentFor(g))
        /\ (acl.step = "written" \/ g \in mixed) \/ SentFor(g) # {} => g \in mixed'
        /\ \A h \in Tuple : h # g => (h \in mixed' <=> h \in mixed)
    BY <1>2, Changes DEF AclStands
  <2>1. TypeOK'
    BY <2>a DEF TypeOK, Busy, NoJob, NoAcl
  <2>2. OnePending' /\ LateIsMixed'
    BY <2>a DEF TypeOK, OnePending, TasksIn, LateIsMixed, SentFor
  <2>3. JobsStand' /\ AclStands'
    BY DEF JobsStand, AclStands, NoJob, NoAcl
  <2>4. \A t \in TaskID, x \in Stage : Claimed(t, x)' => Claimed(t, x)
    BY DEF Claimed, NoJob
  <2>5. ClaimsHold'
    BY <2>4, <2>a, AclClaims DEF InFlight, NoAcl
  <2>6. AccessIsListed'
    BY <1>2, <2>a DEF TypeOK, AclStands, AccessIsListed, InFlight, NoAcl
  <2>. QED BY <2>1, <2>2, <2>3, <2>5, <2>6
<1>. QED BY <1>1, <1>2

-----------------------------------------------------------------------------
\* Nothing has been sent.
LEMMA InitIInv == Init => IInv
<1> SUFFICES ASSUME Init PROVE IInv
  OBVIOUS
<1> USE AceOutboxAssumption DEF AceOutboxAssumption, Init
<1>1. TypeOK
  <2>1. /\ task \in [TaskID -> [status   : {"none", "pending", "processing", "completed"},
                                resource : Resource \cup {"none"},
                                done     : SUBSET Stage,
                                old      : BOOLEAN]]
        /\ job \in [Slot -> [task : TaskID \cup {0}, done : SUBSET Stage,
                             at : Stage \cup {"idle", "save"}]]
        /\ acl \in [step  : {"idle", "open", "written"},
                    op    : {"none", "grant", "revoke"},
                    grant : Tuple \cup {<<>>}]
    BY DEF NoTask, NoJob, NoAcl
  <2>. QED BY <2>1 DEF TypeOK
<1>2. OnePending /\ JobsStand /\ LateIsMixed
  BY DEF OnePending, TasksIn, JobsStand, LateIsMixed, NoTask, NoJob
<1>3. ClaimsHold
  BY DEF ClaimsHold, Claimed, NoTask, NoJob
<1>4. AclStands /\ AccessIsListed
  BY DEF AclStands, AccessIsListed, NoAcl
<1>. QED BY <1>1, <1>2, <1>3, <1>4 DEF IInv

\* A step that changes nothing.
LEMMA KeepStutter ==
  ASSUME IInv, UNCHANGED vars
  PROVE  IInv'
<1> USE DEF IInv, vars, aclVars
<1>1. TypeOK'
  BY DEF TypeOK, Busy
<1>2. OnePending' /\ JobsStand'
  BY DEF OnePending, TasksIn, JobsStand
<1>3. \A t \in TaskID, x \in Stage : Claimed(t, x)' => Claimed(t, x)
  BY DEF Claimed
<1>4. ClaimsHold'
  BY <1>3, SameStores
<1>5. LateIsMixed' /\ AclStands' /\ AccessIsListed'
  BY DEF LateIsMixed, SentFor, AclStands, AccessIsListed, InFlight
<1>. QED BY <1>1, <1>2, <1>4, <1>5

LEMMA NextIInv == IInv /\ [Next]_vars => IInv'
<1> SUFFICES ASSUME IInv, [Next]_vars PROVE IInv'
  OBVIOUS
<1>1. CASE \E r \in Resource : DeleteResource(r)
  BY <1>1, KeepDelete
<1>2. CASE Pick
  BY <1>2, KeepPick
<1>3. CASE \E s \in Slot : Save(s)
  BY <1>3, KeepSave
<1>4. CASE \E s \in Slot : \E x \in Stage : RunStage(s, x)
  BY <1>4, KeepStage
<1>5. CASE \E t \in TaskID : GrowOld(t)
  BY <1>5, KeepOld
<1>6. CASE Recover
  BY <1>6, KeepRecover
<1>7. CASE \E g \in Tuple : AclBegin("grant", g) \/ AclBegin("revoke", g)
  BY <1>7, KeepBegin
<1>8. CASE AclWrite \/ AclCommit \/ AclFail
  BY <1>8, KeepWrite, KeepCommit, KeepAclFail
<1>9. CASE \E s \in Slot : Fail(s)
  BY <1>9, KeepFail
<1>10. CASE Crash
  BY <1>10, KeepCrash
<1>11. CASE UNCHANGED vars
  BY <1>11, KeepStutter
<1>. QED
  BY <1>1, <1>2, <1>3, <1>4, <1>5, <1>6, <1>7, <1>8, <1>9, <1>10, <1>11
     DEF Next, Works, Breaks

\* What a step does to a row that is completed: at most an older job writes its
\* flags.
LEMMA StepKeepsCompleted ==
  ASSUME IInv, [Next]_vars, NEW t \in TaskID, task[t].status = "completed"
  PROVE  task'[t].status = "completed"
<1> DEFINE Stays == task'[t].status = "completed"
<1> USE DEF IInv
<1>t. task \in [TaskID -> Rows]
  BY DEF TypeOK, Rows
<1>1. ASSUME NEW r \in Resource, DeleteResource(r) PROVE Stays
  <2>1. CASE \E u \in TasksIn("pending") :
               task' = [task EXCEPT ![u].done = {}, ![u].old = FALSE]
    BY <1>t, <2>1 DEF TasksIn
  <2>2. CASE \E u \in TasksIn("none") :
               task' = [task EXCEPT ![u] =
                          [status |-> "pending", resource |-> r,
                           done |-> {}, old |-> FALSE]]
    BY <1>t, <2>2 DEF TasksIn
  <2>. QED BY <1>1, <2>1, <2>2 DEF DeleteResource, Upsert
<1>2. CASE Pick
  BY <1>t, <1>2 DEF Pick, TasksIn
<1>3. ASSUME NEW s \in Slot, Save(s) PROVE Stays
  <2>1. job[s].task \in TaskID
    BY <1>3 DEF Save, JobsStand
  <2>. QED BY <1>t, <1>3, <2>1 DEF Save, Rows
<1>4. ASSUME NEW u \in TaskID, GrowOld(u) PROVE Stays
  BY <1>t, <1>4 DEF GrowOld
<1>5. CASE Recover
  BY <1>t, <1>5 DEF Recover, TasksIn
<1>6. CASE UNCHANGED task
  BY <1>6
<1>7. Next => \/ \E r \in Resource : DeleteResource(r)
              \/ Pick \/ Recover
              \/ \E s \in Slot : Save(s)
              \/ \E u \in TaskID : GrowOld(u)
              \/ UNCHANGED task
  BY DEF Next, Works, Breaks, RunStage, AclBegin, AclWrite, AclCommit, AclFail, Fail, Crash
<1>. QED BY <1>1, <1>2, <1>3, <1>4, <1>5, <1>6, <1>7 DEF vars

-----------------------------------------------------------------------------
\* The inductive invariant holds in every reachable state.
THEOREM Inductive == Spec => []IInv
<1>. QED BY InitIInv, NextIInv, PTL DEF Spec

\* The tables, the jobs and the stores stay well-typed, and the loop only
\* waits for jobs that run.
THEOREM TypeCorrect == Spec => []TypeOK
<1>1. IInv => TypeOK
  BY DEF IInv
<1>. QED BY Inductive, <1>1, PTL

\* Whatever jobs, failures, recoveries, repeated calls of deleteResource and
\* changes of grants lie in between, a flag in a row, and a completed task,
\* leave nothing in the store of what there was when the task was sent.
THEOREM FlagsTrue == Spec => []FlagsAreTrue
<1>1. IInv => FlagsAreTrue
  <2> SUFFICES ASSUME IInv, NEW t \in TaskID, NEW x \in Stage,
                      x \in task[t].done \/ task[t].status = "completed",
                      NEW g \in Targets(x, task[t].resource) \ InFlight
               PROVE  <<t, g>> \in late
    <3>1. ASSUME IInv PROVE \A t \in TaskID : task[t].done \subseteq Stage
      BY <3>1 DEF IInv, TypeOK
    <3>. QED BY <3>1 DEF FlagsAreTrue
  <2>. QED BY DEF IInv, ClaimsHold, Claimed, Clean
<1>. QED BY Inductive, <1>1, PTL

\* Whoever has access through a shared grant is listed in the audit, unless a
\* change of the grant broke off half way, or came after the task.
THEOREM AccessListed == Spec => []AccessIsListed
<1>1. IInv => AccessIsListed
  BY DEF IInv
<1>. QED BY Inductive, <1>1, PTL

\* No step takes back that a task is completed.
THEOREM CompletedStays == Spec => CompletedIsFinal
<1>1. IInv /\ [Next]_vars =>
        [\A t \in TaskID : task[t].status = "completed" =>
                             task'[t].status = "completed"]_vars
  BY StepKeepsCompleted
<1>. QED BY Inductive, <1>1, PTL DEF Spec, CompletedIsFinal

-----------------------------------------------------------------------------
(* AceOutbox implements GrantErasure *)

Open == TasksIn("pending") \cup TasksIn("processing")
Completed == TasksIn("completed")
ResourceOf == [t \in TaskID |-> task[t].resource]

LEMMA InitErasure == Init => Erasure!Init
BY AceOutboxAssumption
   DEF AceOutboxAssumption, Init, Erasure!Init, TasksIn, NoTask, InFlight, NoAcl

\* The rows there are and what they are about.
LEMMA OrdersAre ==
  ASSUME IInv
  PROVE  /\ task \in [TaskID -> Rows]
         /\ Erasure!Given = {t \in TaskID : task[t].status # "none"}
         /\ \A t \in TaskID : \A g : Erasure!IsAbout(t, g) <=> task[t].resource \in {g[1], g[2]}
<1>1. task \in [TaskID -> Rows]
  BY DEF IInv, TypeOK, Rows
<1>. QED BY <1>1 DEF Rows, Erasure!Given, Erasure!IsAbout, TasksIn

\* The orders stay where no row changes its status or its resource.
LEMMA OrdersStay ==
  ASSUME \A t \in TaskID : /\ task'[t].resource = task[t].resource
                           /\ \/ task'[t].status = task[t].status
                              \/ {task'[t].status, task[t].status} \subseteq
                                   {"pending", "processing"}
  PROVE  Open' = Open /\ Completed' = Completed /\ ResourceOf' = ResourceOf
BY DEF Open, Completed, ResourceOf, TasksIn

\* A call of deleteResource gives an order, or an open one again; while a job
\* works on the row it stays as it was.
LEMMA DeleteGives ==
  ASSUME IInv, NEW r \in Resource, DeleteResource(r)
  PROVE  Erasure!Next \/ UNCHANGED Erasure!vars
<1>1. task \in [TaskID -> Rows] /\ late \subseteq TaskID \X Tuple
  BY OrdersAre DEF IInv, TypeOK
<1>2. UNCHANGED <<spice, ace, acl>>
  BY DEF DeleteResource, aclVars
<1>3. InFlight' = InFlight
  BY <1>2 DEF InFlight
<1>4. late' = {x \in late : \/ task'[x[1]].status # "pending"
                            \/ task'[x[1]].resource # r
                            \/ \E s \in Busy : job[s].task = x[1]}
  BY DEF DeleteResource
<1>5. CASE \E t \in TasksIn("pending") :
             /\ task[t].resource = r
             /\ task' = [task EXCEPT ![t].done = {}, ![t].old = FALSE]
  <2>1. PICK t \in TaskID : /\ task[t].status = "pending" /\ task[t].resource = r
                            /\ task' = [task EXCEPT ![t].done = {}, ![t].old = FALSE]
    BY <1>5 DEF TasksIn
  <2>2. \A u \in TaskID : /\ task'[u].status = task[u].status
                          /\ task'[u].resource = task[u].resource
    BY ONLY <1>1, <2>1 DEF Rows
  <2>3. Open' = Open /\ Completed' = Completed /\ ResourceOf' = ResourceOf
    BY <2>2, OrdersStay
  <2>4. \A u \in TaskID : task[u].status = "pending" /\ task[u].resource = r <=> u = t
    BY <2>1 DEF IInv, OnePending, TasksIn
  <2>5. \A x \in late : x[1] \in TaskID
    BY <1>1
  <2>6. CASE \E s \in Busy : job[s].task = t
    <3>1. late' = late
      BY <1>4, <2>2, <2>4, <2>5, <2>6
    <3>. QED
      BY <1>2, <1>3, <2>3, <3>1
      DEF Erasure!vars, Erasure!stores, Erasure!orders, Open, Completed, ResourceOf
  <2>7. CASE ~ \E s \in Busy : job[s].task = t
    <3>1. late' = {x \in late : x[1] # t}
      BY <1>4, <2>2, <2>4, <2>5, <2>7
    <3>2. t \in Open
      BY <2>1 DEF Open, TasksIn
    <3>3. Erasure!GiveAgain(t)
      BY <1>2, <1>3, <2>3, <3>1, <3>2
      DEF Erasure!GiveAgain, Erasure!stores, Erasure!orders, Open, Completed, ResourceOf
    <3>. QED BY <3>2, <3>3 DEF Erasure!Next, Erasure!Given, Open
  <2>. QED BY <2>6, <2>7
<1>6. CASE /\ \A t \in TasksIn("pending") : task[t].resource # r
           /\ \E t \in TasksIn("none") :
                task' = [task EXCEPT ![t] =
                           [status |-> "pending", resource |-> r,
                            done |-> {}, old |-> FALSE]]
  <2>1. PICK t \in TaskID : /\ task[t].status = "none"
                            /\ task' = [task EXCEPT ![t] =
                                          [status |-> "pending", resource |-> r,
                                           done |-> {}, old |-> FALSE]]
    BY <1>6 DEF TasksIn
  <2>2. /\ task'[t].status = "pending" /\ task'[t].resource = r
        /\ \A u \in TaskID \ {t} : task'[u] = task[u]
    BY ONLY <1>1, <2>1
  <2>3. /\ Open' = Open \cup {t} /\ Completed' = Completed
        /\ ResourceOf' = [ResourceOf EXCEPT ![t] = r]
    <3>1. Open' = Open \cup {t} /\ Completed' = Completed
      BY <2>1, <2>2 DEF Open, Completed, TasksIn
    <3>2. \A u \in TaskID : task'[u].resource = IF u = t THEN r ELSE ResourceOf[u]
      BY <2>2 DEF ResourceOf
    <3>3. ResourceOf' = [u \in TaskID |-> IF u = t THEN r ELSE ResourceOf[u]]
      BY <3>2 DEF ResourceOf
    <3>. QED BY <3>1, <3>3 DEF ResourceOf
  <2>4. \A x \in late : x[1] \in TaskID /\ task[x[1]].status # "none"
    BY <1>1 DEF IInv, LateIsMixed, SentFor
  <2>5. late' = late
    <3>1. \A u \in TaskID : task[u].status = "pending" => task[u].resource # r
      BY <1>6 DEF TasksIn
    <3>. QED BY <1>4, <2>1, <2>2, <2>4, <3>1
  <2>6. t \notin Erasure!Given
    BY <2>1, OrdersAre
  <2>7. Erasure!Give(t, r)
    BY <1>2, <1>3, <2>3, <2>5, <2>6
    DEF Erasure!Give, Erasure!stores, Open, Completed, ResourceOf
  <2>. QED BY <2>7 DEF Erasure!Next
<1>. QED BY <1>5, <1>6 DEF DeleteResource, Upsert

\* A stage takes away what is about the resource, and in the audit only what
\* gives no access any more.
LEMMA StageErases ==
  ASSUME IInv, NEW s \in Slot, NEW x \in Stage, RunStage(s, x)
  PROVE  Erasure!Next
<1> DEFINE t == job[s].task
           r == task[t].resource
<1>1. PICK B \in SUBSET Targets(x, r) :
        IF x = "ace" THEN ace' = ace \ B /\ UNCHANGED spice
                     ELSE spice' = spice \ B /\ UNCHANGED ace
  BY DEF RunStage
<1>2. UNCHANGED <<task, acl, late>> /\ job[s].at = x /\ x # "idle"
  BY DEF RunStage, aclVars, Stage
<1>3. t \in TaskID /\ task[t].status # "none"
  BY <1>2 DEF IInv, JobsStand
<1>4. /\ InFlight' = InFlight /\ Open' = Open
      /\ Completed' = Completed /\ ResourceOf' = ResourceOf
  BY <1>2 DEF InFlight, Open, Completed, ResourceOf, TasksIn
<1>5. t \in Erasure!Given
  BY <1>3, OrdersAre
<1>6. \A g \in B : Erasure!IsAbout(t, g)
  BY <1>3, OrdersAre, TargetsTouch
<1>7. CASE x = "ace"
  <2>1. B \subseteq ace \ InFlight
    BY <1>7 DEF Targets, Touching, Locked, IInv, TypeOK
  <2>2. \A g \in B : g \in spice => <<t, g>> \in late
    <3> SUFFICES ASSUME NEW g \in B, g \in spice PROVE <<t, g>> \in late
      OBVIOUS
    <3>1. {"resource", "subject"} \subseteq job[s].done
      BY <1>2, <1>7 DEF IInv, JobsStand
    <3>2. Clean(t, "resource") /\ Clean(t, "subject")
      BY <1>2, <1>3, <3>1 DEF IInv, ClaimsHold, Claimed, Stage
    <3>3. r = g[1] \/ r = g[2]
      BY TargetsTouch
    <3>4. g \in Targets("resource", r) \/ g \in Targets("subject", r)
      BY <3>3 DEF Targets
    <3>. QED BY <2>1, <3>2, <3>4 DEF Clean
  <2>3. ace' = ace \ B /\ spice' = spice
    BY <1>1, <1>7
  <2>4. Erasure!Unlist(t)
    BY <1>2, <1>4, <1>6, <2>1, <2>2, <2>3
    DEF Erasure!Unlist, Erasure!orders, Open, Completed, ResourceOf
  <2>. QED BY <1>5, <2>4 DEF Erasure!Next
<1>8. CASE x # "ace"
  <2>1. spice' = spice \ B /\ ace' = ace
    BY <1>1, <1>8
  <2>2. Erasure!Erase(t)
    BY <1>2, <1>4, <1>6, <2>1
    DEF Erasure!Erase, Erasure!orders, Open, Completed, ResourceOf
  <2>. QED BY <1>5, <2>2 DEF Erasure!Next
<1>. QED BY <1>7, <1>8

\* A job that has all flags closes its order, which is owed nothing.
LEMMA SaveCloses ==
  ASSUME IInv, NEW s \in Slot, Save(s)
  PROVE  Erasure!Next \/ UNCHANGED Erasure!vars
<1> DEFINE t == job[s].task
<1>1. /\ job[s].at = "save" /\ UNCHANGED <<spice, ace, acl, late>>
      /\ task' = [task EXCEPT ![t].done = job[s].done, ![t].old = FALSE,
                              ![t].status = IF Stage \subseteq job[s].done
                                            THEN "completed" ELSE @]
  BY DEF Save, aclVars
<1>2. t \in TaskID /\ task[t].status # "none" /\ task \in [TaskID -> Rows]
  BY <1>1, OrdersAre DEF IInv, JobsStand
<1>3. InFlight' = InFlight
  BY <1>1 DEF InFlight
<1>4. /\ \A u \in TaskID \ {t} : task'[u] = task[u]
      /\ task'[t].resource = task[t].resource
      /\ task'[t].status = IF Stage \subseteq job[s].done THEN "completed"
                           ELSE task[t].status
  BY <1>1, <1>2 DEF Rows
<1>5. CASE Stage \subseteq job[s].done /\ task[t].status # "completed"
  <2>1. t \in Open
    BY <1>2, <1>5 DEF Open, TasksIn, Rows
  <2>2. /\ Open' = Open \ {t} /\ Completed' = Completed \cup {t}
        /\ ResourceOf' = ResourceOf
    BY <1>2, <1>4, <1>5 DEF Open, Completed, ResourceOf, TasksIn
  <2>3. Erasure!Owed(t) = {}
    <3> SUFFICES ASSUME NEW g \in (spice \cup ace) \ InFlight, Erasure!IsAbout(t, g),
                        <<t, g>> \notin late
                 PROVE  FALSE
      BY DEF Erasure!Owed
    <3>1. Clean(t, "resource") /\ Clean(t, "subject") /\ Clean(t, "ace")
      BY <1>1, <1>2, <1>5 DEF IInv, ClaimsHold, Claimed, Stage
    <3>2. task[t].resource = g[1] \/ task[t].resource = g[2]
      BY <1>2, OrdersAre
    <3>3. g \in spice => \/ g \in Targets("resource", task[t].resource)
                         \/ g \in Targets("subject", task[t].resource)
      BY <3>2 DEF Targets
    <3>4. g \in ace => g \in Targets("ace", task[t].resource)
      BY <3>2 DEF Targets, Touching, Locked
    <3>. QED BY <3>1, <3>3, <3>4 DEF Clean
  <2>4. Erasure!Close(t)
    BY <1>1, <1>3, <2>1, <2>2, <2>3
    DEF Erasure!Close, Erasure!stores, Open, Completed, ResourceOf
  <2>. QED BY <2>1, <2>4 DEF Erasure!Next, Erasure!Given, Open
<1>6. CASE ~ (Stage \subseteq job[s].done /\ task[t].status # "completed")
  <2>1. Open' = Open /\ Completed' = Completed /\ ResourceOf' = ResourceOf
    BY <1>4, <1>6, OrdersStay
  <2>. QED
    BY <1>1, <1>3, <2>1
    DEF Erasure!vars, Erasure!stores, Erasure!orders, Open, Completed, ResourceOf
<1>. QED BY <1>5, <1>6

\* The steps that no store and no order notices.
LEMMA OthersStutter ==
  ASSUME IInv,
         \/ Pick \/ Recover \/ UNCHANGED vars
         \/ \E t \in TaskID : GrowOld(t)
         \/ \E s \in Slot : Fail(s)
         \/ Crash /\ acl.step = "idle"
  PROVE  UNCHANGED Erasure!vars
<1>1. task \in [TaskID -> Rows]
  BY OrdersAre
<1>2. \A t \in TaskID : /\ task'[t].resource = task[t].resource
                        /\ \/ task'[t].status = task[t].status
                           \/ {task'[t].status, task[t].status} \subseteq
                                {"pending", "processing"}
  <2>1. CASE Pick
    <3>1. PICK S \in SUBSET TasksIn("pending") :
            task' = [t \in TaskID |->
                       IF t \in S THEN [task[t] EXCEPT !.status = "processing",
                                                       !.old = FALSE]
                       ELSE task[t]]
      BY <2>1 DEF Pick
    <3>. QED BY <1>1, <3>1 DEF TasksIn, Rows
  <2>2. CASE Recover
    <3>1. PICK S \in SUBSET TasksIn("processing") :
            task' = [t \in TaskID |->
                       IF t \in S THEN [task[t] EXCEPT !.status = "pending",
                                                       !.old = FALSE]
                       ELSE task[t]]
      <4>1. PICK S \in SUBSET {t \in TasksIn("processing") : task[t].old} :
              task' = [t \in TaskID |->
                         IF t \in S THEN [task[t] EXCEPT !.status = "pending",
                                                         !.old = FALSE]
                         ELSE task[t]]
        BY <2>2 DEF Recover
      <4>. QED BY <4>1
    <3>. QED BY <1>1, <3>1 DEF TasksIn, Rows
  <2>3. ASSUME NEW t \in TaskID, GrowOld(t)
        PROVE  \A u \in TaskID : /\ task'[u].resource = task[u].resource
                                 /\ task'[u].status = task[u].status
    BY <1>1, <2>3 DEF GrowOld, Rows
  <2>4. CASE UNCHANGED task
    BY <2>4
  <2>. QED BY <2>1, <2>2, <2>3, <2>4 DEF vars, Fail, Crash
<1>3. UNCHANGED <<spice, ace, late>> /\ InFlight' = InFlight
  <2>1. Crash /\ acl.step = "idle" => UNCHANGED <<spice, ace, late>> /\ acl' = NoAcl
    BY DEF Crash, AclUndone
  <2>2. \/ Crash /\ acl.step = "idle"
        \/ UNCHANGED <<spice, ace, late, acl>>
    BY DEF Pick, Recover, vars, aclVars, GrowOld, Fail
  <2>3. acl.step = "idle" /\ acl' = NoAcl => InFlight' = InFlight
    BY DEF InFlight, NoAcl
  <2>4. acl' = acl => InFlight' = InFlight
    BY DEF InFlight
  <2>. QED BY <2>1, <2>2, <2>3, <2>4
<1>. QED
  BY <1>2, <1>3, OrdersStay
  DEF Erasure!vars, Erasure!stores, Erasure!orders, Open, Completed, ResourceOf

\* What is noted of a grant excuses it from every order about it.
LEMMA ChangeExcuses ==
  ASSUME IInv, NEW g \in Tuple, NEW half \in BOOLEAN, Changed(g, half)
  PROVE  Erasure!Excuse(g)
<1>1. SentFor(g) = {t \in Erasure!Given : Erasure!IsAbout(t, g)}
  BY OrdersAre DEF SentFor
<1>2. late' = late \cup SentFor(g) \X {g}
  BY DEF Changed
<1>. QED BY <1>1, <1>2 DEF Erasure!Excuse

\* applyAclChanges announces the grant, sets the access and settles.
LEMMA AclSettles ==
  ASSUME IInv,
         \/ \E g \in Tuple : AclBegin("grant", g) \/ AclBegin("revoke", g)
         \/ AclWrite \/ AclCommit \/ AclFail
         \/ Crash /\ acl.step # "idle"
  PROVE  Erasure!Next
<1>1. task' = task
  BY DEF AclBegin, AclWrite, AclCommit, AclFail, Crash
<1>2. Open' = Open /\ Completed' = Completed /\ ResourceOf' = ResourceOf
  BY <1>1 DEF Open, Completed, ResourceOf, TasksIn
<1>3. ASSUME NEW g \in Tuple, AclBegin("grant", g) \/ AclBegin("revoke", g)
      PROVE  Erasure!Next
  <2>1. /\ InFlight = {} /\ InFlight' = {g} /\ UNCHANGED <<spice, ace, late>>
    BY <1>3 DEF AclBegin, InFlight
  <2>2. Erasure!Change(g)
    BY <1>2, <2>1
    DEF Erasure!Change, Erasure!stores, Erasure!orders, Open, Completed, ResourceOf
  <2>. QED BY <2>2 DEF Erasure!Next
<1> DEFINE h == acl.grant
<1>4. acl.step # "idle" => h \in Tuple /\ InFlight = {h}
  BY DEF IInv, AclStands, InFlight
<1>5. CASE AclWrite
  <2>1. /\ acl.step # "idle" /\ Changed(h, TRUE) /\ ace' = ace
        /\ spice' \in {spice \cup {h}, spice \ {h}}
        /\ acl' = [acl EXCEPT !.step = "written"]
    BY <1>5 DEF AclWrite
  <2>2. InFlight' = InFlight
    BY <2>1 DEF InFlight, IInv, TypeOK
  <2>3. Erasure!SetAccess(h)
    BY <1>2, <1>4, <2>1, <2>2, ChangeExcuses
    DEF Erasure!SetAccess, Erasure!orders, Open, Completed, ResourceOf
  <2>. QED BY <1>4, <2>1, <2>3 DEF Erasure!Next
<1>6. CASE AclCommit \/ AclFail \/ (Crash /\ acl.step # "idle")
  <2>1. acl.step # "idle" /\ acl' = NoAcl /\ spice' = spice
    BY <1>6 DEF AclCommit, AclFail, AclUndone, Crash
  <2>2. Erasure!Excuse(h)
    <3>1. Changed(h, FALSE) \/ Changed(h, acl.step = "written" \/ h \in mixed)
      BY <1>6 DEF AclCommit, AclFail, AclUndone, Crash
    <3>2. (acl.step = "written" \/ h \in mixed) \in BOOLEAN
      OBVIOUS
    <3>. QED BY <1>4, <2>1, <3>1, <3>2, ChangeExcuses
  <2>3. ace' \in {ace, ace \cup {h}, ace \ {h}}
    <3>1. CASE AclCommit /\ h \in Audited
      BY <3>1 DEF AclCommit
    <3>2. CASE AclCommit /\ h \notin Audited
      BY <3>2 DEF AclCommit
    <3>. QED BY <1>6, <3>1, <3>2 DEF AclFail, Crash
  <2>4. InFlight' = {}
    BY <2>1 DEF InFlight, NoAcl
  <2>5. Erasure!Settle(h)
    BY <1>2, <1>4, <2>1, <2>2, <2>3, <2>4
    DEF Erasure!Settle, Erasure!orders, Open, Completed, ResourceOf
  <2>. QED BY <1>4, <2>1, <2>5 DEF Erasure!Next
<1>. QED BY <1>3, <1>5, <1>6

LEMMA NextErasure == IInv /\ [Next]_vars => [Erasure!Next]_Erasure!vars
<1> SUFFICES ASSUME IInv, [Next]_vars PROVE Erasure!Next \/ UNCHANGED Erasure!vars
  OBVIOUS
<1>1. CASE \E r \in Resource : DeleteResource(r)
  BY <1>1, DeleteGives
<1>2. CASE \E s \in Slot, x \in Stage : RunStage(s, x)
  BY <1>2, StageErases
<1>3. CASE \E s \in Slot : Save(s)
  BY <1>3, SaveCloses
<1>4. CASE \/ Pick \/ Recover \/ UNCHANGED vars
           \/ \E t \in TaskID : GrowOld(t)
           \/ \E s \in Slot : Fail(s)
           \/ Crash /\ acl.step = "idle"
  BY <1>4, OthersStutter
<1>5. CASE \/ \E g \in Tuple : AclBegin("grant", g) \/ AclBegin("revoke", g)
           \/ AclWrite \/ AclCommit \/ AclFail
           \/ Crash /\ acl.step # "idle"
  BY <1>5, AclSettles
<1>. QED BY <1>1, <1>2, <1>3, <1>4, <1>5 DEF Next, Works, Breaks

\* The rows, flags and jobs keep the promises of GrantErasure: a task is
\* completed for good and only when nothing is left that it was sent for, a
\* grant goes for a reason, and off the audit only when it gives no access.
THEOREM ImplementsGrantErasure == Spec => GrantErasureSpec
<1>1. Init => Erasure!Init
  BY InitErasure
<1>2. IInv /\ [Next]_vars => [Erasure!Next]_Erasure!vars
  BY NextErasure
<1>. QED BY <1>1, <1>2, Inductive, PTL DEF Spec, GrantErasureSpec, Erasure!Spec
=============================================================================

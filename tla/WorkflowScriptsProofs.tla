------------------------ MODULE WorkflowScriptsProofs ------------------------
(***************************************************************************)
(* Theorems of WorkflowScripts, for any number of workflow runs, attempts, *)
(* handlers, artifacts and faults, and any workflow that satisfies         *)
(* WorkflowAssumption.  One lemma per transaction that several actions     *)
(* share (Insert, Advance, BeginFinalize), then one step per action.       *)
(***************************************************************************)
EXTENDS WorkflowScripts, TLAPS

StatusFun == [Attempt -> Status]
Codes == {"none", "expired", "disabled", "moved", "manifest"}
Job == [phase : {"none", "queued", "running"}, step : Step]

\* The part of the type invariant about rows as the insert writes them.
IdentityOK ==
    /\ owner \in [Attempt -> WorkflowRun \cup {"none"}]
    /\ step \in [Attempt -> Step \cup {"none"}]
    /\ try \in [Attempt -> Nat]
    /\ pinned \in [Attempt -> Nat]
    /\ auto \in [Attempt -> BOOLEAN]
    /\ rows \in 0..MaxAttempts

\* The part about what an advancement may change besides.
EffectOK ==
    /\ status \in StatusFun
    /\ code \in [Attempt -> Codes]
    /\ advanced \in [Attempt -> BOOLEAN]
    /\ pos \in [WorkflowRun -> Step]
    /\ wstat \in [WorkflowRun -> {"active", "completed", "canceled"}]
    /\ job \in [WorkflowRun -> Job]

\* A row that exists belongs to a workflow run and a step; whatever refers to
\* a row refers to one that exists.
RowsExist ==
    /\ \A a \in Attempt : status[a] # "none" => owner[a] \in WorkflowRun /\ step[a] \in Step
    /\ \A f \in Finalizer : fin[f].at # 0 => status[fin[f].at] # "none"
    /\ \A a \in sweep : status[a] # "none"
    /\ \A a \in Attempt : token[a] => status[a] # "none"
    /\ \A a \in Attempt : status[a] = "completing" => outcome[a] \in Outcomes
    /\ runner.at = 0 => runner.phase = "idle"

TypeInv == TypeOK /\ RowsExist

LEMMA StatusFacts ==
    /\ \A s \in {"none", "queued", "running", "canceling", "completing", "canceled", "superseded",
                  "completed", "no_op", "escalate", "failed"} : s \in Status
    /\ Outcomes \subseteq Status \ {"none"}
    /\ ActiveStatus \subseteq Status \ {"none"}
    /\ Outcomes \cap ActiveStatus = {}
BY DEF Status, Outcomes, ActiveStatus

-----------------------------------------------------------------------------
(* The transactions that several actions share.                            *)

\* An insert leaves the rows well typed, makes none disappear, and the row it
\* writes belongs to its run and step.
LEMMA InsertType ==
    ASSUME TypeOK, NEW r \in WorkflowRun, NEW s \in Step, NEW b \in BOOLEAN,
           NEW S \in StatusFun, Insert(r, s, b, S)
    PROVE  /\ IdentityOK'
           /\ status' \in StatusFun
           /\ \A x \in Attempt :
                 \/ x = rows + 1 /\ status'[x] = "queued" /\ owner'[x] = r /\ step'[x] = s
                 \/ x # rows + 1 /\ status'[x] = S[x] /\ owner'[x] = owner[x] /\ step'[x] = step[x]
<1>1. PICK n \in Attempt : try' = [try EXCEPT ![rows + 1] = n]
  BY DEF Insert
<1>2. n \in Nat /\ rows + 1 \in 0..MaxAttempts /\ rows + 1 \in Attempt
  BY BoundAssumption DEF Insert, TypeOK, Attempt
<1>3. "queued" \in Status
  BY StatusFacts
<1>4. env.version \in Nat
  BY DEF TypeOK
<1> QED
  BY <1>1, <1>2, <1>3, <1>4 DEF Insert, TypeOK, StatusFun, IdentityOK

\* Rows exist after a step that keeps their identity and forgets no status.
RowsKept(S) ==
    \A x \in Attempt : /\ status'[x] # "none" => owner'[x] \in WorkflowRun /\ step'[x] \in Step
                       /\ S[x] # "none" => status'[x] # "none"
                       /\ status'[x] = "completing" => S[x] = "completing"

LEMMA InsertKeeps ==
    ASSUME TypeOK, RowsExist, NEW r \in WorkflowRun, NEW s \in Step, NEW b \in BOOLEAN,
           NEW S \in StatusFun, Insert(r, s, b, S),
           \A x \in Attempt : S[x] # "none" => status[x] # "none"
    PROVE  RowsKept(S)
BY InsertType DEF RowsKept, RowsExist

LEMMA SameIdentity ==
    ASSUME TypeOK, RowsExist, UNCHANGED identity, NEW S \in StatusFun, status' = S,
           \A x \in Attempt : S[x] # "none" => status[x] # "none"
    PROVE  IdentityOK' /\ status' \in StatusFun /\ RowsKept(S)
BY DEF identity, TypeOK, IdentityOK, RowsKept, RowsExist

\* An advancement leaves the tables well typed.
LEMMA AdvanceType ==
    ASSUME TypeOK, RowsExist, NEW a \in Attempt, status[a] # "none",
           NEW S \in StatusFun, Advance(a, S),
           \A x \in Attempt : S[x] # "none" => status[x] # "none"
    PROVE  IdentityOK' /\ EffectOK' /\ RowsKept(S)
<1> DEFINE r == owner[a]
<1>r. r \in WorkflowRun /\ step[a] \in Step
  BY DEF RowsExist
<1>1. CASE Ignore(a, S)
  BY <1>1, SameIdentity DEF Ignore, workflow, TypeOK, EffectOK, Codes, Job
<1>2. CASE Supersede(a, S)
  <2>1. IdentityOK'
    BY <1>2 DEF Supersede, identity, TypeOK, IdentityOK
  <2>2. status' \in StatusFun /\ RowsKept(S)
    BY <1>2, StatusFacts DEF Supersede, identity, StatusFun, RowsKept, RowsExist
  <2> QED
    BY <1>2, <2>1, <2>2 DEF Supersede, workflow, TypeOK, EffectOK, Codes, Job
<1>3. CASE Retry(a, S)
  <2>1. IdentityOK' /\ status' \in StatusFun /\ RowsKept(S)
    BY <1>r, <1>3, InsertType, InsertKeeps, SameIdentity DEF Retry
  <2> QED
    BY <1>3, <2>1 DEF Retry, workflow, TypeOK, EffectOK, Codes, Job
<1>4. CASE Route(a, S)
  <2> DEFINE s == Target(a, S)
  <2>1. s \in Step
    BY <1>r, WorkflowAssumption DEF Target
  <2>2. /\ Enqueues(a, s, S)
        /\ pos' = [pos EXCEPT ![r] = s]
        /\ wstat' = [wstat EXCEPT ![r] = IF Kind[s] = "terminal" THEN "completed" ELSE "active"]
        /\ advanced' = [advanced EXCEPT ![a] = TRUE]
        /\ code' = code
    BY <1>4 DEF Route
  <2> HIDE DEF s
  <2>3. IdentityOK' /\ status' \in StatusFun /\ RowsKept(S)
    BY <1>r, <2>1, <2>2, InsertType, InsertKeeps, SameIdentity DEF Enqueues
  <2>4. PICK j \in Job : job' = [job EXCEPT ![r] = j]
    <3>1. job = [job EXCEPT ![r] = job[r]] /\ job[r] \in Job
      BY <1>r DEF TypeOK, Job
    <3>2. [phase |-> "queued", step |-> s] \in Job
      BY <2>1 DEF Job
    <3> QED
      BY <2>2, <3>1, <3>2 DEF Enqueues
  <2> QED
    BY <1>r, <2>1, <2>2, <2>3, <2>4 DEF TypeOK, EffectOK, Codes, Job
<1>5. CASE RolledBack(a, S)
  BY <1>5, SameIdentity DEF RolledBack, workflow, TypeOK, EffectOK, Codes, Job
<1> QED
  BY <1>1, <1>2, <1>3, <1>4, <1>5 DEF Advance

FinOK ==
    fin \in [Finalizer -> [at : Attempt \cup {0},
                           snap : {"none", "completing", "failed"},
                           next : 1..(Artifacts + 1)]]

\* So does the beginning of a finalization, which remembers an existing row.
LEMMA BeginFinalizeType ==
    ASSUME TypeOK, RowsExist, NEW f \in Finalizer, NEW a \in Attempt, status[a] # "none",
           NEW S \in StatusFun, S[a] # "none", BeginFinalize(f, a, S),
           \A x \in Attempt : S[x] # "none" <=> status[x] # "none"
    PROVE  /\ IdentityOK' /\ EffectOK' /\ RowsKept(S) /\ FinOK'
           /\ \A g \in Finalizer : fin'[g].at # 0 => status'[fin'[g].at] # "none"
<1>1. CASE NeedsEvidence(a, S)
  <2>1. /\ fin' = [fin EXCEPT ![f] = [at |-> a, snap |-> S[a], next |-> saved[a] + 1]]
        /\ status' = S
        /\ UNCHANGED <<code, advanced, identity, workflow>>
    BY <1>1 DEF BeginFinalize
  <2>2. IdentityOK' /\ EffectOK' /\ RowsKept(S)
    BY <2>1, SameIdentity DEF workflow, TypeOK, EffectOK, Codes, Job
  <2>3. saved[a] + 1 \in 1..(Artifacts + 1) /\ S[a] \in {"none", "completing", "failed"}
    BY <1>1, BoundAssumption DEF TypeOK, NeedsEvidence
  <2>4. FinOK'
    BY <2>1, <2>3 DEF TypeOK, FinOK
  <2>5. \A g \in Finalizer : fin'[g].at # 0 => status'[fin'[g].at] # "none"
    BY <2>1, <2>2 DEF TypeOK, RowsExist, RowsKept
  <2> QED
    BY <2>2, <2>4, <2>5
<1>2. CASE ~NeedsEvidence(a, S)
  <2>1. Advance(a, S) /\ UNCHANGED fin
    BY <1>2 DEF BeginFinalize
  <2>2. IdentityOK' /\ EffectOK' /\ RowsKept(S)
    BY <2>1, AdvanceType
  <2> QED
    BY <2>1, <2>2 DEF TypeOK, FinOK, RowsExist, RowsKept
<1> QED
  BY <1>1, <1>2

\* The rest of the type invariant.
RestOK ==
    /\ lease \in [Attempt -> {"none", "live", "lapsed"}]
    /\ token \in [Attempt -> BOOLEAN]
    /\ outcome \in [Attempt -> Outcomes \cup {"none"}]
    /\ saved \in [Attempt -> 0..Artifacts]
    /\ receipt \in [Attempt -> BOOLEAN]
    /\ cancelling \in [WorkflowRun -> BOOLEAN]
    /\ env \in [enabled : BOOLEAN, version : Nat]
    /\ runner \in [at : Attempt \cup {0}, phase : {"idle", "claiming", "executing", "stopping"},
                   slow : BOOLEAN]
    /\ posts \subseteq Attempt \X Outcomes
    /\ sweep \subseteq Attempt
    /\ ops \in 0..MaxOps /\ faults \in 0..MaxFaults

LEMMA TypeParts ==
    /\ TypeOK <=> IdentityOK /\ EffectOK /\ FinOK /\ RestOK
    /\ TypeOK' <=> IdentityOK' /\ EffectOK' /\ FinOK' /\ RestOK'
BY DEF TypeOK, IdentityOK, EffectOK, FinOK, RestOK, StatusFun, Codes, Job

-----------------------------------------------------------------------------
(* The type invariant.                                                     *)

LEMMA TypeInit == Init => TypeInv
BY WorkflowAssumption, BoundAssumption, StatusFacts
   DEF Init, TypeInv, TypeOK, RowsExist, NoFin, NoJob, IdleRunner, Attempt

LEMMA TypeOperator == TypeInv /\ OperatorStep => TypeInv'
<1> SUFFICES ASSUME TypeInv, OperatorStep PROVE TypeInv'
  OBVIOUS
<1> USE DEF TypeInv
<1>o. Operator => ops' \in 0..MaxOps
  BY BoundAssumption DEF Operator, TypeOK
<1>1. ASSUME NEW r \in WorkflowRun, ContinueScript(r) PROVE TypeInv'
  <2>1. IdentityOK' /\ status' \in StatusFun /\ RowsKept(status)
    BY <1>1, InsertType, InsertKeeps DEF ContinueScript, TypeOK, StatusFun
  <2>2. EffectOK' /\ FinOK' /\ RestOK'
    BY <1>1, <1>o, <2>1 DEF ContinueScript, TypeOK, EffectOK, FinOK, RestOK, Codes, Job,
       claim, evidence, workflow, site, wire
  <2> QED
    <3>1. TypeOK'
      BY <2>1, <2>2, TypeParts
    <3>2. UNCHANGED <<token, fin, sweep, runner, outcome>>
      BY <1>1 DEF ContinueScript, claim, evidence, site, wire
    <3> QED
      BY <2>1, <3>1, <3>2 DEF RowsExist, RowsKept, TypeOK
<1>2. ASSUME NEW r \in WorkflowRun, NEW s \in Step, GateToScript(r, s) PROVE TypeInv'
  <2>1. IdentityOK' /\ status' \in StatusFun /\ RowsKept(status)
    BY <1>2, InsertType, InsertKeeps DEF GateToScript, TypeOK, StatusFun
  <2>2. EffectOK' /\ FinOK' /\ RestOK'
    BY <1>2, <1>o, <2>1 DEF GateToScript, TypeOK, EffectOK, FinOK, RestOK, Codes, Job,
       claim, evidence, workflow, site, wire
  <2> QED
    <3>1. TypeOK'
      BY <2>1, <2>2, TypeParts
    <3>2. UNCHANGED <<token, fin, sweep, runner, outcome>>
      BY <1>2 DEF GateToScript, claim, evidence, site, wire
    <3> QED
      BY <2>1, <3>1, <3>2 DEF RowsExist, RowsKept, TypeOK
<1>3. ASSUME NEW r \in WorkflowRun, NEW s \in Step,
             GateToTerminal(r, s) \/ QueueAgent(r, s) \/ ManualMove(r, s) \/ Reopen(r, s)
      PROVE TypeInv'
  <2>1. CASE GateToTerminal(r, s)
    BY <1>o, <1>3, <2>1 DEF GateToTerminal, TypeOK, RowsExist, identity, table, claim, evidence, site, wire
  <2>2. CASE QueueAgent(r, s)
    BY <1>o, <1>3, <2>2 DEF QueueAgent, TypeOK, RowsExist, identity, table, claim, evidence, site, wire
  <2>3. CASE ManualMove(r, s)
    BY <1>o, <1>3, <2>3 DEF ManualMove, TypeOK, RowsExist, identity, table, claim, evidence, site, wire
  <2>4. CASE Reopen(r, s)
    BY <1>o, <1>3, <2>4 DEF Reopen, TypeOK, RowsExist, identity, table, claim, evidence, site, wire
  <2> QED
    BY <1>3, <2>1, <2>2, <2>3, <2>4
<1>4. ASSUME NEW r \in WorkflowRun, CancelRun(r) PROVE TypeInv'
  <2>1. /\ status' \in StatusFun
        /\ \A x \in Attempt : /\ status'[x] = "none" <=> status[x] = "none"
                              /\ status'[x] = "completing" => status[x] = "completing"
        /\ token' \in [Attempt -> BOOLEAN] /\ \A x \in Attempt : token'[x] => token[x]
        /\ lease' \in [Attempt -> {"none", "live", "lapsed"}]
    BY <1>4, StatusFacts DEF CancelRun, CancelAttemptsOf, TypeOK, StatusFun
  <2>2. /\ pos' \in [WorkflowRun -> Step]
        /\ wstat' \in [WorkflowRun -> {"active", "completed", "canceled"}]
        /\ job' \in [WorkflowRun -> Job]
        /\ cancelling' \in [WorkflowRun -> BOOLEAN]
    <3>1. NoJob \in Job /\ Closed \in Step
      BY WorkflowAssumption DEF NoJob, Job
    <3>2. job' = [job EXCEPT ![r] = NoJob]
      BY <1>4 DEF CancelRun
    <3>3. \/ cancelling' = [cancelling EXCEPT ![r] = TRUE] /\ UNCHANGED <<pos, wstat>>
          \/ Close(r) /\ UNCHANGED cancelling
      BY <1>4 DEF CancelRun
    <3>4. job \in [WorkflowRun -> Job]
      BY DEF TypeOK, Job
    <3>5. job' \in [WorkflowRun -> Job]
      BY <3>1, <3>2, <3>4
    <3>6. /\ pos \in [WorkflowRun -> Step]
          /\ wstat \in [WorkflowRun -> {"active", "completed", "canceled"}]
          /\ cancelling \in [WorkflowRun -> BOOLEAN]
      BY DEF TypeOK
    <3>7. CASE Close(r) /\ UNCHANGED cancelling
      BY <3>1, <3>5, <3>6, <3>7 DEF Close
    <3> QED
      BY <3>3, <3>5, <3>6, <3>7
  <2> QED
    BY <1>4, <1>o, <2>1, <2>2 DEF CancelRun, TypeOK, RowsExist, identity, evidence, wire, StatusFun, Job
<1>5. ASSUME NEW a \in Attempt, CancelAttempt(a) PROVE TypeInv'
  BY <1>o, <1>5, StatusFacts DEF CancelAttempt, TypeOK, RowsExist, identity, claim, evidence, workflow, site, wire
<1>6. CASE ToggleScript \/ PublishWorkflow
  <2>1. env' \in [enabled : BOOLEAN, version : Nat]
    <3>1. env' = [env EXCEPT !.enabled = ~env.enabled] \/ env' = [env EXCEPT !.version = env.version + 1]
      BY <1>6 DEF ToggleScript, PublishWorkflow
    <3>2. env \in [enabled : BOOLEAN, version : Nat]
      BY DEF TypeOK
    <3>3. (~env.enabled) \in BOOLEAN /\ env.version + 1 \in Nat
      BY <3>2
    <3> QED
      BY <3>1, <3>2, <3>3
  <2>2. UNCHANGED <<identity, table, workflow, site, wire, faults>> /\ ops' \in 0..MaxOps
    BY <1>o, <1>6 DEF ToggleScript, PublishWorkflow
  <2> QED
    BY <2>1, <2>2 DEF TypeOK, RowsExist, identity, table, claim, evidence, workflow, site, wire
<1> QED
  BY <1>1, <1>2, <1>3, <1>4, <1>5, <1>6 DEF OperatorStep

LEMMA TypeAgent ==
    ASSUME TypeInv, NEW r \in WorkflowRun, AgentStep(r) \/ CancelFinish(r)
    PROVE  TypeInv'
<1> USE DEF TypeInv
<1>1. UNCHANGED <<identity, table, fin, sweep, wire, env, bounds>>
  BY DEF AgentStep, AgentStarts, AgentDone, AgentFails, CancelFinish, site
<1>2. job \in [WorkflowRun -> Job] /\ NoJob \in Job
  BY WorkflowAssumption DEF TypeOK, Job, NoJob
<1>3. job[r].step \in Step /\ OnCompleted[job[r].step] \in Step /\ Closed \in Step
  BY WorkflowAssumption DEF TypeOK
<1>4. /\ pos' \in [WorkflowRun -> Step]
      /\ wstat' \in [WorkflowRun -> {"active", "completed", "canceled"}]
      /\ job' \in [WorkflowRun -> Job]
      /\ cancelling' \in [WorkflowRun -> BOOLEAN]
  <2>1. CASE AgentStarts(r)
    BY <1>3, <2>1 DEF AgentStarts, TypeOK, Job, site
  <2>2. CASE AgentDone(r)
    <3> DEFINE next == OnCompleted[job[r].step]
    <3>1. CASE pos[r] # job[r].step \/ wstat[r] # "active"
      BY <1>2, <2>2, <3>1 DEF AgentDone, TypeOK, site
    <3>2. CASE ~(pos[r] # job[r].step \/ wstat[r] # "active")
      <4>1. /\ pos' = [pos EXCEPT ![r] = next]
            /\ wstat' = [wstat EXCEPT ![r] = IF Kind[next] = "terminal" THEN "completed" ELSE "active"]
            /\ job' = [job EXCEPT ![r] = IF Kind[next] = "agent"
                                           THEN [phase |-> "running", step |-> next] ELSE NoJob]
            /\ cancelling' = cancelling
        BY <2>2, <3>2 DEF AgentDone, site
      <4>2. [phase |-> "running", step |-> next] \in Job
        BY <1>3 DEF Job
      <4> QED
        BY <1>2, <1>3, <4>1, <4>2 DEF TypeOK
    <3> QED
      BY <3>1, <3>2
  <2>3. CASE AgentFails(r)
    BY <1>2, <2>3 DEF AgentFails, TypeOK, site
  <2>4. CASE CancelFinish(r)
    BY <1>2, <1>3, <2>4 DEF CancelFinish, Close, TypeOK
  <2> QED
    BY <2>1, <2>2, <2>3, <2>4 DEF AgentStep
<1> QED
  BY <1>1, <1>4 DEF TypeOK, Job, RowsExist, identity, table, claim, evidence, wire, bounds

LEMMA TypeRunner == TypeInv /\ (RunnerStep \/ \E a \in Attempt : LeaseLapses(a)) => TypeInv'
<1> SUFFICES ASSUME TypeInv, RunnerStep \/ \E a \in Attempt : LeaseLapses(a) PROVE TypeInv'
  OBVIOUS
<1> USE DEF TypeInv
<1>a. runner.phase # "idle" => runner.at \in Attempt
  BY DEF TypeOK, RowsExist
<1>0. \A a \in Attempt : a # 0
  BY DEF Attempt
<1>1. CASE Claim
  <2>1. PICK a \in Attempt :
          /\ status[a] = "queued"
          /\ status' = [status EXCEPT ![a] = "running"]
          /\ token' = [token EXCEPT ![a] = TRUE]
          /\ lease' = [lease EXCEPT ![a] = "live"]
          /\ runner' = [at |-> a, phase |-> "claiming", slow |-> FALSE]
    BY <1>1 DEF Claim
  <2> QED
    BY <1>0, <1>1, <2>1, StatusFacts DEF Claim, TypeOK, RowsExist, identity, evidence, workflow, site, bounds
<1>2. CASE ChildStarts
  BY <1>2 DEF ChildStarts, TypeOK, RowsExist, identity, table, claim, evidence, workflow, site, bounds
<1>3. ASSUME NEW o \in Outcomes, ChildDone(o) PROVE TypeInv'
  BY <1>a, <1>3 DEF ChildDone, IdleRunner, TypeOK, RowsExist, identity, table, claim, evidence, workflow, site, bounds
<1>4. CASE RenewRefused
  BY <1>4 DEF RenewRefused, TypeOK, RowsExist, identity, table, claim, evidence, workflow, site, bounds
<1>5. CASE CancelAck
  <2>1. UNCHANGED <<identity, code, advanced, evidence, workflow, site, posts, env, bounds>> /\ runner' = IdleRunner
    BY <1>5 DEF CancelAck
  <2>2. CASE status[runner.at] = "canceling" /\ token[runner.at]
    <3>1. /\ status' = [status EXCEPT ![runner.at] = "canceled"]
          /\ token' = [token EXCEPT ![runner.at] = FALSE]
          /\ lease' = [lease EXCEPT ![runner.at] = "none"]
      BY <1>5, <2>2 DEF CancelAck
    <3>2. status' \in [Attempt -> Status] /\ token' \in [Attempt -> BOOLEAN]
          /\ lease' \in [Attempt -> {"none", "live", "lapsed"}]
      BY <3>1, StatusFacts DEF TypeOK
    <3>3. TypeOK'
      BY <2>1, <3>2 DEF TypeOK, IdleRunner, identity, evidence, workflow, site, bounds
    <3>4. \A x \in Attempt : /\ status'[x] = "none" => status[x] = "none"
                             /\ token'[x] => token[x]
                             /\ status'[x] = "completing" => status[x] = "completing"
      BY <3>1 DEF TypeOK
    <3> QED
      BY <1>a, <2>1, <2>2, <3>1, <3>3, <3>4 DEF RowsExist, IdleRunner, TypeOK, identity, evidence, site
  <2>3. CASE ~(status[runner.at] = "canceling" /\ token[runner.at])
    <3>1. UNCHANGED <<status, claim>>
      BY <1>5, <2>3 DEF CancelAck
    <3> QED
      BY <2>1, <3>1 DEF IdleRunner, TypeOK, RowsExist, identity, claim, evidence, workflow, site, bounds
  <2> QED
    BY <2>2, <2>3
<1>6. ASSUME NEW a \in Attempt, LeaseLapses(a) PROVE TypeInv'
  BY <1>6 DEF LeaseLapses, TypeOK, RowsExist, identity, evidence, workflow, site, bounds
<1> QED
  BY <1>1, <1>2, <1>3, <1>4, <1>5, <1>6 DEF RunnerStep

LEMMA TypeFault == TypeInv /\ FaultStep => TypeInv'
<1> SUFFICES ASSUME TypeInv, FaultStep PROVE TypeInv'
  OBVIOUS
<1> USE DEF TypeInv
<1>f. faults' \in 0..MaxFaults
  BY BoundAssumption DEF FaultStep, RunnerGivesUp, RenewLost, SiteCrash, SaveFails, Fault, TypeOK
<1>n. NoFin \in [at : Attempt \cup {0}, snap : {"none", "completing", "failed"}, next : 1..(Artifacts + 1)]
  BY BoundAssumption DEF NoFin
<1>1. CASE RunnerGivesUp
  BY <1>f, <1>1 DEF RunnerGivesUp, IdleRunner, TypeOK, RowsExist, identity, table, claim, evidence, workflow, site
<1>2. CASE RenewLost
  BY <1>f, <1>2 DEF RenewLost, TypeOK, RowsExist, identity, table, claim, evidence, workflow, site
<1>3. CASE SiteCrash
  BY <1>f, <1>n, <1>3 DEF SiteCrash, NoFin, TypeOK, RowsExist, identity, table, claim, evidence, workflow, wire
<1>4. ASSUME NEW f \in Finalizer, SaveFails(f) PROVE TypeInv'
  BY <1>f, <1>n, <1>4 DEF SaveFails, NoFin, TypeOK, RowsExist, identity, table, claim, evidence, workflow, wire
<1> QED
  BY <1>1, <1>2, <1>3, <1>4 DEF FaultStep

\* The steps that finalize an attempt end in one of the shared transactions;
\* this is what is left to say about them.
LEMMA TypeFinal ==
    ASSUME TypeInv, NEW S \in StatusFun, IdentityOK', EffectOK', FinOK', RestOK', RowsKept(S),
           \A x \in Attempt : S[x] # "none" <=> status[x] # "none",
           \A g \in Finalizer : fin'[g].at # 0 => status'[fin'[g].at] # "none",
           \A x \in sweep' : status[x] # "none",
           \A x \in Attempt : token'[x] => token[x],
           \A x \in Attempt : S[x] = "completing" => outcome'[x] \in Outcomes,
           UNCHANGED runner
    PROVE  TypeInv'
BY TypeParts DEF TypeInv, RowsExist, RowsKept, RestOK

LEMMA TypeDeliver ==
    ASSUME TypeInv, NEW f \in Http, NEW a \in Attempt, NEW o \in Outcomes, Deliver(f, a, o)
    PROVE  TypeInv'
<1> USE DEF TypeInv
<1>1. f \in Finalizer /\ status[a] # "none"
  BY DEF Finalizer, Deliver, RowsExist
<1>2. status \in StatusFun
  BY DEF TypeOK, StatusFun
<1>3. RestOK'
  <2>1. lease' = lease \/ lease' = [lease EXCEPT ![a] = "none"]
    BY DEF Deliver
  <2>2. outcome' = outcome \/ outcome' = [outcome EXCEPT ![a] = o]
    BY DEF Deliver
  <2>3. UNCHANGED <<token, saved, receipt, sweep, cancelling, wire, env, bounds>>
    BY DEF Deliver
  <2> QED
    BY <2>1, <2>2, <2>3 DEF TypeOK, RestOK, wire, bounds
<1>4. UNCHANGED <<token, sweep, runner>>
  BY DEF Deliver, wire
<1>5. CASE status[a] = "completing"
  <2>1. BeginFinalize(f, a, status) /\ UNCHANGED outcome
    BY <1>5 DEF Deliver
  <2> QED
    BY <1>1, <1>2, <1>3, <1>4, <2>1, BeginFinalizeType, TypeFinal DEF RowsExist
<1>6. CASE status[a] = "running"
  <2> DEFINE S == [status EXCEPT ![a] = "completing"]
  <2>1. BeginFinalize(f, a, S) /\ outcome' = [outcome EXCEPT ![a] = o]
    BY <1>6 DEF Deliver
  <2>2. S \in StatusFun /\ S[a] # "none" /\ \A x \in Attempt : S[x] # "none" <=> status[x] # "none"
    BY <1>1, <1>2, StatusFacts DEF StatusFun
  <2>3. \A x \in Attempt : S[x] = "completing" => outcome'[x] \in Outcomes
    BY <2>1, <1>2 DEF StatusFun, RowsExist, TypeOK
  <2> HIDE DEF S
  <2> QED
    BY <1>1, <1>3, <1>4, <2>1, <2>2, <2>3, BeginFinalizeType, TypeFinal DEF RowsExist
<1> QED
  BY <1>5, <1>6 DEF Deliver

LEMMA TypeFinalizer ==
    ASSUME TypeInv, NEW f \in Finalizer, FinalizerStep(f)
    PROVE  TypeInv'
<1> USE DEF TypeInv
<1> DEFINE a == fin[f].at
<1>0. NoFin \in [at : Attempt \cup {0}, snap : {"none", "completing", "failed"}, next : 1..(Artifacts + 1)]
  BY BoundAssumption DEF NoFin
<1>1. a \in Attempt /\ status[a] # "none"
  BY DEF FinalizerStep, SaveArtifact, Finish, TypeOK, RowsExist
<1>2. status \in StatusFun
  BY DEF TypeOK, StatusFun
<1>3. CASE SaveArtifact(f)
  <2>1. fin[f].next \in 1..(Artifacts + 1) /\ fin[f].next <= Artifacts
    BY <1>3 DEF SaveArtifact, TypeOK
  <2>2. saved' \in [Attempt -> 0..Artifacts]
    BY <1>3, <2>1, BoundAssumption DEF SaveArtifact, TypeOK
  <2>3. \/ fin' = [fin EXCEPT ![f] = NoFin]
        \/ fin' = [fin EXCEPT ![f] = [fin[f] EXCEPT !.next = fin[f].next + 1]]
    BY <1>3 DEF SaveArtifact
  <2>4. FinOK' /\ \A g \in Finalizer : fin'[g].at \in {0, fin[g].at}
    <3> DEFINE FinRec == [at : Attempt \cup {0}, snap : {"none", "completing", "failed"},
                          next : 1..(Artifacts + 1)]
    <3>1. fin \in [Finalizer -> FinRec]
      BY DEF TypeOK
    <3>2. fin[f] \in FinRec /\ fin[f].next + 1 \in 1..(Artifacts + 1)
      BY <2>1, <3>1, BoundAssumption
    <3>3. [fin[f] EXCEPT !.next = fin[f].next + 1] \in FinRec
          /\ [fin[f] EXCEPT !.next = fin[f].next + 1].at = fin[f].at
      BY <3>2
    <3>4. NoFin \in FinRec /\ NoFin.at = 0
      BY <1>0 DEF NoFin
    <3>5. PICK v \in FinRec : fin' = [fin EXCEPT ![f] = v] /\ v.at \in {0, fin[f].at}
      BY <2>3, <3>3, <3>4
    <3> QED
      BY <3>1, <3>5 DEF FinOK
  <2>5. UNCHANGED <<identity, status, claim, code, advanced, outcome, receipt,
                    workflow, sweep, cancelling, wire, env, bounds>>
    BY <1>3 DEF SaveArtifact
  <2>6. TypeOK'
    BY <2>2, <2>4, <2>5 DEF TypeOK, FinOK, identity, claim, workflow, wire, bounds
  <2> QED
    BY <2>4, <2>5, <2>6 DEF RowsExist, TypeOK, identity, claim, wire
<1>4. CASE Finish(f)
  <2> DEFINE S == IF Settles(f) THEN [status EXCEPT ![a] = outcome[a]] ELSE status
  <2>1. /\ Advance(a, S)
        /\ fin' = [fin EXCEPT ![f] = NoFin]
        /\ receipt' = [receipt EXCEPT ![a] = receipt[a] \/ Settles(f) \/ Attaches(f)]
        /\ UNCHANGED <<claim, outcome, saved, sweep, cancelling, wire, env, bounds>>
    BY <1>4 DEF Finish
  <2>2. Settles(f) => outcome[a] \in Outcomes
    BY <1>1 DEF Settles, RowsExist
  <2>3. /\ S \in StatusFun
        /\ \A x \in Attempt : S[x] # "none" <=> status[x] # "none"
        /\ \A x \in Attempt : S[x] = "completing" => status[x] = "completing"
    <3>1. CASE Settles(f)
      <4>1. S = [status EXCEPT ![a] = outcome[a]] /\ outcome[a] \in Status \ {"none", "completing"}
        BY <2>2, <3>1, StatusFacts DEF ActiveStatus
      <4> QED
        BY <1>1, <1>2, <4>1 DEF StatusFun
    <3> QED
      BY <1>2, <3>1
  <2> HIDE DEF S
  <2>4. IdentityOK' /\ EffectOK' /\ RowsKept(S)
    BY <1>1, <2>1, <2>3, AdvanceType
  <2>5. FinOK' /\ \A g \in Finalizer : fin'[g].at \in {0, fin[g].at}
    BY <1>0, <2>1 DEF TypeOK, FinOK, NoFin
  <2>6. receipt' \in [Attempt -> BOOLEAN]
    <3>1. (receipt[a] \/ Settles(f) \/ Attaches(f)) \in BOOLEAN
      BY DEF Settles, Attaches
    <3> QED
      BY <2>1, <3>1 DEF TypeOK
  <2>7. RestOK'
    BY <2>1, <2>6 DEF TypeOK, RestOK, claim, wire, bounds
  <2>8. \A g \in Finalizer : fin'[g].at # 0 => status'[fin'[g].at] # "none"
    BY <2>3, <2>4, <2>5 DEF RowsExist, RowsKept, TypeOK
  <2> QED
    BY <2>1, <2>3, <2>4, <2>5, <2>7, <2>8, TypeFinal DEF RowsExist, claim, wire
<1> QED
  BY <1>3, <1>4 DEF FinalizerStep

LEMMA TypeSweep == TypeInv /\ SweepRun => TypeInv'
<1> SUFFICES ASSUME TypeInv, SweepRun PROVE TypeInv'
  OBVIOUS
<1> USE DEF TypeInv
<1>1. CASE SweepStart
  <2>1. /\ status' \in StatusFun
        /\ \A x \in Attempt : /\ status[x] # "none" <=> status'[x] # "none"
                              /\ status'[x] = "completing" => status[x] = "completing"
    BY <1>1, StatusFacts DEF SweepStart, Expired, Disabled, CancelExpired, TypeOK, StatusFun
  <2>2. /\ code' \in [Attempt -> Codes]
        /\ token' \in [Attempt -> BOOLEAN] /\ \A x \in Attempt : token'[x] => token[x]
        /\ lease' \in [Attempt -> {"none", "live", "lapsed"}]
    BY <1>1 DEF SweepStart, Expired, Disabled, CancelExpired, TypeOK, Codes
  <2>3. sweep' \subseteq {x \in Attempt : status'[x] # "none"}
    <3>1. sweep' \subseteq Unadvanced(status')
      BY <1>1 DEF SweepStart, Oldest
    <3> QED
      BY <3>1, StatusFacts DEF Unadvanced
  <2>4. UNCHANGED <<identity, advanced, evidence, workflow, fin, cancelling, wire, env, bounds>>
    BY <1>1 DEF SweepStart
  <2> QED
    BY <2>1, <2>2, <2>3, <2>4
       DEF TypeOK, RowsExist, StatusFun, Codes, identity, evidence, workflow, wire, bounds
<1>2. CASE SweepStep
  <2>1. PICK a \in sweep : sweep' = sweep \ {a} /\ BeginFinalize(Recovery, a, status)
    BY <1>2 DEF SweepStep
  <2>2. UNCHANGED <<claim, evidence, cancelling, wire, env, bounds>>
    BY <1>2 DEF SweepStep
  <2>3. Recovery \in Finalizer /\ a \in Attempt /\ status[a] # "none" /\ status \in StatusFun
    BY DEF Finalizer, TypeOK, RowsExist, StatusFun
  <2>4. RestOK'
    BY <2>1, <2>2 DEF TypeOK, RestOK, claim, evidence, wire, bounds
  <2> QED
    BY <2>1, <2>2, <2>3, <2>4, BeginFinalizeType, TypeFinal DEF RowsExist, claim, evidence, wire
<1> QED
  BY <1>1, <1>2 DEF SweepRun

LEMMA TypeNext == TypeInv /\ [Next]_vars => TypeInv'
<1>1. TypeInv /\ Next => TypeInv'
  BY TypeOperator, TypeAgent, TypeRunner, TypeFault, TypeDeliver, TypeFinalizer, TypeSweep
     DEF Next, Delivery
<1>2. TypeInv /\ UNCHANGED vars => TypeInv'
  BY DEF vars, TypeInv, TypeOK, RowsExist, identity, table, claim, evidence, workflow, site, wire, bounds
<1> QED
  BY <1>1, <1>2

LEMMA TypeInvariant == Spec => []TypeInv
BY TypeInit, TypeNext, PTL DEF Spec

\* Every column, queue and in-memory record keeps its type: in particular a
\* finalizer never holds the snapshot of a row that needs no evidence.
THEOREM TypeCorrect == Spec => []TypeOK
BY TypeInvariant, PTL DEF TypeInv

-----------------------------------------------------------------------------
(* Execution ownership.  OneExecutor is inductive together with the types:  *)
(* whoever activates a row or an agent run has looked, in the same          *)
(* transaction, at all the others of the workflow run.                      *)

\* A step that activates nothing keeps the ownership.
LEMMA NothingActivated ==
    ASSUME OneExecutor,
           \A x \in Attempt : status'[x] \in ActiveStatus => Active(x) /\ owner'[x] = owner[x],
           \A r \in WorkflowRun : job'[r].phase # "none" => AgentOn(r)
    PROVE  OneExecutor'
BY DEF OneExecutor, Active, ActiveOn, AgentOn

\* An insert for a workflow run without an executor.
LEMMA InsertOwns ==
    ASSUME TypeOK, OneExecutor, NEW r \in WorkflowRun, NEW s \in Step, NEW b \in BOOLEAN,
           NEW S \in StatusFun, Insert(r, s, b, S), UNCHANGED job,
           \A x \in Attempt : S[x] \in ActiveStatus => Active(x) /\ owner[x] # r,
           ~AgentOn(r)
    PROVE  OneExecutor'
<1>1. \A x \in Attempt :
         \/ x = rows + 1 /\ owner'[x] = r
         \/ x # rows + 1 /\ status'[x] = S[x] /\ owner'[x] = owner[x]
  BY InsertType
<1> QED
  BY <1>1 DEF OneExecutor, Active, ActiveOn, AgentOn

\* An agent run queued for a workflow run without an active attempt.
LEMMA QueueOwns ==
    ASSUME OneExecutor, NEW r \in WorkflowRun, NEW j, TypeOK,
           job' = [job EXCEPT ![r] = j], UNCHANGED owner,
           \A x \in Attempt : status'[x] \in ActiveStatus => Active(x) /\ owner[x] # r
    PROVE  OneExecutor'
BY DEF OneExecutor, Active, ActiveOn, AgentOn, TypeOK

\* An advancement, for an attempt that S has settled.
LEMMA AdvanceOwns ==
    ASSUME TypeInv, OneExecutor, NEW a \in Attempt, status[a] # "none",
           NEW S \in StatusFun, Advance(a, S),
           \A x \in Attempt : S[x] \in ActiveStatus => Active(x)
    PROVE  OneExecutor'
<1> USE DEF TypeInv
<1> DEFINE r == owner[a]
<1>r. r \in WorkflowRun /\ step[a] \in Step
  BY DEF RowsExist
<1>s. ASSUME UNCHANGED <<identity, job>>, status' = S
      PROVE  OneExecutor'
  BY <1>s, NothingActivated DEF identity, AgentOn
<1>o. Ready(a, S) /\ ~OtherActive(a, S) =>
         \A x \in Attempt : S[x] \in ActiveStatus => Active(x) /\ owner[x] # r
  BY StatusFacts DEF Ready, OtherActive
<1>1. CASE Ignore(a, S)
  BY <1>1, <1>s DEF Ignore, workflow
<1>2. CASE Supersede(a, S)
  <2>1. \A x \in Attempt : status'[x] \in ActiveStatus => S[x] \in ActiveStatus
    BY <1>2 DEF Supersede, StatusFun, ActiveStatus
  <2> QED
    BY <1>2, <2>1, NothingActivated DEF Supersede, identity, workflow, AgentOn
<1>3. CASE Retry(a, S)
  <2>1. CASE OtherActive(a, S)
    BY <1>3, <1>s, <2>1 DEF Retry, workflow
  <2>2. CASE ~OtherActive(a, S)
    BY <1>r, <1>o, <1>3, <2>2, InsertOwns DEF Retry, workflow
  <2> QED
    BY <2>1, <2>2
<1>4. CASE Route(a, S)
  <2> DEFINE s == Target(a, S)
  <2>1. Enqueues(a, s, S) /\ Ready(a, S) /\ s \in Step
    BY <1>4, <1>r, WorkflowAssumption DEF Route, Target
  <2> HIDE DEF s
  <2>2. CASE /\ Kind[s] = "agent" /\ ~OtherActive(a, S)
             /\ job' = [job EXCEPT ![r] = IF AgentOn(r) THEN job[r] ELSE [phase |-> "queued", step |-> s]]
             /\ status' = S /\ UNCHANGED identity
    BY <1>r, <1>o, <2>1, <2>2, QueueOwns DEF identity
  <2>3. CASE /\ UNCHANGED job
             /\ IF OtherActive(a, S) THEN status' = S /\ UNCHANGED identity
                                     ELSE ~AgentOn(r) /\ Insert(r, s, FALSE, S)
    BY <1>r, <1>o, <1>s, <2>1, <2>3, InsertOwns
  <2>4. CASE status' = S /\ UNCHANGED <<identity, job>>
    BY <1>s, <2>4
  <2> QED
    BY <2>1, <2>2, <2>3, <2>4 DEF Enqueues
<1>5. CASE RolledBack(a, S)
  BY <1>5, <1>s DEF RolledBack, workflow
<1> QED
  BY <1>1, <1>2, <1>3, <1>4, <1>5 DEF Advance

LEMMA BeginOwns ==
    ASSUME TypeInv, OneExecutor, NEW f \in Finalizer, NEW a \in Attempt, status[a] # "none",
           NEW S \in StatusFun, BeginFinalize(f, a, S),
           \A x \in Attempt : S[x] \in ActiveStatus => Active(x)
    PROVE  OneExecutor'
<1>1. CASE NeedsEvidence(a, S)
  BY <1>1, NothingActivated DEF BeginFinalize, identity, workflow, AgentOn
<1>2. CASE ~NeedsEvidence(a, S)
  BY <1>2, AdvanceOwns DEF BeginFinalize
<1> QED
  BY <1>1, <1>2

LEMMA OwnershipNext == TypeInv /\ OneExecutor /\ [Next]_vars => OneExecutor'
<1> SUFFICES ASSUME TypeInv, OneExecutor, [Next]_vars PROVE OneExecutor'
  OBVIOUS
<1>t. TypeOK /\ RowsExist /\ status \in StatusFun
  BY DEF TypeInv, TypeOK, StatusFun
<1>n. ASSUME UNCHANGED owner, \A x \in Attempt : status'[x] \in ActiveStatus => Active(x),
             \A r \in WorkflowRun : job'[r].phase # "none" => AgentOn(r)
      PROVE  OneExecutor'
  BY <1>n, NothingActivated
<1>u. ASSUME UNCHANGED <<status, identity, job>> PROVE OneExecutor'
  BY <1>n, <1>u DEF identity, Active, AgentOn
<1>1. CASE OperatorStep
  <2>1. ASSUME NEW r \in WorkflowRun, ContinueScript(r) PROVE OneExecutor'
    BY <1>t, <2>1, InsertOwns DEF ContinueScript, ActiveOn, Active, workflow, TypeOK
  <2>2. ASSUME NEW r \in WorkflowRun, NEW s \in Step, GateToScript(r, s) PROVE OneExecutor'
    BY <1>t, <2>2, InsertOwns DEF GateToScript, ActiveOn, Active, TypeOK
  <2>3. ASSUME NEW r \in WorkflowRun, NEW s \in Step, GateToTerminal(r, s) \/ ManualMove(r, s)
        PROVE OneExecutor'
    BY <1>u, <2>3 DEF GateToTerminal, ManualMove, table
  <2>4. ASSUME NEW r \in WorkflowRun, NEW s \in Step, QueueAgent(r, s) PROVE OneExecutor'
    <3>1. ~ActiveOn(r) /\ UNCHANGED <<owner, status>>
          /\ job' = [job EXCEPT ![r] = [phase |-> "queued", step |-> s]]
      BY <2>4 DEF QueueAgent, identity, table
    <3>2. \A x \in Attempt : status'[x] \in ActiveStatus => Active(x) /\ owner[x] # r
      BY <3>1 DEF ActiveOn, Active
    <3> QED
      BY <1>t, <3>1, <3>2, QueueOwns
  <2>5. ASSUME NEW r \in WorkflowRun, NEW s \in Step, Reopen(r, s) PROVE OneExecutor'
    <3>1. UNCHANGED <<identity, table>>
      BY <2>5 DEF Reopen
    <3>2. CASE Kind[s] = "agent" /\ ~ActiveOn(r) /\ ~AgentOn(r)
      <4>1. UNCHANGED <<owner, status>>
            /\ job' = [job EXCEPT ![r] = [phase |-> "queued", step |-> s]]
        BY <2>5, <3>1, <3>2 DEF Reopen, identity, table
      <4>2. \A x \in Attempt : status'[x] \in ActiveStatus => Active(x) /\ owner[x] # r
        BY <3>2, <4>1 DEF ActiveOn, Active
      <4> QED
        BY <1>t, <4>1, <4>2, QueueOwns
    <3>3. CASE ~(Kind[s] = "agent" /\ ~ActiveOn(r) /\ ~AgentOn(r))
      BY <1>u, <2>5, <3>1, <3>3 DEF Reopen, table
    <3> QED
      BY <3>2, <3>3
  <2>6. ASSUME NEW r \in WorkflowRun, CancelRun(r) PROVE OneExecutor'
    <3>1. \A x \in Attempt : status'[x] \in ActiveStatus => Active(x)
      BY <1>t, <2>6 DEF CancelRun, CancelAttemptsOf, ActiveStatus, Active
    <3>2. \A q \in WorkflowRun : job'[q].phase # "none" => AgentOn(q)
      BY <1>t, <2>6 DEF CancelRun, NoJob, AgentOn, TypeOK
    <3> QED
      BY <1>n, <2>6, <3>1, <3>2 DEF CancelRun, identity
  <2>7. ASSUME NEW a \in Attempt, CancelAttempt(a) PROVE OneExecutor'
    BY <1>n, <1>t, <2>7 DEF CancelAttempt, ActiveStatus, Active, StatusFun, identity, workflow, AgentOn
  <2>8. CASE ToggleScript \/ PublishWorkflow
    BY <1>u, <2>8 DEF ToggleScript, PublishWorkflow, table, workflow
  <2> QED
    BY <1>1, <2>1, <2>2, <2>3, <2>4, <2>5, <2>6, <2>7, <2>8 DEF OperatorStep
<1>2. ASSUME NEW r \in WorkflowRun, AgentStep(r) \/ CancelFinish(r) PROVE OneExecutor'
  <2>1. UNCHANGED <<identity, table>>
    BY <1>2 DEF AgentStep, AgentStarts, AgentDone, AgentFails, CancelFinish
  <2>2. \A q \in WorkflowRun : job'[q].phase # "none" => AgentOn(q)
    <3>1. \/ UNCHANGED job
          \/ AgentOn(r) /\ \E j : job' = [job EXCEPT ![r] = j]
      BY <1>2 DEF AgentStep, AgentStarts, AgentDone, AgentFails, CancelFinish, AgentOn
    <3> QED
      BY <1>t, <3>1 DEF AgentOn, TypeOK
  <2> QED
    BY <1>n, <2>1, <2>2 DEF identity, table, Active
<1>3. CASE RunnerStep
  <2>1. UNCHANGED <<identity, job>>
    BY <1>3 DEF RunnerStep, Claim, ChildStarts, ChildDone, RenewRefused, CancelAck, workflow
  <2>2. \A x \in Attempt : status'[x] \in ActiveStatus => Active(x)
    <3>1. CASE Claim
      BY <1>t, <3>1 DEF Claim, Active, ActiveStatus, StatusFun
    <3>2. CASE CancelAck
      <4>1. UNCHANGED status \/ status' = [status EXCEPT ![runner.at] = "canceled"]
        BY <3>2 DEF CancelAck
      <4> QED
        BY <1>t, <4>1 DEF Active, ActiveStatus, StatusFun
    <3>3. CASE ChildStarts \/ RenewRefused \/ \E o \in Outcomes : ChildDone(o)
      BY <3>3 DEF ChildStarts, RenewRefused, ChildDone, table, Active
    <3> QED
      BY <1>3, <3>1, <3>2, <3>3 DEF RunnerStep
  <2> QED
    BY <1>n, <2>1, <2>2 DEF identity, AgentOn
<1>4. ASSUME NEW a \in Attempt, LeaseLapses(a) PROVE OneExecutor'
  BY <1>u, <1>4 DEF LeaseLapses, workflow
<1>5. ASSUME NEW f \in Http, NEW a \in Attempt, NEW o \in Outcomes, Deliver(f, a, o) PROVE OneExecutor'
  <2>1. PICK S \in {status, [status EXCEPT ![a] = "completing"]} :
           /\ BeginFinalize(f, a, S)
           /\ S # status => status[a] = "running"
    BY <1>5 DEF Deliver
  <2>2. S \in StatusFun /\ \A x \in Attempt : S[x] \in ActiveStatus => Active(x)
    BY <1>t, <2>1, StatusFacts DEF StatusFun, Active, ActiveStatus
  <2> QED
    BY <1>t, <1>5, <2>1, <2>2, BeginOwns DEF Finalizer, Deliver, RowsExist
<1>6. ASSUME NEW f \in Finalizer, FinalizerStep(f) PROVE OneExecutor'
  <2>1. CASE SaveArtifact(f)
    BY <1>u, <2>1 DEF SaveArtifact, workflow
  <2>2. CASE Finish(f)
    <3> DEFINE a == fin[f].at
               S == IF Settles(f) THEN [status EXCEPT ![a] = outcome[a]] ELSE status
    <3>1. a \in Attempt /\ status[a] # "none" /\ Advance(a, S)
      BY <1>t, <2>2 DEF Finish, TypeOK, RowsExist
    <3>2. Settles(f) => outcome[a] \in Outcomes
      BY <1>t, <3>1 DEF Settles, RowsExist
    <3>3. S \in StatusFun /\ \A x \in Attempt : S[x] \in ActiveStatus => Active(x)
      BY <1>t, <3>1, <3>2, StatusFacts DEF StatusFun, Active
    <3> HIDE DEF S
    <3> QED
      BY <3>1, <3>3, AdvanceOwns
  <2> QED
    BY <1>6, <2>1, <2>2 DEF FinalizerStep
<1>7. CASE SweepRun
  <2>1. CASE SweepStart
    <3>1. \A x \in Attempt : status'[x] \in ActiveStatus => Active(x)
      BY <1>t, <2>1 DEF SweepStart, Active, ActiveStatus
    <3> QED
      BY <1>n, <2>1, <3>1 DEF SweepStart, identity, workflow, AgentOn
  <2>2. CASE SweepStep
    BY <1>t, <2>2, BeginOwns DEF SweepStep, Finalizer, TypeOK, RowsExist, Active
  <2> QED
    BY <1>7, <2>1, <2>2 DEF SweepRun
<1>8. CASE FaultStep
  BY <1>u, <1>8 DEF FaultStep, RunnerGivesUp, RenewLost, SiteCrash, SaveFails, table, workflow
<1>9. CASE UNCHANGED vars
  BY <1>u, <1>9 DEF vars, table, workflow
<1> QED
  BY <1>1, <1>2, <1>3, <1>4, <1>5, <1>6, <1>7, <1>8, <1>9 DEF Next, Delivery

\* At most one executor of a workflow run is active, however requests, runner,
\* recovery, agents and crashes interleave and however many there are.
THEOREM ExecutionOwned == Spec => []OneExecutor
<1>1. Init => OneExecutor
  BY DEF Init, OneExecutor, Active, ActiveOn, AgentOn, NoJob, ActiveStatus
<1> QED
  BY <1>1, TypeInvariant, OwnershipNext, PTL DEF Spec
-----------------------------------------------------------------------------
(* What a row has been through.  RowInv, EvidenceInv, FinInv and TryInv say *)
(* which histories a row, a finalizer in flight and a retry can have; Move, *)
(* RowsMove and FinMove say what one step may do to them.  Every action is  *)
(* one of these moves (StepMoves), and the moves keep the invariants.       *)

\* The rows 1..rows exist; only a settled row is advanced; an outcome is
\* recorded once the runner's completion was accepted and not before.
RowInv ==
    \A x \in Attempt :
        /\ status[x] = "none" <=> x > rows
        /\ x > rows => owner[x] = "none" /\ ~auto[x]
        /\ advanced[x] => status[x] \in Outcomes \cup {"superseded"}
        /\ status[x] \in {"none", "queued", "running"} => outcome[x] = "none"
        /\ status[x] \in Outcomes \ {"failed"} => status[x] = outcome[x]
        /\ code[x] \in {"expired", "disabled"} => status[x] = "failed" /\ outcome[x] = "none"
        /\ outcome[x] # "none" => <<x, outcome[x]>> \in posts

\* A receipt is the last thing to be written, and nothing but a failure is
\* settled without it.
EvidenceInv ==
    \A x \in Attempt :
        /\ advanced[x] => receipt[x]
        /\ receipt[x] => saved[x] = Artifacts
        /\ status[x] \in Outcomes \ {"failed"} => receipt[x]

\* A finalizer in flight has the artifacts it counted, and one that began on
\* a completion cannot meet a row that failed without evidence meanwhile.
FinInv ==
    \A f \in Finalizer : fin[f].at # 0 =>
        LET a == fin[f].at
        IN /\ saved[a] >= fin[f].next - 1
           /\ fin[f].snap # "none"
           /\ fin[f].snap = "completing" =>
                 /\ status[a] \in {"completing", "canceled", "superseded"} \cup Outcomes
                 /\ status[a] = "failed" => receipt[a]

\* Attempts of a step are numbered without repetition, and behind every
\* automatic retry is the first of them, advanced.
TryInv ==
    /\ \A x \in 1..rows : try[x] >= 1
    /\ \A x, y \in 1..rows : owner[x] = owner[y] /\ step[x] = step[y] /\ try[x] = try[y] => x = y
    /\ \A x \in Attempt : auto[x] =>
          \E y \in 1..rows : owner[y] = owner[x] /\ step[y] = step[x] /\ try[y] = 1 /\ advanced[y]
    /\ OneAutoRetry

HistoryInv == TypeInv /\ RowInv /\ EvidenceInv /\ FinInv /\ TryInv

\* An existing row changes its status alone, or a row is born.
StatusMove(x) ==
    /\ code'[x] = code[x] /\ outcome'[x] = outcome[x] /\ advanced'[x] = advanced[x]
    /\ \/ status'[x] = status[x]
       \/ status[x] = "none" /\ status'[x] = "queued" /\ x = rows + 1 /\ rows' = x
       \/ status[x] = "queued" /\ status'[x] = "running"
       \/ status[x] = "running" /\ status'[x] = "canceling"
       \/ status[x] \in {"queued", "canceling", "completing"} /\ status'[x] = "canceled"

\* A completion the runner posted is accepted.
AcceptMove(x) ==
    /\ status[x] = "running" /\ status'[x] = "completing"
    /\ outcome'[x] \in Outcomes /\ <<x, outcome'[x]>> \in posts
    /\ code'[x] = code[x] /\ advanced'[x] = advanced[x]

\* The sweep fails a row whose lease ran out or whose script is disabled.
FailMove(x) ==
    /\ status[x] \in {"queued", "running"} /\ status'[x] = "failed"
    /\ code'[x] \in {"expired", "disabled"}
    /\ outcome'[x] = outcome[x] /\ advanced'[x] = advanced[x]

\* The verdict a row has, or is about to be given.
Given(x) == IF status[x] = "completing" THEN outcome[x] ELSE status[x]

\* A verdict is settled, applied or set aside, all evidence being there.
JudgeMove(x) ==
    /\ ~advanced[x] /\ Given(x) \in Outcomes
    /\ receipt'[x] /\ saved'[x] = Artifacts
    /\ outcome'[x] = outcome[x]
    /\ \/ status'[x] = Given(x) /\ code'[x] = code[x]
       \/ status'[x] = "superseded" /\ code'[x] \in {"moved", "manifest"} /\ advanced'[x]

Move(x) == StatusMove(x) \/ AcceptMove(x) \/ FailMove(x) \/ JudgeMove(x)

\* The attempt that a retry for run r and step s repeats.
Repeated(a, r, s) ==
    status[a] # "none" /\ owner[a] = r /\ step[a] = s /\ try[a] < 2 /\ ~advanced[a] /\ advanced'[a]

\* A row is inserted, automatically only as the retry of a first attempt.
InsertMove ==
    \E r \in WorkflowRun, s \in Step, b \in BOOLEAN, S \in StatusFun :
        Insert(r, s, b, S) /\ (b => \E a \in Attempt : Repeated(a, r, s))

RowsMove == UNCHANGED identity \/ InsertMove

EvidenceMove ==
    \A x \in Attempt :
        /\ saved'[x] >= saved[x] /\ saved'[x] <= Artifacts
        /\ receipt[x] => receipt'[x]
        /\ receipt'[x] => receipt[x] \/ saved'[x] = Artifacts

\* A finalizer stays, ends, saves an artifact, or begins on the row as it is.
FinMove(f) ==
    \/ fin'[f] = fin[f]
    \/ fin'[f].at = 0
    \/ /\ fin'[f].at = fin[f].at /\ fin'[f].snap = fin[f].snap
       /\ fin[f].at # 0 /\ saved'[fin[f].at] >= fin'[f].next - 1
    \/ /\ fin'[f].at \in Attempt
       /\ fin'[f].snap = status'[fin'[f].at] /\ fin'[f].snap \in {"completing", "failed"}
       /\ saved'[fin'[f].at] >= fin'[f].next - 1

Moves ==
    /\ \A x \in Attempt : Move(x)
    /\ RowsMove
    /\ EvidenceMove
    /\ \A f \in Finalizer : FinMove(f)
    /\ posts \subseteq posts'

LEMMA HistoryInit == Init => HistoryInv
<1> SUFFICES ASSUME Init PROVE HistoryInv
  OBVIOUS
<1>1. RowInv
  BY StatusFacts DEF Init, RowInv, Attempt, Outcomes
<1>2. EvidenceInv /\ TryInv
  BY DEF Init, EvidenceInv, TryInv, OneAutoRetry, Outcomes
<1>3. FinInv
  BY DEF Init, FinInv, NoFin
<1> QED
  BY <1>1, <1>2, <1>3, TypeInit DEF HistoryInv

LEMMA HistoryKept == HistoryInv /\ TypeInv' /\ Moves => HistoryInv'
<1> SUFFICES ASSUME HistoryInv, TypeInv', Moves PROVE HistoryInv'
  OBVIOUS
<1> USE DEF HistoryInv
<1>v. /\ saved \in [Attempt -> Nat]
      /\ saved' \in [Attempt -> Nat]
  <2>1. TypeOK /\ TypeOK' /\ 0..Artifacts \subseteq Nat
    BY BoundAssumption DEF TypeInv
  <2>2. saved \in [Attempt -> 0..Artifacts]
    BY <2>1 DEF TypeOK
  <2>3. saved' \in [Attempt -> 0..Artifacts]
    BY <2>1 DEF TypeOK
  <2> QED
    BY <2>1, <2>2, <2>3
<1>0. TypeOK /\ TypeOK' /\ rows \in Nat /\ rows' \in Nat /\ Attempt \subseteq Nat \ {0}
  <2>1. TypeOK /\ TypeOK'
    BY DEF TypeInv
  <2>2. rows \in Nat
    BY <2>1, BoundAssumption DEF TypeOK
  <2>3. rows' \in Nat
    BY <2>1, BoundAssumption DEF TypeOK
  <2>4. Attempt \subseteq Nat \ {0}
    BY BoundAssumption DEF Attempt
  <2> QED
    BY <2>1, <2>2, <2>3, <2>4
<1>r. \/ UNCHANGED identity
      \/ rows' = rows + 1 /\ status'[rows + 1] = "queued" /\ rows + 1 \in Attempt
         /\ \A x \in Attempt : x # rows + 1 => owner'[x] = owner[x] /\ auto'[x] = auto[x]
  <2>1. CASE InsertMove
    BY <1>0, <2>1 DEF InsertMove, Insert, TypeOK, Attempt, StatusFun
  <2> QED
    BY <2>1 DEF Moves, RowsMove
<1>1. RowInv'
  <2> SUFFICES ASSUME NEW x \in Attempt
               PROVE  /\ status'[x] = "none" <=> x > rows'
                      /\ x > rows' => owner'[x] = "none" /\ ~auto'[x]
                      /\ advanced'[x] => status'[x] \in Outcomes \cup {"superseded"}
                      /\ status'[x] \in {"none", "queued", "running"} => outcome'[x] = "none"
                      /\ status'[x] \in Outcomes \ {"failed"} => status'[x] = outcome'[x]
                      /\ code'[x] \in {"expired", "disabled"} => status'[x] = "failed" /\ outcome'[x] = "none"
                      /\ outcome'[x] # "none" => <<x, outcome'[x]>> \in posts'
    BY DEF RowInv
  <2>1. x \in Nat /\ x >= 1 /\ Move(x) /\ posts \subseteq posts'
    BY <1>0 DEF Moves
  <2>2. /\ status[x] = "none" <=> x > rows
        /\ x > rows => owner[x] = "none" /\ ~auto[x]
        /\ advanced[x] => status[x] \in Outcomes \cup {"superseded"}
        /\ status[x] \in {"none", "queued", "running"} => outcome[x] = "none"
        /\ status[x] \in Outcomes \ {"failed"} => status[x] = outcome[x]
        /\ code[x] \in {"expired", "disabled"} => status[x] = "failed" /\ outcome[x] = "none"
        /\ outcome[x] # "none" => <<x, outcome[x]>> \in posts
    BY DEF RowInv
  <2>3. /\ advanced'[x] => status'[x] \in Outcomes \cup {"superseded"}
        /\ status'[x] \in {"none", "queued", "running"} => outcome'[x] = "none"
        /\ status'[x] \in Outcomes \ {"failed"} => status'[x] = outcome'[x]
        /\ code'[x] \in {"expired", "disabled"} => status'[x] = "failed" /\ outcome'[x] = "none"
    BY <2>1, <2>2 DEF Move, StatusMove, AcceptMove, FailMove, JudgeMove, Given, Outcomes
  <2>4. outcome'[x] # "none" => <<x, outcome'[x]>> \in posts'
    BY <2>1, <2>2 DEF Move, StatusMove, AcceptMove, FailMove, JudgeMove
  <2>5. status'[x] = "none" <=> x > rows'
    <3>1. \/ status[x] = "none" /\ status'[x] = "queued" /\ x = rows + 1 /\ rows' = x
          \/ status'[x] = "none" <=> status[x] = "none"
      BY <2>1 DEF Move, StatusMove, AcceptMove, FailMove, JudgeMove, Given, Outcomes
    <3> QED
      BY <1>0, <1>r, <2>1, <2>2, <3>1 DEF identity
  <2>6. x > rows' => owner'[x] = "none" /\ ~auto'[x]
    BY <1>0, <1>r, <2>1, <2>2 DEF identity
  <2> QED
    BY <2>3, <2>4, <2>5, <2>6
<1>2. EvidenceInv'
  <2> SUFFICES ASSUME NEW x \in Attempt
               PROVE  /\ advanced'[x] => receipt'[x]
                      /\ receipt'[x] => saved'[x] = Artifacts
                      /\ status'[x] \in Outcomes \ {"failed"} => receipt'[x]
    BY DEF EvidenceInv
  <2>1. /\ Move(x)
        /\ saved'[x] >= saved[x] /\ saved'[x] <= Artifacts
        /\ receipt[x] => receipt'[x]
        /\ receipt'[x] => receipt[x] \/ saved'[x] = Artifacts
    BY DEF Moves, EvidenceMove
  <2>2. /\ advanced[x] => receipt[x]
        /\ receipt[x] => saved[x] = Artifacts
        /\ status[x] \in Outcomes \ {"failed"} => receipt[x]
    BY DEF EvidenceInv
  <2>3. saved[x] \in Nat /\ saved'[x] \in Nat /\ Artifacts \in Nat
    BY <1>0, BoundAssumption DEF TypeOK
  <2>4. receipt'[x] => saved'[x] = Artifacts
    BY <2>1, <2>2, <2>3
  <2> QED
    BY <2>1, <2>2, <2>4 DEF Move, StatusMove, AcceptMove, FailMove, JudgeMove, Outcomes
<1>3. FinInv'
  <2> SUFFICES ASSUME NEW f \in Finalizer, fin'[f].at # 0
               PROVE  /\ saved'[fin'[f].at] >= fin'[f].next - 1
                      /\ fin'[f].snap # "none"
                      /\ fin'[f].snap = "completing" =>
                            /\ status'[fin'[f].at] \in {"completing", "canceled", "superseded"} \cup Outcomes
                            /\ status'[fin'[f].at] = "failed" => receipt'[fin'[f].at]
    BY DEF FinInv
  <2> DEFINE a == fin'[f].at
  <2>1. a \in Attempt /\ fin'[f].next \in Nat /\ Artifacts \in Nat
    BY <1>0, BoundAssumption DEF TypeOK
  <2>2. /\ Move(a)
        /\ saved'[a] >= saved[a] /\ saved[a] \in Nat /\ saved'[a] \in Nat
        /\ receipt[a] => receipt'[a]
    BY <1>v, <2>1 DEF Moves, EvidenceMove
  <2>3. CASE fin[f].at = a /\ fin'[f].snap = fin[f].snap
             /\ (fin'[f].next = fin[f].next \/ saved'[a] >= fin'[f].next - 1)
    <3>1. /\ saved[a] >= fin[f].next - 1
          /\ fin[f].snap # "none"
          /\ fin[f].snap = "completing" =>
                /\ status[a] \in {"completing", "canceled", "superseded"} \cup Outcomes
                /\ status[a] = "failed" => receipt[a]
      BY <2>3 DEF FinInv
    <3>2. saved'[a] >= fin'[f].next - 1
      BY <2>1, <2>2, <2>3, <3>1
    <3> QED
      BY <2>2, <2>3, <3>1, <3>2 DEF Move, StatusMove, AcceptMove, FailMove, JudgeMove, Given, Outcomes
  <2>4. CASE fin'[f].snap = status'[a] /\ fin'[f].snap \in {"completing", "failed"}
             /\ saved'[a] >= fin'[f].next - 1
    BY <2>4
  <2> QED
    BY <2>3, <2>4 DEF Moves, FinMove
<1>4. TryInv'
  <2>1. \A x \in Attempt : advanced[x] => advanced'[x]
    BY DEF Moves, Move, StatusMove, AcceptMove, FailMove, JudgeMove
  <2> USE DEF OneAutoRetry
  <2>2. CASE UNCHANGED identity
    <3>1. 1..rows \subseteq Attempt
      BY <1>0, BoundAssumption DEF TypeOK, Attempt
    <3> QED
      BY <2>1, <2>2, <3>1 DEF TryInv, identity
  <2>3. CASE InsertMove
    <3>1. PICK r \in WorkflowRun, s \in Step, b \in BOOLEAN, S \in StatusFun :
             Insert(r, s, b, S) /\ (b => \E a \in Attempt : Repeated(a, r, s))
      BY <2>3 DEF InsertMove
    <3> DEFINE z == rows + 1
    <3>2. z \in Attempt /\ rows' = z /\ rows \in Nat /\ 1..rows \subseteq Attempt
      BY <1>0, <3>1, BoundAssumption DEF Insert, Attempt
    <3>3. PICK n \in Attempt : NextTry(r, s, n) /\ try' = [try EXCEPT ![z] = n]
      BY <3>1 DEF Insert
    <3>4. /\ owner'[z] = r /\ step'[z] = s /\ try'[z] = n /\ auto'[z] = b
          /\ \A x \in Attempt : x # z => owner'[x] = owner[x] /\ step'[x] = step[x]
                                       /\ try'[x] = try[x] /\ auto'[x] = auto[x]
      BY <1>0, <3>1, <3>2, <3>3 DEF Insert, TypeOK
    <3>5. n \in Nat /\ n >= 1 /\ \A x \in 1..rows : owner[x] = r /\ step[x] = s => try[x] < n
      BY <1>0, <3>2, <3>3, BoundAssumption DEF NextTry, Attempt
    <3>6. \A x \in 1..rows : try[x] \in Nat /\ try[x] >= 1 /\ x # z /\ x \in Attempt
      BY <1>0, <3>2 DEF TryInv, TypeOK
    <3>7. \A x \in 1..rows' : x = z \/ x \in 1..rows
      BY <3>2
    <3>8. \A x \in 1..rows' : try'[x] >= 1
      BY <3>4, <3>5, <3>6, <3>7
    <3>9. ASSUME NEW x \in 1..rows', NEW y \in 1..rows',
                 owner'[x] = owner'[y] /\ step'[x] = step'[y] /\ try'[x] = try'[y]
          PROVE  x = y
      BY <3>4, <3>5, <3>6, <3>7, <3>9 DEF TryInv
    <3>10. ASSUME NEW x \in Attempt, auto'[x]
           PROVE  \E y \in 1..rows' : owner'[y] = owner'[x] /\ step'[y] = step'[x]
                                      /\ try'[y] = 1 /\ advanced'[y]
      <4>1. CASE x = z
        <5>1. PICK a \in Attempt : Repeated(a, r, s)
          BY <3>1, <3>4, <3>10, <4>1
        <5>2. a \in 1..rows /\ a \in 1..rows'
          <6>1. ~(a > rows)
            BY <5>1 DEF Repeated, RowInv
          <6> QED
            BY <1>0, <3>2, <6>1
        <5>3. try'[a] = 1 /\ owner'[a] = r /\ step'[a] = s /\ advanced'[a]
          BY <3>4, <3>6, <5>1, <5>2 DEF Repeated
        <5> QED
          BY <3>4, <4>1, <5>2, <5>3
      <4>2. CASE x # z
        <5>1. PICK y \in 1..rows : owner[y] = owner[x] /\ step[y] = step[x] /\ try[y] = 1 /\ advanced[y]
          BY <3>4, <3>10, <4>2 DEF TryInv
        <5>2. y \in 1..rows' /\ y # z /\ y \in Attempt
          BY <3>2, <3>6, <5>1
        <5> QED
          BY <2>1, <3>4, <4>2, <5>1, <5>2
      <4> QED
        BY <4>1, <4>2
    \* The attempt that is repeated was not advanced, so no retry exists yet.
    <3>11. b => \A x \in Attempt : ~(auto[x] /\ owner[x] = r /\ step[x] = s)
      <4> SUFFICES ASSUME b, NEW x \in Attempt, auto[x], owner[x] = r, step[x] = s PROVE FALSE
        OBVIOUS
      <4>1. PICK a \in Attempt : Repeated(a, r, s)
        BY <3>1
      <4>2. PICK y \in 1..rows : owner[y] = r /\ step[y] = s /\ try[y] = 1 /\ advanced[y]
        BY DEF TryInv
      <4>3. a \in 1..rows
        <5>1. ~(a > rows)
          BY <4>1 DEF Repeated, RowInv
        <5> QED
          BY <1>0, <3>2, <5>1
      <4>4. try[a] = 1
        BY <3>6, <4>1, <4>3 DEF Repeated
      <4> QED
        BY <4>1, <4>2, <4>3, <4>4 DEF Repeated, TryInv
    <3>12. OneAutoRetry'
      <4> SUFFICES ASSUME NEW x \in Attempt, NEW y \in Attempt, auto'[x], auto'[y],
                          owner'[x] = owner'[y], step'[x] = step'[y]
                   PROVE  x = y
        OBVIOUS
      <4>1. CASE x # z /\ y # z
        BY <3>4, <4>1 DEF TryInv
      <4>2. CASE x = z \/ y = z
        BY <3>4, <3>11, <4>2
      <4> QED
        BY <4>1, <4>2
    <3> QED
      BY <3>8, <3>9, <3>10, <3>12 DEF TryInv
  <2> QED
    BY <2>2, <2>3 DEF Moves, RowsMove
<1> QED
  BY <1>1, <1>2, <1>3, <1>4 DEF HistoryInv

\* Saved artifacts and receipts that stay do so within the type.
LEMMA EvidenceStays == TypeInv /\ UNCHANGED <<saved, receipt>> => EvidenceMove
<1> SUFFICES ASSUME TypeInv, UNCHANGED <<saved, receipt>>, NEW x \in Attempt
             PROVE  saved[x] >= saved[x] /\ saved[x] <= Artifacts
  BY DEF EvidenceMove
<1>1. saved[x] \in 0..Artifacts
  BY DEF TypeInv, TypeOK
<1> QED
  BY <1>1, BoundAssumption

\* A step that changes nothing but statuses, or the finalizers, moves them.
LEMMA PlainMoves ==
    ASSUME TypeInv, \A x \in Attempt : StatusMove(x), RowsMove,
           UNCHANGED <<saved, receipt>>, \A f \in Finalizer : FinMove(f), posts \subseteq posts'
    PROVE  Moves
BY EvidenceStays DEF Moves, Move

\* The row an insert writes was blank; the others are what S says.
LEMMA InsertMoves ==
    ASSUME TypeInv, RowInv, NEW r \in WorkflowRun, NEW s \in Step, NEW b \in BOOLEAN,
           NEW S \in StatusFun, Insert(r, s, b, S)
    PROVE  \A x \in Attempt :
              \/ x = rows + 1 /\ rows' = x /\ status[x] = "none" /\ status'[x] = "queued"
              \/ status'[x] = S[x]
<1>1. rows \in Nat /\ rows + 1 \in Attempt /\ rows' = rows + 1
  BY BoundAssumption DEF Insert, TypeInv, TypeOK, Attempt
<1>2. status[rows + 1] = "none"
  <2>1. rows + 1 > rows
    BY <1>1
  <2> QED
    BY <1>1, <2>1 DEF RowInv
<1>3. TypeOK
  BY DEF TypeInv
<1> QED
  BY <1>1, <1>2, <1>3, InsertType

\* An advancement on the statuses S: these differ from the table at most in
\* the verdict that row a is given in the same step.
LEMMA AdvanceMoves ==
    ASSUME TypeInv, RowInv, NEW a \in Attempt, status[a] # "none",
           NEW S \in StatusFun, Advance(a, S), UNCHANGED outcome,
           \A x \in Attempt : x # a => S[x] = status[x],
           S[a] \in {status[a], Given(a)},
           Ready(a, S) => receipt'[a] /\ saved'[a] = Artifacts
    PROVE  /\ \A x \in Attempt : StatusMove(x) \/ (x = a /\ JudgeMove(x))
           /\ \A x \in Attempt : x # a => status'[x] = status[x] \/ status[x] = "none"
           /\ RowsMove
<1> DEFINE r == owner[a]
<1>r. r \in WorkflowRun /\ step[a] \in Step /\ (status[a] = "completing" => outcome[a] \in Outcomes)
  BY DEF TypeInv, RowsExist
<1>t. /\ status \in StatusFun /\ code \in [Attempt -> Codes] /\ advanced \in [Attempt -> BOOLEAN]
  BY DEF TypeInv, TypeOK, StatusFun, Codes
<1>v. advanced[a] => status[a] \in Outcomes \cup {"superseded"}
  BY DEF RowInv
<1>1. CASE Ignore(a, S)
  <2>1. S[a] = status[a]
    BY <1>1, <1>r, <1>v, StatusFacts DEF Ignore, Ready, Given, ActiveStatus, Outcomes
  <2> QED
    BY <1>1, <2>1 DEF Ignore, StatusMove, RowsMove
<1>2. CASE Supersede(a, S)
  <2>1. Ready(a, S) /\ RowsMove
    BY <1>2 DEF Supersede, RowsMove
  <2>2. JudgeMove(a)
    BY <1>t, <1>2, <2>1 DEF Supersede, JudgeMove, Ready, Given, Outcomes, StatusFun
  <2>3. \A x \in Attempt : x # a => StatusMove(x) /\ status'[x] = status[x]
    BY <1>t, <1>2 DEF Supersede, StatusMove, StatusFun
  <2> QED
    BY <2>1, <2>2, <2>3
\* The verdict stands: it is settled, and maybe applied.
<1>s. ASSUME Ready(a, S), UNCHANGED code,
             \A x \in Attempt : x # a => advanced'[x] = advanced[x],
             \A x \in Attempt :
                \/ x = rows + 1 /\ rows' = x /\ status[x] = "none" /\ status'[x] = "queued"
                \/ status'[x] = S[x]
      PROVE  /\ \A x \in Attempt : StatusMove(x) \/ (x = a /\ JudgeMove(x))
             /\ \A x \in Attempt : x # a => status'[x] = status[x] \/ status[x] = "none"
  <2>1. status'[a] = S[a] /\ Given(a) = S[a]
    BY <1>s DEF Ready, Given, Outcomes
  <2> QED
    BY <1>s, <2>1 DEF Ready, StatusMove, JudgeMove
<1>i. ASSUME NEW s \in Step, NEW b \in BOOLEAN, Insert(r, s, b, S), Ready(a, S), UNCHANGED code,
             advanced' = [advanced EXCEPT ![a] = TRUE],
             b => s = step[a] /\ try[a] < 2
      PROVE  /\ \A x \in Attempt : StatusMove(x) \/ (x = a /\ JudgeMove(x))
             /\ \A x \in Attempt : x # a => status'[x] = status[x] \/ status[x] = "none"
             /\ RowsMove
  <2>1. b => Repeated(a, r, s)
    BY <1>i, <1>t DEF Repeated, Ready
  <2>2. RowsMove
    BY <1>i, <1>r, <2>1 DEF RowsMove, InsertMove
  <2> QED
    BY <1>i, <1>r, <1>s, <1>t, <2>2, InsertMoves
<1>k. ASSUME UNCHANGED <<identity, code>>, status' = S, Ready(a, S),
             advanced' = [advanced EXCEPT ![a] = TRUE] \/ UNCHANGED advanced
      PROVE  /\ \A x \in Attempt : StatusMove(x) \/ (x = a /\ JudgeMove(x))
             /\ \A x \in Attempt : x # a => status'[x] = status[x] \/ status[x] = "none"
             /\ RowsMove
  BY <1>k, <1>s, <1>t DEF RowsMove
<1>3. CASE Retry(a, S)
  BY <1>3, <1>i, <1>k, <1>r DEF Retry, Retries
<1>4. CASE Route(a, S)
  <2> DEFINE s == Target(a, S)
  <2>1. s \in Step
    BY <1>r, WorkflowAssumption DEF Target
  <2>2. /\ Enqueues(a, s, S) /\ Ready(a, S) /\ code' = code
        /\ advanced' = [advanced EXCEPT ![a] = TRUE]
    BY <1>4 DEF Route
  <2> HIDE DEF s
  <2>3. \/ UNCHANGED identity /\ status' = S
        \/ Insert(r, s, FALSE, S)
    BY <2>2 DEF Enqueues
  <2> QED
    BY <1>i, <1>k, <2>1, <2>2, <2>3
<1>5. CASE RolledBack(a, S)
  BY <1>5, <1>k DEF RolledBack
<1> QED
  BY <1>1, <1>2, <1>3, <1>4, <1>5 DEF Advance

\* A finalizer that has all artifacts leaves the evidence complete before
\* the attempt it settles, or finds settled, may be advanced.
LEMMA FinishEvidence ==
    ASSUME HistoryInv, NEW f \in Finalizer, NEW a \in Attempt, a = fin[f].at, Finish(f),
           Ready(a, IF Settles(f) THEN [status EXCEPT ![a] = outcome[a]] ELSE status)
    PROVE  receipt'[a] /\ saved'[a] = Artifacts
<1>t. /\ TypeOK /\ RowsExist /\ Artifacts \in Nat
  BY BoundAssumption DEF HistoryInv, TypeInv
<1>1. /\ receipt' = [receipt EXCEPT ![a] = receipt[a] \/ Settles(f) \/ Attaches(f)]
      /\ UNCHANGED saved
      /\ a # 0 /\ fin[f].next > Artifacts /\ fin[f].next \in Nat
  BY <1>t DEF Finish, TypeOK
<1>2. /\ saved[a] \in 0..Artifacts
      /\ saved[a] >= fin[f].next - 1
      /\ fin[f].snap \in {"completing", "failed"}
      /\ fin[f].snap = "completing" /\ status[a] = "failed" => receipt[a]
  BY <1>t, <1>1 DEF HistoryInv, FinInv, TypeOK
<1>3. saved'[a] = Artifacts
  BY <1>t, <1>1, <1>2
<1>4. receipt'[a] = (receipt[a] \/ Settles(f) \/ Attaches(f))
  BY <1>t, <1>1 DEF TypeOK
<1>5. CASE ~Settles(f)
  <2>1. status[a] \in Outcomes /\ ~advanced[a]
    BY <1>5 DEF Ready
  <2>2. CASE status[a] # "failed"
    BY <1>3, <1>4, <2>1, <2>2 DEF HistoryInv, EvidenceInv
  <2>3. CASE status[a] = "failed"
    BY <1>2, <1>3, <1>4, <2>1, <2>3 DEF Attaches
  <2> QED
    BY <2>2, <2>3
<1> QED
  BY <1>3, <1>4, <1>5

LEMMA StepMoves == HistoryInv /\ Next => Moves
<1> SUFFICES ASSUME HistoryInv, Next PROVE Moves
  OBVIOUS
<1> USE DEF HistoryInv
<1>t. /\ TypeOK /\ RowsExist
      /\ status \in StatusFun
      /\ Artifacts \in Nat
  BY BoundAssumption DEF TypeInv, TypeOK, StatusFun
\* A step that touches neither rows nor finalizers.
<1>u. ASSUME UNCHANGED <<status, code, advanced, evidence, identity, fin>>, posts \subseteq posts'
      PROVE  Moves
  BY <1>u, PlainMoves DEF StatusMove, RowsMove, FinMove, evidence
\* A step that changes statuses only, of rows that exist.
<1>s. ASSUME UNCHANGED <<code, advanced, evidence, identity, fin, posts>>,
             \A x \in Attempt :
                \/ status'[x] = status[x]
                \/ status[x] = "queued" /\ status'[x] = "running"
                \/ status[x] = "running" /\ status'[x] = "canceling"
                \/ status[x] \in {"queued", "canceling", "completing"} /\ status'[x] = "canceled"
      PROVE  Moves
  BY <1>s, PlainMoves DEF StatusMove, RowsMove, FinMove, evidence
\* An insert by an operator.
<1>i. ASSUME NEW r \in WorkflowRun, NEW s \in Step, Insert(r, s, FALSE, status),
             UNCHANGED <<code, advanced, evidence, fin, posts>>
      PROVE  Moves
  <2>1. \A x \in Attempt : StatusMove(x)
    BY <1>i, <1>t, InsertMoves DEF StatusMove, evidence
  <2>2. RowsMove
    BY <1>i, <1>t DEF RowsMove, InsertMove
  <2> QED
    BY <1>i, <2>1, <2>2, PlainMoves DEF FinMove, evidence
<1>1. CASE OperatorStep
  <2>1. ASSUME NEW r \in WorkflowRun, ContinueScript(r) PROVE Moves
    <3>1. pos[r] \in Step
      BY <1>t DEF TypeOK
    <3> QED
      BY <1>i, <2>1, <3>1 DEF ContinueScript, site, wire
  <2>2. ASSUME NEW r \in WorkflowRun, NEW s \in Step, GateToScript(r, s) PROVE Moves
    BY <1>i, <2>2 DEF GateToScript, site, wire
  <2>3. ASSUME NEW r \in WorkflowRun, NEW s \in Step,
               GateToTerminal(r, s) \/ ManualMove(r, s) \/ QueueAgent(r, s) \/ Reopen(r, s)
        PROVE Moves
    BY <1>u, <2>3 DEF GateToTerminal, ManualMove, QueueAgent, Reopen, table, site, wire
  <2>4. ASSUME NEW r \in WorkflowRun, CancelRun(r) PROVE Moves
    <3>1. UNCHANGED <<code, advanced, evidence, identity, fin, posts>>
      BY <2>4 DEF CancelRun, wire
    <3>2. \A x \in Attempt :
                \/ status'[x] = status[x]
                \/ status[x] = "running" /\ status'[x] = "canceling"
                \/ status[x] \in {"queued", "completing"} /\ status'[x] = "canceled"
      BY <2>4 DEF CancelRun, CancelAttemptsOf
    <3> QED
      BY <1>s, <3>1, <3>2
  <2>5. ASSUME NEW a \in Attempt, CancelAttempt(a) PROVE Moves
    BY <1>s, <1>t, <2>5 DEF CancelAttempt, site, wire, StatusFun
  <2>6. CASE ToggleScript \/ PublishWorkflow
    BY <1>u, <2>6 DEF ToggleScript, PublishWorkflow, table, site, wire
  <2> QED
    BY <1>1, <2>1, <2>2, <2>3, <2>4, <2>5, <2>6 DEF OperatorStep
<1>2. ASSUME NEW r \in WorkflowRun, AgentStep(r) \/ CancelFinish(r) PROVE Moves
  BY <1>u, <1>2 DEF AgentStep, AgentStarts, AgentDone, AgentFails, CancelFinish, table, site, wire
<1>3. CASE RunnerStep
  <2>1. CASE Claim
    BY <1>s, <1>t, <1>3, <2>1 DEF Claim, site, StatusFun
  <2>2. CASE CancelAck
    <3>1. UNCHANGED <<code, advanced, evidence, identity, fin, posts>>
      BY <2>2 DEF CancelAck, site
    <3>2. \/ UNCHANGED status
          \/ status[runner.at] = "canceling" /\ status' = [status EXCEPT ![runner.at] = "canceled"]
      BY <2>2 DEF CancelAck
    <3> QED
      BY <1>s, <1>t, <3>1, <3>2 DEF StatusFun
  <2>3. CASE ChildStarts \/ RenewRefused \/ \E o \in Outcomes : ChildDone(o)
    BY <1>u, <2>3 DEF ChildStarts, RenewRefused, ChildDone, table, site
  <2> QED
    BY <1>3, <2>1, <2>2, <2>3 DEF RunnerStep
<1>4. ASSUME NEW a \in Attempt, LeaseLapses(a) PROVE Moves
  BY <1>u, <1>4 DEF LeaseLapses, site, wire
<1>5. ASSUME NEW f \in Http, NEW a \in Attempt, NEW o \in Outcomes, Deliver(f, a, o) PROVE Moves
  <2>1. PICK S \in {status, [status EXCEPT ![a] = "completing"]} :
           /\ BeginFinalize(f, a, S)
           /\ \/ status[a] = "completing" /\ S = status /\ UNCHANGED outcome
              \/ /\ status[a] = "running" /\ S = [status EXCEPT ![a] = "completing"]
                 /\ outcome' = [outcome EXCEPT ![a] = o]
    BY <1>5 DEF Deliver
  <2>2. S[a] = "completing"
    BY <1>t, <2>1 DEF StatusFun
  <2>3. /\ fin' = [fin EXCEPT ![f] = [at |-> a, snap |-> S[a], next |-> saved[a] + 1]]
        /\ status' = S
        /\ UNCHANGED <<code, advanced, identity, workflow>>
    BY <2>1, <2>2 DEF BeginFinalize, NeedsEvidence
  <2>4. \A x \in Attempt : StatusMove(x) \/ AcceptMove(x)
    <3>1. <<a, o>> \in posts /\ outcome \in [Attempt -> Outcomes \cup {"none"}]
      BY <1>t, <1>5 DEF Deliver, TypeOK
    <3>2. \A x \in Attempt : x # a => StatusMove(x)
      BY <1>t, <2>1, <2>3, <3>1 DEF StatusMove, StatusFun
    <3>3. StatusMove(a) \/ AcceptMove(a)
      BY <1>t, <2>1, <2>3, <3>1 DEF StatusMove, AcceptMove, StatusFun
    <3> QED
      BY <3>2, <3>3
  <2>5. \A g \in Finalizer : FinMove(g)
    <3>1. UNCHANGED saved /\ fin'[f] = [at |-> a, snap |-> "completing", next |-> saved[a] + 1]
          /\ \A g \in Finalizer : g # f => fin'[g] = fin[g]
      BY <1>t, <1>5, <2>2, <2>3 DEF Deliver, TypeOK, Finalizer
    <3>2. saved[a] \in Nat
      BY <1>t DEF TypeOK
    <3> QED
      BY <2>2, <2>3, <3>1, <3>2 DEF FinMove
  <2>6. EvidenceMove
    BY <1>5, EvidenceStays DEF Deliver
  <2> QED
    BY <1>5, <2>3, <2>4, <2>5, <2>6 DEF Moves, Move, RowsMove, Deliver, wire
<1>6. ASSUME NEW f \in Finalizer, FinalizerStep(f) PROVE Moves
  <2> DEFINE a == fin[f].at
  <2>1. a \in Attempt /\ status[a] # "none" /\ fin[f].next \in 1..(Artifacts + 1)
    BY <1>t, <1>6 DEF FinalizerStep, SaveArtifact, Finish, TypeOK, RowsExist
  <2>2. CASE SaveArtifact(f)
    <3>1. UNCHANGED <<identity, status, code, advanced, outcome, receipt, posts>>
      BY <2>2 DEF SaveArtifact, wire
    <3>2. saved \in [Attempt -> 0..Artifacts]
      BY <1>t DEF TypeOK
    <3>3. fin[f].next \in Nat /\ fin[f].next <= Artifacts /\ saved[a] \in Nat
      BY <1>t, <2>1, <2>2, <3>2 DEF SaveArtifact
    <3>4. EvidenceMove
      <4>1. UNCHANGED saved \/ (saved[a] < fin[f].next /\ saved' = [saved EXCEPT ![a] = fin[f].next])
        BY <2>2, <3>3 DEF SaveArtifact
      <4> QED
        BY <1>t, <2>1, <3>1, <3>2, <3>3, <4>1 DEF EvidenceMove
    <3>5. \A g \in Finalizer : FinMove(g)
      <4>1. \/ fin' = [fin EXCEPT ![f] = NoFin]
            \/ /\ saved' = [saved EXCEPT ![a] = fin[f].next]
               /\ fin' = [fin EXCEPT ![f] = [fin[f] EXCEPT !.next = fin[f].next + 1]]
        BY <2>2 DEF SaveArtifact
      <4>2. \A g \in Finalizer : g # f => fin'[g] = fin[g]
        BY <1>t, <4>1 DEF TypeOK
      <4>3. FinMove(f)
        <5>1. CASE fin' = [fin EXCEPT ![f] = NoFin]
          BY <1>t, <5>1 DEF FinMove, NoFin, TypeOK
        <5>2. CASE /\ saved' = [saved EXCEPT ![a] = fin[f].next]
                   /\ fin' = [fin EXCEPT ![f] = [fin[f] EXCEPT !.next = fin[f].next + 1]]
          <6>1. fin'[f] = [fin[f] EXCEPT !.next = fin[f].next + 1]
            BY <1>t, <5>2 DEF TypeOK
          <6>2. fin[f] \in [at : Attempt \cup {0}, snap : {"none", "completing", "failed"},
                            next : 1..(Artifacts + 1)]
            BY <1>t DEF TypeOK
          <6>3. fin'[f].at = a /\ fin'[f].snap = fin[f].snap /\ fin'[f].next = fin[f].next + 1
            BY <6>1, <6>2
          <6>4. saved'[a] = fin[f].next /\ a # 0
            BY <2>1, <2>2, <3>2, <5>2 DEF SaveArtifact
          <6>5. saved'[a] >= fin'[f].next - 1
            BY <3>3, <6>3, <6>4
          <6> QED
            BY <6>3, <6>4, <6>5 DEF FinMove
        <5> QED
          BY <4>1, <5>1, <5>2
      <4> QED
        BY <4>2, <4>3 DEF FinMove
    <3> QED
      BY <3>1, <3>4, <3>5 DEF Moves, Move, StatusMove, RowsMove
  <2>3. CASE Finish(f)
    <3> DEFINE S == IF Settles(f) THEN [status EXCEPT ![a] = outcome[a]] ELSE status
    <3>1. /\ Advance(a, S) /\ fin' = [fin EXCEPT ![f] = NoFin]
          /\ receipt' = [receipt EXCEPT ![a] = receipt[a] \/ Settles(f) \/ Attaches(f)]
          /\ UNCHANGED <<outcome, saved, posts>>
          /\ a # 0 /\ fin[f].next > Artifacts
      BY <2>3 DEF Finish, wire
    <3>2. Settles(f) => status[a] = "completing" /\ outcome[a] \in Outcomes
      BY <1>t, <2>1 DEF Settles, RowsExist
    <3>3. /\ S \in StatusFun
          /\ \A x \in Attempt : x # a => S[x] = status[x]
          /\ S[a] \in {status[a], Given(a)}
          /\ ~Settles(f) => S[a] = status[a]
      BY <1>t, <2>1, <3>2, StatusFacts DEF StatusFun, Given
    <3> HIDE DEF S
    <3>4. /\ saved[a] \in 0..Artifacts
          /\ saved[a] >= fin[f].next - 1
          /\ fin[f].snap \in {"completing", "failed"}
          /\ fin[f].snap = "completing" /\ status[a] = "failed" => receipt[a]
      BY <1>t, <2>1, <3>1 DEF FinInv, TypeOK
    <3>5. saved'[a] = Artifacts
      BY <1>t, <2>1, <3>1, <3>4
    <3>6. receipt \in [Attempt -> BOOLEAN] /\ receipt'[a] = (receipt[a] \/ Settles(f) \/ Attaches(f))
      BY <1>t, <2>1, <3>1 DEF TypeOK
    <3>7. Ready(a, S) => receipt'[a]
      BY <2>1, <2>3, FinishEvidence DEF S
    <3>8. (\A x \in Attempt : StatusMove(x) \/ JudgeMove(x)) /\ RowsMove
      BY <2>1, <3>1, <3>3, <3>5, <3>7, AdvanceMoves
    <3>9. EvidenceMove
      <4>1. \A x \in Attempt : saved[x] \in 0..Artifacts
        BY <1>t DEF TypeOK
      <4>2. \A x \in Attempt : x # a => receipt'[x] = receipt[x]
        BY <1>t, <3>1 DEF TypeOK
      <4> QED
        BY <1>t, <3>1, <3>5, <3>6, <4>1, <4>2 DEF EvidenceMove
    <3>10. \A g \in Finalizer : FinMove(g)
      BY <1>t, <3>1 DEF FinMove, NoFin, TypeOK
    <3> QED
      BY <3>1, <3>8, <3>9, <3>10 DEF Moves, Move
  <2> QED
    BY <1>6, <2>2, <2>3 DEF FinalizerStep
<1>7. CASE SweepRun
  <2>1. CASE SweepStart
    <3>1. UNCHANGED <<identity, advanced, evidence, fin, posts>>
      BY <2>1 DEF SweepStart, wire
    <3>2. \A x \in Attempt :
             \/ Expired(x) /\ status'[x] = "failed" /\ code'[x] = "expired"
             \/ Disabled(x) /\ status'[x] = "failed" /\ code'[x] = "disabled"
             \/ CancelExpired(x) /\ status'[x] = "canceled" /\ code'[x] = code[x]
             \/ status'[x] = status[x] /\ code'[x] = code[x]
      BY <2>1 DEF SweepStart, Expired, Disabled, CancelExpired
    <3>3. \A x \in Attempt : StatusMove(x) \/ FailMove(x)
      BY <3>1, <3>2 DEF StatusMove, FailMove, Expired, Disabled, CancelExpired, evidence
    <3> QED
      BY <3>1, <3>3, EvidenceStays DEF Moves, Move, RowsMove, FinMove, evidence
  <2>2. CASE SweepStep
    <3>1. PICK a \in sweep : BeginFinalize(Recovery, a, status)
      BY <2>2 DEF SweepStep
    <3>2. a \in Attempt /\ status[a] # "none" /\ UNCHANGED <<evidence, posts>>
      BY <1>t, <2>2, <3>1 DEF TypeOK, RowsExist, SweepStep, wire
    <3>3. CASE NeedsEvidence(a, status)
      <4>1. /\ fin' = [fin EXCEPT ![Recovery] = [at |-> a, snap |-> status[a], next |-> saved[a] + 1]]
            /\ UNCHANGED <<status, code, advanced, identity>>
        BY <3>1, <3>3 DEF BeginFinalize
      <4>2. saved[a] \in Nat /\ status[a] \in {"completing", "failed"}
        BY <1>t, <3>2, <3>3 DEF TypeOK, NeedsEvidence
      <4>3. \A g \in Finalizer : FinMove(g)
        <5>1. \A g \in Finalizer : g # Recovery => fin'[g] = fin[g]
          BY <1>t, <4>1 DEF TypeOK
        <5>2. fin'[Recovery] = [at |-> a, snap |-> status[a], next |-> saved[a] + 1]
          BY <1>t, <4>1 DEF TypeOK, Finalizer
        <5>3. FinMove(Recovery)
          BY <3>2, <4>1, <4>2, <5>2 DEF FinMove, evidence
        <5> QED
          BY <5>1, <5>3 DEF FinMove
      <4> QED
        BY <3>2, <4>1, <4>3, PlainMoves DEF StatusMove, RowsMove, evidence
    <3>4. CASE ~NeedsEvidence(a, status)
      <4>1. Advance(a, status) /\ UNCHANGED fin
        BY <3>1, <3>4 DEF BeginFinalize
      <4>2. Ready(a, status) => receipt'[a] /\ saved'[a] = Artifacts
        BY <3>2, <3>4 DEF Ready, NeedsEvidence, EvidenceInv, evidence
      <4>3. (\A x \in Attempt : StatusMove(x) \/ JudgeMove(x)) /\ RowsMove
        BY <1>t, <3>2, <4>1, <4>2, AdvanceMoves DEF evidence
      <4> QED
        BY <3>2, <4>1, <4>3, EvidenceStays DEF Moves, Move, FinMove, evidence
    <3> QED
      BY <3>3, <3>4
  <2> QED
    BY <1>7, <2>1, <2>2 DEF SweepRun
<1>8. CASE FaultStep
  <2>1. CASE RunnerGivesUp \/ RenewLost
    BY <1>u, <2>1 DEF RunnerGivesUp, RenewLost, table, site
  <2>2. CASE SiteCrash \/ \E f \in Finalizer : SaveFails(f)
    <3>1. UNCHANGED <<status, code, advanced, evidence, identity, posts>>
      BY <2>2 DEF SiteCrash, SaveFails, table, wire
    <3>2. \A g \in Finalizer : FinMove(g)
      BY <1>t, <2>2 DEF SiteCrash, SaveFails, FinMove, NoFin, TypeOK
    <3> QED
      BY <3>1, <3>2, PlainMoves DEF StatusMove, RowsMove, evidence
  <2> QED
    BY <1>8, <2>1, <2>2 DEF FaultStep
<1> QED
  BY <1>1, <1>2, <1>3, <1>4, <1>5, <1>6, <1>7, <1>8 DEF Next, Delivery

LEMMA HistoryNext == HistoryInv /\ [Next]_vars => HistoryInv'
<1>1. HistoryInv /\ Next => HistoryInv'
  BY StepMoves, HistoryKept, TypeNext DEF HistoryInv
<1>2. HistoryInv /\ UNCHANGED vars => HistoryInv'
  BY TypeNext DEF HistoryInv, RowInv, EvidenceInv, FinInv, TryInv, OneAutoRetry,
     vars, identity, table, claim, evidence, workflow, site, wire, bounds
<1> QED
  BY <1>1, <1>2

\* The inductive invariant about the past of rows, finalizers and retries.
THEOREM HistoryInvariant == Spec => []HistoryInv
BY HistoryInit, HistoryNext, PTL DEF Spec

\* Whoever finalizes an attempt, and however often that is interrupted and
\* begun again, it takes effect only after its evidence is complete.
THEOREM EvidenceFirst == Spec => []EvidenceBeforeEffect
<1>1. HistoryInv => EvidenceBeforeEffect
  BY DEF HistoryInv, EvidenceInv, EvidenceBeforeEffect
<1> QED
  BY <1>1, HistoryInvariant, PTL

\* Whatever is delivered twice, late or after the lease ran out, an attempt
\* has no outcome but the one its runner posted.
THEOREM OutcomeTraced == Spec => []OutcomeFromOwner
<1>1. HistoryInv => OutcomeFromOwner
  BY DEF HistoryInv, RowInv, OutcomeFromOwner
<1> QED
  BY <1>1, HistoryInvariant, PTL

\* One automatic retry per run and step, for any number of attempts.
THEOREM RetriedOnce == Spec => []OneAutoRetry
<1>1. HistoryInv => OneAutoRetry
  BY DEF HistoryInv, TryInv
<1> QED
  BY <1>1, HistoryInvariant, PTL
-----------------------------------------------------------------------------
(* The child of an attempt.  When the response to its claim arrived within  *)
(* the lease, the attempt the runner holds is running or canceling under a  *)
(* live lease, and no completion of it is under way: nobody else may end it.*)

RunnerInv ==
    /\ \A x \in Attempt, o \in Outcomes : <<x, o>> \in posts => status[x] \notin {"none", "queued"}
    /\ runner.phase # "idle" => status[runner.at] \notin {"none", "queued"}
    /\ runner.phase # "idle" /\ ~runner.slow =>
          /\ status[runner.at] \in {"running", "canceling"}
          /\ lease[runner.at] = "live"
          /\ \A o \in Outcomes : <<runner.at, o>> \notin posts

\* An advancement leaves a row alone that somebody executes.
LEMMA AdvanceSpares ==
    ASSUME TypeInv, RowInv, NEW a \in Attempt, status[a] # "none", NEW S \in StatusFun, Advance(a, S),
           NEW x \in Attempt, status[x] \in {"running", "canceling"}, S[x] = status[x]
    PROVE  status'[x] = status[x]
<1>r. owner[a] \in WorkflowRun /\ step[a] \in Step
  BY DEF TypeInv, RowsExist
<1>1. CASE Ignore(a, S) \/ RolledBack(a, S)
  BY <1>1 DEF Ignore, RolledBack
<1>2. CASE Supersede(a, S)
  <2>1. x # a /\ status' = [S EXCEPT ![a] = "superseded"]
    BY <1>2 DEF Supersede, Ready, Outcomes
  <2> QED
    BY <2>1 DEF StatusFun
<1>i. ASSUME NEW s \in Step, NEW b \in BOOLEAN, Insert(owner[a], s, b, S)
      PROVE  status'[x] = status[x]
  BY <1>r, <1>i, InsertMoves
<1>3. CASE Retry(a, S)
  BY <1>3, <1>i, <1>r DEF Retry
<1>4. CASE Route(a, S)
  <2>1. Target(a, S) \in Step
    BY <1>r, WorkflowAssumption DEF Target
  <2>2. Insert(owner[a], Target(a, S), FALSE, S) \/ status' = S
    BY <1>4 DEF Route, Enqueues
  <2> QED
    BY <1>i, <2>1, <2>2
<1> QED
  BY <1>1, <1>2, <1>3, <1>4 DEF Advance

LEMMA RunnerNext ==
    ASSUME HistoryInv, RunnerInv, [Next]_vars
    PROVE  RunnerInv'
<1> USE DEF HistoryInv
<1>t. /\ TypeOK /\ RowsExist
      /\ status \in StatusFun
  BY DEF TypeInv, TypeOK, StatusFun
<1> DEFINE x == runner.at
           Busy == runner.phase # "idle"
           Held == Busy /\ ~runner.slow
<1>b. Busy => x \in Attempt /\ status[x] \notin {"none", "queued"}
  BY <1>t DEF TypeOK, RowsExist, RunnerInv
<1>h. Held => /\ x \in Attempt /\ status[x] \in {"running", "canceling"} /\ lease[x] = "live"
              /\ \A o \in Outcomes : <<x, o>> \notin posts
  BY <1>b DEF RunnerInv
\* Claimed attempts are not queued again.
<1>c. ASSUME Next, NEW y \in Attempt, status[y] \notin {"none", "queued"}
      PROVE  status'[y] \notin {"none", "queued"}
  <2>1. Move(y)
    BY <1>c, StepMoves DEF Moves
  <2> QED
    BY <1>c, <2>1 DEF Move, StatusMove, AcceptMove, FailMove, JudgeMove, Given, Outcomes
<1>p. ASSUME Next,
             posts' \subseteq posts \cup {<<y, o>> : y \in {z \in Attempt : status[z] \notin {"none", "queued"}},
                                                     o \in Outcomes}
      PROVE  \A y \in Attempt, o \in Outcomes : <<y, o>> \in posts' => status'[y] \notin {"none", "queued"}
  <2> SUFFICES ASSUME NEW y \in Attempt, NEW o \in Outcomes, <<y, o>> \in posts'
               PROVE  status'[y] \notin {"none", "queued"}
    OBVIOUS
  <2>1. status[y] \notin {"none", "queued"}
    BY <1>p DEF RunnerInv
  <2> QED
    BY <1>c, <1>p, <2>1
\* The runner keeps its attempt.
<1>k. ASSUME Next, UNCHANGED posts, runner'.at = x, runner'.phase # "idle" => Busy,
             runner.slow => runner'.slow,
             Held /\ ~runner'.slow => status'[x] \in {"running", "canceling"} /\ lease'[x] = "live"
      PROVE  RunnerInv'
  <2>1. runner'.phase # "idle" => status'[x] \notin {"none", "queued"}
    BY <1>b, <1>c, <1>k
  <2> QED
    BY <1>h, <1>k, <1>p, <2>1 DEF RunnerInv
\* The runner lets go of it.
<1>g. ASSUME Next, UNCHANGED posts, runner' = IdleRunner
      PROVE  RunnerInv'
  BY <1>g, <1>p DEF RunnerInv, IdleRunner
<1>u. ASSUME Next, UNCHANGED <<status, claim, wire>> PROVE RunnerInv'
  BY <1>h, <1>k, <1>u DEF claim, wire
<1>1. CASE OperatorStep
  <2>n. Next
    BY <1>1 DEF Next
  <2>i. ASSUME NEW r \in WorkflowRun, NEW s \in Step, Insert(r, s, FALSE, status), UNCHANGED <<claim, wire>>
        PROVE  RunnerInv'
    <3>1. Held => status'[x] = status[x]
      BY <1>h, <1>t, <2>i, InsertMoves
    <3> QED
      BY <1>h, <1>k, <2>i, <2>n, <3>1 DEF claim, wire
  <2>1. ASSUME NEW r \in WorkflowRun, ContinueScript(r) PROVE RunnerInv'
    <3>1. pos[r] \in Step
      BY <1>t DEF TypeOK
    <3> QED
      BY <2>1, <2>i, <3>1 DEF ContinueScript
  <2>2. ASSUME NEW r \in WorkflowRun, NEW s \in Step, GateToScript(r, s) PROVE RunnerInv'
    BY <2>2, <2>i DEF GateToScript
  <2>3. ASSUME NEW r \in WorkflowRun, NEW s \in Step,
               GateToTerminal(r, s) \/ ManualMove(r, s) \/ QueueAgent(r, s) \/ Reopen(r, s)
        PROVE RunnerInv'
    BY <1>u, <2>3, <2>n DEF GateToTerminal, ManualMove, QueueAgent, Reopen, table
  <2>4. ASSUME NEW r \in WorkflowRun, CancelRun(r) PROVE RunnerInv'
    <3>1. Held => status'[x] \in {"running", "canceling"} /\ lease'[x] = "live"
      BY <1>h, <2>4 DEF CancelRun, CancelAttemptsOf
    <3> QED
      BY <1>k, <2>4, <2>n, <3>1 DEF CancelRun, wire
  <2>5. ASSUME NEW a \in Attempt, CancelAttempt(a) PROVE RunnerInv'
    <3>1. Held => status'[x] \in {"running", "canceling"}
      BY <1>h, <1>t, <2>5 DEF CancelAttempt, StatusFun
    <3> QED
      BY <1>h, <1>k, <2>5, <2>n, <3>1 DEF CancelAttempt, claim, wire
  <2>6. CASE ToggleScript \/ PublishWorkflow
    BY <1>u, <2>6, <2>n DEF ToggleScript, PublishWorkflow, table
  <2> QED
    BY <1>1, <2>1, <2>2, <2>3, <2>4, <2>5, <2>6 DEF OperatorStep
<1>2. ASSUME NEW r \in WorkflowRun, AgentStep(r) \/ CancelFinish(r) PROVE RunnerInv'
  <2>1. UNCHANGED <<status, claim, wire>>
    BY <1>2 DEF AgentStep, AgentStarts, AgentDone, AgentFails, CancelFinish, table
  <2> QED
    BY <1>2, <1>u, <2>1 DEF Next
<1>3. CASE RunnerStep
  <2>n. Next
    BY <1>3 DEF Next
  <2>1. CASE Claim
    <3>1. PICK a \in Attempt :
             /\ status[a] = "queued"
             /\ status' = [status EXCEPT ![a] = "running"]
             /\ lease' = [lease EXCEPT ![a] = "live"]
             /\ runner' = [at |-> a, phase |-> "claiming", slow |-> FALSE]
      BY <2>1 DEF Claim
    <3>2. \A o \in Outcomes : <<a, o>> \notin posts
      BY <3>1 DEF RunnerInv
    <3>3. status'[a] = "running" /\ lease'[a] = "live" /\ UNCHANGED posts
      BY <1>t, <2>1, <3>1 DEF Claim, TypeOK
    <3> QED
      BY <1>p, <2>n, <3>1, <3>2, <3>3 DEF RunnerInv
  <2>2. CASE ChildStarts \/ RenewRefused
    <3>1. UNCHANGED <<status, claim, posts>> /\ runner'.at = x /\ Busy /\ runner'.slow = runner.slow
      BY <1>t, <2>2 DEF ChildStarts, RenewRefused, table, TypeOK
    <3> QED
      BY <1>h, <1>k, <2>n, <3>1 DEF claim
  <2>3. ASSUME NEW o \in Outcomes, ChildDone(o) PROVE RunnerInv'
    <3>1. Busy /\ posts' = posts \cup {<<x, o>>} /\ runner' = IdleRunner
      BY <2>3 DEF ChildDone
    <3> QED
      BY <1>b, <1>p, <2>n, <3>1 DEF RunnerInv, IdleRunner
  <2>4. CASE CancelAck
    BY <1>g, <2>4, <2>n DEF CancelAck
  <2> QED
    BY <1>3, <2>1, <2>2, <2>3, <2>4 DEF RunnerStep
<1>4. ASSUME NEW a \in Attempt, LeaseLapses(a) PROVE RunnerInv'
  <2>1. /\ UNCHANGED <<status, posts>> /\ lease' = [lease EXCEPT ![a] = "lapsed"]
        /\ runner' = [runner EXCEPT !.slow = @ \/ runner.at = a]
    BY <1>4 DEF LeaseLapses
  <2>2. runner'.at = x /\ runner'.phase = runner.phase /\ (runner.slow \/ x = a => runner'.slow)
    BY <1>t, <2>1 DEF TypeOK
  <2>3. Held /\ ~runner'.slow => lease'[x] = "live"
    BY <1>h, <1>t, <2>1, <2>2 DEF TypeOK
  <2> QED
    BY <1>4, <1>h, <1>k, <2>1, <2>2, <2>3 DEF Next
<1>5. ASSUME NEW f \in Http, NEW a \in Attempt, NEW o \in Outcomes, Deliver(f, a, o) PROVE RunnerInv'
  <2>1. /\ status[a] = "completing" \/ (status[a] = "running" /\ <<a, o>> \in posts)
        /\ lease' = lease \/ lease' = [lease EXCEPT ![a] = "none"]
    BY <1>5 DEF Deliver
  <2>2. Held => x # a
    BY <1>h, <2>1
  <2>3. \A y \in Attempt : y # a => status'[y] = status[y]
    <3>1. PICK S \in {status, [status EXCEPT ![a] = "completing"]} :
             BeginFinalize(f, a, S) /\ S[a] = "completing"
      BY <1>5, <1>t DEF Deliver, StatusFun
    <3>2. status' = S
      BY <3>1 DEF BeginFinalize, NeedsEvidence
    <3> QED
      BY <1>t, <3>2 DEF StatusFun
  <2>4. Held => status'[x] = status[x] /\ lease'[x] = lease[x]
    BY <1>h, <1>t, <2>1, <2>2, <2>3 DEF TypeOK
  <2> QED
    BY <1>5, <1>h, <1>k, <2>4 DEF Next, Delivery, Deliver, wire
<1>6. ASSUME NEW f \in Finalizer, FinalizerStep(f) PROVE RunnerInv'
  <2>n. Next
    BY <1>6 DEF Next
  <2>1. CASE SaveArtifact(f)
    BY <1>u, <2>1, <2>n DEF SaveArtifact
  <2>2. CASE Finish(f)
    <3> DEFINE a == fin[f].at
               S == IF Settles(f) THEN [status EXCEPT ![a] = outcome[a]] ELSE status
    <3>1. a \in Attempt /\ status[a] # "none" /\ Advance(a, S) /\ UNCHANGED <<claim, wire>>
      BY <1>t, <2>2 DEF Finish, TypeOK, RowsExist
    <3>2. Settles(f) => status[a] = "completing" /\ outcome[a] \in Outcomes
      BY <1>t, <3>1 DEF Settles, RowsExist
    <3>3. S \in StatusFun /\ (Held => S[x] = status[x])
      BY <1>h, <1>t, <3>1, <3>2, StatusFacts DEF StatusFun
    <3> HIDE DEF S
    <3>4. Held => status'[x] = status[x]
      BY <1>h, <3>1, <3>3, AdvanceSpares
    <3> QED
      BY <1>h, <1>k, <2>n, <3>1, <3>4 DEF claim, wire
  <2> QED
    BY <1>6, <2>1, <2>2 DEF FinalizerStep
<1>7. CASE SweepRun
  <2>n. Next
    BY <1>7 DEF Next
  <2>1. CASE SweepStart
    <3>1. Held => status'[x] = status[x] /\ lease'[x] = lease[x]
      BY <1>h, <2>1 DEF SweepStart, Expired, Disabled, CancelExpired
    <3> QED
      BY <1>h, <1>k, <2>1, <2>n, <3>1 DEF SweepStart, wire
  <2>2. CASE SweepStep
    <3>1. PICK a \in sweep : BeginFinalize(Recovery, a, status)
      BY <2>2 DEF SweepStep
    <3>2. a \in Attempt /\ status[a] # "none" /\ UNCHANGED <<claim, wire>>
      BY <1>t, <2>2, <3>1 DEF TypeOK, RowsExist, SweepStep
    <3>3. Held => status'[x] = status[x]
      BY <1>h, <1>t, <3>1, <3>2, AdvanceSpares DEF BeginFinalize
    <3> QED
      BY <1>h, <1>k, <2>n, <3>2, <3>3 DEF claim, wire
  <2> QED
    BY <1>7, <2>1, <2>2 DEF SweepRun
<1>8. CASE FaultStep
  <2>n. Next
    BY <1>8 DEF Next
  <2>1. CASE RunnerGivesUp
    BY <1>g, <2>1, <2>n DEF RunnerGivesUp
  <2>2. CASE RenewLost
    <3>1. UNCHANGED <<status, claim, posts>> /\ runner'.at = x /\ Busy /\ runner'.slow = runner.slow
      BY <1>t, <2>2 DEF RenewLost, table, TypeOK
    <3> QED
      BY <1>h, <1>k, <2>n, <3>1 DEF claim
  <2>3. CASE SiteCrash \/ \E f \in Finalizer : SaveFails(f)
    BY <1>u, <2>3, <2>n DEF SiteCrash, SaveFails, table
  <2> QED
    BY <1>8, <2>1, <2>2, <2>3 DEF FaultStep
<1>9. CASE UNCHANGED vars
  BY <1>9 DEF vars, RunnerInv, table, claim, wire
<1> QED
  BY <1>1, <1>2, <1>3, <1>4, <1>5, <1>6, <1>7, <1>8, <1>9 DEF Next, Delivery

\* The child of an attempt never runs beside the agent or the attempt that
\* replaces it, whatever is cancelled, lost, delivered late or recovered
\* meanwhile, unless its lease lapsed before the response to its claim came.
THEOREM ChildAlone == Spec => []ChildRunsAlone
<1>1. Init => RunnerInv
  BY DEF Init, RunnerInv, IdleRunner
<1>2. HistoryInv /\ RunnerInv /\ [Next]_vars => RunnerInv'
  BY RunnerNext
<1>3. Spec => []RunnerInv
  BY <1>1, <1>2, HistoryInvariant, PTL DEF Spec
<1>4. HistoryInv /\ OneExecutor /\ RunnerInv => ChildRunsAlone
  <2> SUFFICES ASSUME HistoryInv, OneExecutor, RunnerInv,
                      runner.phase \in {"executing", "stopping"}, ~runner.slow
               PROVE  LET r == owner[runner.at]
                      IN ~AgentOn(r) /\ \A a \in Attempt : owner[a] = r /\ Active(a) => a = runner.at
    BY DEF ChildRunsAlone
  <2>1. runner.at \in Attempt /\ Active(runner.at)
    BY DEF HistoryInv, TypeInv, TypeOK, RowsExist, RunnerInv, Active, ActiveStatus
  <2>2. owner[runner.at] \in WorkflowRun
    BY <2>1 DEF HistoryInv, TypeInv, RowsExist, Active, ActiveStatus
  <2> QED
    BY <2>1, <2>2 DEF OneExecutor, ActiveOn
<1> QED
  BY <1>3, <1>4, HistoryInvariant, ExecutionOwned, PTL
-----------------------------------------------------------------------------
(* The refinement.  Seen through Phase and the verdict, a Move of a row is  *)
(* one of the moves of StepOutcome, and every action is a step of it or     *)
(* leaves it unchanged.                                                     *)

Verdict(a) == IF status[a] \in Outcomes THEN status[a] ELSE "none"
Phases == {"absent", "open", "decided", "applied", "dropped"}

LEMMA PhaseFacts ==
    ASSUME TypeOK, NEW a \in Attempt
    PROVE  /\ status[a] = "none" => Phase(a) = "absent"
           /\ status[a] \in ActiveStatus => Phase(a) = "open"
           /\ status[a] \in {"canceled", "superseded"} => Phase(a) = "dropped"
           /\ status[a] \in Outcomes => Phase(a) = IF advanced[a] THEN "applied" ELSE "decided"
           /\ Phase(a) \in Phases
           /\ Phase(a) = "absent" => status[a] = "none"
           /\ status[a] \in Status
BY DEF TypeOK, Phase, Phases, Status, ActiveStatus, Outcomes

LEMMA PhaseFactsPrime ==
    ASSUME TypeOK', NEW a \in Attempt
    PROVE  /\ status'[a] = "none" => Phase(a)' = "absent"
           /\ status'[a] \in ActiveStatus => Phase(a)' = "open"
           /\ status'[a] \in {"canceled", "superseded"} => Phase(a)' = "dropped"
           /\ status'[a] \in Outcomes => Phase(a)' = IF advanced'[a] THEN "applied" ELSE "decided"
           /\ Phase(a)' \in Phases
           /\ status'[a] \in Status
BY DEF TypeOK, Phase, Phases, Status, ActiveStatus, Outcomes

Stays(x) == Phase(x)' = Phase(x) /\ Verdict(x)' = Verdict(x)
Appears(x) == /\ Phase(x) = "absent" /\ Phase(x)' = "open" /\ Verdict(x)' = Verdict(x)
              /\ x = rows + 1 /\ rows' = x
Vanishes(x) == Phase(x) = "open" /\ Phase(x)' = "dropped" /\ Verdict(x)' = Verdict(x)
Decides(x) == Phase(x) = "open" /\ Phase(x)' = "decided" /\ Verdict(x)' \in Outcomes

\* A status that moves alone.
LEMMA StatusMovePhase ==
    ASSUME HistoryInv, TypeOK', NEW x \in Attempt, StatusMove(x)
    PROVE  Stays(x) \/ Appears(x) \/ Vanishes(x)
<1>t. TypeOK /\ status[x] \in Status /\ advanced[x] \in BOOLEAN
  BY DEF HistoryInv, TypeInv, TypeOK
<1>1. CASE status'[x] = status[x]
  BY <1>1, <1>t DEF StatusMove, Stays, Phase, Verdict
<1>2. CASE status[x] = "none" /\ status'[x] = "queued" /\ x = rows + 1 /\ rows' = x
  BY <1>2, <1>t, PhaseFacts, PhaseFactsPrime DEF Appears, Verdict, Outcomes, ActiveStatus
<1>3. CASE \/ status[x] = "queued" /\ status'[x] = "running"
           \/ status[x] = "running" /\ status'[x] = "canceling"
  BY <1>3, <1>t, PhaseFacts, PhaseFactsPrime DEF Stays, Verdict, Outcomes, ActiveStatus
<1>4. CASE status[x] \in {"queued", "canceling", "completing"} /\ status'[x] = "canceled"
  BY <1>4, <1>t, PhaseFacts, PhaseFactsPrime DEF Vanishes, Verdict, Outcomes, ActiveStatus
<1> QED
  BY <1>1, <1>2, <1>3, <1>4 DEF StatusMove

LEMMA AcceptMovePhase ==
    ASSUME HistoryInv, TypeOK', NEW x \in Attempt, AcceptMove(x)
    PROVE  Stays(x)
BY PhaseFacts, PhaseFactsPrime DEF HistoryInv, TypeInv, AcceptMove, Stays, Verdict, Outcomes, ActiveStatus

LEMMA FailMovePhase ==
    ASSUME HistoryInv, TypeOK', NEW x \in Attempt, FailMove(x)
    PROVE  Decides(x)
<1>1. ~advanced'[x]
  BY DEF HistoryInv, RowInv, FailMove, Outcomes
<1> QED
  BY <1>1, PhaseFacts, PhaseFactsPrime
     DEF HistoryInv, TypeInv, FailMove, Decides, Verdict, Outcomes, ActiveStatus

\* A verdict that is settled and no more.
LEMMA SettlePhase ==
    ASSUME HistoryInv, TypeOK', NEW x \in Attempt, Given(x) \in Outcomes, ~advanced[x],
           status'[x] = Given(x), ~advanced'[x]
    PROVE  Stays(x) \/ Decides(x)
BY PhaseFacts, PhaseFactsPrime
   DEF HistoryInv, TypeInv, Given, Stays, Decides, Verdict, ActiveStatus

-----------------------------------------------------------------------------
(* The kinds of step.                                                      *)

\* Nobody moves and nothing is inserted.
LEMMA Deciding ==
    ASSUME TypeOK', UNCHANGED <<pos, owner, step>>,
           \A x \in Attempt : Stays(x) \/ Vanishes(x) \/ Decides(x)
    PROVE  Promise!Next
<1>1. \A x \in Attempt : Phase(x)' \in Phases
  BY PhaseFactsPrime
<1>2. \A x \in Attempt : Verdict(x)' \in Outcomes \cup {"none"}
  BY DEF Verdict
<1>3. Promise!Decide
  BY <1>1, <1>2 DEF Promise!Decide, Promise!Verdict, Stays, Vanishes, Decides, Verdict, Phases, Outcomes
<1> QED
  BY <1>3 DEF Promise!Next

\* An operator or an agent moves a run, drops its attempts, or opens one.
LEMMA Operating ==
    ASSUME TypeOK, TypeOK', NEW r \in WorkflowRun, NEW s \in Step,
           pos' = [pos EXCEPT ![r] = s], UNCHANGED <<owner, step>>,
           \A x \in Attempt : Stays(x) \/ Vanishes(x)
    PROVE  Promise!Next
<1> DEFINE A == {x \in Attempt : Vanishes(x) /\ ~Stays(x)}
<1>1. \A x \in Attempt : Phase(x)' \in Phases /\ Verdict(x)' = Verdict(x)
  BY PhaseFactsPrime DEF Stays, Vanishes
<1>2. A \in SUBSET {x \in Attempt : Phase(x) = "open"}
  BY DEF Vanishes
<1>3. \A x \in A : Phase(x)' = "dropped"
  BY DEF Vanishes
<1>4. \A x \in Attempt \ A : Phase(x)' = Phase(x)
  BY DEF Stays, Vanishes
<1> HIDE DEF A
<1>5. Promise!Operate
  BY <1>1, <1>2, <1>3, <1>4
     DEF Promise!Operate, Promise!Opens, Promise!OpenedOnly, Verdict, Phases
<1> QED
  BY <1>5 DEF Promise!Next

\* What an insert of row z looks like from outside.
Born(z, r, s) ==
    /\ Appears(z)
    /\ owner' = [owner EXCEPT ![z] = r] /\ owner[z] = "none"
    /\ step' = [step EXCEPT ![z] = s]

LEMMA InsertIsBirth ==
    ASSUME HistoryInv, TypeOK', NEW r \in WorkflowRun, NEW s \in Step, NEW b \in BOOLEAN,
           NEW S \in StatusFun, Insert(r, s, b, S), \A x \in Attempt : StatusMove(x) \/ JudgeMove(x)
    PROVE  \E z \in Attempt : Born(z, r, s)
<1>1. PICK z \in Attempt : z = rows + 1 /\ rows' = z /\ z > rows /\ status'[z] = "queued"
  <2>1. rows \in Nat /\ rows + 1 \in Attempt /\ rows' = rows + 1
    BY BoundAssumption DEF HistoryInv, TypeInv, TypeOK, Insert, Attempt
  <2> QED
    BY <2>1 DEF Insert, StatusFun
<1>2. status[z] = "none" /\ owner[z] = "none" /\ TypeOK
  BY <1>1 DEF HistoryInv, RowInv, TypeInv
<1>3. Phase(z) = "absent" /\ Phase(z)' = "open"
  BY <1>1, <1>2, PhaseFacts, PhaseFactsPrime DEF ActiveStatus
<1>4. Verdict(z)' = Verdict(z)
  BY <1>1, <1>2 DEF Verdict, Outcomes
<1> QED
  BY <1>1, <1>2, <1>3, <1>4 DEF Born, Insert, Appears

LEMMA BirthOpens ==
    ASSUME NEW z \in Attempt, NEW r \in WorkflowRun, NEW s \in Step, Born(z, r, s), pos'[r] = s
    PROVE  Promise!Opens
<1>1. /\ Phase(z) = "absent" /\ Phase(z)' = "open"
      /\ owner' = [owner EXCEPT ![z] = r]
      /\ step' = [step EXCEPT ![z] = pos'[r]]
  BY DEF Born, Appears
<1> QED
  BY <1>1 DEF Promise!Opens

\* An operator opens an attempt where the run is after the step.
LEMMA Opening ==
    ASSUME TypeOK, TypeOK', NEW z \in Attempt, NEW r \in WorkflowRun, NEW s \in Step,
           pos' = [pos EXCEPT ![r] = s], Born(z, r, s),
           \A x \in Attempt : Stays(x) \/ Appears(x)
    PROVE  Promise!Next
<1>1. \A x \in Attempt : Phase(x)' \in Phases /\ Verdict(x)' = Verdict(x)
  BY PhaseFactsPrime DEF Stays, Appears
<1>2. owner'[z] = r /\ owner'[z] # owner[z] /\ pos'[r] = s
  BY WorkflowAssumption DEF Born, TypeOK
<1>3. \A x \in Attempt : Phase(x)' # Phase(x) => x = z
  BY DEF Stays, Appears, Born
<1>4. Phase(z) = "absent" /\ Phase(z)' = "open"
  BY DEF Born, Appears
<1>5. Promise!Opens
  BY <1>2, BirthOpens
<1>6. Promise!OpenedOnly(Attempt \ {})
  BY <1>2, <1>3, <1>4 DEF Promise!OpenedOnly
<1>7. Promise!Operate
  BY <1>1, <1>5, <1>6 DEF Promise!Operate, Verdict, Phases
<1> QED
  BY <1>7 DEF Promise!Next

Edges == [completed |-> OnCompleted, no_op |-> OnNoOp, escalate |-> OnFallback, failed |-> OnFallback]

\* A verdict takes effect.
LEMMA Applying ==
    ASSUME TypeOK, TypeOK', NEW a \in Attempt, owner[a] \in WorkflowRun, step[a] \in Step,
           Phase(a) \in {"open", "decided"}, Phase(a)' = "applied", Verdict(a)' \in Outcomes,
           Phase(a) = "decided" => Verdict(a)' = Verdict(a),
           pos[owner[a]] = step[a],
           \A x \in Attempt : x # a => Stays(x) \/ Appears(x),
           NEW s \in Step,
           \/ s = Edges[Verdict(a)'][step[a]]
           \/ s = step[a] /\ Verdict(a)' = "failed",
           pos' = [pos EXCEPT ![owner[a]] = s],
           \/ UNCHANGED <<owner, step>> /\ \A x \in Attempt : x # a => Stays(x)
           \/ \E z \in Attempt : Born(z, owner[a], s)
    PROVE  Promise!Next
<1> DEFINE r == owner[a]
<1>1. \A x \in Attempt : Phase(x)' \in Phases
  BY PhaseFactsPrime
<1>2. \A x \in Attempt : x # a => Verdict(x)' = Verdict(x)
  BY DEF Stays, Appears
<1>3. pos'[r] = s
  BY DEF TypeOK
<1>4. Promise!OpenedOnly(Attempt \ {a}) /\ Promise!Opens
  <2>1. CASE UNCHANGED <<owner, step>> /\ \A x \in Attempt : x # a => Stays(x)
    BY <2>1 DEF Promise!OpenedOnly, Promise!Opens, Stays
  <2>2. ASSUME NEW z \in Attempt, Born(z, r, s)
        PROVE  Promise!OpenedOnly(Attempt \ {a}) /\ Promise!Opens
    <3>1. owner'[z] = r /\ owner'[z] # owner[z]
      BY <2>2, WorkflowAssumption DEF Born, TypeOK
    <3>2. \A x \in Attempt : x # a /\ Phase(x)' # Phase(x) => x = z
      BY <2>2 DEF Stays, Appears, Born
    <3>3. Phase(z) = "absent" /\ Phase(z)' = "open"
      BY <2>2 DEF Born, Appears
    <3>4. Promise!Opens
      BY <1>3, <2>2, BirthOpens
    <3>5. Promise!OpenedOnly(Attempt \ {a})
      BY <3>1, <3>2, <3>3 DEF Promise!OpenedOnly
    <3> QED
      BY <3>4, <3>5
  <2> QED
    BY <2>1, <2>2
<1>5. \/ pos' = [pos EXCEPT ![r] = Edges[Verdict(a)'][step[a]]]
      \/ Verdict(a)' = "failed" /\ UNCHANGED pos
  <2>1. s = pos[r] => pos' = pos
    BY DEF TypeOK
  <2> QED
    BY <2>1
<1>6. Promise!Apply(a)
  <2>1. /\ Phase(a) \in {"open", "decided"} /\ Phase(a)' = "applied"
        /\ Verdict(a)' \in Promise!Verdict
        /\ Phase(a) = "decided" => Verdict(a)' = Verdict(a)
    BY DEF Promise!Verdict, Outcomes
  <2>2. [x \in Attempt |-> Verdict(x)]' = [[x \in Attempt |-> Verdict(x)] EXCEPT ![a] = Verdict(a)']
    BY <1>2
  <2> QED
    BY <1>1, <1>4, <1>5, <2>1, <2>2 DEF Promise!Apply, Verdict, Phases, Edges
<1> QED
  BY <1>6 DEF Promise!Next

-----------------------------------------------------------------------------
(* The steps.                                                              *)

LEMMA AdvancePromise ==
    ASSUME HistoryInv, TypeOK', NEW a \in Attempt, status[a] # "none",
           NEW S \in StatusFun, Advance(a, S), UNCHANGED outcome,
           \A x \in Attempt : x # a => S[x] = status[x],
           S[a] \in {status[a], Given(a)},
           Ready(a, S) => receipt'[a] /\ saved'[a] = Artifacts
    PROVE  Promise!Next
<1> DEFINE r == owner[a]
<1>t. /\ TypeOK /\ TypeInv /\ RowInv /\ status \in StatusFun
      /\ advanced \in [Attempt -> BOOLEAN] /\ advanced' \in [Attempt -> BOOLEAN]
      /\ r \in WorkflowRun /\ step[a] \in Step
  BY DEF HistoryInv, TypeInv, RowsExist, TypeOK, StatusFun
<1>m. /\ \A x \in Attempt : StatusMove(x) \/ (x = a /\ JudgeMove(x))
      /\ \A x \in Attempt : x # a => status'[x] = status[x] \/ status[x] = "none"
  BY <1>t, AdvanceMoves
<1>x. ASSUME NEW x \in Attempt, x # a PROVE Stays(x) \/ Appears(x)
  <2>1. StatusMove(x)
    BY <1>m, <1>x
  <2>2. Vanishes(x) => status[x] # status'[x] /\ status[x] # "none"
    BY <1>t, <2>1, PhaseFacts DEF Vanishes, Phase, StatusMove
  <2> QED
    BY <1>m, <1>x, <2>1, <2>2, StatusMovePhase
<1>b. rows' = rows => \A x \in Attempt : ~Appears(x)
  <2>1. rows \in Nat
    BY <1>t, BoundAssumption DEF TypeOK
  <2> QED
    BY <2>1 DEF Appears
<1>g. Ready(a, S) => /\ ~advanced[a] /\ Given(a) = S[a] /\ S[a] \in Outcomes
                     /\ Phase(a) \in {"open", "decided"}
                     /\ Phase(a) = "decided" => Verdict(a) = S[a]
  <2> SUFFICES ASSUME Ready(a, S)
               PROVE  /\ ~advanced[a] /\ Given(a) = S[a] /\ S[a] \in Outcomes
                      /\ Phase(a) \in {"open", "decided"}
                      /\ Phase(a) = "decided" => Verdict(a) = S[a]
    OBVIOUS
  <2>1. ~advanced[a] /\ Given(a) = S[a] /\ S[a] \in Outcomes
    BY DEF Ready, Given, Outcomes
  <2>2. CASE status[a] = "completing"
    BY <1>t, <2>1, <2>2, PhaseFacts DEF ActiveStatus
  <2>3. CASE status[a] # "completing"
    <3>1. status[a] = S[a]
      BY <2>1, <2>3 DEF Given
    <3> QED
      BY <1>t, <2>1, <3>1, PhaseFacts DEF Verdict
  <2> QED
    BY <2>1, <2>2, <2>3
<1>1. CASE Ignore(a, S) \/ RolledBack(a, S)
  <2>1. UNCHANGED <<pos, owner, step, rows, advanced>>
    BY <1>1 DEF Ignore, RolledBack, identity, workflow
  <2>2. Stays(a) \/ Vanishes(a) \/ Decides(a)
    <3>1. CASE StatusMove(a)
      BY <1>b, <2>1, <3>1, StatusMovePhase
    <3>2. CASE JudgeMove(a)
      <4>1. ~advanced[a] /\ ~advanced'[a] /\ Given(a) \in Outcomes /\ status'[a] = Given(a)
        BY <2>1, <3>2 DEF JudgeMove
      <4> QED
        BY <4>1, SettlePhase
    <3> QED
      BY <1>m, <3>1, <3>2
  <2> QED
    BY <1>b, <1>x, <2>1, <2>2, Deciding
<1>2. CASE Supersede(a, S)
  <2>1. Ready(a, S) /\ UNCHANGED <<pos, owner, step, rows>> /\ status' = [S EXCEPT ![a] = "superseded"]
    BY <1>2 DEF Supersede, identity, workflow
  <2>2. \A x \in Attempt : x # a => Stays(x)
    BY <1>b, <1>x, <2>1
  <2>3. Phase(a)' = "dropped" /\ Verdict(a)' = "none"
    <3>1. status'[a] = "superseded"
      BY <2>1 DEF StatusFun
    <3> QED
      BY <3>1, PhaseFactsPrime DEF Verdict, Outcomes
  <2>4. Promise!Drop(a)
    <3>1. Phase(a) \in {"open", "decided"}
      BY <1>g, <2>1
    <3>2. /\ [x \in Attempt |-> Phase(x)]' = [[x \in Attempt |-> Phase(x)] EXCEPT ![a] = "dropped"]
          /\ [x \in Attempt |-> Verdict(x)]' = [[x \in Attempt |-> Verdict(x)] EXCEPT ![a] = "none"]
      BY <2>2, <2>3 DEF Stays
    <3> QED
      BY <2>1, <3>1, <3>2 DEF Promise!Drop, Verdict
  <2> QED
    BY <2>4 DEF Promise!Next
\* An advanced attempt has applied its verdict.
<1>p. ASSUME Ready(a, S), advanced' = [advanced EXCEPT ![a] = TRUE],
             \/ status' = S
             \/ \E s \in Step, b \in BOOLEAN : Insert(r, s, b, S)
      PROVE  Phase(a)' = "applied" /\ Verdict(a)' = S[a]
  <2>1. status'[a] = S[a]
    BY <1>p, <1>t, InsertMoves DEF Ready, Outcomes
  <2>2. advanced'[a]
    BY <1>p, <1>t
  <2> QED
    BY <1>g, <1>p, <2>1, <2>2, PhaseFactsPrime DEF Verdict
<1>i. ASSUME NEW s \in Step, NEW b \in BOOLEAN, Insert(r, s, b, S)
      PROVE  \E z \in Attempt : Born(z, r, s)
  <2>1. \A x \in Attempt : StatusMove(x) \/ JudgeMove(x)
    BY <1>m
  <2> QED
    BY <1>i, <1>t, <2>1, InsertIsBirth
<1>k. ASSUME UNCHANGED identity
      PROVE  UNCHANGED <<owner, step>> /\ \A x \in Attempt : x # a => Stays(x)
  BY <1>b, <1>k, <1>x DEF identity
<1>3. CASE Retry(a, S)
  <2>1. /\ Ready(a, S) /\ pos[r] = step[a] /\ S[a] = "failed"
        /\ advanced' = [advanced EXCEPT ![a] = TRUE] /\ pos' = pos
        /\ (status' = S /\ UNCHANGED identity) \/ Insert(r, step[a], TRUE, S)
    BY <1>3 DEF Retry, Moved, Retries, workflow
  <2>2. pos' = [pos EXCEPT ![r] = step[a]]
    BY <1>t, <2>1 DEF TypeOK
  <2>3. Phase(a)' = "applied" /\ Verdict(a)' = S[a]
    BY <1>p, <1>t, <2>1
  <2>4. \/ UNCHANGED <<owner, step>> /\ \A x \in Attempt : x # a => Stays(x)
        \/ \E z \in Attempt : Born(z, r, step[a])
    BY <1>i, <1>k, <1>t, <2>1
  <2>5. PICK s \in Step : s = step[a]
    BY <1>t
  <2>6. /\ Verdict(a)' \in Outcomes /\ Phase(a) \in {"open", "decided"}
        /\ Phase(a) = "decided" => Verdict(a)' = Verdict(a)
        /\ Verdict(a)' = "failed"
    BY <1>g, <2>1, <2>3
  <2>7. /\ pos' = [pos EXCEPT ![r] = s]
        /\ \/ UNCHANGED <<owner, step>> /\ \A x \in Attempt : x # a => Stays(x)
           \/ \E z \in Attempt : Born(z, r, s)
    BY <2>2, <2>4, <2>5
  <2> QED
    BY <1>t, <1>x, <2>1, <2>3, <2>5, <2>6, <2>7, Applying
<1>4. CASE Route(a, S)
  <2> DEFINE s == Target(a, S)
  <2>1. /\ Ready(a, S) /\ pos[r] = step[a]
        /\ advanced' = [advanced EXCEPT ![a] = TRUE]
        /\ pos' = [pos EXCEPT ![r] = s]
        /\ (status' = S /\ UNCHANGED identity) \/ Insert(r, s, FALSE, S)
    BY <1>4 DEF Route, Moved, Enqueues
  <2>2. s \in Step /\ s = Edges[S[a]][step[a]]
    BY <1>g, <1>t, <2>1, WorkflowAssumption DEF Target, Edges, Outcomes
  <2> HIDE DEF s
  <2>3. Phase(a)' = "applied" /\ Verdict(a)' = S[a]
    BY <1>p, <2>1, <2>2
  <2>4. \/ UNCHANGED <<owner, step>> /\ \A x \in Attempt : x # a => Stays(x)
        \/ \E z \in Attempt : Born(z, r, s)
    BY <1>i, <1>k, <2>1, <2>2
  <2> QED
    BY <1>g, <1>t, <1>x, <2>1, <2>2, <2>3, <2>4, Applying
<1> QED
  BY <1>1, <1>2, <1>3, <1>4 DEF Advance

LEMMA PromiseNext == HistoryInv /\ [Next]_vars => [Promise!Next]_(Promise!vars)
<1> SUFFICES ASSUME HistoryInv, Next PROVE Promise!Next
  <2>1. UNCHANGED vars => UNCHANGED Promise!vars
    BY DEF vars, Promise!vars, identity, table, workflow, Phase
  <2> QED
    BY <2>1
<1>t. /\ TypeOK /\ TypeOK' /\ RowsExist
      /\ status \in StatusFun /\ pos \in [WorkflowRun -> Step]
  <2>1. TypeInv /\ TypeInv'
    BY TypeNext DEF HistoryInv
  <2> QED
    BY <2>1 DEF TypeInv, TypeOK, StatusFun
<1>b. rows' = rows => \A x \in Attempt : ~Appears(x)
  <2>1. rows \in Nat
    BY <1>t, BoundAssumption DEF TypeOK
  <2> QED
    BY <2>1 DEF Appears
<1>m. ASSUME UNCHANGED identity, NEW x \in Attempt, StatusMove(x) \/ AcceptMove(x) \/ FailMove(x)
      PROVE  Stays(x) \/ Vanishes(x) \/ Decides(x)
  BY <1>b, <1>m, <1>t, StatusMovePhase, AcceptMovePhase, FailMovePhase DEF identity
\* No workflow run moves, no verdict takes effect.
<1>d. ASSUME UNCHANGED <<identity, pos>>,
             \A x \in Attempt : StatusMove(x) \/ AcceptMove(x) \/ FailMove(x)
      PROVE  Promise!Next
  BY <1>d, <1>m, <1>t, Deciding DEF identity
<1>u. ASSUME UNCHANGED <<identity, pos, status, code, outcome, advanced>>
      PROVE  Promise!Next
  BY <1>d, <1>u DEF StatusMove
\* A workflow run moves.
<1>o. ASSUME NEW r \in WorkflowRun, NEW s \in Step, pos' = [pos EXCEPT ![r] = s],
             UNCHANGED <<identity, code, outcome, advanced>>, \A x \in Attempt : StatusMove(x)
      PROVE  Promise!Next
  <2>1. \A x \in Attempt : Stays(x) \/ Vanishes(x)
    BY <1>b, <1>o, <1>t, StatusMovePhase DEF identity
  <2> QED
    BY <1>o, <1>t, <2>1, Operating DEF identity
<1>v. ASSUME NEW r \in WorkflowRun, NEW s \in Step, pos' = [pos EXCEPT ![r] = s],
             UNCHANGED <<identity, status, code, outcome, advanced>>
      PROVE  Promise!Next
  BY <1>o, <1>v DEF StatusMove
\* An attempt is opened.
<1>i. ASSUME NEW r \in WorkflowRun, NEW s \in Step, pos' = [pos EXCEPT ![r] = s],
             Insert(r, s, FALSE, status), UNCHANGED <<code, outcome, advanced>>
      PROVE  Promise!Next
  <2>1. \A x \in Attempt : StatusMove(x) /\ (status'[x] = status[x] \/ status[x] = "none")
    BY <1>i, <1>t, InsertMoves DEF HistoryInv, StatusMove
  <2>2. \A x \in Attempt : Stays(x) \/ Appears(x)
    <3> SUFFICES ASSUME NEW x \in Attempt PROVE Stays(x) \/ Appears(x)
      OBVIOUS
    <3>1. Vanishes(x) => status[x] # status'[x] /\ status[x] # "none"
      BY <1>t, <2>1, PhaseFacts DEF Vanishes, Phase, StatusMove
    <3> QED
      BY <1>t, <2>1, <3>1, StatusMovePhase
  <2>3. PICK z \in Attempt : Born(z, r, s)
    BY <1>i, <1>t, <2>1, InsertIsBirth
  <2> QED
    BY <1>i, <1>t, <2>2, <2>3, Opening
<1>1. CASE OperatorStep
  <2>1. ASSUME NEW r \in WorkflowRun, ContinueScript(r) PROVE Promise!Next
    <3>1. PICK s \in Step : s = pos[r]
      BY <1>t
    <3>2. pos' = [pos EXCEPT ![r] = s] /\ Insert(r, s, FALSE, status)
      BY <1>t, <2>1, <3>1 DEF ContinueScript, workflow
    <3> QED
      BY <1>i, <2>1, <3>2 DEF ContinueScript, evidence
  <2>2. ASSUME NEW r \in WorkflowRun, NEW s \in Step, GateToScript(r, s) PROVE Promise!Next
    BY <1>i, <2>2 DEF GateToScript, evidence
  <2>3. ASSUME NEW r \in WorkflowRun, NEW s \in Step,
               GateToTerminal(r, s) \/ ManualMove(r, s) \/ Reopen(r, s)
        PROVE Promise!Next
    BY <1>v, <2>3 DEF GateToTerminal, ManualMove, Reopen, table, evidence
  <2>4. ASSUME NEW r \in WorkflowRun, NEW s \in Step, QueueAgent(r, s) PROVE Promise!Next
    BY <1>u, <2>4 DEF QueueAgent, table, evidence
  <2>5. ASSUME NEW r \in WorkflowRun, CancelRun(r) PROVE Promise!Next
    <3>1. UNCHANGED <<identity, code, outcome, advanced>>
      BY <2>5 DEF CancelRun, evidence
    <3>2. \A x \in Attempt : StatusMove(x)
      BY <2>5, <3>1 DEF CancelRun, CancelAttemptsOf, StatusMove
    <3>3. CASE UNCHANGED pos
      BY <1>d, <3>1, <3>2, <3>3
    <3>4. CASE Close(r)
      BY <1>o, <3>1, <3>2, <3>4, WorkflowAssumption DEF Close
    <3> QED
      BY <2>5, <3>3, <3>4 DEF CancelRun
  <2>6. ASSUME NEW a \in Attempt, CancelAttempt(a) PROVE Promise!Next
    <3>1. UNCHANGED <<identity, pos, code, outcome, advanced>>
      BY <2>6 DEF CancelAttempt, evidence, workflow
    <3>2. \A x \in Attempt : StatusMove(x)
      BY <1>t, <2>6, <3>1 DEF CancelAttempt, StatusMove, StatusFun
    <3> QED
      BY <1>d, <3>1, <3>2
  <2>7. CASE ToggleScript \/ PublishWorkflow
    BY <1>u, <2>7 DEF ToggleScript, PublishWorkflow, table, evidence, workflow
  <2> QED
    BY <1>1, <2>1, <2>2, <2>3, <2>4, <2>5, <2>6, <2>7 DEF OperatorStep
<1>2. ASSUME NEW r \in WorkflowRun, AgentStep(r) \/ CancelFinish(r) PROVE Promise!Next
  <2>1. UNCHANGED <<identity, status, code, outcome, advanced>>
    BY <1>2 DEF AgentStep, AgentStarts, AgentDone, AgentFails, CancelFinish, table, evidence
  <2>2. UNCHANGED pos \/ \E s \in Step : pos' = [pos EXCEPT ![r] = s]
    <3>1. job[r].step \in Step /\ OnCompleted[job[r].step] \in Step /\ Closed \in Step
      BY <1>t, WorkflowAssumption DEF TypeOK
    <3> QED
      BY <1>2, <3>1 DEF AgentStep, AgentStarts, AgentDone, AgentFails, CancelFinish, Close
  <2> QED
    BY <1>u, <1>v, <2>1, <2>2
<1>3. CASE RunnerStep
  <2>1. CASE Claim
    <3>1. UNCHANGED <<identity, pos, code, outcome, advanced>>
      BY <2>1 DEF Claim, evidence, workflow
    <3>2. \A x \in Attempt : StatusMove(x)
      BY <1>t, <2>1, <3>1 DEF Claim, StatusMove, StatusFun
    <3> QED
      BY <1>d, <3>1, <3>2
  <2>2. CASE CancelAck
    <3>1. UNCHANGED <<identity, pos, code, outcome, advanced>>
      BY <2>2 DEF CancelAck, evidence, workflow
    <3>2. \/ UNCHANGED status
          \/ status[runner.at] = "canceling" /\ status' = [status EXCEPT ![runner.at] = "canceled"]
      BY <2>2 DEF CancelAck
    <3>3. \A x \in Attempt : StatusMove(x)
      BY <1>t, <3>1, <3>2 DEF StatusMove, StatusFun
    <3> QED
      BY <1>d, <3>1, <3>3
  <2>3. CASE ChildStarts \/ RenewRefused \/ \E o \in Outcomes : ChildDone(o)
    BY <1>u, <2>3 DEF ChildStarts, RenewRefused, ChildDone, table, evidence, workflow
  <2> QED
    BY <1>3, <2>1, <2>2, <2>3 DEF RunnerStep
<1>4. ASSUME NEW a \in Attempt, LeaseLapses(a) PROVE Promise!Next
  BY <1>u, <1>4 DEF LeaseLapses, evidence, workflow
<1>5. ASSUME NEW f \in Http, NEW a \in Attempt, NEW o \in Outcomes, Deliver(f, a, o) PROVE Promise!Next
  <2>1. PICK S \in {status, [status EXCEPT ![a] = "completing"]} :
           /\ BeginFinalize(f, a, S) /\ S[a] = "completing"
    BY <1>5, <1>t DEF Deliver, StatusFun
  <2>2. UNCHANGED <<identity, pos, code, advanced>>
    BY <2>1 DEF BeginFinalize, NeedsEvidence, workflow
  <2>3. \A x \in Attempt : Move(x)
    BY StepMoves DEF Moves
  <2>4. \A x \in Attempt : ~JudgeMove(x) \/ Stays(x)
    <3>1. status' = S
      BY <2>1 DEF BeginFinalize, NeedsEvidence
    <3>2. \A x \in Attempt : x # a => status'[x] = status[x]
      BY <1>t, <2>1, <3>1 DEF StatusFun
    <3>3. ~JudgeMove(a)
      BY <2>1, <3>1 DEF JudgeMove, Given, Outcomes
    <3> QED
      BY <2>2, <3>2, <3>3 DEF Stays, Phase, Verdict
  <2>5. \A x \in Attempt : Stays(x) \/ Vanishes(x) \/ Decides(x)
    BY <1>m, <2>2, <2>3, <2>4 DEF Move
  <2> QED
    BY <1>t, <2>2, <2>5, Deciding DEF identity
<1>6. ASSUME NEW f \in Finalizer, FinalizerStep(f) PROVE Promise!Next
  <2>1. CASE SaveArtifact(f)
    BY <1>u, <2>1 DEF SaveArtifact, workflow
  <2>2. CASE Finish(f)
    <3>1. PICK a \in Attempt : a = fin[f].at
      BY <1>t, <2>2 DEF Finish, TypeOK
    <3> DEFINE S == IF Settles(f) THEN [status EXCEPT ![a] = outcome[a]] ELSE status
    <3>2. status[a] # "none" /\ Advance(a, S) /\ UNCHANGED outcome
      BY <1>t, <2>2, <3>1 DEF Finish, TypeOK, RowsExist
    <3>3. Settles(f) => status[a] = "completing" /\ outcome[a] \in Outcomes
      BY <1>t, <3>1 DEF Settles, RowsExist
    <3>4. /\ S \in StatusFun
          /\ \A x \in Attempt : x # a => S[x] = status[x]
          /\ S[a] \in {status[a], Given(a)}
      BY <1>t, <3>3, StatusFacts DEF StatusFun, Given
    <3>5. Ready(a, S) => receipt'[a] /\ saved'[a] = Artifacts
      BY <2>2, <3>1, FinishEvidence
    <3> HIDE DEF S
    <3> QED
      BY <3>2, <3>4, <3>5, <1>t, AdvancePromise
  <2> QED
    BY <1>6, <2>1, <2>2 DEF FinalizerStep
<1>7. CASE SweepRun
  <2>1. CASE SweepStart
    <3>1. UNCHANGED <<identity, pos, advanced, outcome>>
      BY <2>1 DEF SweepStart, evidence, workflow
    <3>2. \A x \in Attempt : StatusMove(x) \/ FailMove(x)
      BY <2>1, <3>1 DEF SweepStart, Expired, Disabled, CancelExpired, StatusMove, FailMove
    <3> QED
      BY <1>d, <3>1, <3>2
  <2>2. CASE SweepStep
    <3>1. PICK a \in Attempt : a \in sweep /\ BeginFinalize(Recovery, a, status)
      BY <1>t, <2>2 DEF SweepStep, TypeOK
    <3>2. status[a] # "none" /\ UNCHANGED evidence
      BY <1>t, <2>2, <3>1 DEF RowsExist, SweepStep
    <3>3. CASE NeedsEvidence(a, status)
      BY <1>u, <3>1, <3>2, <3>3 DEF BeginFinalize, evidence, workflow
    <3>4. CASE ~NeedsEvidence(a, status)
      <4>1. Advance(a, status)
        BY <3>1, <3>4 DEF BeginFinalize
      <4>2. Ready(a, status) => receipt'[a] /\ saved'[a] = Artifacts
        BY <3>2, <3>4 DEF Ready, NeedsEvidence, HistoryInv, EvidenceInv, evidence
      <4> QED
        BY <1>t, <3>2, <4>1, <4>2, AdvancePromise DEF evidence
    <3> QED
      BY <3>3, <3>4
  <2> QED
    BY <1>7, <2>1, <2>2 DEF SweepRun
<1>8. CASE FaultStep
  BY <1>u, <1>8 DEF FaultStep, RunnerGivesUp, RenewLost, SiteCrash, SaveFails, table, evidence, workflow
<1> QED
  BY <1>1, <1>2, <1>3, <1>4, <1>5, <1>6, <1>7, <1>8 DEF Next, Delivery

LEMMA PromiseInit == Init => Promise!Init
<1> SUFFICES ASSUME Init PROVE Promise!Init
  OBVIOUS
<1>1. TypeOK
  BY TypeInit DEF TypeInv
<1>2. \A x \in Attempt : Phase(x) = "absent" /\ status[x] \notin Outcomes
  BY <1>1, PhaseFacts DEF Init, Outcomes
<1>3. /\ [x \in Attempt |-> Phase(x)] = [x \in Attempt |-> "absent"]
      /\ [x \in Attempt |-> IF status[x] \in Outcomes THEN status[x] ELSE "none"]
           = [x \in Attempt |-> "none"]
  BY <1>2
<1> QED
  BY <1>3 DEF Init, Promise!Init

\* The executor with its leases, finalizers, sweeps, faults and operators
\* implements StepOutcome: one verdict per attempt, applied at most once, at
\* the step the attempt was opened for, along the verdict's edge.
THEOREM PromiseKept == Spec => KeepsPromise
<1>1. Spec => [][Promise!Next]_(Promise!vars)
  BY HistoryInvariant, PromiseNext, PTL DEF Spec
<1>2. Spec => Promise!Init
  BY PromiseInit DEF Spec
<1> QED
  BY <1>1, <1>2 DEF KeepsPromise, Promise!Spec
=============================================================================

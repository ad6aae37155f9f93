--------------------------- MODULE WorkflowScripts ---------------------------
(***************************************************************************)
(* The life of a workflow script attempt: the table workflow_script_runs   *)
(* of the Site, the routes and the recovery loop that move its rows, the   *)
(* Task Runner that executes them, and the position of the workflow runs   *)
(* that the attempts advance.                                              *)
(*                                                                         *)
(* Every Site operation that touches the database runs to its end before   *)
(* another one starts (better-sqlite3 is synchronous), so an action is the *)
(* code between two awaits.  What interleaves is: requests of the runner,  *)
(* operator requests, the heartbeat's recovery loop, the artifact writes   *)
(* of several finalizers, lease expiry, and crashes of either process.     *)
(***************************************************************************)
EXTENDS Naturals, FiniteSets

CONSTANTS
    WorkflowRun,    \* workflow runs (one per request)
    Step,           \* step keys of the workflow
    Kind,           \* [Step -> {"script","agent","gate","terminal"}]
    OnCompleted,    \* [Step -> Step]: step.next (a gate's "approve")
    OnNoOp,         \* [Step -> Step]: scriptConfig.noOpNextStepKey ?? step.next
    OnFallback,     \* [Step -> Step]: scriptConfig.fallbackStepKey (a gate's "reject")
    Entry,          \* the workflow's entrypoint
    Closed,         \* its first terminal step
    Http,           \* concurrent POST .../complete handlers
    Recovery,       \* the recovery loop of the dispatcher heartbeat
    RecoverLimit,   \* LIMIT of listUnadvancedWorkflowScriptRuns
    Artifacts,      \* artifacts saved per attempt: receipt, input, result
    MaxAttempts,    \* bound: rows of workflow_script_runs
    MaxOps,         \* bound: operator and admin requests
    MaxFaults       \* bound: crashes and lost responses

Outcomes == {"completed", "no_op", "escalate", "failed"}

\* Mutated: a canceling attempt no longer counts as the executor.
ActiveStatus_NoCanceling == {"queued", "running", "completing"}
ActiveStatus == {"queued", "running", "canceling", "completing"}
Status == {"none", "queued", "running", "canceling", "completing",
           "canceled", "superseded"} \cup Outcomes
Attempt == 1..MaxAttempts
Finalizer == Http \cup {Recovery}

\* What validateWorkflowScriptSteps enforces on an installed workflow.
ASSUME WorkflowAssumption ==
    /\ Kind \in [Step -> {"script", "agent", "gate", "terminal"}]
    /\ OnCompleted \in [Step -> Step]
    /\ OnNoOp \in [Step -> Step]
    /\ OnFallback \in [Step -> Step]
    /\ Entry \in Step
    /\ Closed \in Step /\ Kind[Closed] = "terminal"
    /\ "none" \notin WorkflowRun       \* the owner of a row that does not exist
    /\ \A s \in Step : Kind[s] = "script" =>
          /\ Kind[OnFallback[s]] = "agent"
          /\ OnNoOp[s] = OnCompleted[s] \/ Kind[OnNoOp[s]] = "terminal"

ASSUME BoundAssumption ==
    /\ Artifacts \in Nat /\ RecoverLimit \in Nat \ {0}
    /\ MaxAttempts \in Nat /\ MaxOps \in Nat /\ MaxFaults \in Nat
    /\ Recovery \notin Http

VARIABLES
    \* workflow_script_runs: the columns written once, by the insert
    owner,      \* workflow_run_id
    step,       \* step_key
    try,        \* attempt, counted per run and step
    pinned,     \* policy_json.workflowVersion
    auto,       \* TRUE for a row inserted by the automatic retry
    \* workflow_script_runs: the columns later updates change
    status,
    lease,      \* lease_expires_at: "none", "live" (in the future), "lapsed"
    token,      \* lease_token IS NOT NULL (a row is claimed at most once)
    outcome,    \* output_json.outcome
    code,       \* error_code
    saved,      \* request_artifacts of the attempt that exist, in order
    receipt,    \* receipt_artifact_id IS NOT NULL
    advanced,   \* advancement_at IS NOT NULL
    \* workflow_runs and agent_runs
    pos,        \* current_step_key
    wstat,      \* workflow_runs.status
    job,        \* the active agent run of the workflow run: [phase, step]
    cancelling, \* a cancel route awaits the runtime's answer
    \* the installed workflow and script
    env,        \* [enabled |-> task_scripts.enabled, version |-> workflow.version]
    \* the Task Runner and the network
    runner,     \* [at |-> attempt or 0, phase |-> ..., slow |-> the lease lapsed while
                \* the response to the claim was under way: history]
    posts,      \* completion requests sent, <<attempt, outcome>>
    \* in-memory state of the Site process
    fin,        \* finalizers: [at |-> attempt or 0, snap |-> status, next |-> artifact]
    sweep,      \* rows the recovery loop has still to finalize
    \* bookkeeping of the bounds
    rows, ops, faults

identity == <<owner, step, try, pinned, auto, rows>>
claim    == <<lease, token>>
evidence == <<outcome, saved, receipt>>
table    == <<status, claim, code, advanced, evidence>>
workflow == <<pos, wstat, job>>
site     == <<fin, sweep, cancelling>>
wire     == <<runner, posts>>
bounds   == <<ops, faults>>
vars == <<identity, table, workflow, site, wire, env, bounds>>

NoFin == [at |-> 0, snap |-> "none", next |-> 1]
NoJob == [phase |-> "none", step |-> Entry]
IdleRunner == [at |-> 0, phase |-> "idle", slow |-> FALSE]

TypeOK ==
    /\ owner \in [Attempt -> WorkflowRun \cup {"none"}]
    /\ step \in [Attempt -> Step \cup {"none"}]
    /\ try \in [Attempt -> Nat]
    /\ pinned \in [Attempt -> Nat]
    /\ auto \in [Attempt -> BOOLEAN]
    /\ status \in [Attempt -> Status]
    /\ lease \in [Attempt -> {"none", "live", "lapsed"}]
    /\ token \in [Attempt -> BOOLEAN]
    /\ outcome \in [Attempt -> Outcomes \cup {"none"}]
    /\ code \in [Attempt -> {"none", "expired", "disabled", "moved", "manifest"}]
    /\ saved \in [Attempt -> 0..Artifacts]
    /\ receipt \in [Attempt -> BOOLEAN]
    /\ advanced \in [Attempt -> BOOLEAN]
    /\ pos \in [WorkflowRun -> Step]
    /\ wstat \in [WorkflowRun -> {"active", "completed", "canceled"}]
    /\ job \in [WorkflowRun -> [phase : {"none", "queued", "running"}, step : Step]]
    /\ cancelling \in [WorkflowRun -> BOOLEAN]
    /\ env \in [enabled : BOOLEAN, version : Nat]
    /\ runner \in [at : Attempt \cup {0},
                   phase : {"idle", "claiming", "executing", "stopping"},
                   slow : BOOLEAN]
    /\ posts \subseteq Attempt \X Outcomes
    /\ fin \in [Finalizer -> [at : Attempt \cup {0},
                              snap : {"none", "completing", "failed"},
                              next : 1..(Artifacts + 1)]]
    /\ sweep \subseteq Attempt
    /\ rows \in 0..MaxAttempts /\ ops \in 0..MaxOps /\ faults \in 0..MaxFaults

Init ==
    /\ owner = [a \in Attempt |-> "none"]
    /\ step = [a \in Attempt |-> "none"]
    /\ try = [a \in Attempt |-> 0]
    /\ pinned = [a \in Attempt |-> 0]
    /\ auto = [a \in Attempt |-> FALSE]
    /\ status = [a \in Attempt |-> "none"]
    /\ lease = [a \in Attempt |-> "none"]
    /\ token = [a \in Attempt |-> FALSE]
    /\ outcome = [a \in Attempt |-> "none"]
    /\ code = [a \in Attempt |-> "none"]
    /\ saved = [a \in Attempt |-> 0]
    /\ receipt = [a \in Attempt |-> FALSE]
    /\ advanced = [a \in Attempt |-> FALSE]
    /\ pos = [r \in WorkflowRun |-> Entry]
    /\ wstat = [r \in WorkflowRun |-> "active"]
    /\ job = [r \in WorkflowRun |-> NoJob]
    /\ cancelling = [r \in WorkflowRun |-> FALSE]
    /\ env = [enabled |-> TRUE, version |-> 0]
    /\ runner = IdleRunner
    /\ posts = {}
    /\ fin = [f \in Finalizer |-> NoFin]
    /\ sweep = {}
    /\ rows = 0 /\ ops = 0 /\ faults = 0


-----------------------------------------------------------------------------
(* Rows and the executor of a workflow run.                                *)

Active(a) == status[a] \in ActiveStatus

ActiveOn(r) == \E a \in Attempt : owner[a] = r /\ Active(a)

\* The agent half of the mutex triggers: an agent run holds the workflow run.
AgentOn(r) == job[r].phase # "none"

\* n is MAX(attempt) + 1 over the rows of the same run and step.
NextTry(r, s, n) ==
    LET rowsOf == {a \in Attempt : owner[a] = r /\ step[a] = s}
    IN /\ \A a \in rowsOf : try[a] < n
       /\ n = 1 \/ \E a \in rowsOf : try[a] + 1 = n

\* The INSERT of enqueueWorkflowScriptAttempt on the table left by S.
Insert(r, s, isAuto, S) ==
    LET a == rows + 1
    IN /\ rows < MaxAttempts
       /\ rows' = a
       /\ owner' = [owner EXCEPT ![a] = r]
       /\ step' = [step EXCEPT ![a] = s]
       /\ \E n \in Attempt : NextTry(r, s, n) /\ try' = [try EXCEPT ![a] = n]
       /\ pinned' = [pinned EXCEPT ![a] = env.version]
       /\ auto' = [auto EXCEPT ![a] = isAuto]
       /\ status' = [S EXCEPT ![a] = "queued"]

\* Where a gate may lead: the target of "approve" or of "reject".
GateTarget(s) == {OnCompleted[s], OnFallback[s]}

Operator == ops < MaxOps /\ ops' = ops + 1

-----------------------------------------------------------------------------
(* Operator requests.                                                      *)

\* Continue, auto-start or reopen at a script step without an active attempt.
ContinueScript(r) ==
    /\ Operator
    /\ Kind[pos[r]] = "script" /\ wstat[r] = "active"
    /\ env.enabled
    /\ ~ActiveOn(r) /\ ~AgentOn(r)
    /\ Insert(r, pos[r], FALSE, status)
    /\ UNCHANGED <<claim, code, advanced, evidence, workflow, site, wire, env, faults>>

\* A gate's action leads to a script step: move and insert in one transaction.
GateToScript(r, s) ==
    /\ Operator
    /\ Kind[pos[r]] = "gate" /\ s \in GateTarget(pos[r]) /\ Kind[s] = "script"
    /\ env.enabled
    /\ ~ActiveOn(r) /\ ~AgentOn(r)
    /\ pos' = [pos EXCEPT ![r] = s]
    /\ wstat' = [wstat EXCEPT ![r] = "active"]
    /\ Insert(r, s, FALSE, status)
    /\ UNCHANGED <<claim, code, advanced, evidence, job, site, wire, env, faults>>

\* A gate's action leads to a terminal step; no executor is looked at.
GateToTerminal(r, s) ==
    /\ Operator
    /\ Kind[pos[r]] = "gate" /\ s \in GateTarget(pos[r]) /\ Kind[s] = "terminal"
    /\ pos' = [pos EXCEPT ![r] = s]
    /\ wstat' = [wstat EXCEPT ![r] = "completed"]
    /\ UNCHANGED <<job, identity, table, site, wire, env, faults>>

\* Queue the agent run of an agent step, or of a gate's agent target: the
\* workflow run stays on the gate until the agent run starts.
QueueAgent(r, s) ==
    /\ Operator
    /\ Kind[s] = "agent"
    /\ pos[r] = s \/ (Kind[pos[r]] = "gate" /\ s \in GateTarget(pos[r]))
    /\ ~ActiveOn(r) /\ ~AgentOn(r)
    /\ job' = [job EXCEPT ![r] = [phase |-> "queued", step |-> s]]
    /\ UNCHANGED <<pos, wstat, identity, table, site, wire, env, faults>>

\* POST .../workflow/step and PATCH .../[id] (which may also close): refused
\* while an agent run is active, not while a script attempt is.
ManualMove(r, s) ==
    /\ Operator
    /\ Kind[pos[r]] # "terminal" /\ wstat[r] = "active"
    /\ ~AgentOn(r)
    /\ pos[r] # s
    /\ pos' = [pos EXCEPT ![r] = s]
    /\ wstat' = [wstat EXCEPT ![r] = IF Kind[s] = "terminal" THEN "completed" ELSE "active"]
    /\ UNCHANGED <<job, identity, table, site, wire, env, faults>>

\* POST .../reopen; an agent target is auto-started, a script target is not.
Reopen(r, s) ==
    /\ Operator
    /\ Kind[s] # "terminal"
    /\ wstat[r] = "completed" \/ Kind[pos[r]] = "terminal"
    /\ pos' = [pos EXCEPT ![r] = s]
    /\ wstat' = [wstat EXCEPT ![r] = "active"]
    /\ job' = IF Kind[s] = "agent" /\ ~ActiveOn(r) /\ ~AgentOn(r)
                THEN [job EXCEPT ![r] = [phase |-> "queued", step |-> s]]
                ELSE job
    /\ UNCHANGED <<identity, table, site, wire, env, faults>>

\* cancelWorkflowScriptRuns: a running attempt keeps its lease until the runner
\* acknowledges; a queued or completing one is canceled at once.
CancelAttemptsOf(r) ==
    /\ status' = [a \in Attempt |->
          IF owner[a] # r THEN status[a]
          ELSE IF status[a] = "running" THEN "canceling"
          ELSE IF status[a] \in {"queued", "completing"} THEN "canceled"
          ELSE status[a]]
    /\ token' = [a \in Attempt |-> token[a] /\ ~(owner[a] = r /\ status[a] \in {"queued", "completing"})]
    /\ lease' = [a \in Attempt |-> IF owner[a] = r /\ status[a] \in {"queued", "completing"}
                                     THEN "none" ELSE lease[a]]

Close(r) ==
    /\ pos' = [pos EXCEPT ![r] = Closed]
    /\ wstat' = [wstat EXCEPT ![r] = "canceled"]

\* POST .../workflow/cancel up to the runtime calls it awaits; without a
\* running agent run there is nothing to await.
CancelRun(r) ==
    /\ Operator
    /\ wstat[r] # "canceled"
    /\ CancelAttemptsOf(r)
    /\ job' = [job EXCEPT ![r] = NoJob]
    /\ \/ /\ job[r].phase = "running"
          /\ cancelling' = [cancelling EXCEPT ![r] = TRUE]
          /\ UNCHANGED <<pos, wstat>>
       \/ Close(r) /\ UNCHANGED cancelling
    /\ UNCHANGED <<identity, code, advanced, evidence, fin, sweep, wire, env, faults>>

\* The rest of the cancel route, after the runtime answered.
CancelFinish(r) ==
    /\ cancelling[r]
    /\ cancelling' = [cancelling EXCEPT ![r] = FALSE]
    /\ Close(r)
    /\ UNCHANGED <<job, identity, table, fin, sweep, wire, env, bounds>>

\* POST .../scripts/[runId]/cancel.
CancelAttempt(a) ==
    /\ Operator
    /\ status[a] \in {"queued", "running"}
    /\ status' = [status EXCEPT ![a] = IF @ = "running" THEN "canceling" ELSE "canceled"]
    /\ UNCHANGED <<identity, claim, code, advanced, evidence, workflow, site, wire, env, faults>>

\* An administrator disables or enables the script, or publishes the workflow.
ToggleScript ==
    /\ Operator
    /\ env' = [env EXCEPT !.enabled = ~@]
    /\ UNCHANGED <<identity, table, workflow, site, wire, faults>>

PublishWorkflow ==
    /\ Operator
    /\ env' = [env EXCEPT !.version = @ + 1]
    /\ UNCHANGED <<identity, table, workflow, site, wire, faults>>

-----------------------------------------------------------------------------
(* The agent runs of a workflow run, as far as its scripts can tell.       *)

AgentStarts(r) ==
    /\ job[r].phase = "queued"
    /\ job' = [job EXCEPT ![r].phase = "running"]
    /\ pos' = [pos EXCEPT ![r] = job[r].step]
    /\ wstat' = [wstat EXCEPT ![r] = "active"]
    /\ UNCHANGED <<identity, table, site, wire, env, bounds>>

\* completeWorkflowAgentStep: ignored when the workflow run has left the step;
\* the handler goes on with a next agent step and with nothing else.
AgentDone(r) ==
    LET s == job[r].step
        next == OnCompleted[s]
    IN /\ job[r].phase = "running"
       /\ IF pos[r] # s \/ wstat[r] # "active"
            THEN job' = [job EXCEPT ![r] = NoJob] /\ UNCHANGED <<pos, wstat>>
            ELSE /\ pos' = [pos EXCEPT ![r] = next]
                 /\ wstat' = [wstat EXCEPT ![r] =
                                IF Kind[next] = "terminal" THEN "completed" ELSE "active"]
                 /\ job' = [job EXCEPT ![r] = IF Kind[next] = "agent"
                                                THEN [phase |-> "running", step |-> next] ELSE NoJob]
       /\ UNCHANGED <<identity, table, site, wire, env, bounds>>

AgentFails(r) ==
    /\ job[r].phase = "running"
    /\ job' = [job EXCEPT ![r] = NoJob]
    /\ UNCHANGED <<pos, wstat, identity, table, site, wire, env, bounds>>

-----------------------------------------------------------------------------
(* The Task Runner: one attempt at a time.                                 *)

\* POST .../claim on the Site: the oldest queued attempt whose script is
\* enabled.  The response is on its way while the phase is "claiming".
Claim ==
    /\ runner = IdleRunner
    /\ env.enabled
    /\ \E a \in Attempt :
          /\ status[a] = "queued"
          /\ \A b \in Attempt : status[b] = "queued" => a <= b
          /\ status' = [status EXCEPT ![a] = "running"]
          /\ token' = [token EXCEPT ![a] = TRUE]
          /\ lease' = [lease EXCEPT ![a] = "live"]
          /\ runner' = [at |-> a, phase |-> "claiming", slow |-> FALSE]
    /\ UNCHANGED <<identity, code, advanced, evidence, workflow, site, posts, env, bounds>>

\* The response arrives and the child process is spawned.
ChildStarts ==
    /\ runner.phase = "claiming"
    /\ runner' = [runner EXCEPT !.phase = "executing"]
    /\ UNCHANGED <<identity, table, workflow, site, posts, env, bounds>>

\* The child ends with an outcome of the contract (a timeout, a bad exit code
\* or an invalid result is "failed") and the completion is posted once.
ChildDone(o) ==
    /\ runner.phase = "executing"
    /\ posts' = posts \cup {<<runner.at, o>>}
    /\ runner' = IdleRunner
    /\ UNCHANGED <<identity, table, workflow, site, env, bounds>>

\* A renewal is refused because the row is no longer running under a live
\* lease: the runner stops the process group.
RenewRefused ==
    /\ runner.phase = "executing"
    /\ status[runner.at] # "running" \/ lease[runner.at] # "live"
    /\ runner' = [runner EXCEPT !.phase = "stopping"]
    /\ UNCHANGED <<identity, table, workflow, site, posts, env, bounds>>

\* The child is gone: acknowledge the cancellation with the lease token.
CancelAck ==
    /\ runner.phase = "stopping"
    /\ runner' = IdleRunner
    /\ IF status[runner.at] = "canceling" /\ token[runner.at]
         THEN /\ status' = [status EXCEPT ![runner.at] = "canceled"]
              /\ token' = [token EXCEPT ![runner.at] = FALSE]
              /\ lease' = [lease EXCEPT ![runner.at] = "none"]
         ELSE UNCHANGED <<status, claim>>
    /\ UNCHANGED <<identity, code, advanced, evidence, workflow, site, posts, env, bounds>>

Fault == faults < MaxFaults /\ faults' = faults + 1

\* The claim response, the completion or the acknowledgement is lost.
RunnerGivesUp ==
    /\ Fault
    /\ runner.phase \in {"claiming", "executing", "stopping"}
    /\ runner' = IdleRunner
    /\ UNCHANGED <<identity, table, workflow, site, posts, env, ops>>

\* A renewal fails on the network: the runner aborts although the lease is live.
RenewLost ==
    /\ Fault
    /\ runner.phase = "executing"
    /\ runner' = [runner EXCEPT !.phase = "stopping"]
    /\ UNCHANGED <<identity, table, workflow, site, posts, env, ops>>

\* 90 seconds pass without a renewal.  A runner that executes the attempt
\* renews every 20 s and kills a refused child in about one, so its lease does
\* not lapse; a response still under way is bounded by the HTTP timeout alone.
LeaseLapses(a) ==
    /\ lease[a] = "live"
    /\ runner.at = a => runner.phase = "claiming"
    /\ lease' = [lease EXCEPT ![a] = "lapsed"]
    /\ runner' = [runner EXCEPT !.slow = @ \/ runner.at = a]
    /\ UNCHANGED <<identity, status, token, code, advanced, evidence, workflow, site, posts, env, bounds>>

-----------------------------------------------------------------------------
(* advanceWorkflowScriptAttempt: one transaction, run on the statuses S.   *)
(* The alternatives are exclusive; each says what the transaction leaves.  *)

Ready(a, S) == ~advanced[a] /\ S[a] \in Outcomes

\* Mutated: only the status of the workflow run is compared, not its step.
Moved_StepUnchecked(a) == wstat[owner[a]] # "active"
Moved(a) == pos[owner[a]] # step[a] \/ wstat[owner[a]] # "active"
ManifestChanged(a) == pinned[a] # env.version

\* Mutated: one retry too many.
Retries_OffByOne(a, S) == S[a] = "failed" /\ try[a] < 3 /\ code[a] # "disabled" /\ env.enabled
Retries(a, S) == S[a] = "failed" /\ try[a] < 2 /\ code[a] # "disabled" /\ env.enabled

\* Another attempt of the same workflow run holds the executor.
\* Mutated: the active check before the insert is left out.
OtherActive_Unchecked(a, S) == FALSE
OtherActive(a, S) == \E b \in Attempt \ {a} : owner[b] = owner[a] /\ S[b] \in ActiveStatus

Target(a, S) == CASE S[a] = "completed" -> OnCompleted[step[a]]
                  [] S[a] = "no_op" -> OnNoOp[step[a]]
                  [] OTHER -> OnFallback[step[a]]

\* What the enqueue of the next executor does inside the transaction: queue
\* an agent run, insert an attempt, find one already active, or throw.
Enqueues(a, s, S) ==
    LET r == owner[a]
    IN \/ /\ Kind[s] = "agent"
          /\ ~OtherActive(a, S)
          /\ job' = [job EXCEPT ![r] = IF AgentOn(r) THEN @ ELSE [phase |-> "queued", step |-> s]]
          /\ status' = S /\ UNCHANGED identity
       \/ /\ Kind[s] = "script" /\ env.enabled
          /\ IF OtherActive(a, S)
               THEN status' = S /\ UNCHANGED identity
               ELSE ~AgentOn(r) /\ Insert(r, s, FALSE, S)
          /\ UNCHANGED job
       \/ /\ Kind[s] \in {"gate", "terminal"}
          /\ status' = S /\ UNCHANGED <<identity, job>>

CanEnqueue(a, s, S) ==
    CASE Kind[s] = "agent" -> ~OtherActive(a, S)
      [] Kind[s] = "script" -> env.enabled /\ (OtherActive(a, S) \/ ~AgentOn(owner[a]))
      [] OTHER -> TRUE

Ignore(a, S) ==
    /\ ~Ready(a, S)
    /\ status' = S
    /\ UNCHANGED <<code, advanced, identity, workflow>>

Supersede(a, S) ==
    /\ Ready(a, S)
    /\ Moved(a) \/ ManifestChanged(a)
    /\ status' = [S EXCEPT ![a] = "superseded"]
    /\ code' = [code EXCEPT ![a] = IF Moved(a) THEN "moved" ELSE "manifest"]
    /\ advanced' = [advanced EXCEPT ![a] = TRUE]
    /\ UNCHANGED <<identity, workflow>>

Retry(a, S) ==
    /\ Ready(a, S) /\ ~Moved(a) /\ ~ManifestChanged(a) /\ Retries(a, S)
    /\ IF OtherActive(a, S)
         THEN status' = S /\ UNCHANGED identity
         ELSE ~AgentOn(owner[a]) /\ Insert(owner[a], step[a], TRUE, S)
    /\ advanced' = [advanced EXCEPT ![a] = TRUE]
    /\ UNCHANGED <<code, workflow>>

Route(a, S) ==
    LET r == owner[a]
        s == Target(a, S)
    IN /\ Ready(a, S) /\ ~Moved(a) /\ ~ManifestChanged(a) /\ ~Retries(a, S)
       /\ Enqueues(a, s, S)
       /\ pos' = [pos EXCEPT ![r] = s]
       /\ wstat' = [wstat EXCEPT ![r] = IF Kind[s] = "terminal" THEN "completed" ELSE "active"]
       /\ advanced' = [advanced EXCEPT ![a] = TRUE]
       /\ UNCHANGED code

\* A throw rolls the transaction back; the recovery loop tries again later.
RolledBack(a, S) ==
    /\ Ready(a, S) /\ ~Moved(a) /\ ~ManifestChanged(a)
    /\ IF Retries(a, S) THEN ~OtherActive(a, S) /\ AgentOn(owner[a])
                        ELSE ~CanEnqueue(a, Target(a, S), S)
    /\ status' = S
    /\ UNCHANGED <<code, advanced, identity, workflow>>

Advance(a, S) ==
    \/ Ignore(a, S)
    \/ Supersede(a, S)
    \/ Retry(a, S)
    \/ Route(a, S)
    \/ RolledBack(a, S)

-----------------------------------------------------------------------------
(* finalizeWorkflowScriptAttempt, by a complete handler or the recovery.   *)

\* The artifacts have still to be saved (an expired attempt has none).
\* Mutated: expired attempts are forgotten.
NeedsEvidence_NotExpired(a, S) == S[a] = "completing"
NeedsEvidence(a, S) == S[a] = "completing" \/ (S[a] = "failed" /\ ~receipt[a])

\* The code before the first await, on the statuses S: take the snapshot, or
\* go straight on to the advancement.
BeginFinalize(f, a, S) ==
    IF NeedsEvidence(a, S)
      THEN /\ fin' = [fin EXCEPT ![f] = [at |-> a, snap |-> S[a], next |-> saved[a] + 1]]
           /\ status' = S
           /\ UNCHANGED <<code, advanced, identity, workflow>>
      ELSE Advance(a, S) /\ UNCHANGED fin

\* POST .../complete: an open completion is finalized again, a settled one is
\* answered with its record, a running one is accepted under its live lease,
\* anything else is refused (409).
Deliver(f, a, o) ==
    /\ <<a, o>> \in posts /\ fin[f] = NoFin
    /\ token[a]
    /\ \/ /\ status[a] = "completing"
          /\ BeginFinalize(f, a, status)
          /\ UNCHANGED <<lease, outcome>>
       \/ /\ status[a] = "running" /\ lease[a] = "live"
          /\ lease' = [lease EXCEPT ![a] = "none"]
          /\ outcome' = [outcome EXCEPT ![a] = o]
          /\ BeginFinalize(f, a, [status EXCEPT ![a] = "completing"])
    /\ UNCHANGED <<token, saved, receipt, sweep, cancelling, wire, env, bounds>>

\* An artifact's file is written and its row inserted; the primary key makes
\* the second of two finalizers throw, and it gives up.
SaveArtifact(f) ==
    LET a == fin[f].at
    IN /\ a # 0 /\ fin[f].next <= Artifacts
       /\ IF saved[a] >= fin[f].next
            THEN fin' = [fin EXCEPT ![f] = NoFin] /\ UNCHANGED saved
            ELSE /\ saved' = [saved EXCEPT ![a] = fin[f].next]
                 /\ fin' = [fin EXCEPT ![f].next = @ + 1]
       /\ UNCHANGED <<identity, status, claim, code, advanced, outcome, receipt,
                      workflow, sweep, cancelling, wire, env, bounds>>

\* Writing an artifact's file fails.
SaveFails(f) ==
    /\ Fault
    /\ fin[f].at # 0 /\ fin[f].next <= Artifacts
    /\ fin' = [fin EXCEPT ![f] = NoFin]
    /\ UNCHANGED <<identity, table, workflow, sweep, cancelling, wire, env, ops>>

\* finishWorkflowScriptAttempt settles a row that still is completing;
\* attachFailedWorkflowScriptArtifacts completes one that already failed.
Settles(f) == fin[f].snap = "completing" /\ status[fin[f].at] = "completing"
Attaches(f) ==
    LET a == fin[f].at
    IN fin[f].snap = "failed" /\ status[a] = "failed" /\ ~advanced[a] /\ ~receipt[a]

\* All artifacts exist: settle the row or attach them to it, then advance.
Finish(f) ==
    LET a == fin[f].at
    IN /\ a # 0 /\ fin[f].next > Artifacts
       /\ fin' = [fin EXCEPT ![f] = NoFin]
       /\ receipt' = [receipt EXCEPT ![a] = @ \/ Settles(f) \/ Attaches(f)]
       /\ Advance(a, IF Settles(f) THEN [status EXCEPT ![a] = outcome[a]] ELSE status)
       /\ UNCHANGED <<claim, outcome, saved, sweep, cancelling, wire, env, bounds>>

-----------------------------------------------------------------------------
(* recoverScripts, on every heartbeat unless one is still running.         *)

\* Mutated: accepted completions that were never finished are not listed.
Unadvanced_NotCompleting(S) == {a \in Attempt : ~advanced[a] /\ S[a] \in Outcomes}
Unadvanced(S) == {a \in Attempt : ~advanced[a] /\ S[a] \in Outcomes \cup {"completing"}}

Oldest(n, A) == {a \in A : Cardinality({b \in A : b <= a}) <= n}

\* Mutated: a row without a lease counts as expired.
Expired_NoLease(a) == status[a] \in {"running", "completing"} /\ lease[a] # "live"
Expired(a) == status[a] = "running" /\ lease[a] = "lapsed"
Disabled(a) == status[a] = "queued" /\ ~env.enabled
CancelExpired(a) == status[a] = "canceling" /\ lease[a] = "lapsed"

\* expireWorkflowScriptLeases, then the list of attempts to finalize.
SweepStart ==
    LET S == [a \in Attempt |-> CASE Expired(a) \/ Disabled(a) -> "failed"
                                  [] CancelExpired(a) -> "canceled"
                                  [] OTHER -> status[a]]
    IN /\ sweep = {} /\ fin[Recovery] = NoFin
       /\ status' = S
       /\ code' = [a \in Attempt |-> CASE Expired(a) -> "expired"
                                       [] Disabled(a) -> "disabled"
                                       [] OTHER -> code[a]]
       /\ token' = [a \in Attempt |-> token[a] /\ ~Expired(a) /\ ~CancelExpired(a)]
       /\ lease' = [a \in Attempt |-> IF Expired(a) \/ CancelExpired(a) THEN "none" ELSE lease[a]]
       /\ sweep' = Oldest(RecoverLimit, Unadvanced(S))
       /\ UNCHANGED <<identity, advanced, evidence, workflow, fin, cancelling, wire, env, bounds>>

\* The loop takes the next listed attempt; an error is logged and skipped.
SweepStep ==
    /\ fin[Recovery] = NoFin
    /\ \E a \in sweep :
          /\ \A b \in sweep : a <= b
          /\ sweep' = sweep \ {a}
          /\ BeginFinalize(Recovery, a, status)
    /\ UNCHANGED <<claim, evidence, cancelling, wire, env, bounds>>

\* The Site process restarts: its handlers and its recovery loop are gone.
SiteCrash ==
    /\ Fault
    /\ fin' = [f \in Finalizer |-> NoFin]
    /\ sweep' = {}
    /\ cancelling' = [r \in WorkflowRun |-> FALSE]
    /\ UNCHANGED <<identity, table, workflow, wire, env, ops>>

-----------------------------------------------------------------------------
OperatorStep ==
    \/ \E r \in WorkflowRun :
          \/ ContinueScript(r)
          \/ CancelRun(r)
          \/ \E s \in Step : \/ GateToScript(r, s)
                             \/ GateToTerminal(r, s)
                             \/ QueueAgent(r, s)
                             \/ ManualMove(r, s)
                             \/ Reopen(r, s)
    \/ \E a \in Attempt : CancelAttempt(a)
    \/ ToggleScript
    \/ PublishWorkflow

AgentStep(r) == AgentStarts(r) \/ AgentDone(r) \/ AgentFails(r)

RunnerStep ==
    \/ Claim
    \/ ChildStarts
    \/ \E o \in Outcomes : ChildDone(o)
    \/ RenewRefused
    \/ CancelAck

FaultStep == RunnerGivesUp \/ RenewLost \/ SiteCrash \/ \E f \in Finalizer : SaveFails(f)

Delivery == \E f \in Http, a \in Attempt, o \in Outcomes : Deliver(f, a, o)

FinalizerStep(f) == SaveArtifact(f) \/ Finish(f)

SweepRun == SweepStart \/ SweepStep

Next ==
    \/ OperatorStep
    \/ \E r \in WorkflowRun : AgentStep(r) \/ CancelFinish(r)
    \/ RunnerStep
    \/ \E a \in Attempt : LeaseLapses(a)
    \/ Delivery
    \/ \E f \in Finalizer : FinalizerStep(f)
    \/ SweepRun
    \/ FaultStep

Spec == Init /\ [][Next]_vars

\* The timers and the event loop keep going: the Task Runner polls and its
\* child is bounded to 30 s, agent runs end (their leases do), leases run out,
\* artifact writes return, the heartbeat repeats the recovery.  No operator
\* request, completion delivery or fault is owed.
Fairness ==
    /\ WF_vars(RunnerStep)
    /\ \A r \in WorkflowRun : WF_vars(AgentStep(r))
    /\ \A a \in Attempt : WF_vars(LeaseLapses(a))
    /\ \A f \in Finalizer : WF_vars(FinalizerStep(f))
    /\ WF_vars(SweepRun)

FairSpec == Spec /\ Fairness

-----------------------------------------------------------------------------
(* Properties.                                                             *)

\* Execution ownership: at most one attempt of a workflow run is active, and
\* never while one of its agent runs is (active-check and insert, the unique
\* index and the triggers together).
OneExecutor ==
    \A r \in WorkflowRun :
        /\ \A a, b \in Attempt : owner[a] = r /\ owner[b] = r /\ Active(a) /\ Active(b) => a = b
        /\ ActiveOn(r) => ~AgentOn(r)

\* An attempt advances its workflow run, retries or is set aside only after
\* all its artifacts exist and its row points to them, whoever finalized it.
EvidenceBeforeEffect ==
    \A a \in Attempt : advanced[a] => receipt[a] /\ saved[a] = Artifacts

\* A recorded outcome is one the runner posted for this very attempt, a
\* settled success is the recorded one, and an attempt whose lease expired has
\* none: a late completion cannot alter it.
OutcomeFromOwner ==
    \A a \in Attempt :
        /\ outcome[a] # "none" => <<a, outcome[a]>> \in posts
        /\ status[a] \in Outcomes \ {"failed"} => status[a] = outcome[a]
        /\ code[a] \in {"expired", "disabled"} => outcome[a] = "none"

\* The automatic retry happens at most once per workflow run and step,
\* however often the step's attempts fail or are started again by hand.
OneAutoRetry ==
    \A a, b \in Attempt :
        auto[a] /\ auto[b] /\ owner[a] = owner[b] /\ step[a] = step[b] => a = b

\* While the child of an attempt lives, neither an agent run (the fallback)
\* nor another attempt (the retry) executes for the same workflow run, unless
\* the response to its claim came after the lease it conveys had lapsed.
ChildRunsAlone ==
    runner.phase \in {"executing", "stopping"} /\ ~runner.slow =>
        LET r == owner[runner.at]
        IN ~AgentOn(r) /\ \A a \in Attempt : owner[a] = r /\ Active(a) => a = runner.at

\* The executor as its workflow sees it: an attempt is open, then decided or
\* dropped, then applied at its own step exactly once, or dropped.
Phase(a) ==
    CASE status[a] = "none" -> "absent"
      [] status[a] \in ActiveStatus -> "open"
      [] status[a] \in {"canceled", "superseded"} -> "dropped"
      [] OTHER -> IF advanced[a] THEN "applied" ELSE "decided"

Promise == INSTANCE StepOutcome WITH
    Run <- WorkflowRun, Home <- Entry,
    Edge <- [completed |-> OnCompleted, no_op |-> OnNoOp,
             escalate |-> OnFallback, failed |-> OnFallback],
    place <- pos, of <- owner, at <- step,
    phase <- [a \in Attempt |-> Phase(a)],
    verdict <- [a \in Attempt |-> IF status[a] \in Outcomes THEN status[a] ELSE "none"]

\* Whatever the leases, finalizers, sweeps and crashes do, a verdict is given
\* once and takes effect at most once, at the step the attempt was opened for.
KeepsPromise == Promise!Spec

\* Every attempt is eventually advanced or canceled, whatever crashes, is lost
\* or races, unless the script it has to hand over to is disabled: again and
\* again nothing is left behind.
Settled(a) == advanced[a] \/ status[a] \in {"none", "canceled"}
AttemptsSettle == []<>(env.enabled => \A a \in Attempt : Settled(a))
=============================================================================

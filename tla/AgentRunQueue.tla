---------------------------- MODULE AgentRunQueue ----------------------------
(***************************************************************************)
(* The agent runs of the workflow lane: the table agent_runs of the Site,  *)
(* the requests that queue, stop and cancel runs, the dispatcher that      *)
(* claims them, and the response handler that executes a run against a     *)
(* runtime and moves its workflow run.                                     *)
(*                                                                         *)
(* A handler awaits twice: the gateway's credential list, between reading  *)
(* the workflow run and starting the agent run, and the runtime's answer.  *)
(* Whatever it read before an await may be stale after it; an action is    *)
(* the code between two awaits.  Script runs are the subject of            *)
(* WorkflowScripts, loop steps are left out.                               *)
(***************************************************************************)
EXTENDS Naturals, FiniteSets

CONSTANTS
    Request,        \* change requests; each has one workflow run
    Step,           \* step keys of the workflow
    Kind,           \* [Step -> {"agent","checkpoint","gate","terminal"}]
    Onward,         \* [Step -> Step]: step.next (a terminal step's own key)
    OnReject,       \* [Step -> Step]: routes.reject of a gate
    Entry,          \* the workflow's entrypoint
    Closed,         \* its first terminal step
    Priority,       \* [Request -> Nat]: from the request's priority
    Slots,          \* workflow lane concurrency
    MaxHops,        \* maxAutoContinueSteps
    Caller,         \* concurrent POST /agent/responses without an agent run
    MaxRuns,        \* bound: rows of agent_runs
    MaxOps,         \* bound: operator requests
    MaxFaults       \* bound: crashes and runtime outages

ASSUME WorkflowAssumption ==
    /\ Kind \in [Step -> {"agent", "checkpoint", "gate", "terminal"}]
    /\ Onward \in [Step -> Step] /\ OnReject \in [Step -> Step]
    /\ Entry \in Step /\ Kind[Entry] \in {"agent", "checkpoint", "gate"}
    /\ Closed \in Step /\ Kind[Closed] = "terminal"
    /\ Priority \in [Request -> Nat]

ASSUME BoundAssumption ==
    /\ Slots \in Nat \ {0} /\ MaxHops \in Nat
    /\ MaxRuns \in Nat /\ MaxOps \in Nat /\ MaxFaults \in Nat

Run == 1..MaxRuns
Action == {"run", "approve", "reject"}      \* "run": no workflow action
RunStatus == {"none", "queued", "running", "succeeded", "failed", "canceled"}
Runnable == {"agent", "checkpoint"}

VARIABLES
    \* agent_runs
    rows,       \* number of rows
    of,         \* request_id
    at,         \* workflow_step_key
    act,        \* input.workflowAction
    status,
    lease,      \* lease_expires_at: "none", "live" (in the future), "lapsed"
    note,       \* result.workflowOutcome: "none", "done", "stop", or a "stop" an
                \* operator or a step change has "settled"
    \* workflow_runs
    pos,        \* current_step_key
    wstat,      \* status
    \* the Site process
    exec,       \* the handler that executes a run
    call,       \* handlers of direct posts, before they have a run
    cancelling, \* a cancel route awaits the runtime's answer
    \* bookkeeping of the bounds
    ops, faults

columns  == <<rows, of, at, act>>
workflow == <<pos, wstat>>
site     == <<exec, call, cancelling>>
bounds   == <<ops, faults>>
vars == <<columns, status, lease, note, workflow, site, bounds>>

NoExec == [phase |-> "idle", kind |-> "queue", from |-> Entry, step |-> Entry, hops |-> 0]
NoCall == [req |-> "none", act |-> "run", from |-> Entry, step |-> Entry]

TypeOK ==
    /\ rows \in 0..MaxRuns
    /\ of \in [Run -> Request \cup {"none"}]
    /\ at \in [Run -> Step \cup {"none"}]
    /\ act \in [Run -> Action]
    /\ status \in [Run -> RunStatus]
    /\ lease \in [Run -> {"none", "live", "lapsed"}]
    /\ note \in [Run -> {"none", "done", "stop", "settled"}]
    /\ pos \in [Request -> Step]
    /\ wstat \in [Request -> {"active", "completed", "canceled"}]
    /\ exec \in [Run -> [phase : {"idle", "claimed", "reading", "runtime"},
                         kind : {"queue", "direct", "auto"},
                         from : Step, step : Step, hops : 0..MaxHops]]
    /\ call \in [Caller -> [req : Request \cup {"none"}, act : Action,
                            from : Step, step : Step]]
    /\ cancelling \in [Request -> BOOLEAN]
    /\ ops \in 0..MaxOps /\ faults \in 0..MaxFaults

Init ==
    /\ rows = 0
    /\ of = [a \in Run |-> "none"]
    /\ at = [a \in Run |-> "none"]
    /\ act = [a \in Run |-> "run"]
    /\ status = [a \in Run |-> "none"]
    /\ lease = [a \in Run |-> "none"]
    /\ note = [a \in Run |-> "none"]
    /\ pos = [r \in Request |-> Entry]
    /\ wstat = [r \in Request |-> "active"]
    /\ exec = [a \in Run |-> NoExec]
    /\ call = [c \in Caller |-> NoCall]
    /\ cancelling = [r \in Request |-> FALSE]
    /\ ops = 0 /\ faults = 0

-----------------------------------------------------------------------------
(* Rows, keys and the steps an action leads to.                            *)

Active(a) == status[a] \in {"queued", "running"}
ActiveOf(r) == {a \in Run : of[a] = r /\ Active(a)}

\* Mutant: only queued rows are looked at.
SameKey_QueuedOnly(r, s, x) ==
    {a \in ActiveOf(r) : status[a] = "queued" /\ at[a] = s /\ act[a] = x}

\* findActiveAgentRunByIdempotencyKey: the key names request, step and action.
SameKey(r, s, x) == {a \in ActiveOf(r) : at[a] = s /\ act[a] = x}

\* The step a request's position makes runnable under an action.
Runs(s, x) == IF Kind[s] # "gate" THEN s
              ELSE IF x = "reject" THEN OnReject[s] ELSE Onward[s]

StatusAt(s) == IF Kind[s] = "terminal" THEN "completed" ELSE "active"

\* The newest unresolved "blocked" outcome on the current step.
Attention(r) ==
    \E a \in Run :
        /\ of[a] = r /\ note[a] = "stop" /\ at[a] = pos[r]
        /\ \A b \in Run : b > a /\ of[b] = r /\ at[b] = at[a] => note[b] # "done"

\* A workflow.step_changed event settles what was blocked on the step it leaves.
Settled(r, s) ==
    [a \in Run |-> IF of[a] = r /\ note[a] = "stop" /\ at[a] = pos[r] /\ s # pos[r]
                     THEN "settled" ELSE note[a]]

Move(r, s) ==
    /\ pos' = [pos EXCEPT ![r] = s]
    /\ wstat' = [wstat EXCEPT ![r] = StatusAt(s)]
    /\ note' = Settled(r, s)

NewRow(r, s, x) ==
    /\ rows < MaxRuns
    /\ rows' = rows + 1
    /\ of' = [of EXCEPT ![rows + 1] = r]
    /\ at' = [at EXCEPT ![rows + 1] = s]
    /\ act' = [act EXCEPT ![rows + 1] = x]

Enqueue(r, s, x) ==
    /\ NewRow(r, s, x)
    /\ status' = [status EXCEPT ![rows + 1] = "queued"]

\* The tail of enqueueWorkflowAgentRun: a run of the same key is returned as it is.
EnqueueByKey(r, s, x) ==
    IF SameKey(r, s, x) = {} THEN Enqueue(r, s, x) ELSE UNCHANGED <<columns, status>>

Operator == ops < MaxOps /\ ops' = ops + 1 /\ UNCHANGED faults
Fault == faults < MaxFaults /\ faults' = faults + 1 /\ UNCHANGED ops

-----------------------------------------------------------------------------
(* Operators and agents: the routes that queue, move, stop and cancel.     *)

\* enqueueWorkflowAgentRun, the current step taken as it is.
Queue(r, x) ==
    /\ x # "run" => Kind[pos[r]] = "gate"
    /\ Kind[Runs(pos[r], x)] \in Runnable
    /\ SameKey(r, Runs(pos[r], x), x) = {}
    /\ Enqueue(r, Runs(pos[r], x), x)
    /\ Operator /\ UNCHANGED <<lease, note, workflow, site>>

\* The gate's route leads to a terminal step: nothing to run.
GateToTerminal(r, x) ==
    /\ Kind[pos[r]] = "gate"
    /\ Kind[Runs(pos[r], x)] = "terminal"
    /\ Move(r, Runs(pos[r], x))
    /\ Operator /\ UNCHANGED <<columns, status, lease, site>>

\* advanceAttentionStep: continue past a blocked step and run the next one.
QueuePast(r) ==
    /\ Attention(r) /\ Kind[pos[r]] # "gate"
    /\ Move(r, Onward[pos[r]])
    /\ IF Kind[Onward[pos[r]]] = "agent" THEN EnqueueByKey(r, Onward[pos[r]], "run")
                                         ELSE UNCHANGED <<columns, status>>
    /\ Operator /\ UNCHANGED <<lease, site>>

MayMove(r) == wstat[r] = "active" /\ Kind[pos[r]] # "terminal" /\ ActiveOf(r) = {}

ManualMove(r, s) ==
    /\ MayMove(r) /\ s # pos[r]
    /\ Move(r, s)
    /\ Operator /\ UNCHANGED <<columns, status, lease, site>>

\* No workflow.step_changed event: what was blocked on a step stays so.
Reopen(r, s) ==
    /\ wstat[r] = "completed" \/ Kind[pos[r]] = "terminal"
    /\ Kind[s] # "terminal"
    /\ pos' = [pos EXCEPT ![r] = s]
    /\ wstat' = [wstat EXCEPT ![r] = "active"]
    /\ IF Kind[s] = "agent" THEN EnqueueByKey(r, s, "run") ELSE UNCHANGED <<columns, status>>
    /\ Operator /\ UNCHANGED <<lease, note, site>>

StopRun(a) ==
    /\ Active(a)
    /\ status' = [status EXCEPT ![a] = "canceled"]
    /\ lease' = [lease EXCEPT ![a] = "none"]
    /\ Operator /\ UNCHANGED <<columns, note, workflow, site>>

\* The request is canceled in two halves, around the call to the runtime.
CancelRequest(r) ==
    /\ wstat[r] # "canceled" /\ ~cancelling[r]
    /\ status' = [a \in Run |-> IF a \in ActiveOf(r) THEN "canceled" ELSE status[a]]
    /\ cancelling' = [cancelling EXCEPT ![r] = TRUE]
    /\ Operator /\ UNCHANGED <<columns, lease, note, workflow, exec, call>>

CancelFinish(r) ==
    /\ cancelling[r]
    /\ pos' = [pos EXCEPT ![r] = Closed]
    /\ wstat' = [wstat EXCEPT ![r] = "canceled"]
    /\ cancelling' = [cancelling EXCEPT ![r] = FALSE]
    /\ UNCHANGED <<columns, status, lease, note, exec, call, bounds>>

-----------------------------------------------------------------------------
(* The dispatcher: one callback expires lapsed leases and fills the lane.  *)

\* Mutant: rows are expired only while the lane has room.
Stale_RoomOnly(a) ==
    /\ status[a] = "running" /\ lease[a] = "lapsed"
    /\ Cardinality({b \in Run : status[b] = "running"}) < Slots
Stale(a) == status[a] = "running" /\ lease[a] = "lapsed"
Occupied == {a \in Run : status[a] = "running" /\ ~Stale(a)}
Before(b, a) ==
    \/ Priority[of[b]] > Priority[of[a]]
    \/ Priority[of[b]] = Priority[of[a]] /\ b < a

Claimable(a) ==
    /\ status[a] = "queued"
    /\ Cardinality(Occupied) + Cardinality({b \in Run : status[b] = "queued" /\ Before(b, a)})
         < Slots

Dispatch ==
    /\ \E a \in Run : Stale(a) \/ Claimable(a)
    /\ status' = [a \in Run |-> CASE Stale(a) -> "failed"
                                  [] Claimable(a) -> "running"
                                  [] OTHER -> status[a]]
    /\ lease' = [a \in Run |-> CASE Stale(a) -> "none"
                                 [] Claimable(a) -> "live"
                                 [] OTHER -> lease[a]]
    /\ exec' = [a \in Run |-> IF Claimable(a) THEN [NoExec EXCEPT !.phase = "claimed"]
                                              ELSE exec[a]]
    /\ UNCHANGED <<columns, note, workflow, call, cancelling, bounds>>

-----------------------------------------------------------------------------
(* The response handler, for a claimed run a or a direct post c.           *)

\* executeClaimedWorkflowAgentRun stores any refusal, whatever the row says.
Refuse(a) ==
    /\ status' = [status EXCEPT ![a] = "failed"]
    /\ lease' = [lease EXCEPT ![a] = "none"]
    /\ exec' = [exec EXCEPT ![a] = NoExec]
    /\ UNCHANGED <<columns, note, workflow, call, cancelling>>

\* Up to the first await: the workflow run is read, the agent run is not.
Read(a) ==
    /\ exec[a].phase = "claimed"
    /\ UNCHANGED bounds
    /\ LET r == of[a] IN
       IF act[a] # "run" /\ Kind[pos[r]] # "gate" THEN Refuse(a)
       ELSE /\ exec' = [exec EXCEPT ![a] = [@ EXCEPT !.phase = "reading", !.from = pos[r],
                                                     !.step = Runs(pos[r], act[a])]]
            /\ UNCHANGED <<columns, status, lease, note, workflow, call, cancelling>>

DirectPost(c, r, x) ==
    /\ call[c].req = "none"
    /\ x # "run" => Kind[pos[r]] = "gate"
    /\ call' = [call EXCEPT ![c] = [req |-> r, act |-> x, from |-> pos[r],
                                    step |-> Runs(pos[r], x)]]
    /\ Operator /\ UNCHANGED <<columns, status, lease, note, workflow, exec, cancelling>>

\* After the await, with what was read before it.  me: the rows that are the handler's own.
ClosesGate(from, step) == Kind[from] = "gate" /\ Kind[step] = "terminal"
Duplicates(r, step, x, me) ==
    LET same == SameKey(r, step, x)
    IN same # {} /\ (CHOOSE a \in same : \A b \in same : b <= a) \notin me
\* Mutant: a queued run blocks the start, a running one does not.
Elsewhere_QueuedOnly(r, me) == {a \in ActiveOf(r) : status[a] = "queued"} \ me # {}
Elsewhere(r, me) == ActiveOf(r) \ me # {}
MayStart(r, step, x, me) ==
    Kind[step] \in Runnable /\ ~Duplicates(r, step, x, me) /\ ~Elsewhere(r, me)

\* startWorkflowAgentStep: the workflow run is put on the step that was read.
PutOn(r, step) ==
    /\ pos' = [pos EXCEPT ![r] = step]
    /\ wstat' = [wstat EXCEPT ![r] = "active"]

Begin(a) ==
    LET r == of[a]
        step == exec[a].step
        free == [exec EXCEPT ![a] = NoExec]
    IN
    /\ exec[a].phase = "reading"
    /\ UNCHANGED bounds
    /\ \/ /\ ClosesGate(exec[a].from, step)
          /\ Move(r, step)
          /\ at' = [at EXCEPT ![a] = step]
          /\ status' = [status EXCEPT ![a] = "succeeded"]
          /\ exec' = free
          /\ UNCHANGED <<rows, of, act, lease, call, cancelling>>
       \/ /\ ~ClosesGate(exec[a].from, step)
          /\ Kind[step] \in Runnable
          /\ Duplicates(r, step, act[a], {a})       \* 202: the row is left as it is
          /\ exec' = free
          /\ UNCHANGED <<columns, status, lease, note, workflow, call, cancelling>>
       \/ /\ ~ClosesGate(exec[a].from, step)
          /\ \/ Kind[step] \notin Runnable
             \/ ~Duplicates(r, step, act[a], {a}) /\ Elsewhere(r, {a})
          /\ Refuse(a)
       \/ /\ MayStart(r, step, act[a], {a})
          /\ PutOn(r, step)
          /\ at' = [at EXCEPT ![a] = step]
          /\ status' = [status EXCEPT ![a] = "running"]
          /\ lease' = [lease EXCEPT ![a] = "live"]
          /\ exec' = [exec EXCEPT ![a].phase = "runtime"]
          /\ UNCHANGED <<rows, of, act, note, call, cancelling>>

DirectBegin(c) ==
    LET r == call[c].req
        step == call[c].step
    IN
    /\ r # "none"
    /\ call' = [call EXCEPT ![c] = NoCall]
    /\ UNCHANGED <<cancelling, bounds>>
    /\ \/ /\ ClosesGate(call[c].from, step)
          /\ Move(r, step)
          /\ UNCHANGED <<columns, status, lease, exec>>
       \/ /\ ~ClosesGate(call[c].from, step)
          /\ ~MayStart(r, step, call[c].act, {})
          /\ UNCHANGED <<columns, status, lease, note, workflow, exec>>
       \/ /\ MayStart(r, step, call[c].act, {})
          /\ PutOn(r, step)
          /\ NewRow(r, step, call[c].act)
          /\ status' = [status EXCEPT ![rows + 1] = "running"]
          /\ lease' = [lease EXCEPT ![rows + 1] = "live"]
          /\ exec' = [exec EXCEPT ![rows + 1] = [phase |-> "runtime", kind |-> "direct",
                            from |-> call[c].from, step |-> step, hops |-> 0]]
          /\ UNCHANGED note

-----------------------------------------------------------------------------
(* The runtime's answer.  A checkpoint keeps its step.                     *)

\* Mutant: the step is not compared.
OnStep_AnyStep(a) == wstat[of[a]] = "active"
OnStep(a) == wstat[of[a]] = "active" /\ pos[of[a]] = exec[a].step
Leads(a) == IF Kind[exec[a].step] = "checkpoint" THEN exec[a].step ELSE Onward[exec[a].step]
DoneStatus(a) == StatusAt(Onward[exec[a].step])

\* The bound MaxRuns stands here for maxAutoContinueSteps as well.
Continues(a) ==
    /\ Kind[Leads(a)] = "agent"
    /\ exec[a].hops < MaxHops /\ rows < MaxRuns
    /\ ActiveOf(of[a]) \ {a} = {}

\* completeWorkflowAgentStep: the row first, then the workflow if it still waits here.
Completes(a, stop) ==
    /\ lease' = [b \in Run |-> IF b = a THEN "none"
                                ELSE IF b \in (rows + 1)..rows' THEN "live" ELSE lease[b]]
    /\ status' = [b \in Run |-> IF b = a THEN "succeeded"
                                 ELSE IF b \in (rows + 1)..rows' THEN "running" ELSE status[b]]
    /\ IF OnStep(a) /\ ~stop
         THEN /\ pos' = [pos EXCEPT ![of[a]] = Leads(a)]
              /\ wstat' = [wstat EXCEPT ![of[a]] = DoneStatus(a)]
              /\ note' = [Settled(of[a], Leads(a)) EXCEPT ![a] = "done"]
         ELSE /\ note' = [note EXCEPT ![a] = IF stop THEN "stop" ELSE "done"]
              /\ UNCHANGED workflow

RuntimeDone(a, stop) ==
    /\ exec[a].phase = "runtime"
    /\ UNCHANGED <<call, cancelling, bounds>>
    /\ \/ /\ status[a] = "canceled"
          /\ exec' = [exec EXCEPT ![a] = NoExec]
          /\ UNCHANGED <<columns, status, lease, note, workflow>>
       \/ /\ status[a] # "canceled"
          /\ ~(OnStep(a) /\ ~stop /\ Continues(a))
          /\ UNCHANGED columns
          /\ Completes(a, stop)
          /\ exec' = [exec EXCEPT ![a] = NoExec]
       \/ /\ status[a] # "canceled"
          /\ OnStep(a) /\ ~stop /\ Continues(a)
          /\ NewRow(of[a], Leads(a), "run")
          /\ Completes(a, stop)
          /\ exec' = [exec EXCEPT ![a] = NoExec,
                        ![rows + 1] = [phase |-> "runtime", kind |-> "auto", from |-> Leads(a),
                                       step |-> Leads(a), hops |-> exec[a].hops + 1]]

\* The error of a continuation is stored without a look at the row.
RuntimeFails(a) ==
    /\ exec[a].phase = "runtime"
    /\ exec' = [exec EXCEPT ![a] = NoExec]
    /\ IF status[a] = "canceled" /\ exec[a].kind # "auto"
         THEN UNCHANGED <<status, lease>>
         ELSE /\ status' = [status EXCEPT ![a] = "failed"]
              /\ lease' = [lease EXCEPT ![a] = "none"]
    /\ UNCHANGED <<columns, note, workflow, call, cancelling, bounds>>

\* A healthy poll of the runtime job.
Progress(a) ==
    /\ exec[a].phase = "runtime" /\ Stale(a)
    /\ lease' = [lease EXCEPT ![a] = "live"]
    /\ UNCHANGED <<columns, status, note, workflow, site, bounds>>

\* Time: a row nobody executes; and, as a fault, one whose handler is held up.
LeaseLapses(a) ==
    /\ status[a] = "running" /\ lease[a] = "live"
    /\ IF exec[a].phase = "idle" THEN UNCHANGED bounds ELSE Fault
    /\ lease' = [lease EXCEPT ![a] = "lapsed"]
    /\ UNCHANGED <<columns, status, note, workflow, site>>

SiteCrash ==
    /\ Fault
    /\ exec' = [a \in Run |-> NoExec]
    /\ call' = [c \in Caller |-> NoCall]
    /\ cancelling' = [r \in Request |-> FALSE]
    /\ UNCHANGED <<columns, status, lease, note, workflow>>

-----------------------------------------------------------------------------
OperatorNext ==
    \/ \E r \in Request : QueuePast(r) \/ CancelRequest(r)
    \/ \E r \in Request, x \in Action : Queue(r, x) \/ GateToTerminal(r, x)
    \/ \E r \in Request, s \in Step : ManualMove(r, s) \/ Reopen(r, s)
    \/ \E a \in Run : StopRun(a)
    \/ \E c \in Caller, r \in Request, x \in Action : DirectPost(c, r, x)

HandlerStep(a) ==
    Read(a) \/ Begin(a) \/ RuntimeFails(a) \/ \E stop \in BOOLEAN : RuntimeDone(a, stop)

Next ==
    \/ OperatorNext
    \/ \E r \in Request : CancelFinish(r)
    \/ Dispatch
    \/ \E a \in Run : HandlerStep(a) \/ Progress(a) \/ LeaseLapses(a)
    \/ \E c \in Caller : DirectBegin(c)
    \/ SiteCrash

Spec == Init /\ [][Next]_vars

\* The heartbeat calls the dispatcher every few seconds, every call of a handler has
\* a timeout, and the lease of a run without a handler runs out.
Fairness ==
    /\ WF_vars(Dispatch)
    /\ \A a \in Run : WF_vars(HandlerStep(a)) /\ WF_vars(exec[a].phase = "idle" /\ LeaseLapses(a))

FairSpec == Spec /\ Fairness

-----------------------------------------------------------------------------
(* Properties.                                                             *)

\* One request's workflow is executed by one owned run at a time, whatever
\* mixture of queue, direct posts, continuations and stops started them
\* (hasActiveAgentRun, response-route-handler.ts:172).
Executing(a) == status[a] = "running" /\ exec[a].phase = "runtime"
OneExecution ==
    \A a, b \in Run : Executing(a) /\ Executing(b) /\ of[a] = of[b] => a = b

\* No two active runs carry one idempotency key (request, step, action), though
\* no unique index enforces it (findActiveAgentRunByIdempotencyKey).
OneRunPerKey ==
    \A a, b \in Run :
        Active(a) /\ Active(b) /\ of[a] = of[b] /\ at[a] = at[b] /\ act[a] = act[b] => a = b

\* Whatever no operator and no gate decides moves a workflow only as the start of a
\* run on its own step, or as the end of one the workflow still waited for
\* (workflowRunStillOnStep, response-route-handler.ts:208).
StartedOn(r) == \E a \in Run : of'[a] = r /\ Executing(a)' /\ at'[a] = pos'[r]
WaitedFor(r) ==
    \E a \in Run :
        /\ exec[a].phase = "runtime" /\ of[a] = r /\ status[a] # "canceled"
        /\ wstat[r] = "active" /\ pos[r] = exec[a].step
        /\ Kind[pos[r]] # "checkpoint" /\ pos'[r] = Onward[pos[r]]
MovedBy(r) ==
    \/ ops' # ops \/ cancelling[r]
    \/ StartedOn(r) \/ WaitedFor(r)
    \/ Kind[pos'[r]] = "terminal"
       /\ \/ \E a \in Run : of[a] = r /\ exec[a].phase = "reading"
          \/ \E c \in Caller : call[c].req = r
MovesAreOwned == [][\A r \in Request : pos'[r] # pos[r] => MovedBy(r)]_vars

\* Every run that is queued or running ends, in spite of crashes, of rows whose
\* handler refused a duplicate, and of a lane full of dead runs.
RunsEnd == \A a \in Run : Active(a) ~> ~Active(a)

=============================================================================

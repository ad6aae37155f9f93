------------------------- MODULE AgentRunQueueProofs -------------------------
(***************************************************************************)
(* Theorems of AgentRunQueue, for any number of requests, rows, callers,   *)
(* operator requests and faults, any lane width, and any workflow that     *)
(* satisfies WorkflowAssumption.                                           *)
(***************************************************************************)
EXTENDS AgentRunQueue, TLAPS

\* The type invariant by the groups of variables that actions share.
ColumnsOK ==
    /\ rows \in 0..MaxRuns
    /\ of \in [Run -> Request \cup {"none"}]
    /\ at \in [Run -> Step \cup {"none"}]
    /\ act \in [Run -> Action]
StatusFun == [Run -> RunStatus]
LeaseFun == [Run -> {"none", "live", "lapsed"}]
NoteFun == [Run -> {"none", "done", "stop", "settled"}]
StateOK == status \in StatusFun /\ lease \in LeaseFun /\ note \in NoteFun
FlowOK ==
    /\ pos \in [Request -> Step]
    /\ wstat \in [Request -> {"active", "completed", "canceled"}]
Exec == [phase : {"idle", "claimed", "reading", "runtime"}, kind : {"queue", "direct", "auto"},
         from : Step, step : Step, hops : 0..MaxHops]
Call == [req : Request \cup {"none"}, act : Action, from : Step, step : Step]
SiteOK ==
    /\ exec \in [Run -> Exec]
    /\ call \in [Caller -> Call]
    /\ cancelling \in [Request -> BOOLEAN]
BoundsOK == ops \in 0..MaxOps /\ faults \in 0..MaxFaults

\* A row that exists, or is executed, belongs to a request.
Owned == \A a \in Run : status[a] # "none" \/ exec[a].phase # "idle" => of[a] \in Request

TypeInv == TypeOK /\ Owned

LEMMA TypeParts == TypeOK <=> ColumnsOK /\ StateOK /\ FlowOK /\ SiteOK /\ BoundsOK
BY DEF TypeOK, ColumnsOK, StateOK, FlowOK, SiteOK, BoundsOK, StatusFun, LeaseFun, NoteFun,
       Exec, Call

LEMMA TypeNextParts ==
    ASSUME ColumnsOK', StateOK', FlowOK', SiteOK', BoundsOK', Owned'
    PROVE  TypeInv'
BY DEF TypeInv, TypeOK, ColumnsOK, StateOK, FlowOK, SiteOK, BoundsOK, StatusFun, LeaseFun,
       NoteFun, Exec, Call

LEMMA Constants ==
    /\ NoExec \in Exec
    /\ NoCall \in Call
    /\ \A s \in {"none", "queued", "running", "succeeded", "failed", "canceled"} : s \in RunStatus
    /\ \A s \in Step, x \in Action : Runs(s, x) \in Step
    /\ \A s \in Step : StatusAt(s) \in {"active", "completed"}
    /\ "run" \in Action
BY WorkflowAssumption, BoundAssumption
   DEF NoExec, NoCall, Exec, Call, RunStatus, Runs, StatusAt, Action

-----------------------------------------------------------------------------
(* The updates that several actions share.                                 *)

LEMMA NewRowType ==
    ASSUME ColumnsOK, NEW r \in Request, NEW s \in Step, NEW x \in Action, NewRow(r, s, x)
    PROVE  /\ ColumnsOK'
           /\ rows + 1 \in Run /\ rows' = rows + 1
           /\ of'[rows + 1] = r /\ at'[rows + 1] = s /\ act'[rows + 1] = x
           /\ \A a \in Run : a # rows + 1 =>
                 of'[a] = of[a] /\ at'[a] = at[a] /\ act'[a] = act[a]
BY BoundAssumption DEF ColumnsOK, NewRow, Run

LEMMA EnqueueType ==
    ASSUME TypeInv, NEW r \in Request, NEW s \in Step, NEW x \in Action,
           Enqueue(r, s, x) \/ UNCHANGED <<columns, status>>,
           UNCHANGED exec
    PROVE  ColumnsOK' /\ status' \in StatusFun /\ Owned'
<1>t. ColumnsOK /\ StateOK /\ SiteOK /\ Owned
  BY TypeParts DEF TypeInv
<1>1. CASE Enqueue(r, s, x)
  <2>1. NewRow(r, s, x) /\ status' = [status EXCEPT ![rows + 1] = "queued"]
    BY <1>1 DEF Enqueue
  <2>2. status' \in StatusFun
    BY <1>t, <2>1, Constants DEF StateOK, StatusFun
  <2>3. Owned'
    BY <1>t, <2>1, NewRowType DEF StateOK, StatusFun, Owned, SiteOK
  <2> QED
    BY <1>t, <2>1, <2>2, <2>3, NewRowType
<1>2. CASE UNCHANGED <<columns, status>>
  BY <1>t, <1>2 DEF columns, ColumnsOK, StateOK, Owned
<1> QED
  BY <1>1, <1>2

LEMMA MoveType ==
    ASSUME TypeOK, NEW r \in Request, NEW s \in Step, Move(r, s)
    PROVE  FlowOK' /\ note' \in NoteFun
BY TypeParts, Constants DEF Move, FlowOK, Settled, NoteFun, StateOK

\* An action that leaves the rows' owners alone, and gives a status or a handler
\* only to a row that had one.
LEMMA OwnedKept ==
    ASSUME Owned, UNCHANGED of,
           \A a \in Run : status'[a] # "none" \/ exec'[a].phase # "idle" =>
                             status[a] # "none" \/ exec[a].phase # "idle"
    PROVE  Owned'
BY DEF Owned

-----------------------------------------------------------------------------
(* Type correctness: one lemma per group of actions.                       *)

LEMMA OperatorType ==
    ASSUME TypeInv, OperatorNext
    PROVE  TypeInv'
<1>t. ColumnsOK /\ StateOK /\ FlowOK /\ SiteOK /\ BoundsOK /\ Owned /\ TypeOK
  BY TypeParts DEF TypeInv
<1>b. Operator => BoundsOK'
  BY <1>t, BoundAssumption DEF Operator, BoundsOK
<1>1. ASSUME NEW r \in Request, QueuePast(r)  PROVE TypeInv'
  <2>1. Onward[pos[r]] \in Step
    BY <1>t, WorkflowAssumption DEF FlowOK
  <2>2. FlowOK' /\ note' \in NoteFun
    BY <1>t, <1>1, <2>1, MoveType DEF QueuePast
  <2>3. ColumnsOK' /\ status' \in StatusFun /\ Owned'
    BY <1>1, <2>1, EnqueueType, Constants DEF QueuePast, EnqueueByKey, site
  <2> QED
    BY <1>t, <1>b, <1>1, <2>2, <2>3, TypeNextParts DEF QueuePast, site, SiteOK, StateOK
<1>2. ASSUME NEW r \in Request, CancelRequest(r)  PROVE TypeInv'
  <2>1. status' \in StatusFun /\ cancelling' \in [Request -> BOOLEAN]
    BY <1>t, <1>2, Constants DEF CancelRequest, StateOK, StatusFun, SiteOK
  <2>2. Owned'
    BY <1>t, <1>2, OwnedKept DEF CancelRequest, columns, ActiveOf, Active
  <2> QED
    BY <1>t, <1>b, <1>2, <2>1, <2>2, TypeNextParts
       DEF CancelRequest, columns, workflow, ColumnsOK, StateOK, FlowOK, SiteOK
<1>3. ASSUME NEW r \in Request, NEW x \in Action, Queue(r, x)  PROVE TypeInv'
  <2>1. Runs(pos[r], x) \in Step
    BY <1>t, Constants DEF FlowOK
  <2>2. ColumnsOK' /\ status' \in StatusFun /\ Owned'
    BY <1>3, <2>1, EnqueueType DEF Queue, site
  <2> QED
    BY <1>t, <1>b, <1>3, <2>2, TypeNextParts
       DEF Queue, workflow, site, StateOK, FlowOK, SiteOK
<1>4. ASSUME NEW r \in Request, NEW x \in Action, GateToTerminal(r, x)  PROVE TypeInv'
  <2>1. Runs(pos[r], x) \in Step
    BY <1>t, Constants DEF FlowOK
  <2>2. FlowOK' /\ note' \in NoteFun
    BY <1>t, <1>4, <2>1, MoveType DEF GateToTerminal
  <2> QED
    BY <1>t, <1>b, <1>4, <2>2, TypeNextParts
       DEF GateToTerminal, columns, site, ColumnsOK, StateOK, SiteOK, Owned
<1>5. ASSUME NEW r \in Request, NEW s \in Step, ManualMove(r, s)  PROVE TypeInv'
  <2>1. FlowOK' /\ note' \in NoteFun
    BY <1>t, <1>5, MoveType DEF ManualMove
  <2> QED
    BY <1>t, <1>b, <1>5, <2>1, TypeNextParts
       DEF ManualMove, columns, site, ColumnsOK, StateOK, SiteOK, Owned
<1>6. ASSUME NEW r \in Request, NEW s \in Step, Reopen(r, s)  PROVE TypeInv'
  <2>1. ColumnsOK' /\ status' \in StatusFun /\ Owned'
    BY <1>6, EnqueueType, Constants DEF Reopen, EnqueueByKey, site
  <2>2. FlowOK'
    BY <1>t, <1>6 DEF Reopen, FlowOK
  <2> QED
    BY <1>t, <1>b, <1>6, <2>1, <2>2, TypeNextParts DEF Reopen, site, StateOK, SiteOK
<1>7. ASSUME NEW a \in Run, StopRun(a)  PROVE TypeInv'
  <2>1. StateOK'
    BY <1>t, <1>7, Constants DEF StopRun, StateOK, StatusFun, LeaseFun
  <2>2. Owned'
    BY <1>t, <1>7, OwnedKept DEF StopRun, columns, site, Active, StateOK, StatusFun
  <2> QED
    BY <1>t, <1>b, <1>7, <2>1, <2>2, TypeNextParts
       DEF StopRun, columns, workflow, site, ColumnsOK, FlowOK, SiteOK
<1>8. ASSUME NEW c \in Caller, NEW r \in Request, NEW x \in Action, DirectPost(c, r, x)
      PROVE  TypeInv'
  <2>1. Runs(pos[r], x) \in Step /\ pos[r] \in Step
    BY <1>t, Constants DEF FlowOK
  <2>2. [req |-> r, act |-> x, from |-> pos[r], step |-> Runs(pos[r], x)] \in Call
    BY <2>1 DEF Call
  <2>3. SiteOK'
    BY <1>t, <1>8, <2>2 DEF DirectPost, SiteOK
  <2> QED
    BY <1>t, <1>b, <1>8, <2>3, TypeNextParts
       DEF DirectPost, columns, workflow, ColumnsOK, StateOK, FlowOK, Owned
<1> QED
  BY <1>1, <1>2, <1>3, <1>4, <1>5, <1>6, <1>7, <1>8 DEF OperatorNext

LEMMA DispatchType ==
    ASSUME TypeInv, Dispatch
    PROVE  TypeInv'
<1>t. ColumnsOK /\ StateOK /\ FlowOK /\ SiteOK /\ BoundsOK /\ Owned
  BY TypeParts DEF TypeInv
<1>1. \A a \in Run : /\ status'[a] \in RunStatus
                     /\ lease'[a] \in {"none", "live", "lapsed"}
                     /\ exec'[a] \in Exec
  <2>1. [NoExec EXCEPT !.phase = "claimed"] \in Exec
    BY Constants DEF Exec
  <2> QED
    BY <1>t, <2>1, Constants DEF Dispatch, StateOK, StatusFun, LeaseFun, SiteOK
<1>2. StateOK' /\ SiteOK'
  BY <1>t, <1>1 DEF Dispatch, StateOK, StatusFun, LeaseFun, SiteOK
<1>3. Owned'
  <2>1. \A a \in Run : status'[a] # "none" => status[a] # "none"
    BY <1>t DEF Dispatch, Stale, Claimable
  <2>2. \A a \in Run : exec'[a].phase # "idle" => status[a] # "none" \/ exec[a].phase # "idle"
    BY <1>t DEF Dispatch, Claimable
  <2> QED
    BY <1>t, <2>1, <2>2, OwnedKept DEF Dispatch, columns
<1> QED
  BY <1>t, <1>2, <1>3, TypeNextParts
     DEF Dispatch, columns, workflow, bounds, ColumnsOK, FlowOK, BoundsOK

LEMMA RefuseType ==
    ASSUME TypeInv, NEW a \in Run, exec[a].phase # "idle", Refuse(a), UNCHANGED bounds
    PROVE  TypeInv'
<1>t. ColumnsOK /\ StateOK /\ FlowOK /\ SiteOK /\ BoundsOK /\ Owned
  BY TypeParts DEF TypeInv
<1>1. StateOK' /\ SiteOK'
  BY <1>t, Constants DEF Refuse, StateOK, StatusFun, LeaseFun, SiteOK
<1>2. Owned'
  <2>1. NoExec.phase = "idle"
    BY DEF NoExec
  <2> QED
    BY <1>t, <2>1, OwnedKept DEF Refuse, columns, StateOK, StatusFun, SiteOK
<1> QED
  BY <1>t, <1>1, <1>2, TypeNextParts
     DEF Refuse, columns, workflow, bounds, ColumnsOK, FlowOK, BoundsOK

LEMMA BeginType ==
    ASSUME TypeInv, NEW a \in Run, Begin(a)
    PROVE  TypeInv'
<1> DEFINE r == of[a]
           step == exec[a].step
           free == [exec EXCEPT ![a] = NoExec]
<1>t. ColumnsOK /\ StateOK /\ FlowOK /\ SiteOK /\ BoundsOK /\ Owned /\ TypeOK
  BY TypeParts DEF TypeInv
<1>a. exec[a].phase = "reading" /\ UNCHANGED bounds /\ BoundsOK'
  BY <1>t DEF Begin, bounds, BoundsOK
<1>r. r \in Request /\ step \in Step /\ exec[a] \in Exec
  BY <1>t, <1>a DEF Owned, SiteOK, Exec
<1>f. free \in [Run -> Exec] /\ \A b \in Run : free[b].phase # "idle" => exec[b].phase # "idle"
  BY <1>t, Constants DEF SiteOK, NoExec
<1>1. CASE /\ Move(r, step)
           /\ at' = [at EXCEPT ![a] = step]
           /\ status' = [status EXCEPT ![a] = "succeeded"]
           /\ exec' = free
           /\ UNCHANGED <<rows, of, act, lease, call, cancelling>>
  <2>1. FlowOK' /\ note' \in NoteFun
    BY <1>t, <1>r, <1>1, MoveType
  <2>2. ColumnsOK' /\ status' \in StatusFun
    BY <1>t, <1>r, <1>1, Constants DEF ColumnsOK, StateOK, StatusFun
  <2>3. Owned'
    BY <1>t, <1>a, <1>f, <1>1, OwnedKept DEF StateOK, StatusFun
  <2> QED
    BY <1>t, <1>a, <1>f, <1>1, <2>1, <2>2, <2>3, TypeNextParts DEF StateOK, SiteOK
<1>2. CASE exec' = free /\ UNCHANGED <<columns, status, lease, note, workflow, call, cancelling>>
  <2>1. Owned'
    BY <1>t, <1>f, <1>2, OwnedKept DEF columns
  <2> QED
    BY <1>t, <1>a, <1>f, <1>2, <2>1, TypeNextParts
       DEF columns, workflow, ColumnsOK, StateOK, FlowOK, SiteOK
<1>3. CASE Refuse(a)
  BY <1>a, <1>3, RefuseType
<1>4. CASE /\ PutOn(r, step)
           /\ at' = [at EXCEPT ![a] = step]
           /\ status' = [status EXCEPT ![a] = "running"]
           /\ lease' = [lease EXCEPT ![a] = "live"]
           /\ exec' = [exec EXCEPT ![a].phase = "runtime"]
           /\ UNCHANGED <<rows, of, act, note, call, cancelling>>
  <2>1. FlowOK' /\ ColumnsOK' /\ StateOK'
    BY <1>t, <1>r, <1>4, Constants
       DEF PutOn, FlowOK, ColumnsOK, StateOK, StatusFun, LeaseFun
  <2>2. [exec[a] EXCEPT !.phase = "runtime"] \in Exec
    BY <1>r DEF Exec
  <2>3. SiteOK'
    BY <1>t, <1>4, <2>2 DEF SiteOK
  <2>4. Owned'
    BY <1>t, <1>a, <1>4, OwnedKept DEF StateOK, StatusFun, SiteOK
  <2> QED
    BY <1>a, <2>1, <2>3, <2>4, TypeNextParts
<1> QED
  BY <1>1, <1>2, <1>3, <1>4 DEF Begin

LEMMA DirectBeginType ==
    ASSUME TypeInv, NEW c \in Caller, DirectBegin(c)
    PROVE  TypeInv'
<1> DEFINE r == call[c].req
           step == call[c].step
<1>t. ColumnsOK /\ StateOK /\ FlowOK /\ SiteOK /\ BoundsOK /\ Owned /\ TypeOK
  BY TypeParts DEF TypeInv
<1>c. call[c] \in Call /\ r # "none" /\ call' = [call EXCEPT ![c] = NoCall]
      /\ cancelling' = cancelling /\ BoundsOK'
  BY <1>t DEF DirectBegin, SiteOK, bounds, BoundsOK
<1>r. r \in Request /\ step \in Step /\ call[c].from \in Step /\ call[c].act \in Action
  BY <1>c DEF Call
<1>k. call' \in [Caller -> Call] /\ cancelling' \in [Request -> BOOLEAN]
  BY <1>t, <1>c, Constants DEF SiteOK
<1>1. CASE Move(r, step) /\ UNCHANGED <<columns, status, lease, exec>>
  <2>1. FlowOK' /\ note' \in NoteFun
    BY <1>t, <1>r, <1>1, MoveType
  <2> QED
    BY <1>t, <1>c, <1>k, <1>1, <2>1, TypeNextParts DEF columns, ColumnsOK, StateOK, SiteOK, Owned
<1>2. CASE UNCHANGED <<columns, status, lease, note, workflow, exec>>
  BY <1>t, <1>c, <1>k, <1>2, TypeNextParts
     DEF columns, workflow, ColumnsOK, StateOK, FlowOK, SiteOK, Owned
<1>3. CASE /\ PutOn(r, step)
           /\ NewRow(r, step, call[c].act)
           /\ status' = [status EXCEPT ![rows + 1] = "running"]
           /\ lease' = [lease EXCEPT ![rows + 1] = "live"]
           /\ exec' = [exec EXCEPT ![rows + 1] = [phase |-> "runtime", kind |-> "direct",
                             from |-> call[c].from, step |-> step, hops |-> 0]]
           /\ UNCHANGED note
  <2>1. /\ ColumnsOK' /\ rows + 1 \in Run /\ of'[rows + 1] = r
        /\ \A a \in Run : a # rows + 1 => of'[a] = of[a]
    BY <1>t, <1>r, <1>3, NewRowType
  <2>2. StateOK' /\ FlowOK'
    BY <1>t, <1>r, <1>3, <2>1, Constants DEF PutOn, StateOK, StatusFun, LeaseFun, FlowOK
  <2>3. [phase |-> "runtime", kind |-> "direct", from |-> call[c].from, step |-> step,
         hops |-> 0] \in Exec
    BY <1>r, BoundAssumption DEF Exec
  <2>4. SiteOK'
    BY <1>t, <1>k, <1>3, <2>1, <2>3 DEF SiteOK
  <2>5. Owned'
    BY <1>t, <1>r, <1>3, <2>1 DEF Owned, StateOK, StatusFun, SiteOK
  <2> QED
    BY <1>c, <2>1, <2>2, <2>4, <2>5, TypeNextParts
<1> QED
  BY <1>1, <1>2, <1>3 DEF DirectBegin

LEMMA DoneType ==
    ASSUME TypeInv, NEW a \in Run, NEW stop \in BOOLEAN, RuntimeDone(a, stop)
    PROVE  TypeInv'
<1> DEFINE r == of[a]
           free == [exec EXCEPT ![a] = NoExec]
<1>t. ColumnsOK /\ StateOK /\ FlowOK /\ SiteOK /\ BoundsOK /\ Owned /\ TypeOK
  BY TypeParts DEF TypeInv
<1>a. exec[a].phase = "runtime" /\ UNCHANGED <<call, cancelling>> /\ BoundsOK'
  BY <1>t DEF RuntimeDone, bounds, BoundsOK
<1>r. r \in Request /\ exec[a] \in Exec /\ exec[a].step \in Step
  BY <1>t, <1>a DEF Owned, SiteOK, Exec
<1>s. Leads(a) \in Step /\ DoneStatus(a) \in {"active", "completed"}
  BY <1>r, WorkflowAssumption, Constants DEF Leads, DoneStatus
<1>f. free \in [Run -> Exec] /\ \A b \in Run : free[b].phase # "idle" => exec[b].phase # "idle"
  BY <1>t, Constants DEF SiteOK, NoExec
<1>c. Completes(a, stop) => StateOK' /\ FlowOK'
  <2>1. ASSUME Completes(a, stop)
        PROVE  status' \in StatusFun /\ lease' \in LeaseFun
    BY <1>t, <2>1, Constants DEF Completes, StateOK, StatusFun, LeaseFun
  <2>2. ASSUME Completes(a, stop), OnStep(a) /\ ~stop
        PROVE  note' \in NoteFun /\ FlowOK'
    <3>1. Settled(r, Leads(a)) \in NoteFun
      BY <1>t DEF Settled, StateOK, NoteFun
    <3> QED
      BY <1>t, <1>r, <1>s, <2>2, <3>1 DEF Completes, NoteFun, FlowOK
  <2>3. ASSUME Completes(a, stop), ~(OnStep(a) /\ ~stop)
        PROVE  note' \in NoteFun /\ FlowOK'
    BY <1>t, <2>3 DEF Completes, StateOK, NoteFun, workflow, FlowOK
  <2> QED
    BY <2>1, <2>2, <2>3 DEF StateOK
<1>1. CASE exec' = free /\ UNCHANGED <<columns, status, lease, note, workflow>>
  <2>1. Owned'
    BY <1>t, <1>f, <1>1, OwnedKept DEF columns
  <2> QED
    BY <1>t, <1>a, <1>f, <1>1, <2>1, TypeNextParts
       DEF columns, workflow, ColumnsOK, StateOK, FlowOK, SiteOK
<1>2. CASE UNCHANGED columns /\ Completes(a, stop) /\ exec' = free
  <2>1. \A b \in Run : status'[b] # "none" => b = a \/ status[b] # "none"
    BY <1>t, <1>2 DEF Completes, columns, ColumnsOK, Run
  <2>2. Owned'
    BY <1>t, <1>a, <1>f, <1>2, <2>1, OwnedKept DEF columns
  <2> QED
    BY <1>t, <1>a, <1>f, <1>c, <1>2, <2>2, TypeNextParts DEF columns, ColumnsOK, SiteOK
<1>3. CASE /\ Continues(a)
           /\ NewRow(of[a], Leads(a), "run")
           /\ Completes(a, stop)
           /\ exec' = [exec EXCEPT ![a] = NoExec,
                 ![rows + 1] = [phase |-> "runtime", kind |-> "auto", from |-> Leads(a),
                                step |-> Leads(a), hops |-> exec[a].hops + 1]]
  <2>1. /\ ColumnsOK' /\ rows + 1 \in Run /\ rows' = rows + 1 /\ of'[rows + 1] = r
        /\ \A b \in Run : b # rows + 1 => of'[b] = of[b]
    BY <1>t, <1>r, <1>s, <1>3, NewRowType, Constants
  <2>2. [phase |-> "runtime", kind |-> "auto", from |-> Leads(a), step |-> Leads(a),
         hops |-> exec[a].hops + 1] \in Exec
    BY <1>r, <1>s, <1>3, BoundAssumption DEF Continues, Exec
  <2>3. SiteOK' /\ \A b \in Run : exec'[b].phase # "idle" =>
                       b = rows + 1 \/ exec[b].phase # "idle"
    BY <1>t, <1>a, <1>f, <1>3, <2>1, <2>2 DEF SiteOK
  <2>4. \A b \in Run : status'[b] # "none" => b = a \/ b = rows + 1 \/ status[b] # "none"
    BY <1>t, <1>3, <2>1 DEF Completes, ColumnsOK, Run
  <2>5. Owned'
    BY <1>t, <1>a, <1>r, <2>1, <2>3, <2>4 DEF Owned
  <2> QED
    BY <1>t, <1>a, <1>c, <1>3, <2>1, <2>3, <2>5, TypeNextParts
<1> QED
  BY <1>1, <1>2, <1>3 DEF RuntimeDone

LEMMA HandlerType ==
    ASSUME TypeInv, NEW a \in Run, HandlerStep(a)
    PROVE  TypeInv'
<1>t. ColumnsOK /\ StateOK /\ FlowOK /\ SiteOK /\ BoundsOK /\ Owned
  BY TypeParts DEF TypeInv
<1>1. CASE Read(a)
  <2>a. exec[a].phase = "claimed" /\ UNCHANGED bounds /\ BoundsOK' /\ exec[a] \in Exec
    BY <1>t, <1>1 DEF Read, bounds, BoundsOK, SiteOK
  <2>r. of[a] \in Request /\ pos[of[a]] \in Step /\ act[a] \in Action
    BY <1>t, <2>a DEF Owned, FlowOK, ColumnsOK
  <2>1. CASE Refuse(a)
    BY <2>a, <2>1, RefuseType
  <2>2. CASE /\ exec' = [exec EXCEPT ![a] = [@ EXCEPT !.phase = "reading", !.from = pos[of[a]],
                                                     !.step = Runs(pos[of[a]], act[a])]]
             /\ UNCHANGED <<columns, status, lease, note, workflow, call, cancelling>>
    <3>1. [exec[a] EXCEPT !.phase = "reading", !.from = pos[of[a]],
                          !.step = Runs(pos[of[a]], act[a])] \in Exec
      BY <2>a, <2>r, Constants DEF Exec
    <3>2. SiteOK'
      BY <1>t, <2>2, <3>1 DEF SiteOK
    <3>3. Owned'
      BY <1>t, <2>a, <2>2, OwnedKept DEF columns, SiteOK
    <3> QED
      BY <1>t, <2>a, <2>2, <3>2, <3>3, TypeNextParts
         DEF columns, workflow, ColumnsOK, StateOK, FlowOK
  <2> QED
    BY <1>1, <2>1, <2>2 DEF Read
<1>2. CASE Begin(a)
  BY <1>2, BeginType
<1>3. CASE RuntimeFails(a)
  <2>1. StateOK' /\ SiteOK'
    BY <1>t, <1>3, Constants DEF RuntimeFails, StateOK, StatusFun, LeaseFun, SiteOK
  <2>2. Owned'
    BY <1>t, <1>3, OwnedKept DEF RuntimeFails, columns, StateOK, StatusFun, SiteOK, NoExec
  <2> QED
    BY <1>t, <1>3, <2>1, <2>2, TypeNextParts
       DEF RuntimeFails, columns, workflow, bounds, ColumnsOK, FlowOK, BoundsOK
<1>4. ASSUME NEW stop \in BOOLEAN, RuntimeDone(a, stop)  PROVE TypeInv'
  BY <1>4, DoneType
<1> QED
  BY <1>1, <1>2, <1>3, <1>4 DEF HandlerStep

LEMMA TypeNext ==
    ASSUME TypeInv, [Next]_vars
    PROVE  TypeInv'
<1>t. ColumnsOK /\ StateOK /\ FlowOK /\ SiteOK /\ BoundsOK /\ Owned
  BY TypeParts DEF TypeInv
<1>1. CASE OperatorNext
  BY <1>1, OperatorType
<1>2. ASSUME NEW r \in Request, CancelFinish(r)  PROVE TypeInv'
  <2>1. FlowOK' /\ SiteOK'
    BY <1>t, <1>2, WorkflowAssumption DEF CancelFinish, FlowOK, SiteOK
  <2> QED
    BY <1>t, <1>2, <2>1, TypeNextParts
       DEF CancelFinish, columns, bounds, ColumnsOK, StateOK, BoundsOK, Owned
<1>3. CASE Dispatch
  BY <1>3, DispatchType
<1>4. ASSUME NEW a \in Run, HandlerStep(a)  PROVE TypeInv'
  BY <1>4, HandlerType
<1>5. ASSUME NEW a \in Run, Progress(a) \/ LeaseLapses(a)  PROVE TypeInv'
  <2>1. BoundsOK' /\ lease' \in LeaseFun
    BY <1>t, <1>5, BoundAssumption
       DEF Progress, LeaseLapses, Fault, bounds, BoundsOK, StateOK, LeaseFun
  <2>2. UNCHANGED <<columns, status, note, workflow, site>>
    BY <1>5 DEF Progress, LeaseLapses
  <2> QED
    BY <1>t, <2>1, <2>2, TypeNextParts
       DEF columns, workflow, site, ColumnsOK, StateOK, FlowOK, SiteOK, Owned
<1>6. ASSUME NEW c \in Caller, DirectBegin(c)  PROVE TypeInv'
  BY <1>6, DirectBeginType
<1>7. CASE SiteCrash
  <2>1. BoundsOK' /\ SiteOK'
    BY <1>t, <1>7, BoundAssumption, Constants DEF SiteCrash, Fault, BoundsOK, SiteOK
  <2>2. Owned'
    BY <1>t, <1>7, OwnedKept DEF SiteCrash, columns, NoExec
  <2> QED
    BY <1>t, <1>7, <2>1, <2>2, TypeNextParts
       DEF SiteCrash, columns, workflow, ColumnsOK, StateOK, FlowOK
<1>8. CASE UNCHANGED vars
  BY <1>t, <1>8, TypeNextParts
     DEF vars, columns, workflow, site, bounds, ColumnsOK, StateOK, FlowOK, SiteOK, BoundsOK, Owned
<1> QED
  BY <1>1, <1>2, <1>3, <1>4, <1>5, <1>6, <1>7, <1>8 DEF Next

THEOREM TypeInvariant == Spec => []TypeInv
<1>1. Init => TypeInv
  <2> SUFFICES ASSUME Init PROVE TypeInv
    OBVIOUS
  <2>1. ColumnsOK /\ StateOK /\ FlowOK /\ SiteOK /\ BoundsOK
    BY WorkflowAssumption, BoundAssumption, Constants
       DEF Init, ColumnsOK, StateOK, StatusFun, LeaseFun, NoteFun, FlowOK, SiteOK, BoundsOK
  <2>2. Owned
    BY DEF Init, Owned, NoExec
  <2> QED
    BY <2>1, <2>2, TypeParts DEF TypeInv
<1> QED
  BY <1>1, TypeNext, PTL DEF Spec

\* Every row, handler and counter keeps its type, the auto-continuation depth of a
\* handler among them (the limit of response-route-handler.ts:1539).
THEOREM TypeCorrect == Spec => []TypeOK
BY TypeInvariant, PTL DEF TypeInv

-----------------------------------------------------------------------------
(* Single execution and idempotent queueing.  Either no row becomes active *)
(* or executing (Quiet), or one does while no other row of its request is  *)
(* active (Alone), or one is queued under a key nobody holds (Enqueue).    *)

Single == OneExecution /\ OneRunPerKey

LEMMA Quiet ==
    ASSUME Single, UNCHANGED <<of, at, act>>,
           \A x \in Run : /\ Active(x)' => Active(x)
                          /\ Executing(x)' => Executing(x)
    PROVE  Single'
BY DEF Single, OneExecution, OneRunPerKey

LEMMA Alone ==
    ASSUME Single, NEW n \in Run,
           \A x \in Run : x # n =>
              /\ of'[x] = of[x] /\ at'[x] = at[x] /\ act'[x] = act[x]
              /\ Active(x)' => Active(x)
              /\ Executing(x)' => Executing(x)
              /\ Active(n)' /\ Active(x)' => of'[x] # of'[n]
    PROVE  Single'
<1>1. \A x \in Run : Executing(x)' => Active(x)'
  BY DEF Executing, Active
<1> QED
  BY <1>1 DEF Single, OneExecution, OneRunPerKey

LEMMA EnqueueSingle ==
    ASSUME TypeInv, Single, NEW r \in Request, NEW s \in Step, NEW x \in Action,
           \/ SameKey(r, s, x) = {} /\ Enqueue(r, s, x)
           \/ UNCHANGED <<columns, status>>,
           UNCHANGED exec
    PROVE  Single'
<1>1. CASE UNCHANGED <<columns, status>>
  BY <1>1, Quiet DEF columns, Active, Executing
<1>2. CASE SameKey(r, s, x) = {} /\ Enqueue(r, s, x)
  <2>t. ColumnsOK /\ StateOK
    BY TypeParts DEF TypeInv
  <2>1. /\ rows + 1 \in Run
        /\ of'[rows + 1] = r /\ at'[rows + 1] = s /\ act'[rows + 1] = x
        /\ \A a \in Run : a # rows + 1 =>
              of'[a] = of[a] /\ at'[a] = at[a] /\ act'[a] = act[a]
    BY <2>t, <1>2, NewRowType DEF Enqueue
  <2>2. /\ status'[rows + 1] = "queued"
        /\ \A a \in Run : a # rows + 1 => status'[a] = status[a]
    BY <2>t, <1>2, <2>1 DEF Enqueue, StateOK, StatusFun
  <2>3. OneExecution'
    BY <2>1, <2>2 DEF Single, OneExecution, Executing
  <2>4. \A a \in Run : Active(a) => ~(of[a] = r /\ at[a] = s /\ act[a] = x)
    BY <1>2 DEF SameKey, ActiveOf
  <2>5. OneRunPerKey'
    BY <2>1, <2>2, <2>4 DEF Single, OneRunPerKey, Active
  <2> QED
    BY <2>3, <2>5 DEF Single
<1> QED
  BY <1>1, <1>2

LEMMA OperatorSingle ==
    ASSUME TypeInv, Single, OperatorNext
    PROVE  Single'
<1>t. ColumnsOK /\ StateOK /\ FlowOK /\ SiteOK
  BY TypeParts DEF TypeInv
<1>1. ASSUME NEW r \in Request, QueuePast(r)  PROVE Single'
  <2>1. Onward[pos[r]] \in Step
    BY <1>t, WorkflowAssumption DEF FlowOK
  <2> QED
    BY <1>1, <2>1, EnqueueSingle, Constants DEF QueuePast, EnqueueByKey, site
<1>2. ASSUME NEW r \in Request, CancelRequest(r)  PROVE Single'
  BY <1>t, <1>2, Quiet DEF CancelRequest, columns, Active, Executing, StateOK, StatusFun
<1>3. ASSUME NEW r \in Request, NEW x \in Action, Queue(r, x)  PROVE Single'
  <2>1. Runs(pos[r], x) \in Step
    BY <1>t, Constants DEF FlowOK
  <2> QED
    BY <1>3, <2>1, EnqueueSingle DEF Queue, site
<1>4. ASSUME NEW r \in Request, NEW x \in Action, GateToTerminal(r, x)  PROVE Single'
  BY <1>4, Quiet DEF GateToTerminal, columns, site, Active, Executing
<1>5. ASSUME NEW r \in Request, NEW s \in Step, ManualMove(r, s)  PROVE Single'
  BY <1>5, Quiet DEF ManualMove, columns, site, Active, Executing
<1>6. ASSUME NEW r \in Request, NEW s \in Step, Reopen(r, s)  PROVE Single'
  BY <1>6, EnqueueSingle, Constants DEF Reopen, EnqueueByKey, site
<1>7. ASSUME NEW a \in Run, StopRun(a)  PROVE Single'
  BY <1>t, <1>7, Quiet DEF StopRun, columns, site, Active, Executing, StateOK, StatusFun
<1>8. ASSUME NEW c \in Caller, NEW r \in Request, NEW x \in Action, DirectPost(c, r, x)
      PROVE  Single'
  BY <1>8, Quiet DEF DirectPost, columns, Active, Executing
<1> QED
  BY <1>1, <1>2, <1>3, <1>4, <1>5, <1>6, <1>7, <1>8 DEF OperatorNext

LEMMA DispatchSingle ==
    ASSUME TypeInv, Single, Dispatch
    PROVE  Single'
<1>t. StateOK /\ SiteOK
  BY TypeParts DEF TypeInv
<1>1. \A a \in Run : Active(a)' => Active(a)
  BY <1>t DEF Dispatch, Stale, Claimable, Active, StateOK, StatusFun
<1>2. \A a \in Run : Claimable(a) => exec'[a].phase = "claimed"
  BY <1>t DEF Dispatch, NoExec
<1>3. \A a \in Run : ~Claimable(a) => exec'[a] = exec[a] /\ (status'[a] = "running" => status[a] = "running")
  BY <1>t DEF Dispatch, Stale
<1>4. \A a \in Run : Executing(a)' => Executing(a)
  BY <1>2, <1>3 DEF Executing
<1> QED
  BY <1>1, <1>4, Quiet DEF Dispatch, columns

LEMMA RefuseSingle ==
    ASSUME TypeInv, Single, NEW a \in Run, Refuse(a)
    PROVE  Single'
<1>t. StateOK /\ SiteOK
  BY TypeParts DEF TypeInv
<1> QED
  BY <1>t, Quiet DEF Refuse, columns, Active, Executing, StateOK, StatusFun, SiteOK, NoExec

LEMMA HandlerSingle ==
    ASSUME TypeInv, Single, NEW a \in Run, HandlerStep(a)
    PROVE  Single'
<1>t. ColumnsOK /\ StateOK /\ FlowOK /\ SiteOK /\ Owned
  BY TypeParts DEF TypeInv
<1>1. CASE Read(a)
  <2>1. CASE Refuse(a)
    BY <2>1, RefuseSingle
  <2>2. CASE /\ exec' = [exec EXCEPT ![a] = [@ EXCEPT !.phase = "reading", !.from = pos[of[a]],
                                                     !.step = Runs(pos[of[a]], act[a])]]
             /\ UNCHANGED <<columns, status, lease, note, workflow, call, cancelling>>
    BY <1>t, <2>2, Quiet DEF columns, Active, Executing, SiteOK, Exec
  <2> QED
    BY <1>1, <2>1, <2>2 DEF Read
<1>2. CASE Begin(a)
  <2> DEFINE r == of[a]
             step == exec[a].step
             free == [exec EXCEPT ![a] = NoExec]
  <2>1. CASE /\ at' = [at EXCEPT ![a] = step]
             /\ status' = [status EXCEPT ![a] = "succeeded"]
             /\ exec' = free
             /\ UNCHANGED <<rows, of, act, lease, call, cancelling>>
    <3>1. ~Active(a)'
      BY <1>t, <2>1 DEF Active, StateOK, StatusFun
    <3>2. \A x \in Run : x # a => /\ at'[x] = at[x]
                                  /\ Active(x)' => Active(x)
                                  /\ Executing(x)' => Executing(x)
      BY <1>t, <2>1 DEF Active, Executing, StateOK, StatusFun, SiteOK, ColumnsOK
    <3> QED
      BY <2>1, <3>1, <3>2, Alone
  <2>2. CASE exec' = free /\ UNCHANGED <<columns, status, lease, note, workflow, call, cancelling>>
    BY <1>t, <2>2, Quiet DEF columns, Active, Executing, SiteOK, NoExec
  <2>3. CASE Refuse(a)
    BY <2>3, RefuseSingle
  <2>4. CASE /\ MayStart(r, step, act[a], {a})
             /\ at' = [at EXCEPT ![a] = step]
             /\ status' = [status EXCEPT ![a] = "running"]
             /\ exec' = [exec EXCEPT ![a].phase = "runtime"]
             /\ UNCHANGED <<rows, of, act, note, call, cancelling>>
    <3>1. \A x \in Run : x # a /\ Active(x) => of[x] # r
      BY <2>4 DEF MayStart, Elsewhere, ActiveOf
    <3>2. \A x \in Run : x # a => /\ at'[x] = at[x]
                                  /\ Active(x)' => Active(x)
                                  /\ Executing(x)' => Executing(x)
      BY <1>t, <2>4 DEF Active, Executing, StateOK, StatusFun, SiteOK, ColumnsOK
    <3> QED
      BY <2>4, <3>1, <3>2, Alone
  <2> QED
    BY <1>2, <2>1, <2>2, <2>3, <2>4 DEF Begin
<1>3. CASE RuntimeFails(a)
  BY <1>t, <1>3, Quiet
     DEF RuntimeFails, columns, Active, Executing, StateOK, StatusFun, SiteOK, NoExec
<1>4. ASSUME NEW stop \in BOOLEAN, RuntimeDone(a, stop)  PROVE Single'
  <2>a. of[a] \in Request /\ exec[a].phase = "runtime" /\ exec[a].step \in Step
    BY <1>t, <1>4 DEF RuntimeDone, Owned, SiteOK, Exec
  <2> DEFINE free == [exec EXCEPT ![a] = NoExec]
  <2>1. CASE exec' = free /\ UNCHANGED <<columns, status, lease, note, workflow>>
    BY <1>t, <2>1, Quiet DEF columns, Active, Executing, SiteOK, NoExec
  <2>2. CASE UNCHANGED columns /\ Completes(a, stop) /\ exec' = free
    <3>1. \A x \in Run : IF x = a THEN status'[x] = "succeeded" ELSE status'[x] = status[x]
      BY <1>t, <2>2 DEF Completes, columns, ColumnsOK, Run
    <3> QED
      BY <1>t, <2>2, <3>1, Quiet DEF columns, Active, Executing, SiteOK, NoExec
  <2>3. CASE /\ Continues(a)
             /\ NewRow(of[a], Leads(a), "run")
             /\ Completes(a, stop)
             /\ exec' = [exec EXCEPT ![a] = NoExec,
                   ![rows + 1] = [phase |-> "runtime", kind |-> "auto", from |-> Leads(a),
                                  step |-> Leads(a), hops |-> exec[a].hops + 1]]
    <3> DEFINE n == rows + 1
    <3>s. Leads(a) \in Step
      BY <2>a, WorkflowAssumption DEF Leads
    <3>1. /\ n \in Run /\ rows' = n /\ of'[n] = of[a]
          /\ \A x \in Run : x # n => of'[x] = of[x] /\ at'[x] = at[x] /\ act'[x] = act[x]
      BY <1>t, <2>a, <2>3, <3>s, NewRowType, Constants
    <3>2. status'[a] = "succeeded"
          /\ \A x \in Run : x # a /\ x # n => status'[x] = status[x] /\ exec'[x] = exec[x]
      <4>1. rows \in Nat /\ \A x \in Run : x \in (rows + 1)..rows' => x = n
        BY <1>t, <3>1 DEF ColumnsOK, Run
      <4>2. \A x \in Run : x # a /\ x # n => exec'[x] = exec[x]
        BY <1>t, <2>3 DEF SiteOK
      <4>3. \A x \in Run : x # a /\ x # n => status'[x] = status[x]
        BY <2>3, <4>1 DEF Completes
      <4>4. status'[a] = "succeeded"
        BY <2>3 DEF Completes
      <4> QED
        BY <4>2, <4>3, <4>4
    <3>3. \A x \in Run : x # a /\ Active(x) => of[x] # of[a]
      BY <2>3 DEF Continues, ActiveOf
    <3>4. \A x \in Run : x # n => /\ Active(x)' => x # a /\ Active(x)
                                  /\ Executing(x)' => Executing(x)
      BY <3>2 DEF Active, Executing
    <3> QED
      BY <3>1, <3>3, <3>4, Alone
  <2> QED
    BY <1>4, <2>1, <2>2, <2>3 DEF RuntimeDone
<1> QED
  BY <1>1, <1>2, <1>3, <1>4 DEF HandlerStep

LEMMA SingleNext ==
    ASSUME TypeInv, Single, [Next]_vars
    PROVE  Single'
<1>t. ColumnsOK /\ StateOK /\ FlowOK /\ SiteOK
  BY TypeParts DEF TypeInv
<1>1. CASE OperatorNext
  BY <1>1, OperatorSingle
<1>2. ASSUME NEW r \in Request, CancelFinish(r)  PROVE Single'
  BY <1>2, Quiet DEF CancelFinish, columns, Active, Executing
<1>3. CASE Dispatch
  BY <1>3, DispatchSingle
<1>4. ASSUME NEW a \in Run, HandlerStep(a)  PROVE Single'
  BY <1>4, HandlerSingle
<1>5. ASSUME NEW a \in Run, Progress(a) \/ LeaseLapses(a)  PROVE Single'
  BY <1>5, Quiet DEF Progress, LeaseLapses, columns, site, Active, Executing
<1>6. ASSUME NEW c \in Caller, DirectBegin(c)  PROVE Single'
  <2> DEFINE r == call[c].req
             step == call[c].step
             n == rows + 1
  <2>1. CASE UNCHANGED <<columns, status, exec>>
    BY <2>1, Quiet DEF columns, Active, Executing
  <2>2. CASE /\ MayStart(r, step, call[c].act, {})
             /\ NewRow(r, step, call[c].act)
             /\ status' = [status EXCEPT ![n] = "running"]
             /\ exec' = [exec EXCEPT ![n] = [phase |-> "runtime", kind |-> "direct",
                               from |-> call[c].from, step |-> step, hops |-> 0]]
    <3>r. r \in Request /\ step \in Step /\ call[c].act \in Action
      BY <1>t, <1>6 DEF DirectBegin, SiteOK, Call
    <3>1. /\ n \in Run /\ of'[n] = r
          /\ \A x \in Run : x # n => of'[x] = of[x] /\ at'[x] = at[x] /\ act'[x] = act[x]
      BY <1>t, <2>2, <3>r, NewRowType
    <3>2. \A x \in Run : x # n => status'[x] = status[x] /\ exec'[x] = exec[x]
      BY <1>t, <2>2, <3>1 DEF StateOK, StatusFun, SiteOK
    <3>3. \A x \in Run : Active(x) => of[x] # r
      BY <2>2 DEF MayStart, Elsewhere, ActiveOf
    <3>4. \A x \in Run : x # n => /\ Active(x)' => Active(x)
                                  /\ Executing(x)' => Executing(x)
      BY <3>2 DEF Active, Executing
    <3>5. \A x \in Run : x # n /\ Active(x)' => of'[x] # of'[n]
      BY <3>1, <3>3, <3>4
    <3> HIDE DEF n
    <3> QED
      BY <3>1, <3>4, <3>5, Alone
  <2> QED
    BY <1>6, <2>1, <2>2 DEF DirectBegin
<1>7. CASE SiteCrash
  BY <1>t, <1>7, Quiet DEF SiteCrash, columns, Active, Executing, NoExec
<1>8. CASE UNCHANGED vars
  BY <1>8, Quiet DEF vars, columns, site, Active, Executing
<1> QED
  BY <1>1, <1>2, <1>3, <1>4, <1>5, <1>6, <1>7, <1>8 DEF Next

THEOREM SingleInvariant == Spec => []Single
<1>1. Init => Single
  BY DEF Init, Single, OneExecution, OneRunPerKey, Executing, Active
<1> QED
  BY <1>1, TypeInvariant, SingleNext, PTL DEF Spec

\* A request is executed by one owned run at a time: queue, direct posts and
\* auto-continuations exclude each other through hasActiveAgentRun alone.
THEOREM ExecutedOnce == Spec => []OneExecution
BY SingleInvariant, PTL DEF Single

\* No two active rows carry one idempotency key.
THEOREM KeysAreUnique == Spec => []OneRunPerKey
BY SingleInvariant, PTL DEF Single

-----------------------------------------------------------------------------
(* Who moves a workflow.                                                   *)

LEMMA HandlerMoves ==
    ASSUME TypeInv, NEW a \in Run, HandlerStep(a), NEW r \in Request, pos'[r] # pos[r]
    PROVE  MovedBy(r)
<1>t. ColumnsOK /\ StateOK /\ FlowOK /\ SiteOK /\ Owned
  BY TypeParts DEF TypeInv
<1>1. ~Read(a) /\ ~RuntimeFails(a) /\ ~Refuse(a)
  BY DEF Read, Refuse, RuntimeFails, workflow
<1>2. CASE Begin(a)
  <2> DEFINE step == exec[a].step
  <2>a. of[a] \in Request /\ exec[a].phase = "reading"
    BY <1>t, <1>2 DEF Begin, Owned
  <2>1. CASE ClosesGate(exec[a].from, step) /\ Move(of[a], step)
    <3>1. pos'[r] = step /\ of[a] = r
      BY <1>t, <2>a, <2>1 DEF Move, FlowOK
    <3> QED
      BY <2>a, <2>1, <3>1 DEF ClosesGate, MovedBy
  <2>2. CASE /\ PutOn(of[a], step)
             /\ at' = [at EXCEPT ![a] = step]
             /\ status' = [status EXCEPT ![a] = "running"]
             /\ exec' = [exec EXCEPT ![a].phase = "runtime"]
             /\ of' = of
    <3>1. pos'[r] = step /\ of[a] = r
      BY <1>t, <2>a, <2>2 DEF PutOn, FlowOK
    <3>2. at'[a] = step /\ Executing(a)'
      BY <1>t, <2>2 DEF ColumnsOK, StateOK, StatusFun, SiteOK, Exec, Executing
    <3> QED
      BY <2>2, <3>1, <3>2 DEF StartedOn, MovedBy
  <2>3. CASE UNCHANGED workflow
    BY <2>3 DEF workflow
  <2> QED
    BY <1>1, <1>2, <2>1, <2>2, <2>3 DEF Begin
<1>3. ASSUME NEW stop \in BOOLEAN, RuntimeDone(a, stop)  PROVE MovedBy(r)
  <2>1. exec[a].phase = "runtime" /\ of[a] \in Request
    BY <1>t, <1>3 DEF RuntimeDone, Owned
  <2>2. status[a] # "canceled" /\ Completes(a, stop)
    BY <1>3 DEF RuntimeDone, workflow
  <2>3. OnStep(a) /\ pos' = [pos EXCEPT ![of[a]] = Leads(a)]
    BY <2>2 DEF Completes, workflow
  <2>4. of[a] = r /\ pos'[r] = Leads(a)
    BY <1>t, <2>1, <2>3 DEF FlowOK
  <2> QED
    BY <2>1, <2>2, <2>3, <2>4 DEF OnStep, Leads, WaitedFor, MovedBy
<1> QED
  BY <1>1, <1>2, <1>3 DEF HandlerStep

LEMMA MovesNext ==
    ASSUME TypeInv, [Next]_vars, NEW r \in Request, pos'[r] # pos[r]
    PROVE  MovedBy(r)
<1>t. ColumnsOK /\ StateOK /\ FlowOK /\ SiteOK /\ BoundsOK
  BY TypeParts DEF TypeInv
<1>1. CASE OperatorNext
  <2>1. Operator
    BY <1>1 DEF OperatorNext, QueuePast, CancelRequest, Queue, GateToTerminal, ManualMove,
                Reopen, StopRun, DirectPost
  <2> QED
    BY <1>t, <2>1 DEF Operator, BoundsOK, MovedBy
<1>2. ASSUME NEW q \in Request, CancelFinish(q)  PROVE MovedBy(r)
  BY <1>t, <1>2 DEF CancelFinish, FlowOK, MovedBy
<1>3. ASSUME NEW a \in Run, HandlerStep(a)  PROVE MovedBy(r)
  BY <1>3, HandlerMoves
<1>4. ASSUME NEW c \in Caller, DirectBegin(c)  PROVE MovedBy(r)
  <2> DEFINE q == call[c].req
             step == call[c].step
  <2>q. q \in Request /\ step \in Step /\ call[c].act \in Action
    BY <1>t, <1>4 DEF DirectBegin, SiteOK, Call
  <2>1. CASE ClosesGate(call[c].from, step) /\ Move(q, step)
    <3>1. pos'[r] = step /\ q = r
      BY <1>t, <2>q, <2>1 DEF Move, FlowOK
    <3> QED
      BY <2>1, <3>1 DEF ClosesGate, MovedBy
  <2>2. CASE UNCHANGED workflow
    BY <2>2 DEF workflow
  <2>3. CASE /\ PutOn(q, step)
             /\ NewRow(q, step, call[c].act)
             /\ status' = [status EXCEPT ![rows + 1] = "running"]
             /\ exec' = [exec EXCEPT ![rows + 1] = [phase |-> "runtime", kind |-> "direct",
                               from |-> call[c].from, step |-> step, hops |-> 0]]
    <3>1. pos'[r] = step /\ q = r
      BY <1>t, <2>q, <2>3 DEF PutOn, FlowOK
    <3>2. rows + 1 \in Run /\ of'[rows + 1] = q /\ at'[rows + 1] = step
      BY <1>t, <2>q, <2>3, NewRowType
    <3>3. PICK n \in Run : n = rows + 1
      BY <3>2
    <3>4. Executing(n)' /\ of'[n] = r /\ at'[n] = pos'[r]
      BY <1>t, <2>3, <3>1, <3>2, <3>3 DEF Executing, StateOK, StatusFun, SiteOK
    <3> QED
      BY <3>4 DEF StartedOn, MovedBy
  <2> QED
    BY <1>4, <2>1, <2>2, <2>3 DEF DirectBegin
<1>5. CASE \/ Dispatch
           \/ \E a \in Run : Progress(a) \/ LeaseLapses(a)
           \/ SiteCrash
           \/ UNCHANGED vars
  BY <1>5 DEF Dispatch, Progress, LeaseLapses, SiteCrash, vars, workflow
<1> QED
  BY <1>1, <1>2, <1>3, <1>4, <1>5 DEF Next

\* Without an operator, a workflow moves only as the start of a run on its own step,
\* as the end of one it still waited for, or through a gate a handler was asked to pass.
THEOREM MovesOwned == Spec => MovesAreOwned
<1>1. TypeInv /\ [Next]_vars =>
        [\A r \in Request : pos'[r] # pos[r] => MovedBy(r)]_vars
  BY MovesNext
<1> QED
  BY <1>1, TypeInvariant, PTL DEF Spec, MovesAreOwned
=============================================================================

------------------------------- MODULE CodexRun -------------------------------
(***************************************************************************)
(* One job of Codex Runtime between runResponseJob's call of               *)
(* generateCodexCliReply and its answer: up to Tries attempts share one    *)
(* budget; an attempt prepares itself in several awaits, spawns the agent  *)
(* in a process group of its own, reads the events the agent writes, and   *)
(* settles once, by the budget, the job's cancellation, a broken prompt    *)
(* pipe or the end of the agent.  A capacity failure is replayed only when *)
(* no operation was seen.                                                  *)
(*                                                                         *)
(* The agent is the environment.  Its group has a leader, workers (they    *)
(* hold its stdout) and strays (they do not).  RuntimeJobs!Finish stands   *)
(* for all of this; no name here is one of RuntimeJobs.                    *)
(***************************************************************************)
EXTENDS Naturals, Sequences

CONSTANTS
    Tries,      \* attempts of one job (3)
    Setups,     \* awaits before the agent is spawned (4)
    IdleMs,     \* time without progress after which the job is stopped
    MaxMs,      \* time after which it is stopped in any case
    Horizon,    \* bound: the time at which the clock stops
    Unread      \* bound: events in the pipe

ASSUME RunAssumption ==
    /\ Tries \in Nat \ {0} /\ Setups \in Nat \ {0} /\ Unread \in Nat
    /\ IdleMs \in Nat /\ MaxMs \in Nat /\ Horizon \in Nat
    /\ IdleMs <= MaxMs /\ MaxMs <= Horizon

Attempt == 1..Tries
Event == {"talk", "work", "tool", "turn", "error", "capacity"}
Operation == {"work", "tool"}           \* items that may have an effect
Progressing == {"talk", "work", "turn"} \* what isExecutionProgress counts
Outcome == {"done", "failed", "canceled", "timeout", "capacity"}

VARIABLES
    stage,      \* where the current attempt is
    trial,      \* which attempt it is
    awaits,     \* its preparations that have returned
    aborted,    \* the job's abort signal
    now,        \* the clock, 0 when the job starts
    progress,   \* budget.lastProgress
    until,      \* when the wait for another attempt ends
    pipe,       \* events written and not read
    started,    \* capacityAttempt.operationStarted
    full,       \* runtimeErrorMessage says that the model is at capacity
    code,       \* how the leader exited
    alive,      \* members of each attempt's process group
    cleanup,    \* what has been sent to the group
    operated,   \* attempts in which the agent has begun an operation
    result      \* what the job's caller is told

runVars == <<stage, trial, awaits, aborted, now, progress, until, pipe, started, full,
          code, alive, cleanup, operated, result>>

RunTypeOK ==
    /\ stage \in {"setup", "running", "closing", "waiting", "ended"}
    /\ trial \in Attempt
    /\ awaits \in 0..Setups
    /\ aborted \in BOOLEAN
    /\ now \in 0..Horizon /\ progress \in 0..Horizon /\ until \in Nat
    /\ pipe \in Seq(Event) /\ Len(pipe) <= Unread
    /\ started \in BOOLEAN /\ full \in BOOLEAN
    /\ code \in {0, 1}
    /\ alive \in [Attempt -> SUBSET {"leader", "worker", "stray"}]
    /\ cleanup \in [Attempt -> {"none", "term", "killed"}]
    /\ operated \in SUBSET Attempt
    /\ result \in Outcome \cup {"none"}

RunInit ==
    /\ stage = "setup"
    /\ trial = 1
    /\ awaits = 0
    /\ aborted = FALSE
    /\ now = 0 /\ progress = 0 /\ until = 0
    /\ pipe = <<>>
    /\ started = FALSE /\ full = FALSE
    /\ code = 0
    /\ alive = [a \in Attempt |-> {}]
    /\ cleanup = [a \in Attempt |-> "none"]
    /\ operated = {}
    /\ result = "none"

group == <<code, alive, operated>>
clock == <<aborted, now>>
budget == <<progress, until>>
output == <<pipe, started, full>>

-----------------------------------------------------------------------------
(* Helpers.                                                                *)

\* RunBudget.expired: the budget of the job, not of the attempt.
Expired(t) == t >= MaxMs \/ t >= progress + IdleMs

\* Mutant: the signal is looked at when the agent runs, not before.
Stopped_NoAbort == Expired(now)

\* setupStopCode.
Stopped == aborted \/ Expired(now)

\* createJobCleanup: SIGTERM to the group, once; SIGKILL follows.
CleanUp == cleanup' = [cleanup EXCEPT ![trial] = IF @ = "none" THEN "term" ELSE @]

End(r) == stage' = "ended" /\ result' = r

\* processStdoutLine on one event.
Consume(e) ==
    /\ started' = (started \/ e \in Operation)
    /\ progress' = IF e \in Progressing THEN now ELSE progress
    /\ full' = (e = "capacity" \/ (full /\ e \notin {"turn", "error"}))

-----------------------------------------------------------------------------
(* Preparing an attempt.                                                   *)

\* A preparation fails, is too late or is no longer wanted.
SetupStops ==
    /\ stage = "setup"
    /\ \/ Stopped /\ End(IF aborted THEN "canceled" ELSE "timeout")
       \/ End("failed")
    /\ UNCHANGED <<trial, awaits, clock, budget, output, group, cleanup>>

\* A preparation returns; after the last one the agent is spawned.
SetupReturns ==
    /\ stage = "setup"
    /\ ~Stopped
    /\ awaits' = awaits + 1
    /\ IF awaits' < Setups
         THEN UNCHANGED <<stage, alive>>
         ELSE /\ stage' = "running"
              /\ alive' = [alive EXCEPT ![trial] = {"leader"}]
    /\ UNCHANGED <<trial, clock, budget, output, code, operated, cleanup, result>>

-----------------------------------------------------------------------------
(* The agent.                                                              *)

\* The agent tells of what it does; it begins an operation after saying so.
Emit(e) ==
    /\ alive[trial] \cap {"leader", "worker"} # {}
    /\ Len(pipe) < Unread
    /\ pipe' = Append(pipe, e)
    /\ operated' = IF e \in Operation THEN operated \cup {trial} ELSE operated
    /\ UNCHANGED <<stage, trial, awaits, clock, budget, started, full, code, alive, cleanup, result>>

Fork(a, m) ==
    /\ alive[a] \cap (IF m = "worker" THEN {"leader", "worker"} ELSE {"leader", "worker", "stray"}) # {}
    /\ m \notin alive[a]
    /\ alive' = [alive EXCEPT ![a] = @ \cup {m}]
    /\ UNCHANGED <<stage, trial, awaits, clock, budget, output, code, operated, cleanup, result>>

MemberEnds(a, m) ==
    /\ m \in alive[a]
    /\ alive' = [alive EXCEPT ![a] = @ \ {m}]
    /\ UNCHANGED <<stage, trial, awaits, clock, budget, output, code, operated, cleanup, result>>

\* The leader exits, which its handler follows up with the cleanup of its group.
LeaderExits(c) ==
    /\ "leader" \in alive[trial]
    /\ alive' = [alive EXCEPT ![trial] = @ \ {"leader"}]
    /\ code' = c
    /\ CleanUp
    /\ UNCHANGED <<stage, trial, awaits, clock, budget, output, operated, result>>

\* Mutant: the group is not killed once its leader is gone.
Killable_LeaderOnly(a) == cleanup[a] = "term" /\ "leader" \in alive[a]

\* The timer of the cleanup is armed.
Killable(a) == cleanup[a] = "term"

\* The grace period of a cleanup is over.
Kill(a) ==
    /\ Killable(a)
    /\ alive' = [alive EXCEPT ![a] = {}]
    /\ cleanup' = [cleanup EXCEPT ![a] = "killed"]
    /\ UNCHANGED <<stage, trial, awaits, clock, budget, output, code, operated, result>>

-----------------------------------------------------------------------------
(* Supervising it.                                                         *)

ReadEvent ==
    /\ stage = "running"
    /\ pipe # <<>>
    /\ Consume(Head(pipe))
    /\ pipe' = Tail(pipe)
    /\ UNCHANGED <<stage, trial, awaits, clock, until, group, cleanup, result>>

\* The interval finds the budget exhausted.
Timeout ==
    /\ stage = "running"
    /\ Expired(now)
    /\ End("timeout")
    /\ CleanUp
    /\ UNCHANGED <<trial, awaits, clock, budget, output, group>>

\* The prompt cannot be written although the leader has not exited.
StdinFails ==
    /\ stage = "running"
    /\ "leader" \in alive[trial]
    /\ End("failed")
    /\ CleanUp
    /\ UNCHANGED <<trial, awaits, clock, budget, output, group>>

\* The job is canceled: an agent that runs is stopped and a wait is cut short; whatever
\* else is under way looks at the signal when it comes to it, or not at all.
Abort ==
    /\ ~aborted
    /\ aborted' = TRUE
    /\ IF stage \in {"running", "waiting"} THEN End("canceled") ELSE UNCHANGED <<stage, result>>
    /\ IF stage = "running" THEN CleanUp ELSE UNCHANGED cleanup
    /\ UNCHANGED <<trial, awaits, now, budget, output, group>>

\* Mutant: the attempt is over when the leader has exited.
Quiet_Exit == "leader" \notin alive[trial]

\* Nobody holds the pipes of the attempt any more.
Quiet == alive[trial] \cap {"leader", "worker"} = {}

\* The close event. Everything was read but a last record without newline, which is
\* read now.
Close ==
    /\ stage = "running"
    /\ Quiet
    /\ Len(pipe) <= 1
    /\ stage' = "closing"
    /\ pipe' = <<>>
    /\ IF pipe = <<>> THEN UNCHANGED <<started, progress, full>> ELSE Consume(Head(pipe))
    /\ UNCHANGED <<trial, awaits, clock, until, group, cleanup, result>>

\* Mutant: a capacity failure is replayed whatever was seen of the attempt.
Replays_Always == trial < Tries /\ ~Expired(now + trial)

\* generateCodexCliReply goes on after a capacity failure; the delay is in seconds.
Replays == ~started /\ trial < Tries /\ ~Expired(now + trial)

\* The end of the close handler and of the attempt. The agent failed at capacity, by its
\* last message or, when it exited with an error, by what it wrote to stderr; or it
\* failed otherwise; or its work is committed and pushed.
Conclude ==
    /\ stage = "closing"
    /\ \/ /\ full \/ code = 1
          /\ IF Replays /\ ~aborted
               THEN stage' = "waiting" /\ until' = now + trial /\ UNCHANGED result
               ELSE End(IF Replays THEN "canceled" ELSE "capacity") /\ UNCHANGED until
       \/ ~full /\ End("failed") /\ UNCHANGED until
       \/ ~full /\ code = 0 /\ End("done") /\ UNCHANGED until
    /\ UNCHANGED <<trial, awaits, clock, progress, output, group, cleanup>>

\* waitForCapacityRetry is over.
Retry ==
    /\ stage = "waiting"
    /\ now >= until
    /\ IF Expired(now)
         THEN /\ End("capacity")
              /\ UNCHANGED <<trial, awaits, started, full>>
         ELSE /\ stage' = "setup"
              /\ trial' = trial + 1
              /\ awaits' = 0
              /\ started' = FALSE /\ full' = FALSE
              /\ UNCHANGED result
    /\ UNCHANGED <<clock, budget, pipe, group, cleanup>>

Tick ==
    /\ now < Horizon
    /\ now' = now + 1
    /\ UNCHANGED <<stage, trial, awaits, aborted, budget, output, group, cleanup, result>>

Agent ==
    \/ \E e \in Event : Emit(e)
    \/ \E a \in Attempt, m \in {"worker", "stray"} : Fork(a, m) \/ MemberEnds(a, m)
    \/ \E c \in {0, 1} : LeaderExits(c)

Adapter ==
    \/ SetupStops \/ SetupReturns \/ ReadEvent \/ Timeout \/ StdinFails \/ Close \/ Conclude \/ Retry
    \/ \E a \in Attempt : Kill(a)

RunNext == Agent \/ Adapter \/ Abort \/ Tick

RunSpec == RunInit /\ [][RunNext]_runVars

\* Timers fire, what was written is read and preparations return. The agent may do as it
\* likes for ever.
RunFairness ==
    /\ WF_runVars(Tick) /\ WF_runVars(SetupStops \/ SetupReturns)
    /\ WF_runVars(ReadEvent) /\ WF_runVars(Timeout) /\ WF_runVars(Close)
    /\ WF_runVars(Conclude) /\ WF_runVars(Retry)
    /\ \A a \in Attempt : WF_runVars(Kill(a))

RunFairSpec == RunSpec /\ RunFairness

-----------------------------------------------------------------------------
(* Properties.                                                             *)

\* The attempts of a job begin operations in one of them only: nothing with an effect is
\* done twice.
OperatesOnce == \A a, b \in operated : a = b

\* Two attempts never have their agents at work at the same time.
OneAgent ==
    \A a, b \in Attempt :
        /\ alive[a] \cap {"leader", "worker"} # {}
        /\ alive[b] \cap {"leader", "worker"} # {}
        => a = b

\* No agent is started for a job that was canceled or is older than its budget, however
\* long the preparations and however many the attempts.
NoLateSpawn ==
    [][\A a \in Attempt : alive[a] = {} /\ "leader" \in alive'[a] => ~aborted /\ now < MaxMs]_runVars

\* The job ends, also when its agent never stops making progress, and nothing of any
\* attempt's process group is left.
JobEnds == <>(stage = "ended" /\ \A a \in Attempt : alive[a] = {})
=============================================================================

----------------------------- MODULE RuntimeJobs -----------------------------
(***************************************************************************)
(* The jobs of a runtime adapter and the calls of the Site that submit and *)
(* observe them.  Codex Runtime (Durable) and Grok Runtime keep the same   *)
(* registry in memory: jobs, idempotency keys and abort controllers, pruned*)
(* to the newest ones; Codex also writes a receipt of every job that ended.*)
(*                                                                         *)
(* A call of the Site (requestNormalized) creates one job under a key of   *)
(* its own, retries the create when the transport fails, polls the job,    *)
(* and at its deadline reads it once more before it cancels it.  A create  *)
(* that the Site gave up on may still arrive.  Polls that fail or find the *)
(* job running change nothing and are left out.                            *)
(***************************************************************************)
EXTENDS Naturals, FiniteSets

CONSTANTS
    Call,           \* calls of the Site, each with its own idempotency key
    Durable,        \* the adapter writes receipts (Codex) or not (Grok)
    Retained,       \* jobs kept in memory (100)
    Attempts,       \* transport attempts of a create (3)
    MaxJobs,        \* bound: jobs ever created
    MaxOthers,      \* bound: of them, without a key, by other callers
    MaxFaults,      \* bound: lost messages, full disks, stops of the Site
    MaxRestarts     \* bound: restarts of the adapter

ASSUME ConstantsAssumption ==
    /\ Durable \in BOOLEAN
    /\ Retained \in Nat /\ Attempts \in Nat \ {0}
    /\ MaxJobs \in Nat /\ MaxOthers \in Nat /\ MaxFaults \in Nat /\ MaxRestarts \in Nat
    /\ "nobody" \notin Call

Job == 1..MaxJobs
Terminal == {"succeeded", "failed", "canceled"}
Waiting == {"creating", "polling", "reconciling", "canceling"}

VARIABLES
    \* the adapter's process
    jobs,       \* jobs created so far; ids are in the order of createdAt
    owner,      \* the key a job was created under
    status,     \* job.status
    held,       \* responseJobs: the jobs in memory
    keys,       \* responseJobIdempotencyKeys; 0 when the key is unknown
    busy,       \* jobs whose runResponseJob awaits the agent
    \* the adapter's volume
    receipt,    \* JobReceipts
    \* the Site and the network
    phase,      \* where a call is
    attempt,    \* the attempt of its create
    mine,       \* the job id it was given
    wire,       \* creates that were sent and not handled
    \* bookkeeping of the bounds
    others, faults, restarts

adapter == <<jobs, owner, status, held, keys, busy, receipt>>
site    == <<phase, attempt, mine>>
bounds  == <<others, faults, restarts>>
vars    == <<adapter, site, wire, bounds>>

TypeOK ==
    /\ jobs \in 0..MaxJobs
    /\ owner \in [Job -> Call \cup {"nobody"}]
    /\ status \in [Job -> Terminal \cup {"none", "running"}]
    /\ held \in SUBSET Job
    /\ keys \in [Call -> 0..MaxJobs]
    /\ busy \in SUBSET Job
    /\ receipt \in [Job -> Terminal \cup {"none"}]
    /\ phase \in [Call -> Waiting \cup {"idle", "done", "failed", "gone"}]
    /\ attempt \in [Call -> 0..Attempts]
    /\ mine \in [Call -> 0..MaxJobs]
    /\ wire \in SUBSET (Call \X (1..Attempts))
    /\ others \in 0..MaxOthers /\ faults \in 0..MaxFaults /\ restarts \in 0..MaxRestarts

Init ==
    /\ jobs = 0
    /\ owner = [j \in Job |-> "nobody"]
    /\ status = [j \in Job |-> "none"]
    /\ held = {}
    /\ keys = [c \in Call |-> 0]
    /\ busy = {}
    /\ receipt = [j \in Job |-> "none"]
    /\ phase = [c \in Call |-> "idle"]
    /\ attempt = [c \in Call |-> 0]
    /\ mine = [c \in Call |-> 0]
    /\ wire = {}
    /\ others = 0 /\ faults = 0 /\ restarts = 0

-----------------------------------------------------------------------------
(* The registry.                                                           *)

\* The job is executed on behalf of its caller.
Active(j) == j \in busy /\ status[j] = "running"

\* GET /v1/runtime/jobs/:jobId; "none" is the answer 404.
Read(j) == IF j \in held THEN status[j] ELSE IF Durable THEN receipt[j] ELSE "none"

\* pruneResponseJobs: the jobs that stay in memory, given their statuses.
Kept(st) ==
    LET ended == {j \in held : st[j] \in Terminal}
        older(j) == {i \in ended : i < j}
    IN {j \in held : j \in ended => Cardinality(older(j)) + Retained >= Cardinality(held)}

Fault == faults < MaxFaults /\ faults' = faults + 1

\* createResponseJob: the job runs from the moment it exists.
NewJob(k) ==
    /\ jobs < MaxJobs
    /\ jobs' = jobs + 1
    /\ owner' = [owner EXCEPT ![jobs + 1] = k]
    /\ status' = [status EXCEPT ![jobs + 1] = "running"]
    /\ held' = held \cup {jobs + 1}
    /\ busy' = busy \cup {jobs + 1}
    /\ UNCHANGED receipt

\* Mutant: only a job that has not begun is canceled.
Cancel_QueuedOnly(j) ==
    status' = IF j \in held /\ status[j] = "queued"
                THEN [status EXCEPT ![j] = "canceled"] ELSE status

\* cancelResponseJob: a job that ended is left as it is.
Cancel(j) ==
    status' = IF j \in held /\ status[j] = "running"
                THEN [status EXCEPT ![j] = "canceled"] ELSE status

-----------------------------------------------------------------------------
(* The adapter.                                                            *)

\* Mutant: only the newest job's key is remembered.
Known_NewestOnly(c) == keys[c] \in held /\ keys[c] = jobs

\* The create names a key whose job is in memory.
Known(c) == keys[c] \in held

\* POST /v1/runtime/jobs for attempt n of call c. The answer reaches the call if it
\* still waits for this attempt.
Accept(c, n) ==
    /\ <<c, n>> \in wire
    /\ wire' = wire \ {<<c, n>>}
    /\ IF Known(c)
         THEN UNCHANGED adapter
         ELSE NewJob(c) /\ keys' = [keys EXCEPT ![c] = jobs + 1]
    /\ IF phase[c] = "creating" /\ attempt[c] = n
         THEN /\ phase' = [phase EXCEPT ![c] = "polling"]
              /\ mine' = [mine EXCEPT ![c] = keys'[c]]
         ELSE UNCHANGED <<phase, mine>>
    /\ UNCHANGED <<attempt, bounds>>

\* POST /v1/responses/jobs: another caller's job has no key.
OtherJob ==
    /\ others < MaxOthers
    /\ NewJob("nobody")
    /\ others' = others + 1
    /\ UNCHANGED <<keys, site, wire, faults, restarts>>

\* Mutant: the agent's outcome is stored without a look at the abort signal.
Ended_NoAbortCheck(j, outcome) == outcome

\* What a job ends as: the agent's outcome, unless it was canceled before.
Ended(j, outcome) == IF status[j] = "running" THEN outcome ELSE status[j]

\* The end of runResponseJob: the agent's outcome counts unless the job was aborted; the
\* receipt is saved, or the job fails; then the registry is pruned.
Finish(j) ==
    /\ j \in busy
    /\ busy' = busy \ {j}
    /\ \E outcome \in {"succeeded", "failed"} :
         \/ /\ status' = [status EXCEPT ![j] = Ended(j, outcome)]
            /\ receipt' = IF Durable THEN [receipt EXCEPT ![j] = Ended(j, outcome)] ELSE receipt
            /\ UNCHANGED faults
         \/ /\ Durable /\ Fault
            /\ status' = [status EXCEPT ![j] = "failed"]
            /\ UNCHANGED receipt
    /\ held' = Kept(status')
    /\ keys' = [c \in Call |-> IF keys[c] \in held' THEN keys[c] ELSE 0]
    /\ UNCHANGED <<jobs, owner, site, wire, others, restarts>>

\* The adapter restarts: its memory, its agents and its connections are gone.
Restart ==
    /\ restarts < MaxRestarts /\ restarts' = restarts + 1
    /\ held' = {} /\ busy' = {} /\ wire' = {}
    /\ keys' = [c \in Call |-> 0]
    /\ UNCHANGED <<jobs, owner, status, receipt, site, others, faults>>

-----------------------------------------------------------------------------
(* The Site.                                                               *)

Submit(c) ==
    /\ phase[c] = "idle"
    /\ phase' = [phase EXCEPT ![c] = "creating"]
    /\ attempt' = [attempt EXCEPT ![c] = 1]
    /\ wire' = wire \cup {<<c, 1>>}
    /\ UNCHANGED <<adapter, mine, bounds>>

\* Another attempt is allowed.
Again(c) == attempt[c] < Attempts

\* An attempt fails: its connection broke with the adapter, or is lost. The create may
\* have been handled, or may be handled later. The attempts share one deadline.
AttemptFails(c) ==
    /\ phase[c] = "creating"
    /\ \/ <<c, attempt[c]>> \notin wire /\ UNCHANGED faults
       \/ <<c, attempt[c]>> \in wire /\ Fault
    /\ \/ /\ Again(c)
          /\ attempt' = [attempt EXCEPT ![c] = @ + 1]
          /\ wire' = wire \cup {<<c, attempt[c] + 1>>}
          /\ UNCHANGED phase
       \/ phase' = [phase EXCEPT ![c] = "failed"] /\ UNCHANGED <<attempt, wire>>
    /\ UNCHANGED <<adapter, mine, others, restarts>>

\* Mutant: a job that ended has answered, whatever its status.
Answered_Ended(c) == Read(mine[c]) \in Terminal

\* The job of the call has succeeded.
Answered(c) == Read(mine[c]) = "succeeded"

\* A poll that finds the job ended, or does not find it; or it is answered by something
\* else than the adapter, which ends the call and not the job.
Poll(c) ==
    /\ phase[c] = "polling"
    /\ \/ /\ Read(mine[c]) # "running"
          /\ phase' = [phase EXCEPT ![c] = IF Answered(c) THEN "done" ELSE "failed"]
          /\ UNCHANGED faults
       \/ Fault /\ phase' = [phase EXCEPT ![c] = "failed"]
    /\ UNCHANGED <<adapter, attempt, mine, wire, others, restarts>>

\* Mutant: the deadline is looked at only when a poll failed.
Deadline_OnError(c) ==
    /\ phase[c] = "polling" /\ Read(mine[c]) = "none"
    /\ phase' = [phase EXCEPT ![c] = "reconciling"]
    /\ UNCHANGED <<adapter, attempt, mine, wire, bounds>>

Deadline(c) ==
    /\ phase[c] = "polling"
    /\ phase' = [phase EXCEPT ![c] = "reconciling"]
    /\ UNCHANGED <<adapter, attempt, mine, wire, bounds>>

\* reconcileNormalizedPollFailure: the last read accepts a success and nothing else.
Reconcile(c) ==
    /\ phase[c] = "reconciling"
    /\ \/ /\ phase' = [phase EXCEPT ![c] =
                IF Answered(c) THEN "done" ELSE "canceling"]
          /\ UNCHANGED faults
       \/ Fault /\ phase' = [phase EXCEPT ![c] = "canceling"]
    /\ UNCHANGED <<adapter, attempt, mine, wire, others, restarts>>

\* cancelNormalizedJob, and the call throws; an unreachable adapter is ignored.
GiveUp(c) ==
    /\ phase[c] = "canceling"
    /\ phase' = [phase EXCEPT ![c] = "failed"]
    /\ \/ Cancel(mine[c]) /\ UNCHANGED faults
       \/ Fault /\ UNCHANGED status
    /\ UNCHANGED <<jobs, owner, held, keys, busy, receipt, attempt, mine, wire, others, restarts>>

\* cancelRuntimeJob: an operator cancels a job whose id the Site has recorded.
StopJob(c) ==
    /\ mine[c] # 0 /\ Read(mine[c]) = "running"
    /\ Cancel(mine[c])
    /\ UNCHANGED <<jobs, owner, held, keys, busy, receipt, site, wire, bounds>>

\* The Site restarts and forgets the call.
SiteStops(c) ==
    /\ phase[c] \in Waiting
    /\ Fault
    /\ phase' = [phase EXCEPT ![c] = "gone"]
    /\ UNCHANGED <<adapter, attempt, mine, wire, others, restarts>>

Step(c) == AttemptFails(c) \/ Poll(c) \/ Deadline(c) \/ Reconcile(c) \/ GiveUp(c)

Next ==
    \/ \E c \in Call, n \in 1..Attempts : Accept(c, n)
    \/ OtherJob
    \/ \E j \in Job : Finish(j)
    \/ Restart
    \/ \E c \in Call : Submit(c) \/ AttemptFails(c) \/ Poll(c) \/ Deadline(c)
                         \/ Reconcile(c) \/ GiveUp(c) \/ StopJob(c) \/ SiteStops(c)

Spec == Init /\ [][Next]_vars

\* The adapter answers creates while it is up and every wait of a call has a deadline;
\* nothing makes an agent finish.
Fairness ==
    /\ \A c \in Call : WF_vars(Step(c))
    /\ \A c \in Call, n \in 1..Attempts : WF_vars(Accept(c, n))

FairSpec == Spec /\ Fairness

-----------------------------------------------------------------------------
(* Properties.                                                             *)

\* However often a create is retried, delayed or duplicated, and whatever was pruned, at
\* most one job is executed under a key.
OneRunPerKey ==
    \A i, j \in Job : Active(i) /\ Active(j) /\ owner[i] = owner[j] /\ owner[i] # "nobody"
                          => i = j

\* A call that fails leaves no agent at work for it, unless a message was lost, the disk
\* was full or the Site stopped.
NoOrphan ==
    faults = 0 =>
        \A c \in Call, j \in Job : phase[c] = "failed" /\ owner[j] = c => ~Active(j)

\* What a call answers is the success of its own job, and stays readable.
AnswerIsOwn ==
    \A c \in Call : phase[c] = "done" =>
        /\ mine[c] \in Job /\ owner[mine[c]] = c
        /\ Durable => Read(mine[c]) = "succeeded"

\* A success that can be read stays readable, through pruning and restarts; a canceled job
\* does not run on, and a late answer of its agent is not its result.
ResultsStay ==
    [][\A j \in Job :
          /\ Durable /\ Read(j) = "succeeded" => Read(j)' = "succeeded"
          /\ Read(j) = "canceled" => Read(j)' \notin {"running", "succeeded"}]_vars

\* Every call ends, also when the agent hangs or the adapter restarts.
CallsEnd == \A c \in Call : phase[c] \in Waiting ~> phase[c] \notin Waiting
=============================================================================

--------------------------- MODULE RuntimeProofs ---------------------------
(***************************************************************************)
(* Theorems about a runtime adapter: its registry of jobs with the calls   *)
(* of the Site (RuntimeJobs), for any number of calls, jobs and attempts   *)
(* and both adapters, and one job of Codex Runtime (CodexRun), for any     *)
(* number of attempts and preparations and any budget.                     *)
(*                                                                         *)
(* Registry is the inductive invariant about one job: where it is in       *)
(* memory, whether an agent runs and what its receipt says.  Keyed adds    *)
(* which key leads to which job, and Attended, while nothing was lost,     *)
(* which call observes it.  Tried is the invariant of one run: attempts    *)
(* that are over have no agent and did nothing, attempts to come have not  *)
(* begun, and what the current one did is known or still in its pipe.      *)
(***************************************************************************)
EXTENDS RuntimeJobs, CodexRun, SequenceTheorems, TLAPS

-----------------------------------------------------------------------------
(* The registry's invariants.                                              *)


\* A job is executed until its receipt is written; in memory it is running only while it
\* is executed, and a job that ended has the receipt of its status or failed without one.
Registry ==
    /\ \A j \in Job : j > jobs => j \notin held /\ j \notin busy /\ receipt[j] = "none"
    /\ \A j \in busy : receipt[j] = "none" /\ status[j] \in {"running", "canceled"}
    /\ \A j \in busy : status[j] = "running" => j \in held
    /\ \A j \in held : j \notin busy => status[j] \in Terminal
    /\ \A j \in held : Durable /\ j \notin busy =>
          receipt[j] = status[j] \/ (status[j] = "failed" /\ receipt[j] = "none")

\* A key leads to the job that was created under it, and to the one that is executed.
Keyed ==
    /\ \A c \in Call : keys[c] # 0 => keys[c] \in held /\ owner[keys[c]] = c
    /\ \A j \in Job : Active(j) /\ owner[j] # "nobody" => keys[owner[j]] = j
    /\ \A c \in Call : mine[c] # 0 => mine[c] <= jobs /\ owner[mine[c]] = c
    /\ \A c \in Call : phase[c] \in {"polling", "reconciling", "canceling", "done"} => mine[c] # 0

IInv == TypeOK /\ Registry /\ Keyed
-----------------------------------------------------------------------------
(* The steps that several actions share.                                   *)

\* The jobs that stay in memory are among those that were there; what is executed stays.
LEMMA KeptJobs ==
    ASSUME NEW st
    PROVE  /\ Kept(st) \subseteq held
           /\ \A j \in held : st[j] \notin Terminal => j \in Kept(st)
BY DEF Kept

\* A new job is the next id.
LEMMA NewJobStep ==
    ASSUME TypeOK, NEW k \in Call \cup {"nobody"}, NewJob(k)
    PROVE  /\ jobs + 1 \in Job /\ jobs' = jobs + 1 /\ jobs' \in 0..MaxJobs
           /\ owner' \in [Job -> Call \cup {"nobody"}]
           /\ status' \in [Job -> Terminal \cup {"none", "running"}]
           /\ held' = held \cup {jobs + 1} /\ busy' = busy \cup {jobs + 1}
           /\ held' \in SUBSET Job /\ busy' \in SUBSET Job
           /\ owner'[jobs + 1] = k /\ status'[jobs + 1] = "running"
           /\ \A j \in Job : j # jobs + 1 => owner'[j] = owner[j] /\ status'[j] = status[j]
           /\ receipt' = receipt
BY ConstantsAssumption DEF TypeOK, NewJob, Job

LEMMA CancelStep ==
    ASSUME TypeOK, NEW j \in Job, Cancel(j)
    PROVE  /\ status' \in [Job -> Terminal \cup {"none", "running"}]
           /\ \A i \in Job : status'[i] = status[i]
                 \/ (i \in held /\ status[i] = "running" /\ status'[i] = "canceled")
BY DEF TypeOK, Cancel, Terminal

\* What an end does to a job, and that it leaves the others alone.
LEMMA FinishStep ==
    ASSUME TypeOK, NEW j \in Job, Finish(j)
    PROVE  /\ status' \in [Job -> Terminal \cup {"none", "running"}]
           /\ receipt' \in [Job -> Terminal \cup {"none"}]
           /\ held' = Kept(status')
           /\ keys' \in [Call -> 0..MaxJobs]
           /\ j \in busy /\ busy' = busy \ {j}
           /\ \A i \in Job : i # j => status'[i] = status[i] /\ receipt'[i] = receipt[i]
           /\ \/ receipt'[j] = status'[j] /\ Durable
              \/ receipt'[j] = receipt[j] /\ (Durable => status'[j] = "failed")
           /\ status[j] = "running" => status'[j] \in {"succeeded", "failed"}
           /\ status[j] # "running" => status'[j] \in {status[j], "failed"}
           /\ faults' \in 0..MaxFaults
<1>1. PICK outcome \in {"succeeded", "failed"} :
        \/ /\ status' = [status EXCEPT ![j] = Ended(j, outcome)]
           /\ receipt' = IF Durable THEN [receipt EXCEPT ![j] = Ended(j, outcome)] ELSE receipt
           /\ UNCHANGED faults
        \/ /\ Durable /\ Fault
           /\ status' = [status EXCEPT ![j] = "failed"]
           /\ UNCHANGED receipt
  BY DEF Finish
<1>2. j \in busy /\ busy' = busy \ {j} /\ held' = Kept(status')
      /\ keys' = [c \in Call |-> IF keys[c] \in held' THEN keys[c] ELSE 0]
  BY DEF Finish
<1>3. keys' \in [Call -> 0..MaxJobs]
  BY <1>2, ConstantsAssumption DEF TypeOK
<1>4. CASE status' = [status EXCEPT ![j] = Ended(j, outcome)]
           /\ receipt' = (IF Durable THEN [receipt EXCEPT ![j] = Ended(j, outcome)] ELSE receipt)
           /\ UNCHANGED faults
  <2>1. status \in [Job -> Terminal \cup {"none", "running"}]
        /\ receipt \in [Job -> Terminal \cup {"none"}] /\ faults \in 0..MaxFaults
    BY DEF TypeOK
  <2>2. status' \in [Job -> Terminal \cup {"none", "running"}]
        /\ status'[j] = Ended(j, outcome)
    BY <1>4, <2>1 DEF Ended, Terminal
  <2>3. QED
    BY <1>2, <1>3, <1>4, <2>1, <2>2 DEF Ended, Terminal
<1>5. CASE /\ Durable /\ Fault
           /\ status' = [status EXCEPT ![j] = "failed"]
           /\ UNCHANGED receipt
  BY <1>2, <1>3, <1>5, ConstantsAssumption DEF TypeOK, Fault, Terminal
<1>6. QED
  BY <1>1, <1>4, <1>5

-----------------------------------------------------------------------------
(* Types.                                                                  *)

LEMMA TypeStep == ASSUME TypeOK, [Next]_vars PROVE TypeOK'
<1> USE ConstantsAssumption
<1>1. ASSUME NEW c \in Call, NEW n \in 1..Attempts, Accept(c, n) PROVE TypeOK'
  <2>1. CASE UNCHANGED adapter
    <3>1. keys'[c] \in 0..MaxJobs
      BY <2>1 DEF TypeOK, adapter
    <3>2. QED
      BY <1>1, <2>1, <3>1 DEF TypeOK, Accept, adapter, site, bounds, Waiting
  <2>2. CASE NewJob(c) /\ keys' = [keys EXCEPT ![c] = jobs + 1]
    <3>1. jobs + 1 \in 0..MaxJobs /\ keys' \in [Call -> 0..MaxJobs] /\ keys'[c] \in 0..MaxJobs
      BY <2>2, NewJobStep DEF TypeOK
    <3>2. QED
      BY <1>1, <2>2, <3>1, NewJobStep DEF TypeOK, Accept, site, bounds, Waiting
  <2>3. QED
    BY <1>1, <2>1, <2>2 DEF Accept
<1>2. ASSUME OtherJob PROVE TypeOK'
  BY <1>2, NewJobStep DEF TypeOK, OtherJob, site
<1>3. ASSUME NEW j \in Job, Finish(j) PROVE TypeOK'
  <2>1. held' \in SUBSET Job /\ busy' \in SUBSET Job
    BY <1>3, FinishStep, KeptJobs DEF TypeOK
  <2>2. QED
    BY <1>3, <2>1, FinishStep DEF TypeOK, Finish, site
<1>4. ASSUME Restart PROVE TypeOK'
  BY <1>4 DEF TypeOK, Restart, site
<1>5. ASSUME NEW c \in Call, Submit(c) PROVE TypeOK'
  BY <1>5 DEF TypeOK, Submit, adapter, bounds, Waiting
<1>6. ASSUME NEW c \in Call, AttemptFails(c) PROVE TypeOK'
  <2>1. faults' \in 0..MaxFaults
    BY <1>6 DEF TypeOK, AttemptFails, Fault
  <2>2. CASE phase' = [phase EXCEPT ![c] = "failed"] /\ UNCHANGED <<attempt, wire>>
    BY <1>6, <2>1, <2>2 DEF TypeOK, AttemptFails, adapter, Waiting
  <2>3. CASE /\ Again(c) /\ UNCHANGED phase
             /\ attempt' = [attempt EXCEPT ![c] = @ + 1]
             /\ wire' = wire \cup {<<c, attempt[c] + 1>>}
    BY <1>6, <2>1, <2>3 DEF TypeOK, AttemptFails, Again, adapter, Waiting
  <2>4. QED
    BY <1>6, <2>2, <2>3 DEF AttemptFails
<1>7. ASSUME NEW c \in Call, Poll(c) PROVE TypeOK'
  <2>1. faults' \in 0..MaxFaults
    BY <1>7 DEF TypeOK, Poll, Fault
  <2>2. QED
    BY <1>7, <2>1 DEF TypeOK, Poll, adapter, Waiting
<1>8. ASSUME NEW c \in Call, Deadline(c) PROVE TypeOK'
  BY <1>8 DEF TypeOK, Deadline, adapter, bounds, Waiting
<1>9. ASSUME NEW c \in Call, Reconcile(c) PROVE TypeOK'
  <2>1. faults' \in 0..MaxFaults
    BY <1>9 DEF TypeOK, Reconcile, Fault
  <2>2. QED
    BY <1>9, <2>1 DEF TypeOK, Reconcile, adapter, Waiting
<1>10. ASSUME NEW c \in Call, GiveUp(c) PROVE TypeOK'
  <2>1. faults' \in 0..MaxFaults
    BY <1>10 DEF TypeOK, GiveUp, Fault
  <2>2. status' \in [Job -> Terminal \cup {"none", "running"}]
    BY <1>10 DEF TypeOK, GiveUp, Cancel, Terminal
  <2>3. QED
    BY <1>10, <2>1, <2>2 DEF TypeOK, GiveUp, Waiting
<1>11. ASSUME NEW c \in Call, StopJob(c) PROVE TypeOK'
  <2>1. status' \in [Job -> Terminal \cup {"none", "running"}]
    BY <1>11 DEF TypeOK, StopJob, Cancel, Terminal
  <2>2. QED
    BY <1>11, <2>1 DEF TypeOK, StopJob, site, bounds
<1>12. ASSUME NEW c \in Call, SiteStops(c) PROVE TypeOK'
  BY <1>12 DEF TypeOK, SiteStops, Fault, adapter, Waiting
<1>13. CASE UNCHANGED vars
  BY <1>13 DEF TypeOK, vars, adapter, site, bounds
<1>14. QED
  BY <1>1, <1>2, <1>3, <1>4, <1>5, <1>6, <1>7, <1>8, <1>9, <1>10, <1>11, <1>12, <1>13 DEF Next

LEMMA InitInv == Init => IInv
<1> SUFFICES ASSUME Init PROVE IInv
  OBVIOUS
<1>1. TypeOK
  BY ConstantsAssumption DEF Init, TypeOK, Waiting
<1>2. Registry /\ Keyed
  BY DEF Init, Registry, Keyed, Active
<1>3. QED
  BY <1>1, <1>2 DEF IInv

\* The type invariant: the variables stay in their sets, whatever the adapter, the calls
\* and the network do.
THEOREM TypeCorrect == Spec => []TypeOK
<1>1. Init => TypeOK
  BY InitInv DEF IInv
<1>2. QED
  BY <1>1, TypeStep, PTL DEF Spec
-----------------------------------------------------------------------------
(* The registry.                                                           *)

LEMMA RegistryStep == ASSUME IInv, [Next]_vars PROVE Registry'
<1> USE DEF IInv
<1>0. ASSUME UNCHANGED <<jobs, status, held, busy, receipt>> PROVE Registry'
  BY <1>0 DEF Registry
<1>n. ASSUME NEW k \in Call \cup {"nobody"}, NewJob(k) PROVE Registry'
  <2>1. jobs + 1 \in Job /\ jobs' = jobs + 1 /\ jobs \in Nat /\ receipt' = receipt
        /\ held' = held \cup {jobs + 1} /\ busy' = busy \cup {jobs + 1}
        /\ status'[jobs + 1] = "running"
        /\ \A j \in Job : j # jobs + 1 => status'[j] = status[j]
    BY <1>n, NewJobStep DEF TypeOK
  <2>2. held \subseteq Job /\ busy \subseteq Job /\ \A j \in Job : j \in Nat
    BY DEF TypeOK, Job
  <2>3. receipt[jobs + 1] = "none" /\ jobs + 1 \notin held /\ jobs + 1 \notin busy
    BY <2>1 DEF Registry
  <2>4. QED
    BY <2>1, <2>2, <2>3 DEF Registry, Terminal
<1>c. ASSUME NEW j \in Job, Cancel(j), UNCHANGED <<jobs, held, busy, receipt>> PROVE Registry'
  <2>1. \A i \in Job : status'[i] = status[i]
                 \/ (i \in held /\ status[i] = "running" /\ status'[i] = "canceled")
    BY <1>c, CancelStep
  <2>2. held \subseteq Job /\ busy \subseteq Job
    BY DEF TypeOK
  <2>3. QED
    BY <1>c, <2>1, <2>2 DEF Registry, Terminal
<1>m. \A c \in Call : mine[c] # 0 => mine[c] \in Job
  BY DEF TypeOK, Job
<1>1. ASSUME NEW c \in Call, NEW n \in 1..Attempts, Accept(c, n) PROVE Registry'
  BY <1>1, <1>0, <1>n DEF Accept, adapter
<1>2. ASSUME OtherJob PROVE Registry'
  BY <1>2, <1>n DEF OtherJob
<1>3. ASSUME NEW j \in Job, Finish(j) PROVE Registry'
  <2>1. /\ jobs' = jobs /\ held' \subseteq held /\ j \in busy /\ busy' = busy \ {j}
        /\ \A i \in held : status'[i] \notin Terminal => i \in held'
    BY <1>3, FinishStep, KeptJobs DEF Finish
  <2>2. /\ \A i \in Job : i # j => status'[i] = status[i] /\ receipt'[i] = receipt[i]
        /\ status'[j] \in Terminal
        /\ Durable => receipt'[j] = status'[j]
                        \/ (receipt'[j] = receipt[j] /\ status'[j] = "failed")
    BY <1>3, <2>1, FinishStep DEF Registry, Terminal
  <2>3. held \subseteq Job /\ busy \subseteq Job /\ receipt[j] = "none"
    BY <2>1 DEF TypeOK, Registry
  <2>4. \A i \in Job : i > jobs' => i \notin held' /\ i \notin busy' /\ receipt'[i] = "none"
    BY <2>1, <2>2, <2>3 DEF Registry
  <2>5. \A i \in busy' : receipt'[i] = "none" /\ status'[i] \in {"running", "canceled"}
                           /\ (status'[i] = "running" => i \in held')
    BY <2>1, <2>2, <2>3 DEF Registry, Terminal
  <2>6. \A i \in held' : i \notin busy' => status'[i] \in Terminal
    BY <2>1, <2>2, <2>3 DEF Registry
  <2>7. \A i \in held' : Durable /\ i \notin busy' =>
          receipt'[i] = status'[i] \/ (status'[i] = "failed" /\ receipt'[i] = "none")
    BY <2>1, <2>2, <2>3 DEF Registry
  <2>8. QED
    BY <2>4, <2>5, <2>6, <2>7 DEF Registry
<1>4. ASSUME Restart PROVE Registry'
  BY <1>4 DEF Restart, Registry
<1>5. ASSUME NEW c \in Call, GiveUp(c) PROVE Registry'
  <2>1. mine[c] \in Job
    BY <1>5, <1>m DEF GiveUp, Keyed
  <2>2. QED
    BY <1>5, <1>0, <1>c, <2>1 DEF GiveUp
<1>6. ASSUME NEW c \in Call, StopJob(c) PROVE Registry'
  BY <1>6, <1>c, <1>m DEF StopJob
<1>7. ASSUME NEW c \in Call, Submit(c) \/ AttemptFails(c) \/ Poll(c) \/ Deadline(c)
                               \/ Reconcile(c) \/ SiteStops(c)
      PROVE  Registry'
  BY <1>7, <1>0 DEF Submit, AttemptFails, Poll, Deadline, Reconcile, SiteStops, adapter
<1>8. CASE UNCHANGED vars
  BY <1>8, <1>0 DEF vars, adapter
<1>9. QED
  BY <1>1, <1>2, <1>3, <1>4, <1>5, <1>6, <1>7, <1>8 DEF Next

-----------------------------------------------------------------------------
(* Keys.                                                                   *)

LEMMA KeyedStep == ASSUME IInv, [Next]_vars PROVE Keyed'
<1> USE DEF IInv
<1>j. held \subseteq Job /\ busy \subseteq Job /\ "nobody" \notin Call /\ jobs \in Nat
      /\ \A j \in held : j <= jobs
  <2>1. held \subseteq Job /\ busy \subseteq Job /\ jobs \in Nat
    BY ConstantsAssumption DEF TypeOK
  <2>2. \A j \in Job : j > jobs => j \notin held
    BY DEF Registry
  <2>3. \A j \in held : j \in Nat /\ ~(j > jobs)
    BY <2>1, <2>2 DEF Job
  <2>4. "nobody" \notin Call
    BY ConstantsAssumption
  <2>5. QED
    BY <2>1, <2>3, <2>4
<1>0. ASSUME UNCHANGED <<jobs, owner, held, keys, busy, status, mine>>,
             \A c \in Call : phase'[c] \in {"polling", "reconciling", "canceling", "done"} =>
                                mine[c] # 0
      PROVE  Keyed'
  BY <1>0 DEF Keyed, Active
<1>c. ASSUME NEW j \in Job, Cancel(j), UNCHANGED <<jobs, owner, held, keys, busy, mine>>,
             \A c \in Call : phase'[c] \in {"polling", "reconciling", "canceling", "done"} =>
                                mine[c] # 0
      PROVE  Keyed'
  <2>1. \A i \in Job : status'[i] = "running" => status[i] = "running"
    BY <1>c, CancelStep
  <2>2. QED
    BY <1>c, <2>1 DEF Keyed, Active
<1>m. \A c \in Call : mine[c] # 0 => mine[c] \in Job
  BY DEF TypeOK, Job
<1>n. ASSUME NEW k \in Call \cup {"nobody"}, NewJob(k)
      PROVE  /\ jobs + 1 \in Job /\ jobs' = jobs + 1 /\ jobs + 1 \notin held /\ jobs + 1 # 0
             /\ held' = held \cup {jobs + 1} /\ owner'[jobs + 1] = k
             /\ \A i \in Job : i # jobs + 1 => owner'[i] = owner[i]
             /\ \A i \in Job : i # jobs + 1 => (Active(i)' <=> Active(i))
  BY <1>j, <1>n, NewJobStep DEF Active, Registry
<1>1. ASSUME NEW c \in Call, NEW n \in 1..Attempts, Accept(c, n) PROVE Keyed'
  <2>m. \A b \in Call : b # c => mine'[b] = mine[b] /\ phase'[b] = phase[b]
    BY <1>1 DEF Accept, TypeOK
  <2>w. \/ phase'[c] = phase[c] /\ mine'[c] = mine[c]
        \/ mine'[c] = keys'[c]
    BY <1>1 DEF Accept, TypeOK
  <2>1. CASE Known(c) /\ UNCHANGED adapter
    <3>k. keys[c] \in held /\ keys[c] \in Job
      BY <2>1, <1>j DEF Known
    <3>z. keys[c] # 0 /\ keys[c] <= jobs
      BY <3>k, <1>j DEF Job
    <3>1. keys[c] # 0 /\ owner[keys[c]] = c /\ keys[c] <= jobs
      BY <3>z DEF Keyed
    <3>2. QED
      BY <2>1, <2>m, <2>w, <3>1 DEF Keyed, Active, adapter
  <2>2. CASE ~Known(c) /\ NewJob(c) /\ keys' = [keys EXCEPT ![c] = jobs + 1]
    <3>1. keys'[c] = jobs + 1 /\ \A b \in Call : b # c => keys'[b] = keys[b]
      BY <2>2 DEF TypeOK
    <3>2. \A b \in Call : keys'[b] # 0 => keys'[b] \in held' /\ owner'[keys'[b]] = b
      BY <1>j, <1>n, <2>2, <3>1 DEF Keyed
    <3>3. \A i \in Job : Active(i) => owner[i] # c
      <4>1. SUFFICES ASSUME NEW i \in Job, Active(i), owner[i] = c PROVE FALSE
        OBVIOUS
      <4>2. c # "nobody"
        BY <1>j
      <4>3. keys[c] = i
        BY <4>1, <4>2 DEF Keyed
      <4>4. i \in held
        BY <4>1 DEF Active, Registry
      <4>5. QED
        BY <2>2, <4>3, <4>4 DEF Known
    <3>4. \A i \in Job : owner[i] \in Call \cup {"nobody"}
      BY DEF TypeOK
    <3>5. \A i \in Job : Active(i)' /\ owner'[i] # "nobody" => keys'[owner'[i]] = i
      BY <1>n, <2>2, <3>1, <3>3, <3>4 DEF Keyed
    <3>6. \A b \in Call : mine'[b] # 0 => mine'[b] <= jobs' /\ owner'[mine'[b]] = b
      <4>1. \A b \in Call : mine[b] # 0 => mine[b] \in Job /\ mine[b] # jobs + 1
                                             /\ mine[b] <= jobs + 1
        BY <1>j, <1>m DEF Keyed, TypeOK
      <4>2. QED
        BY <1>j, <1>n, <2>m, <2>w, <2>2, <3>1, <4>1 DEF Keyed
    <3>7. QED
      BY <1>n, <2>m, <2>w, <2>2, <3>1, <3>2, <3>5, <3>6 DEF Keyed
  <2>3. QED
    BY <1>1, <2>1, <2>2 DEF Accept
<1>2. ASSUME OtherJob PROVE Keyed'
  <2>1. NewJob("nobody") /\ UNCHANGED <<keys, phase, mine>>
    BY <1>2 DEF OtherJob, site
  <2>2. \A c \in Call : keys[c] # 0 => keys[c] # jobs + 1 /\ keys[c] \in Job
    BY <1>j, <1>n, <2>1 DEF Keyed
  <2>3. \A c \in Call : mine[c] # 0 => mine[c] # jobs + 1 /\ mine[c] \in Job
                                         /\ mine[c] <= jobs + 1
    BY <1>j, <1>m DEF Keyed, TypeOK
  <2>4. QED
    BY <1>n, <2>1, <2>2, <2>3 DEF Keyed
<1>3. ASSUME NEW j \in Job, Finish(j) PROVE Keyed'
  <2>1. keys' = [c \in Call |-> IF keys[c] \in held' THEN keys[c] ELSE 0]
        /\ UNCHANGED <<jobs, owner, phase, mine>>
    BY <1>3 DEF Finish, site
  <2>2. held' = Kept(status') /\ busy' = busy \ {j} /\ j \in busy
        /\ \A i \in Job : i # j => status'[i] = status[i]
    BY <1>3, FinishStep
  <2>3. \A i \in Job : Active(i)' => Active(i) /\ i \in held'
    BY <2>2, KeptJobs DEF Active, Registry, Terminal
  <2>4. \A i \in Job : owner[i] \in Call \cup {"nobody"}
    BY DEF TypeOK
  <2>5. QED
    BY <2>1, <2>3, <2>4 DEF Keyed
<1>4. ASSUME Restart PROVE Keyed'
  BY <1>4 DEF Restart, Keyed, Active, site
<1>5. ASSUME NEW c \in Call, GiveUp(c) PROVE Keyed'
  <2>1. mine[c] \in Job
    BY <1>5, <1>m DEF GiveUp, Keyed
  <2>2. \A b \in Call : phase'[b] \in {"polling", "reconciling", "canceling", "done"} =>
                          mine[b] # 0
    BY <1>5 DEF GiveUp, Keyed, TypeOK
  <2>3. QED
    BY <1>5, <1>0, <1>c, <2>1, <2>2 DEF GiveUp
<1>6. ASSUME NEW c \in Call, StopJob(c) PROVE Keyed'
  BY <1>6, <1>c, <1>m DEF StopJob, Keyed, site
<1>7. ASSUME NEW c \in Call, Submit(c) \/ AttemptFails(c) \/ Poll(c) \/ Deadline(c)
                               \/ Reconcile(c) \/ SiteStops(c)
      PROVE  Keyed'
  <2>1. \A b \in Call : phase'[b] \in {"polling", "reconciling", "canceling", "done"} =>
                          mine[b] # 0
    BY <1>7 DEF Submit, AttemptFails, Poll, Deadline, Reconcile, SiteStops, Keyed, TypeOK
  <2>2. QED
    BY <1>7, <1>0, <2>1
       DEF Submit, AttemptFails, Poll, Deadline, Reconcile, SiteStops, adapter
<1>8. CASE UNCHANGED vars
  BY <1>8, <1>0 DEF vars, adapter, site, Keyed
<1>9. QED
  BY <1>1, <1>2, <1>3, <1>4, <1>5, <1>6, <1>7, <1>8 DEF Next

\* The inductive invariant holds: see Registry and Keyed.
THEOREM Invariant == Spec => []IInv
<1>1. IInv /\ [Next]_vars => IInv'
  BY TypeStep, RegistryStep, KeyedStep DEF IInv
<1>2. QED
  BY InitInv, <1>1, PTL DEF Spec
-----------------------------------------------------------------------------
(* What the registry promises.                                             *)

\* At most one job is executed under a key, however often and in whatever order the
\* creates of a call arrive.
THEOREM ExecutedOncePerKey == Spec => []OneRunPerKey
<1>1. IInv => OneRunPerKey
  <2>1. SUFFICES ASSUME IInv, NEW i \in Job, NEW j \in Job, Active(i), Active(j),
                        owner[i] = owner[j], owner[i] # "nobody"
                 PROVE  i = j
    BY DEF OneRunPerKey
  <2>2. keys[owner[i]] = i /\ keys[owner[j]] = j
    BY <2>1 DEF IInv, Keyed
  <2>3. QED
    BY <2>1, <2>2
<1>2. QED
  BY Invariant, <1>1, PTL

\* What a read of a job that ended may become, in any step.
LEMMA ReadStep ==
    ASSUME IInv, [Next]_vars, NEW j \in Job
    PROVE  /\ Durable /\ Read(j) = "succeeded" => Read(j)' = "succeeded"
           /\ Read(j) = "canceled" => Read(j)' \notin {"running", "succeeded"}
<1> USE DEF IInv
<1> DEFINE Same == Read(j)' = Read(j)
           Goal == /\ Durable /\ Read(j) = "succeeded" => Read(j)' = "succeeded"
                   /\ Read(j) = "canceled" => Read(j)' \notin {"running", "succeeded"}
<1>m. \A c \in Call : mine[c] # 0 => mine[c] \in Job
  BY DEF TypeOK, Job
<1>0. ASSUME UNCHANGED <<held, status, receipt>> PROVE Goal
  BY <1>0 DEF Read
<1>n. ASSUME NEW k \in Call \cup {"nobody"}, NewJob(k) PROVE Goal
  <2>1. jobs + 1 \in Job /\ held' = held \cup {jobs + 1} /\ receipt' = receipt
        /\ \A i \in Job : i # jobs + 1 => status'[i] = status[i]
    BY <1>n, NewJobStep
  <2>2. receipt[jobs + 1] = "none" /\ jobs + 1 \notin held
    BY <2>1 DEF Registry, TypeOK
  <2>3. CASE j = jobs + 1
    BY <2>2, <2>3 DEF Read
  <2>4. CASE j # jobs + 1
    BY <2>1, <2>4 DEF Read
  <2>5. QED
    BY <2>3, <2>4
<1>c. ASSUME NEW i \in Job, Cancel(i), UNCHANGED <<held, receipt>> PROVE Goal
  BY <1>c, CancelStep DEF Read
<1>1. ASSUME NEW c \in Call, NEW n \in 1..Attempts, Accept(c, n) PROVE Goal
  BY <1>1, <1>0, <1>n DEF Accept, adapter
<1>2. ASSUME OtherJob PROVE Goal
  BY <1>2, <1>n DEF OtherJob
<1>3. ASSUME NEW i \in Job, Finish(i) PROVE Goal
  <2>1. /\ held' \subseteq held /\ i \in busy
        /\ receipt[i] = "none" /\ status[i] \in {"running", "canceled"}
    BY <1>3, FinishStep, KeptJobs DEF Registry
  <2>2. CASE j # i
    <3>1. status'[j] = status[j] /\ receipt'[j] = receipt[j]
      BY <1>3, <2>2, FinishStep
    <3>2. CASE j \notin held
      BY <2>1, <3>1, <3>2 DEF Read
    <3>3. CASE j \in held /\ Read(j) = "succeeded"
      BY <3>1, <3>3 DEF Read, Registry
    <3>4. CASE j \in held /\ Read(j) = "canceled"
      BY <3>1, <3>4 DEF Read, Registry
    <3>5. QED
      BY <3>2, <3>3, <3>4
  <2>3. CASE j = i
    <3>1. Read(j) # "succeeded"
      BY <2>1, <2>3 DEF Read
    <3>2. CASE Read(j) = "canceled"
      <4>1. status[j] = "canceled" /\ receipt[j] = "none"
        BY <2>1, <2>3, <3>2 DEF Read
      <4>2. status'[j] \in {"canceled", "failed"} /\ receipt'[j] \in {"none", status'[j]}
        BY <1>3, <2>3, <4>1, FinishStep
      <4>3. QED
        BY <3>1, <4>2 DEF Read
    <3>3. QED
      BY <3>1, <3>2
  <2>4. QED
    BY <2>2, <2>3
<1>4. ASSUME Restart PROVE Goal
  <2>1. held' = {} /\ receipt' = receipt
    BY <1>4 DEF Restart
  <2>2. CASE j \notin held
    BY <2>1, <2>2 DEF Read
  <2>3. CASE j \in held
    BY <2>1, <2>3 DEF Read, Registry
  <2>4. QED
    BY <2>2, <2>3
<1>5. ASSUME NEW c \in Call, GiveUp(c) PROVE Goal
  <2>1. mine[c] \in Job
    BY <1>5, <1>m DEF GiveUp, Keyed
  <2>2. QED
    BY <1>5, <1>0, <1>c, <2>1 DEF GiveUp
<1>6. ASSUME NEW c \in Call, StopJob(c) PROVE Goal
  BY <1>6, <1>c, <1>m DEF StopJob
<1>7. ASSUME NEW c \in Call, Submit(c) \/ AttemptFails(c) \/ Poll(c) \/ Deadline(c)
                               \/ Reconcile(c) \/ SiteStops(c)
      PROVE  Goal
  BY <1>7, <1>0 DEF Submit, AttemptFails, Poll, Deadline, Reconcile, SiteStops, adapter
<1>8. CASE UNCHANGED vars
  BY <1>8, <1>0 DEF vars, adapter
<1>9. QED
  BY <1>1, <1>2, <1>3, <1>4, <1>5, <1>6, <1>7, <1>8 DEF Next

\* With receipts, a success that can be read stays readable; a canceled job does not run on,
\* and a late answer of its agent is not its result.
THEOREM ResultsKept == Spec => ResultsStay
<1>1. IInv /\ [Next]_vars =>
        [\A j \in Job :
            /\ Durable /\ Read(j) = "succeeded" => Read(j)' = "succeeded"
            /\ Read(j) = "canceled" => Read(j)' \notin {"running", "succeeded"}]_vars
  BY ReadStep
<1>2. QED
  BY Invariant, <1>1, PTL DEF Spec, ResultsStay

\* What a call answers is the success of the job it created, and stays readable.
THEOREM AnswersOwn == Spec => []AnswerIsOwn
<1> DEFINE Readable == \A c \in Call : phase[c] = "done" /\ Durable => Read(mine[c]) = "succeeded"
<1>1. Init => Readable
  BY DEF Init
<1>2. IInv /\ Readable /\ [Next]_vars => Readable'
  <2>1. SUFFICES ASSUME IInv, Readable, [Next]_vars, NEW c \in Call, phase'[c] = "done", Durable
                 PROVE  Read(mine[c])' = "succeeded"
    OBVIOUS
  <2>2. CASE phase[c] = "done"
    <3>1. mine[c] \in Job /\ Read(mine[c]) = "succeeded"
      BY <2>1, <2>2 DEF IInv, Keyed, TypeOK, Job
    <3>2. mine'[c] = mine[c]
      BY <2>1, <2>2 DEF IInv, TypeOK, Next, Accept, OtherJob, Finish, Restart, Submit, AttemptFails,
         Poll, Deadline, Reconcile, GiveUp, StopJob, SiteStops, vars, site
    <3>3. QED
      BY <2>1, <3>1, <3>2, ReadStep DEF Read
  <2>3. CASE phase[c] # "done"
    <3>1. phase \in [Call -> Waiting \cup {"idle", "done", "failed", "gone"}]
      BY <2>1 DEF IInv, TypeOK
    <3>2. \E b \in Call : Poll(b) \/ Reconcile(b)
      BY <2>1, <2>3, <3>1 DEF Next, Accept, OtherJob, Finish, Restart, Submit, AttemptFails,
         Deadline, GiveUp, StopJob, SiteStops, vars, site
    <3>3. PICK b \in Call : Poll(b) \/ Reconcile(b)
      BY <3>2
    <3>4. Answered(c)
      BY <2>1, <2>3, <3>1, <3>3 DEF Poll, Reconcile
    <3>5. UNCHANGED <<adapter, mine>>
      BY <3>3 DEF Poll, Reconcile
    <3>6. QED
      BY <3>4, <3>5 DEF Answered, Read, adapter
  <2>4. QED
    BY <2>2, <2>3
<1>3. IInv /\ Readable => AnswerIsOwn
  <2>1. SUFFICES ASSUME IInv, NEW c \in Call, phase[c] = "done"
                 PROVE  mine[c] \in Job /\ owner[mine[c]] = c
    BY DEF AnswerIsOwn
  <2>2. QED
    BY <2>1 DEF IInv, Keyed, TypeOK, Job
<1>4. QED
  BY Invariant, <1>1, <1>2, <1>3, PTL DEF Spec
-----------------------------------------------------------------------------
(* No agent is left behind.                                                *)

\* While nothing was lost, a create is on its way only for the attempt its call waits for,
\* and what is executed under a call's key is the job the call observes.
Attended ==
    faults = 0 =>
        \A c \in Call :
            /\ \A n \in 1..Attempts : <<c, n>> \in wire => phase[c] = "creating" /\ n = attempt[c]
            /\ \A j \in Job : Active(j) /\ owner[j] = c =>
                  mine[c] = j /\ phase[c] \in {"polling", "reconciling", "canceling"}

LEMMA AttendedStep ==
    ASSUME IInv, Attended, [Next]_vars
    PROVE  Attended'
<1> USE DEF IInv
<1> SUFFICES ASSUME faults' = 0 PROVE Attended'
  BY DEF Attended
<1> DEFINE Sent(c) == \A n \in 1..Attempts :
                         <<c, n>> \in wire => phase[c] = "creating" /\ n = attempt[c]
           Seen(c) == \A j \in Job : Active(j) /\ owner[j] = c =>
                         mine[c] = j /\ phase[c] \in {"polling", "reconciling", "canceling"}
<1>f. faults \in Nat
  BY ConstantsAssumption DEF TypeOK
<1>g. SUFFICES ASSUME faults = 0, \A c \in Call : Sent(c) /\ Seen(c)
               PROVE  \A c \in Call : Sent(c)' /\ Seen(c)'
  <2>1. faults = 0
    <3>1. Fault => FALSE
      BY <1>f DEF Fault
    <3>2. faults' = faults
      BY <3>1 DEF Next, Accept, OtherJob, Finish, Restart, Submit, AttemptFails, Poll, Deadline,
         Reconcile, GiveUp, StopJob, SiteStops, vars, bounds
    <3>3. QED
      BY <3>2
  <2>2. QED
    BY <1>g, <2>1 DEF Attended
<1>h. ~Fault
  BY <1>f, <1>g DEF Fault
<1>j. held \subseteq Job /\ busy \subseteq Job /\ jobs \in Nat /\ "nobody" \notin Call
  BY ConstantsAssumption DEF TypeOK
<1>p. phase \in [Call -> Waiting \cup {"idle", "done", "failed", "gone"}]
      /\ attempt \in [Call -> 0..Attempts] /\ mine \in [Call -> 0..MaxJobs]
  BY DEF TypeOK
\* What is executed already, in a step that starts nothing.
<1>a. ASSUME UNCHANGED owner, \A j \in Job : Active(j)' => Active(j),
             NEW c \in Call, mine'[c] = mine[c], phase'[c] = phase[c]
      PROVE  Seen(c)'
  BY <1>a, <1>g
<1>c. ASSUME NEW j \in Job, Cancel(j), UNCHANGED busy
      PROVE  \A i \in Job : Active(i)' => Active(i)
  BY <1>c, CancelStep DEF Active
<1>n. ASSUME NEW k \in Call \cup {"nobody"}, NewJob(k)
      PROVE  /\ jobs + 1 \in Job /\ owner'[jobs + 1] = k
             /\ \A i \in Job : i # jobs + 1 => owner'[i] = owner[i]
             /\ \A i \in Job : i # jobs + 1 => (Active(i)' <=> Active(i))
  BY <1>j, <1>n, NewJobStep DEF Active
<1>1. ASSUME NEW c \in Call, NEW n \in 1..Attempts, Accept(c, n)
      PROVE  \A b \in Call : Sent(b)' /\ Seen(b)'
  <2>0. phase[c] = "creating" /\ n = attempt[c] /\ wire' = wire \ {<<c, n>>} /\ attempt' = attempt
    BY <1>1, <1>g DEF Accept
  <2>1. /\ phase' = [phase EXCEPT ![c] = "polling"]
        /\ mine' = [mine EXCEPT ![c] = keys'[c]]
    BY <1>1, <2>0 DEF Accept
  <2>2. \A b \in Call : Sent(b)'
    <3>1. SUFFICES ASSUME NEW b \in Call, NEW i \in 1..Attempts, <<b, i>> \in wire'
                   PROVE  phase'[b] = "creating" /\ i = attempt'[b]
      OBVIOUS
    <3>2. phase[b] = "creating" /\ i = attempt[b] /\ <<b, i>> # <<c, n>>
      BY <1>g, <2>0, <3>1
    <3>3. b # c
      BY <2>0, <3>2
    <3>4. QED
      BY <1>p, <2>0, <2>1, <3>2, <3>3
  <2>3. \A i \in Job : Active(i) => owner[i] # c
    BY <1>g, <2>0
  <2>4. ASSUME NEW i \in Job, Active(i)', owner'[i] # "nobody"
        PROVE  keys'[owner'[i]] = i
    BY <2>4, KeyedStep DEF Keyed
  <2>5. ASSUME NEW b \in Call, b # c PROVE Seen(b)'
    <3>1. \A i \in Job : Active(i)' /\ owner'[i] = b => Active(i) /\ owner[i] = b
      <4>1. CASE UNCHANGED adapter
        BY <4>1 DEF adapter, Active
      <4>2. CASE NewJob(c)
        BY <4>2, <1>n, <2>5
      <4>3. QED
        BY <1>1, <4>1, <4>2 DEF Accept
    <3>2. mine'[b] = mine[b] /\ phase'[b] = phase[b]
      BY <1>p, <2>1, <2>5
    <3>3. QED
      BY <1>g, <3>1, <3>2
  <2>6. Seen(c)'
    <3>1. mine'[c] = keys'[c] /\ phase'[c] = "polling"
      BY <1>p, <2>1
    <3>2. QED
      BY <1>j, <2>4, <3>1
  <2>7. QED
    BY <2>2, <2>5, <2>6
<1>2. ASSUME OtherJob PROVE \A b \in Call : Sent(b)' /\ Seen(b)'
  <2>1. NewJob("nobody") /\ UNCHANGED <<phase, attempt, mine, wire>>
    BY <1>2 DEF OtherJob, site
  <2>2. ASSUME NEW b \in Call, NEW i \in Job, Active(i)', owner'[i] = b
        PROVE  Active(i) /\ owner[i] = b
    BY <1>j, <1>n, <2>1, <2>2
  <2>3. QED
    BY <1>g, <2>1, <2>2
<1>3. ASSUME NEW j \in Job, Finish(j) PROVE \A b \in Call : Sent(b)' /\ Seen(b)'
  <2>1. busy' = busy \ {j} /\ UNCHANGED <<owner, phase, attempt, mine, wire>>
        /\ \A i \in Job : i # j => status'[i] = status[i]
    BY <1>3, FinishStep DEF Finish, site
  <2>2. \A i \in Job : Active(i)' => Active(i)
    BY <2>1 DEF Active
  <2>3. QED
    BY <1>g, <2>1, <2>2
<1>4. ASSUME Restart PROVE \A b \in Call : Sent(b)' /\ Seen(b)'
  BY <1>4 DEF Restart, Active
<1>5. ASSUME NEW c \in Call, Submit(c) PROVE \A b \in Call : Sent(b)' /\ Seen(b)'
  <2>1. /\ phase[c] = "idle" /\ phase' = [phase EXCEPT ![c] = "creating"]
        /\ attempt' = [attempt EXCEPT ![c] = 1]
        /\ wire' = wire \cup {<<c, 1>>} /\ UNCHANGED <<owner, busy, status, mine>>
    BY <1>5 DEF Submit, adapter
  <2>2. \A b \in Call : b # c => phase'[b] = phase[b] /\ attempt'[b] = attempt[b]
    BY <1>p, <2>1
  <2>3. phase'[c] = "creating" /\ attempt'[c] = 1
    BY <1>p, <2>1
  <2>4. \A i \in Job : (Active(i)' <=> Active(i)) /\ (Active(i) => owner[i] # c)
    BY <1>g, <2>1 DEF Active
  <2>5. ASSUME NEW b \in Call PROVE Sent(b)'
    BY <1>g, <2>1, <2>2, <2>3
  <2>6. ASSUME NEW b \in Call PROVE Seen(b)'
    BY <1>g, <2>1, <2>2, <2>4
  <2>7. QED
    BY <2>5, <2>6
<1>6. ASSUME NEW c \in Call, AttemptFails(c) PROVE \A b \in Call : Sent(b)' /\ Seen(b)'
  <2>1. /\ phase[c] = "creating" /\ <<c, attempt[c]>> \notin wire
        /\ \/ /\ attempt' = [attempt EXCEPT ![c] = @ + 1]
              /\ wire' = wire \cup {<<c, attempt[c] + 1>>}
              /\ UNCHANGED phase
           \/ phase' = [phase EXCEPT ![c] = "failed"] /\ UNCHANGED <<attempt, wire>>
        /\ UNCHANGED <<owner, busy, status, mine>>
    BY <1>6, <1>h DEF AttemptFails, adapter
  <2>2. \A b \in Call : b # c => phase'[b] = phase[b] /\ attempt'[b] = attempt[b]
    BY <1>p, <2>1
  <2>3. \A n \in 1..Attempts : <<c, n>> \notin wire
    BY <1>g, <2>1
  <2>4. \A i \in Job : (Active(i)' <=> Active(i)) /\ (Active(i) => owner[i] # c)
    BY <1>g, <2>1 DEF Active
  <2>5. ASSUME NEW b \in Call, b # c PROVE Sent(b)'
    BY <1>g, <2>1, <2>2, <2>5
  <2>6. Sent(c)'
    BY <1>p, <2>1, <2>3
  <2>7. ASSUME NEW b \in Call PROVE Seen(b)'
    BY <1>g, <2>1, <2>2, <2>4
  <2>8. QED
    BY <2>5, <2>6, <2>7
<1>7. ASSUME NEW c \in Call, Poll(c) PROVE \A b \in Call : Sent(b)' /\ Seen(b)'
  <2>1. /\ phase[c] = "polling" /\ Read(mine[c]) # "running"
        /\ phase' = [phase EXCEPT ![c] = IF Answered(c) THEN "done" ELSE "failed"]
        /\ UNCHANGED <<owner, busy, status, mine, attempt, wire>>
    BY <1>7, <1>h DEF Poll, adapter
  <2>2. \A b \in Call : b # c => phase'[b] = phase[b]
    BY <1>p, <2>1
  <2>3. \A n \in 1..Attempts : <<c, n>> \notin wire
    BY <1>g, <2>1
  <2>4. \A i \in Job : Active(i)' <=> Active(i)
    BY <2>1 DEF Active
  <2>5. ASSUME NEW i \in Job, Active(i), owner[i] = c PROVE FALSE
    <3>1. mine[c] = i
      BY <1>g, <2>5
    <3>2. i \in held /\ status[i] = "running"
      BY <2>5 DEF Active, Registry
    <3>3. QED
      BY <2>1, <3>1, <3>2 DEF Read
  <2>6. QED
    BY <1>g, <2>1, <2>2, <2>3, <2>4, <2>5
<1>8. ASSUME NEW c \in Call, Deadline(c) \/ Reconcile(c)
      PROVE  \A b \in Call : Sent(b)' /\ Seen(b)'
  <2>1. /\ phase[c] \in {"polling", "reconciling"}
        /\ UNCHANGED <<owner, held, busy, status, receipt, mine, attempt, wire>>
        /\ \/ phase' = [phase EXCEPT ![c] = "reconciling"]
           \/ phase' = [phase EXCEPT ![c] = IF Answered(c) THEN "done" ELSE "canceling"]
    BY <1>8, <1>h DEF Deadline, Reconcile, adapter
  <2>2. \A b \in Call : b # c => phase'[b] = phase[b]
    BY <1>p, <2>1
  <2>3. \A n \in 1..Attempts : <<c, n>> \notin wire
    BY <1>g, <2>1
  <2>4. \A i \in Job : Active(i)' <=> Active(i)
    BY <2>1 DEF Active
  <2>5. ASSUME NEW i \in Job, Active(i), owner[i] = c
        PROVE  mine[c] = i /\ ~Answered(c)
    <3>1. mine[c] = i
      BY <1>g, <2>5
    <3>2. i \in held /\ status[i] = "running"
      BY <2>5 DEF Active, Registry
    <3>3. QED
      BY <3>1, <3>2 DEF Answered, Read
  <2>6. Seen(c)'
    BY <1>p, <2>1, <2>4, <2>5
  <2>7. QED
    BY <1>g, <2>1, <2>2, <2>3, <2>4, <2>6
<1>9. ASSUME NEW c \in Call, GiveUp(c) PROVE \A b \in Call : Sent(b)' /\ Seen(b)'
  <2>1. /\ phase[c] = "canceling" /\ phase' = [phase EXCEPT ![c] = "failed"] /\ Cancel(mine[c])
        /\ UNCHANGED <<owner, held, busy, mine, attempt, wire>>
    BY <1>9, <1>h DEF GiveUp
  <2>m. mine[c] \in Job
    BY <1>p, <2>1 DEF Keyed, Job
  <2>2. \A b \in Call : b # c => phase'[b] = phase[b]
    BY <1>p, <2>1
  <2>3. \A n \in 1..Attempts : <<c, n>> \notin wire
    BY <1>g, <2>1
  <2>4. \A i \in Job : Active(i)' => Active(i)
    BY <1>c, <2>1, <2>m
  <2>5. ASSUME NEW i \in Job, Active(i)', owner[i] = c PROVE FALSE
    <3>1. mine[c] = i /\ Active(i)
      BY <1>g, <2>4, <2>5
    <3>2. i \in held /\ status[i] = "running"
      BY <3>1 DEF Active, Registry
    <3>3. status'[i] = "canceled"
      BY <2>1, <3>1, <3>2 DEF Cancel, TypeOK
    <3>4. QED
      BY <2>5, <3>3 DEF Active
  <2>6. QED
    BY <1>g, <2>1, <2>2, <2>3, <2>4, <2>5
<1>10. ASSUME NEW c \in Call, StopJob(c) PROVE \A b \in Call : Sent(b)' /\ Seen(b)'
  <2>1. mine[c] \in Job /\ Cancel(mine[c]) /\ UNCHANGED <<owner, busy, phase, mine, attempt, wire>>
    BY <1>10, <1>p DEF StopJob, site, Job
  <2>2. QED
    BY <1>c, <1>g, <2>1
<1>11. ASSUME NEW c \in Call, SiteStops(c) PROVE FALSE
  BY <1>11, <1>h DEF SiteStops
<1>12. CASE UNCHANGED vars
  BY <1>12, <1>g DEF vars, adapter, site, Active
<1>13. QED
  BY <1>1, <1>2, <1>3, <1>4, <1>5, <1>6, <1>7, <1>8, <1>9, <1>10, <1>11, <1>12 DEF Next

\* A call that fails leaves no agent at work for it, unless something was lost: the create
\* of an attempt that failed was not handled, and the job of a call that gives up is canceled.
THEOREM NobodyLeft == Spec => []NoOrphan
<1>1. Init => Attended
  BY DEF Init, Attended, Active
<1>2. Attended => NoOrphan
  BY DEF Attended, NoOrphan
<1>3. QED
  BY Invariant, AttendedStep, <1>1, <1>2, PTL DEF Spec
-----------------------------------------------------------------------------
(* One run of the agent.                                                   *)

\* The agent's own processes in the group of an attempt.
Working(a) == alive[a] \cap {"leader", "worker"}

InPipe == \E i \in 1..Len(pipe) : pipe[i] \in Operation

Tried ==
    /\ \A a \in Attempt : a < trial => Working(a) = {} /\ a \notin operated
    /\ \A a \in Attempt : a > trial => alive[a] = {} /\ a \notin operated
    /\ stage = "setup" => awaits < Setups /\ alive[trial] = {}
    /\ stage \in {"setup", "waiting"} => trial \notin operated
    /\ stage \in {"closing", "waiting"} => Working(trial) = {}
    /\ stage \in {"setup", "closing", "waiting"} => pipe = <<>>
    /\ stage = "waiting" => trial < Tries
    /\ stage \in {"running", "closing"} /\ trial \in operated => started \/ InPipe

RunInv == RunTypeOK /\ Tried
-----------------------------------------------------------------------------
(* Types.                                                                  *)

\* What is left of a sequence when its first element is taken.
LEMMA HeadTail ==
  ASSUME NEW S, NEW s \in Seq(S), s # <<>>
  PROVE  /\ Len(s) \in Nat \ {0}
         /\ Head(s) \in S /\ Head(s) = s[1]
         /\ Tail(s) \in Seq(S) /\ Len(Tail(s)) = Len(s) - 1
         /\ \A i \in 1..Len(Tail(s)) : Tail(s)[i] = s[i + 1]
  BY HeadTailProperties

\* The sequence of nothing.
LEMMA EmptyPipe == ASSUME NEW S PROVE <<>> \in Seq(S) /\ Len(<<>>) = 0
  BY EmptySeq

LEMMA RunInitInv == RunInit => RunInv
<1> SUFFICES ASSUME RunInit PROVE RunInv
  OBVIOUS
<1>1. RunTypeOK
  <2>1. pipe \in Seq(Event) /\ Len(pipe) <= Unread
    BY EmptyPipe, RunAssumption DEF RunInit
  <2>2. QED
    <3>1. /\ trial \in Attempt /\ awaits \in 0..Setups
          /\ now \in 0..Horizon /\ progress \in 0..Horizon /\ until \in Nat
      BY RunAssumption DEF RunInit, Attempt
    <3>2. /\ alive \in [Attempt -> SUBSET {"leader", "worker", "stray"}]
          /\ cleanup \in [Attempt -> {"none", "term", "killed"}]
          /\ operated \in SUBSET Attempt
      BY DEF RunInit
    <3>3. QED
      BY <2>1, <3>1, <3>2 DEF RunInit, RunTypeOK, Outcome
<1>2. Tried
  BY RunAssumption DEF RunInit, Tried, Attempt, Working
<1>3. QED
  BY <1>1, <1>2 DEF RunInv

LEMMA RunTypeStep == ASSUME RunInv, [RunNext]_runVars PROVE RunTypeOK'
<1> USE RunAssumption DEF RunInv, RunTypeOK, Attempt, Event, Outcome
<1>1. CASE SetupStops
  BY <1>1 DEF SetupStops, End, clock, budget, output, group
<1>2. CASE SetupReturns
  BY <1>2 DEF SetupReturns, Tried, clock, budget, output
<1>3. ASSUME NEW e \in Event, Emit(e) PROVE RunTypeOK'
  BY <1>3 DEF Emit, clock, budget
<1>4. ASSUME NEW a \in Attempt, NEW m \in {"worker", "stray"}, Fork(a, m) PROVE RunTypeOK'
  BY <1>4 DEF Fork, clock, budget, output
<1>5. ASSUME NEW a \in Attempt, NEW m \in {"worker", "stray"}, MemberEnds(a, m) PROVE RunTypeOK'
  BY <1>5 DEF MemberEnds, clock, budget, output
<1>6. ASSUME NEW c \in {0, 1}, LeaderExits(c) PROVE RunTypeOK'
  BY <1>6 DEF LeaderExits, CleanUp, clock, budget, output
<1>7. ASSUME NEW a \in Attempt, Kill(a) PROVE RunTypeOK'
  BY <1>7 DEF Kill, clock, budget, output
<1>8. CASE ReadEvent
  <2>1. pipe' \in Seq(Event) /\ Len(pipe') <= Unread
    <3>1. pipe \in Seq(Event) /\ pipe # <<>> /\ Len(pipe) <= Unread /\ pipe' = Tail(pipe) /\ Unread \in Nat
      BY <1>8 DEF ReadEvent
    <3> HIDE DEF Event, RunTypeOK, RunInv
    <3>2. QED
      BY <3>1, HeadTail
  <2>2. started' \in BOOLEAN /\ full' \in BOOLEAN /\ progress' \in 0..Horizon
    BY <1>8 DEF ReadEvent, Consume
  <2>3. QED
    BY <1>8, <2>1, <2>2 DEF ReadEvent, clock, group
<1>9. CASE Timeout
  BY <1>9 DEF Timeout, End, CleanUp, clock, budget, output, group
<1>10. CASE StdinFails
  BY <1>10 DEF StdinFails, End, CleanUp, clock, budget, output, group
<1>11. CASE Abort
  BY <1>11 DEF Abort, End, CleanUp, budget, output, group
<1>12. CASE Close
  <2>1. started' \in BOOLEAN /\ full' \in BOOLEAN /\ progress' \in 0..Horizon
    BY <1>12 DEF Close, Consume
  <2>2. QED
    BY <1>12, <2>1 DEF Close, clock, group
<1>13. CASE Conclude
  BY <1>13 DEF Conclude, Replays, End, clock, output, group
<1>14. CASE Retry
  <2>a. stage = "waiting" => trial < Tries
    BY DEF Tried
  <2>b. trial' \in Attempt
    BY <1>14, <2>a DEF Retry
  <2>c. awaits' \in 0..Setups
    BY <1>14 DEF Retry
  <2>1. /\ stage' \in {"setup", "ended"} /\ result' \in Outcome \cup {"none"}
        /\ started' \in BOOLEAN /\ full' \in BOOLEAN
    BY <1>14 DEF Retry, End
  <2>2. QED
    BY <1>14, <2>b, <2>c, <2>1 DEF Retry, clock, budget, group
<1>15. CASE Tick
  BY <1>15 DEF Tick, budget, output, group
<1>16. CASE UNCHANGED runVars
  BY <1>16 DEF runVars
<1>17. QED
  BY <1>1, <1>2, <1>3, <1>4, <1>5, <1>6, <1>7, <1>8, <1>9, <1>10, <1>11, <1>12, <1>13,
     <1>14, <1>15, <1>16 DEF RunNext, Agent, Adapter

-----------------------------------------------------------------------------
(* Attempts.                                                               *)

LEMMA TriedStep == ASSUME RunInv, [RunNext]_runVars PROVE Tried'
<1> USE RunAssumption DEF RunInv
<1>t. /\ trial \in Attempt /\ Attempt \subseteq Nat
      /\ alive \in [Attempt -> SUBSET {"leader", "worker", "stray"}]
  BY DEF RunTypeOK, Attempt
<1>0. ASSUME UNCHANGED <<trial, alive, operated>>,
             stage' = "ended"
      PROVE  Tried'
  BY <1>0 DEF Tried, Working
<1>s. ASSUME UNCHANGED <<stage, trial, awaits, alive, operated, pipe, started>> PROVE Tried'
  BY <1>s DEF Tried, Working, InPipe
<1>1. CASE SetupStops
  BY <1>1, <1>0 DEF SetupStops, End, group
<1>2. CASE SetupReturns
  <2>1. CASE awaits' < Setups
    BY <1>2, <2>1 DEF SetupReturns, Tried, Working, InPipe, output, clock, budget
  <2>2. CASE ~(awaits' < Setups)
    <3>1. /\ stage = "setup" /\ stage' = "running" /\ UNCHANGED <<trial, operated>>
          /\ \A a \in Attempt : a # trial => alive'[a] = alive[a]
      BY <1>2, <1>t, <2>2 DEF SetupReturns
    <3>2. trial \notin operated /\ \A a \in Attempt : a # trial => Working(a)' = Working(a)
      BY <3>1 DEF Tried, Working
    <3>3. QED
      BY <3>1, <3>2, <1>t DEF Tried
  <2>3. QED
    BY <2>1, <2>2
<1>3. ASSUME NEW e \in Event, Emit(e) PROVE Tried'
  <2>1. /\ UNCHANGED <<stage, trial, awaits, alive, started>> /\ Working(trial) # {}
        /\ pipe' = Append(pipe, e) /\ pipe \in Seq(Event)
        /\ operated' = IF e \in Operation THEN operated \cup {trial} ELSE operated
    BY <1>3 DEF Emit, RunTypeOK, Working
  <2>2. stage \notin {"setup", "closing", "waiting"}
    BY <2>1 DEF Tried, Working
  <2>3. /\ InPipe => InPipe'
        /\ e \in Operation => InPipe'
    BY <2>1 DEF InPipe
  <2>4. \A a \in Attempt : a # trial => (a \in operated' <=> a \in operated)
    BY <2>1
  <2>5. QED
    BY <2>1, <2>2, <2>3, <2>4, <1>t DEF Tried, Working
<1>g. ASSUME NEW a \in Attempt, UNCHANGED <<stage, trial, awaits, operated, pipe, started>>,
             \A b \in Attempt : b # a => alive'[b] = alive[b],
             alive[a] = {} => alive'[a] = {},
             Working(a) = {} => Working(a)' = {}
      PROVE  Tried'
  BY <1>g, <1>t DEF Tried, Working, InPipe
<1>4. ASSUME NEW a \in Attempt, NEW m \in {"worker", "stray"}, Fork(a, m) PROVE Tried'
  <2>1. UNCHANGED <<stage, trial, awaits, operated, pipe, started>>
        /\ alive' = [alive EXCEPT ![a] = @ \cup {m}]
    BY <1>4 DEF Fork, output
  <2>2. alive[a] # {} /\ (m = "worker" => Working(a) # {})
    BY <1>4 DEF Fork, Working
  <2>3. Working(a) = {} => Working(a)' = {}
    BY <2>1, <2>2, <1>t DEF Working
  <2>4. QED
    BY <2>1, <2>2, <2>3, <1>g, <1>t
<1>5. ASSUME NEW a \in Attempt, NEW m \in {"worker", "stray"}, MemberEnds(a, m) PROVE Tried'
  <2>1. UNCHANGED <<stage, trial, awaits, operated, pipe, started>>
        /\ alive' = [alive EXCEPT ![a] = @ \ {m}]
    BY <1>5 DEF MemberEnds, output
  <2>2. QED
    BY <2>1, <1>g, <1>t DEF Working
<1>6. ASSUME NEW c \in {0, 1}, LeaderExits(c) PROVE Tried'
  <2>1. UNCHANGED <<stage, trial, awaits, operated, pipe, started>>
        /\ alive' = [alive EXCEPT ![trial] = @ \ {"leader"}]
    BY <1>6 DEF LeaderExits, output
  <2>2. QED
    BY <2>1, <1>g, <1>t DEF Working
<1>7. ASSUME NEW a \in Attempt, Kill(a) PROVE Tried'
  <2>1. UNCHANGED <<stage, trial, awaits, operated, pipe, started>>
        /\ alive' = [alive EXCEPT ![a] = {}]
    BY <1>7 DEF Kill, output
  <2>2. QED
    BY <2>1, <1>g, <1>t DEF Working
<1>p. ASSUME pipe # <<>>, InPipe
      PROVE  Head(pipe) \in Operation \/ \E i \in 1..Len(Tail(pipe)) : Tail(pipe)[i] \in Operation
  <2>1. /\ Len(pipe) \in Nat \ {0} /\ Head(pipe) = pipe[1]
        /\ Len(Tail(pipe)) = Len(pipe) - 1
        /\ \A i \in 1..Len(Tail(pipe)) : Tail(pipe)[i] = pipe[i + 1]
    <3>1. pipe \in Seq(Event)
      BY DEF RunTypeOK
    <3>2. QED
      BY <1>p, <3>1, HeadTail
  <2>2. PICK i \in 1..Len(pipe) : pipe[i] \in Operation
    BY <1>p DEF InPipe
  <2>3. CASE i = 1
    BY <2>1, <2>2, <2>3
  <2>4. CASE i # 1
    <3>1. i - 1 \in 1..Len(Tail(pipe)) /\ Tail(pipe)[i - 1] = pipe[i]
      BY <2>1, <2>2, <2>4
    <3>2. QED
      BY <2>2, <3>1
  <2>5. QED
    BY <2>3, <2>4
<1>8. CASE ReadEvent
  <2>1. /\ stage = "running" /\ pipe # <<>> /\ pipe' = Tail(pipe)
        /\ started' = (started \/ Head(pipe) \in Operation)
        /\ UNCHANGED <<stage, trial, awaits, alive, operated>>
    BY <1>8 DEF ReadEvent, Consume, group
  <2>2. started \/ InPipe => started' \/ InPipe'
    BY <2>1, <1>p DEF InPipe
  <2>3. QED
    BY <2>1, <2>2 DEF Tried, Working
<1>9. CASE Timeout
  BY <1>9, <1>0 DEF Timeout, End, group
<1>10. CASE StdinFails
  BY <1>10, <1>0 DEF StdinFails, End, group
<1>11. CASE Abort
  <2>1. CASE stage \in {"running", "waiting"}
    BY <1>11, <1>0, <2>1 DEF Abort, End, group
  <2>2. CASE stage \notin {"running", "waiting"}
    BY <1>11, <1>s, <2>2 DEF Abort, output, group
  <2>3. QED
    BY <2>1, <2>2
<1>12. CASE Close
  <2>1. /\ stage = "running" /\ stage' = "closing" /\ pipe' = <<>> /\ Len(pipe) <= 1
        /\ Working(trial) = {}
        /\ pipe # <<>> => started' = (started \/ Head(pipe) \in Operation)
        /\ pipe = <<>> => started' = started
        /\ UNCHANGED <<trial, awaits, alive, operated>>
    BY <1>12 DEF Close, Consume, Quiet, Working, group
  <2>2. started \/ InPipe => started'
    <3>1. CASE pipe = <<>>
      BY <2>1, <3>1 DEF InPipe
    <3>2. CASE pipe # <<>>
      <4>1. pipe \in Seq(Event)
        BY DEF RunTypeOK
      <4>2. Len(pipe) \in Nat \ {0} /\ Len(Tail(pipe)) = Len(pipe) - 1
        BY <3>2, <4>1, HeadTail
      <4>3. 1..Len(Tail(pipe)) = {}
        BY <2>1, <4>2
      <4>4. InPipe => Head(pipe) \in Operation
        BY <3>2, <4>3, <1>p
      <4>5. started' = (started \/ Head(pipe) \in Operation)
        BY <2>1, <3>2
      <4>6. QED
        BY <4>4, <4>5
    <3>3. QED
      BY <3>1, <3>2
  <2>3. QED
    BY <2>1, <2>2 DEF Tried, Working
<1>13. CASE Conclude
  <2>1. UNCHANGED <<trial, awaits, alive, operated, pipe, started>> /\ stage = "closing"
    BY <1>13 DEF Conclude, output, group
  <2>2. CASE Replays /\ stage' = "waiting"
    <3>1. ~started /\ trial < Tries /\ pipe = <<>> /\ ~InPipe
      BY <2>1, <2>2 DEF Replays, Tried, InPipe
    <3>2. trial \notin operated
      BY <2>1, <3>1 DEF Tried
    <3>3. QED
      BY <2>1, <2>2, <3>1, <3>2 DEF Tried, Working
  <2>3. CASE stage' = "ended"
    BY <2>1, <2>3, <1>0
  <2>4. QED
    BY <1>13, <2>2, <2>3 DEF Conclude, End
<1>14. CASE Retry
  <2>1. CASE stage' = "ended"
    BY <1>14, <1>0, <2>1 DEF Retry, group
  <2>2. CASE stage' = "setup" /\ trial' = trial + 1 /\ awaits' = 0
    <3>1. UNCHANGED <<alive, operated, pipe>> /\ stage = "waiting"
      BY <1>14 DEF Retry, group
    <3>2. trial + 1 \in Attempt /\ pipe = <<>> /\ trial \notin operated /\ Working(trial) = {}
      BY <3>1, <1>t DEF Tried, Attempt
    <3>3. QED
      BY <2>2, <3>1, <3>2, <1>t DEF Tried, Working
  <2>3. QED
    BY <1>14, <2>1, <2>2 DEF Retry, End
<1>15. CASE Tick
  BY <1>15, <1>s DEF Tick, output, group
<1>16. CASE UNCHANGED runVars
  BY <1>16, <1>s DEF runVars
<1>17. QED
  BY <1>1, <1>2, <1>3, <1>4, <1>5, <1>6, <1>7, <1>8, <1>9, <1>10, <1>11, <1>12, <1>13,
     <1>14, <1>15, <1>16 DEF RunNext, Agent, Adapter

\* The inductive invariant holds: see Attempts.
THEOREM RunInvariant == RunSpec => []RunInv
<1>1. RunInv /\ [RunNext]_runVars => RunInv'
  BY RunTypeStep, TriedStep DEF RunInv
<1>2. QED
  BY RunInitInv, <1>1, PTL DEF RunSpec

\* The type invariant: the job, its attempts, the clock and the pipe keep their types.
THEOREM RunTypeCorrect == RunSpec => []RunTypeOK
<1>1. RunInv => RunTypeOK
  BY DEF RunInv
<1>2. QED
  BY RunInvariant, <1>1, PTL

\* The agents of two attempts are never at work at the same time.
THEOREM OneAgentAtWork == RunSpec => []OneAgent
<1>1. RunInv => OneAgent
  BY DEF RunInv, RunTypeOK, Tried, OneAgent, Working, Attempt
<1>2. QED
  BY RunInvariant, <1>1, PTL

\* A job begins operations in one attempt only, whatever is replayed.
THEOREM OperatedOnce == RunSpec => []OperatesOnce
<1>1. RunInv => OperatesOnce
  BY DEF RunInv, RunTypeOK, Tried, OperatesOnce, Attempt
<1>2. QED
  BY RunInvariant, <1>1, PTL

\* No agent is started for a job that was canceled or has used up its budget.
THEOREM SpawnedInTime == RunSpec => NoLateSpawn
<1> DEFINE InTime == \A a \in Attempt : alive[a] = {} /\ "leader" \in alive'[a] => ~aborted /\ now < MaxMs
<1>1. RunInv /\ [RunNext]_runVars => [InTime]_runVars
  <2>1. SUFFICES ASSUME RunInv, RunNext, NEW a \in Attempt, alive[a] = {}, "leader" \in alive'[a]
                 PROVE  ~aborted /\ now < MaxMs
    OBVIOUS
  <2>2. alive \in [Attempt -> SUBSET {"leader", "worker", "stray"}]
    BY <2>1 DEF RunInv, RunTypeOK
  <2>3. SetupReturns
    BY <2>1, <2>2 DEF RunNext, Agent, Adapter, SetupStops, Emit, Fork, MemberEnds, LeaderExits, Kill,
       ReadEvent, Timeout, StdinFails, Abort, Close, Conclude, Retry, Tick, group
  <2>4. QED
    BY <2>1, <2>3, RunAssumption DEF SetupReturns, Stopped, Expired, RunInv, RunTypeOK
<1>2. QED
  BY RunInvariant, <1>1, PTL DEF RunSpec, NoLateSpawn
=============================================================================

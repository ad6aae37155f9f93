----------------------------- MODULE StepOutcome -----------------------------
(***************************************************************************)
(* What the script executor promises a workflow: an attempt is opened at   *)
(* the step its workflow run is on, gets at most one verdict, and the      *)
(* verdict takes effect at most once, only while the run still is on that  *)
(* step, by moving the run along the verdict's edge or by one retry.       *)
(* Nothing here knows of leases, artifacts, finalizers, sweeps or crashes. *)
(***************************************************************************)
EXTENDS Naturals

CONSTANTS Run, Step, Attempt,
          Edge,     \* [Verdict -> [Step -> Step]]
          Home      \* the step a workflow run starts on

Verdict == {"completed", "no_op", "escalate", "failed"}

VARIABLES
    place,    \* [Run -> Step]: where the workflow run is
    of, at,   \* the run and the step an attempt was opened for
    phase,    \* "absent", "open", "decided", "applied", "dropped"
    verdict   \* the verdict of a decided or applied attempt

vars == <<place, of, at, phase, verdict>>

Init ==
    /\ place = [r \in Run |-> Home]
    /\ of = [a \in Attempt |-> "none"] /\ at = [a \in Attempt |-> "none"]
    /\ phase = [a \in Attempt |-> "absent"]
    /\ verdict = [a \in Attempt |-> "none"]

\* At most one attempt is opened in a step, where its run is after the step.
Opens ==
    \/ UNCHANGED <<of, at>>
    \/ \E a \in Attempt, r \in Run :
          /\ phase[a] = "absent" /\ phase'[a] = "open"
          /\ of' = [of EXCEPT ![a] = r]
          /\ at' = [at EXCEPT ![a] = place'[r]]

OpenedOnly(B) == \A a \in B : phase'[a] # phase[a] => phase[a] = "absent" /\ of'[a] # of[a]

\* Somebody else moves one run, drops its open attempts, or opens one.
Operate ==
    /\ \E r \in Run : \E s \in Step : place' = [place EXCEPT ![r] = s]
    /\ \E A \in SUBSET {a \in Attempt : phase[a] = "open"} :
          /\ \A a \in A : phase'[a] = "dropped"
          /\ OpenedOnly(Attempt \ A)
    /\ phase' \in [Attempt -> {"absent", "open", "decided", "applied", "dropped"}]
    /\ Opens
    /\ UNCHANGED verdict

\* Open attempts get their verdict, or are dropped; no run moves.
Decide ==
    /\ \A a \in Attempt :
          \/ phase'[a] = phase[a] /\ verdict'[a] = verdict[a]
          \/ /\ phase[a] = "open" /\ phase'[a] = "dropped"
             /\ verdict'[a] = verdict[a]
          \/ /\ phase[a] = "open" /\ phase'[a] = "decided"
             /\ verdict'[a] \in Verdict
    /\ phase' \in [Attempt -> {"absent", "open", "decided", "applied", "dropped"}]
    /\ verdict' \in [Attempt -> Verdict \cup {"none"}]
    /\ UNCHANGED <<place, of, at>>

\* A verdict takes effect: the run is on the attempt's step and moves along
\* the verdict's edge, or stays there for the retry of a failure.
Apply(a) ==
    /\ phase[a] \in {"open", "decided"} /\ phase'[a] = "applied"
    /\ verdict'[a] \in Verdict
    /\ phase[a] = "decided" => verdict'[a] = verdict[a]
    /\ verdict' = [verdict EXCEPT ![a] = verdict'[a]]
    /\ place[of[a]] = at[a]
    /\ \/ place' = [place EXCEPT ![of[a]] = Edge[verdict'[a]][at[a]]]
       \/ verdict'[a] = "failed" /\ UNCHANGED place
    /\ OpenedOnly(Attempt \ {a})
    /\ phase' \in [Attempt -> {"absent", "open", "decided", "applied", "dropped"}]
    /\ Opens

\* A verdict that comes too late is set aside.
Drop(a) ==
    /\ phase[a] \in {"open", "decided"}
    /\ phase' = [phase EXCEPT ![a] = "dropped"]
    /\ verdict' = [verdict EXCEPT ![a] = "none"]
    /\ UNCHANGED <<place, of, at>>

Next ==
    \/ Operate
    \/ Decide
    \/ \E a \in Attempt : Apply(a) \/ Drop(a)

Spec == Init /\ [][Next]_vars
=============================================================================

---------------------------- MODULE UpdateLedger ----------------------------
(***************************************************************************)
(* What the journal of Telegram updates promises: every update has one     *)
(* fate, the handler runs for it at most once, in the order of the ids,    *)
(* and an update that is over is never handled again, whatever happens to  *)
(* the process in between.                                                 *)
(***************************************************************************)
EXTENDS Naturals

CONSTANT Update

VARIABLE fate

Init == fate = [u \in Update |-> "waiting"]

\* The handler is started, when all that came before is over.
Begin(u) ==
    /\ fate[u] = "waiting"
    /\ \A v \in Update : v < u => fate[v] = "over"
    /\ fate' = [fate EXCEPT ![u] = "running"]

\* It returned, failed or was interrupted.
End(u) ==
    /\ fate[u] = "running"
    /\ fate' = [fate EXCEPT ![u] = "over"]

\* The update is put aside without having been handled.
PutAside(u) ==
    /\ fate[u] = "waiting"
    /\ \A v \in Update : v < u => fate[v] = "over"
    /\ fate' = [fate EXCEPT ![u] = "over"]

Next == \E u \in Update : Begin(u) \/ End(u) \/ PutAside(u)

Spec == Init /\ [][Next]_fate
=============================================================================

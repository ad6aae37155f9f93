-------------------------- MODULE MCWorkflowScripts --------------------------
(* Small instances of WorkflowScripts for TLC.                              *)
EXTENDS WorkflowScripts, TLC

CONSTANTS r1, r2, h1, h2, rec

\* health (script) -> review (gate); no_op -> done; fallback -> repair (agent)
\* -> review; review: approve -> done, reject -> health.
MCStep == {"health", "repair", "review", "done"}
MCKind == [health |-> "script", repair |-> "agent", review |-> "gate", done |-> "terminal"]
MCOnCompleted == [health |-> "review", repair |-> "review", review |-> "done", done |-> "done"]
MCOnNoOp == [health |-> "done", repair |-> "review", review |-> "done", done |-> "done"]
MCOnFallback == [health |-> "repair", repair |-> "review", review |-> "health", done |-> "done"]

\* scan (script) -> report (script) -> done; the fallback of both is repair.
ChainStep == {"scan", "report", "repair", "done"}
ChainKind == [scan |-> "script", report |-> "script", repair |-> "agent", done |-> "terminal"]
ChainOnCompleted == [scan |-> "report", report |-> "done", repair |-> "done", done |-> "done"]
ChainOnNoOp == [scan |-> "done", report |-> "done", repair |-> "done", done |-> "done"]
ChainOnFallback == [scan |-> "repair", report |-> "repair", repair |-> "done", done |-> "done"]
=============================================================================

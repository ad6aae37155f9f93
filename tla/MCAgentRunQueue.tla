--------------------------- MODULE MCAgentRunQueue ---------------------------
(* Instances of AgentRunQueue: three agent steps, a gate, a checkpoint and  *)
(* the terminal step, which are the kinds a position can be of.            *)
EXTENDS AgentRunQueue

CONSTANTS draft, polish, revise, review, watch, closed

MCStep == {draft, polish, revise, review, watch, closed}
MCKind == [s \in MCStep |->
    CASE s = review -> "gate" [] s = watch -> "checkpoint" [] s = closed -> "terminal"
      [] OTHER -> "agent"]
MCOnward == [s \in MCStep |->
    CASE s = draft -> polish [] s = polish -> revise [] s = revise -> review []
      s = review -> watch [] OTHER -> closed]
MCOnReject == [s \in MCStep |-> IF s = review THEN closed ELSE s]

\* One request is urgent, the others are not.
MCPriority == [r \in Request |-> IF r = CHOOSE q \in Request : TRUE THEN 90 ELSE 50]
=============================================================================

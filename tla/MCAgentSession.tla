--------------------------- MODULE MCAgentSession ---------------------------
(* The user's prompt, a steering message, and a trigger's delivery.          *)
EXTENDS AgentSession

CONSTANTS user, steer, trigger

MCMode == [c \in {user, steer, trigger} |->
             CASE c = user -> "plain" [] c = steer -> "direct" [] OTHER -> "followUp"]
=============================================================================

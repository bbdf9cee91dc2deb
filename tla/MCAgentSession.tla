--------------------------- MODULE MCAgentSession ---------------------------
(* Small instances of AgentSession for TLC: what each run lets happen. *)
EXTENDS AgentSession

OneAtATime   == {"cancel", "hooks", "errors"}
Overlapping  == {"overlap", "cancel", "resume"}
TwoPrompts   == {"overlap"}
PlainPrompts == {}
Continuation == {"resume"}
=============================================================================

----------------------------- MODULE MCConvTurn -----------------------------
(* Small instances of ConvTurn for TLC: the handlers that may overlap, and the
   operations each run allows. *)
EXTENDS ConvTurn

CONSTANTS h1, h2

OneHandler  == {h1}
TwoHandlers == {h1, h2}
HandlerSymmetry == Permutations(TwoHandlers)

Everything  == AllOps
(* one careful client: waits for each answer, never cancels, uses no queue,
   initializes no conversation again: an instance of CarefulClient of
   ConvTurnProofs *)
CarefulUse      == AllOps \ {"cancel", "enqueue", "reinit"}
PromptOnly      == {"prompt"}
PromptAndQueue  == {"prompt", "enqueue"}
QueueUse        == {"init", "prompt", "enqueue", "queueDelete", "delete"}
CancelThenUndo  == {"init", "prompt", "cancel", "undo"}
AgentEnds       == {"init", "prompt", "agentDies"}
AfterRestart    == {"prompt", "connectElsewhere"}
=============================================================================

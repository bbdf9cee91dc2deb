---------------------------- MODULE MCToolsLive -----------------------------
(* Small instances for TLC of the components that wait for other processes: for
   commands, the indexer and the llama servers.  They share nothing: in a
   behaviour one of them moves. *)
EXTENDS CommandRun, IndexerPipe, LlamaServers

VARIABLE part

Parts == {"run", "pipe", "llama"}
vars == <<part, runVars, pipeVars, llamaVars>>

Init == part \in Parts /\ RunInit /\ PipeInit /\ LlamaInit

OfRun(A)   == part = "run"   /\ A /\ UNCHANGED <<part, pipeVars, llamaVars>>
OfPipe(A)  == part = "pipe"  /\ A /\ UNCHANGED <<part, runVars, llamaVars>>
OfLlama(A) == part = "llama" /\ A /\ UNCHANGED <<part, runVars, pipeVars>>

Next == OfRun(RunNext) \/ OfPipe(PipeNext) \/ OfLlama(LlamaNext)

(* What the code does of its own accord: its timers, the wait that returns when
   it can, the indexer's loop, a call that gets a mutex that is free again and
   again, and the start of the servers, whose polling has a deadline. *)
Fairness ==
    /\ \A r \in Runs : WF_vars(OfRun(Timers(r))) /\ WF_vars(OfRun(WaitReturns(r)))
    /\ WF_vars(OfPipe(IndexerServes))
    /\ \A q \in Queries : SF_vars(OfPipe(QueryStep(q)))
    /\ \A h \in Hosts : WF_vars(OfLlama(HostStep(h)))

Spec == Init /\ [][Next]_vars /\ Fairness

MCRunsIn == [r1 |-> "tools", r2 |-> "tools", r3 |-> "server"]
MCWanted == [h1 |-> {"reranker"}, h2 |-> {}]
=============================================================================

----------------------------- MODULE LlamaServers -----------------------------
(***************************************************************************)
(* The llama-server processes of the tools (internal/indexer/embed.go,     *)
(* internal/tools/llamasrv.go, cmd_mcp.go, mcp_optional_tools.go).  A tool *)
(* process starts them one after the other: it asks the system for a free  *)
(* port, gives the port back, starts a child that is to listen there, and  *)
(* polls /health of the port for two minutes, whoever answers it.  Several *)
(* tool processes may do so at once.                                       *)
(***************************************************************************)
EXTENDS Naturals

CONSTANTS
    Hosts,      \* tool processes
    Wanted,     \* per host: the servers it is to start, with the embedder
    Ports       \* ports the system gives out

Roles == {"embedder", "reranker", "extractor"}
NoPort == "no port"

ASSUME LlamaAssumption == NoPort \notin Ports

NoRole == "none"
Free == [host |-> "nobody", role |-> NoRole]
Children == [host : Hosts, role : Roles]
ChildrenOf(h) == [host : {h}, role : Roles]

VARIABLES
    stage,      \* per host: "idle", "port", "start", "poll", "serve", "over", "gone"
    starting,   \* per host: the server it is starting
    server,     \* per host and role: LlamaEmbedder and so on, a port
    LlamaReady, \* per host
    portOf,     \* per child: the port it was told
    alive,      \* children that run
    listener,   \* per port: the child that listens
    loaded,     \* children that answer /health with 200
    hung,       \* children that listen and do not answer
    died,       \* history: children that ended of themselves
    collided    \* history: ports that were given out while a child that had
                \* been told the same was about to start or running

llamaVars == <<stage, starting, server, LlamaReady, portOf, alive, listener,
               loaded, hung, died, collided>>

LlamaInit ==
    /\ stage = [h \in Hosts |-> "idle"]
    /\ starting = [h \in Hosts |-> NoRole]
    /\ server = [h \in Hosts |-> [r \in Roles |-> NoPort]]
    /\ LlamaReady = [h \in Hosts |-> FALSE]
    /\ portOf = [c \in Children |-> NoPort]
    /\ alive = {} /\ loaded = {} /\ hung = {} /\ died = {} /\ collided = {}
    /\ listener = [p \in Ports |-> Free]

Current(h) == [host |-> h, role |-> starting[h]]

(* The end of processes: their ports are free again. *)
End(children) ==
    /\ alive' = alive \ children
    /\ loaded' = loaded \ children
    /\ hung' = hung \ children
    /\ listener' = [p \in Ports |-> IF listener[p] \in children THEN Free
                                    ELSE listener[p]]

(* StartLlamaServers goes on with the next server that is wanted, or is done:
   LlamaReady lets addOptionalTools offer the tools. *)
GoOn(h) ==
    LET next == IF starting[h] = "embedder" THEN {"reranker", "extractor"}
                ELSE IF starting[h] = "reranker" THEN {"extractor"} ELSE {}
        wanted == next \cap Wanted[h]
    IN \/ /\ wanted # {}
          /\ starting' = [starting EXCEPT ![h] =
                IF "reranker" \in wanted THEN "reranker" ELSE "extractor"]
          /\ stage' = [stage EXCEPT ![h] = "port"]
          /\ UNCHANGED LlamaReady
       \/ /\ wanted = {}
          /\ starting' = [starting EXCEPT ![h] = NoRole]
          /\ stage' = [stage EXCEPT ![h] = "serve"]
          /\ LlamaReady' = [LlamaReady EXCEPT ![h] = TRUE]

(* StartLlamaServers: the embedder first; without a configuration, none. *)
StartLlamaServers(h) ==
    /\ stage[h] = "idle"
    /\ \/ /\ stage' = [stage EXCEPT ![h] = "port"]
          /\ starting' = [starting EXCEPT ![h] = "embedder"]
       \/ /\ stage' = [stage EXCEPT ![h] = "serve"]
          /\ UNCHANGED starting
    /\ UNCHANGED <<server, LlamaReady, portOf, alive, listener, loaded, hung,
                   died, collided>>

-----------------------------------------------------------------------------
(* StartServer. *)

(* A child that is about to start, or runs, holds the port it was told, whether it
   listens there or not. *)
Holds(c, p) ==
    /\ portOf[c] = p
    /\ c \in alive \/ (stage[c.host] = "start" /\ c = Current(c.host))

(* getFreePort: nobody listens there, which is all the system looks at. *)
GetFreePort(h, p) ==
    /\ stage[h] = "port"
    /\ listener[p] = Free
    /\ portOf' = [portOf EXCEPT ![Current(h)] = p]
    /\ collided' = IF \E c \in Children : Holds(c, p)
                   THEN collided \cup {p} ELSE collided
    /\ stage' = [stage EXCEPT ![h] = "start"]
    /\ UNCHANGED <<starting, server, LlamaReady, alive, listener, loaded, hung,
                   died>>

StartChild(h) ==
    /\ stage[h] = "start"
    /\ stage' = [stage EXCEPT ![h] = "poll"]
    /\ alive' = alive \cup {Current(h)}
    /\ UNCHANGED <<starting, server, LlamaReady, portOf, listener, loaded, hung,
                   died, collided>>

(* Whoever listens on the port of the server that is being started. *)
Answerer(h) == listener[portOf[Current(h)]]

(* Bug: any answer will do. *)
AnyHealth(h) ==
    /\ stage[h] = "poll"
    /\ Answerer(h) # Free
    /\ server' = [server EXCEPT ![h][starting[h]] = portOf[Current(h)]]
    /\ GoOn(h)
    /\ UNCHANGED <<portOf, alive, listener, loaded, hung, died, collided>>

(* waitForReady: 200 from whoever listens on the port. *)
HealthOK(h) ==
    /\ stage[h] = "poll"
    /\ Answerer(h) \in loaded \ hung
    /\ server' = [server EXCEPT ![h][starting[h]] = portOf[Current(h)]]
    /\ GoOn(h)
    /\ UNCHANGED <<portOf, alive, listener, loaded, hung, died, collided>>

(* Without an embedder there are no tools, without another server there is a
   warning. *)
DoWithout(h) ==
    \/ /\ starting[h] # "embedder"
       /\ GoOn(h)
    \/ /\ starting[h] = "embedder"
       /\ starting' = [starting EXCEPT ![h] = NoRole]
       /\ stage' = [stage EXCEPT ![h] = "serve"]
       /\ UNCHANGED LlamaReady

(* Bug: there is no deadline. *)
ServerFailsToStart(h) ==
    /\ stage[h] \in {"port", "start"}
    /\ End({Current(h)})
    /\ DoWithout(h)
    /\ UNCHANGED <<server, portOf, died, collided>>

(* There is no port, the program cannot be started, or two minutes have gone
   by: the child is killed.  The time is looked at between two requests, and a
   request has no time limit: one that is not answered is waited for. *)
ServerFails(h) ==
    /\ \/ stage[h] \in {"port", "start"}
       \/ stage[h] = "poll" /\ Answerer(h) \notin hung
    /\ End({Current(h)})
    /\ DoWithout(h)
    /\ UNCHANGED <<server, portOf, died, collided>>

-----------------------------------------------------------------------------
(* The children, which are not ours. *)

Listens(c) == \E p \in Ports : listener[p] = c

Listen(c) ==
    /\ c \in alive
    /\ ~Listens(c)
    /\ \/ /\ listener[portOf[c]] = Free
          /\ listener' = [listener EXCEPT ![portOf[c]] = c]
          /\ UNCHANGED <<alive, loaded, hung>>
       \/ /\ listener[portOf[c]] # Free
          /\ End({c})
    /\ UNCHANGED <<stage, starting, server, LlamaReady, portOf, died, collided>>

LoadModel(c) ==
    /\ Listens(c)
    /\ c \notin loaded
    /\ loaded' = loaded \cup {c}
    /\ UNCHANGED <<stage, starting, server, LlamaReady, portOf, alive, listener,
                   hung, died, collided>>

ChildHangs(c) ==
    /\ Listens(c)
    /\ c \notin hung
    /\ hung' = hung \cup {c}
    /\ UNCHANGED <<stage, starting, server, LlamaReady, portOf, alive, listener,
                   loaded, died, collided>>

ChildDies(c) ==
    /\ c \in alive
    /\ End({c})
    /\ died' = died \cup {c}
    /\ UNCHANGED <<stage, starting, server, LlamaReady, portOf, collided>>

-----------------------------------------------------------------------------
(* Bug: only the embedder is stopped. *)
StopEmbedder(h) ==
    /\ stage[h] = "serve"
    /\ stage' = [stage EXCEPT ![h] = "over"]
    /\ End({[host |-> h, role |-> "embedder"]})
    /\ UNCHANGED <<starting, server, LlamaReady, portOf, died, collided>>

(* The end of the input: the deferred StopLlamaServers cancels the context of
   the children, which kills them, and waits for each. *)
StopLlamaServers(h) ==
    /\ stage[h] = "serve"
    /\ stage' = [stage EXCEPT ![h] = "over"]
    /\ End(ChildrenOf(h))
    /\ UNCHANGED <<starting, server, LlamaReady, portOf, died, collided>>

(* os.Exit(1), as when an upstream server cannot be reached, or a signal:
   nothing is deferred. *)
HostExits(h) ==
    /\ stage[h] \notin {"over", "gone"}
    /\ stage' = [stage EXCEPT ![h] = "gone"]
    /\ UNCHANGED <<starting, server, LlamaReady, portOf, alive, listener, loaded,
                   hung, died, collided>>

HostStep(h) ==
    \/ \E p \in Ports : GetFreePort(h, p)
    \/ StartChild(h) \/ HealthOK(h) \/ ServerFails(h)

LlamaNext ==
    \/ \E h \in Hosts :
          \/ StartLlamaServers(h) \/ HostStep(h)
          \/ StopLlamaServers(h) \/ HostExits(h)
    \/ \E c \in Children : Listen(c) \/ LoadModel(c) \/ ChildHangs(c) \/ ChildDies(c)

LlamaSpec == LlamaInit /\ [][LlamaNext]_llamaVars

-----------------------------------------------------------------------------
(* A server that a tool process counts on is its own child, with its model
   loaded, unless the child has ended since, or its port was given out twice:
   then the process may be working with another's server, of another model.
   (embed.go:33-44, 151-171.) *)
ServerIsOwn ==
    \A h \in Hosts, r \in Roles :
        LET c == [host |-> h, role |-> r]
            p == server[h][r]
        IN stage[h] = "serve" /\ p # NoPort =>
              \/ c \in loaded /\ listener[p] = c
              \/ c \in died
              \/ p \in collided

(* A child that runs is one its host counts on or is about to start (or was,
   when the host ended without its deferred calls): no failed start, and no
   host that has come to its end, leaves any behind. *)
NoStrays ==
    \A c \in alive :
        /\ stage[c.host] # "over"
        /\ server[c.host][c.role] # NoPort \/ starting[c.host] = c.role

(* The start of the servers comes to an end, unless a server that listens on
   the port does not answer: the two minutes do not bound a request.
   (embed.go:151-171.) *)
StartupEnds ==
    \A h \in Hosts :
        stage[h] = "port" ~>
            \/ stage[h] \in {"serve", "over", "gone"}
            \/ stage[h] = "poll" /\ Answerer(h) \in hung
=============================================================================

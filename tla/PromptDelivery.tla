--------------------------- MODULE PromptDelivery ---------------------------
(***************************************************************************)
(* What the server promises a client about its prompts, without goroutines *)
(* or the agent process: a prompt it accepts is either taken in hand at    *)
(* once (POST .../init and .../prompt) or waits in a queue (.../enqueue);  *)
(* the queue is served in order of arrival, apart from the entries the     *)
(* client withdraws; and a prompt is sent to the agent at most once.       *)
(* The README states it as "queued messages are sent sequentially".        *)
(***************************************************************************)
EXTENDS Naturals, SequencesExt

CONSTANT MaxPrompts

VARIABLES waiting,   \* the queue, oldest first
          inHand,    \* prompts a handler or a finishing turn is dealing with
          sent,      \* prompts a turn has been started for
          arrived    \* prompts are numbered in order of arrival

pdvars == <<waiting, inHand, sent, arrived>>

PDInit ==
    /\ waiting = <<>>
    /\ inHand = {}
    /\ sent = {}
    /\ arrived = 0

(* A request brings a prompt that is to be sent at once. *)
Receive ==
    /\ arrived < MaxPrompts
    /\ arrived' = arrived + 1
    /\ inHand' = inHand \cup {arrived + 1}
    /\ UNCHANGED <<waiting, sent>>

Enqueue ==
    /\ arrived < MaxPrompts
    /\ arrived' = arrived + 1
    /\ waiting' = Append(waiting, arrived + 1)
    /\ UNCHANGED <<inHand, sent>>

Withdraw ==
    /\ \E i \in 1 .. Len(waiting) : waiting' = RemoveAt(waiting, i)
    /\ UNCHANGED <<inHand, sent, arrived>>

TakeHead ==
    /\ waiting # <<>>
    /\ inHand' = inHand \cup {Head(waiting)}
    /\ waiting' = Tail(waiting)
    /\ UNCHANGED <<sent, arrived>>

(* The request is answered with an error, or the conversation is gone. *)
Refuse(p) ==
    /\ p \in inHand
    /\ inHand' = inHand \ {p}
    /\ UNCHANGED <<waiting, sent, arrived>>

Send(p) ==
    /\ p \in inHand
    /\ p \notin sent
    /\ inHand' = inHand \ {p}
    /\ sent' = sent \cup {p}
    /\ UNCHANGED <<waiting, arrived>>

PDNext ==
    \/ Receive \/ Enqueue \/ Withdraw \/ TakeHead
    \/ \E p \in inHand : Refuse(p) \/ Send(p)

PDSpec == PDInit /\ [][PDNext]_pdvars
=============================================================================

----------------------------- MODULE ChatHistory ----------------------------
(***************************************************************************)
(* What an agent session promises: its history is only ever extended, by   *)
(* whole turns, and reads as a chat a model accepts.  A turn starts with   *)
(* the user's prompt; every assistant message that calls n tools is        *)
(* followed at once by their n results, in the order of the calls.         *)
(***************************************************************************)
EXTENDS Naturals, SequencesExt

VARIABLE history

(* A message: its role, the prompt and the round it belongs to, and `call`:
   how many tools an assistant message calls, which call a tool answers. *)
Message(role, prompt, round, call) ==
    [role |-> role, prompt |-> prompt, round |-> round, call |-> call]

ResultsFollowCalls(chat) ==
    /\ \A i \in DOMAIN chat : chat[i].role = "assistant" =>
          \A k \in 1 .. chat[i].call :
              /\ i + k \in DOMAIN chat
              /\ chat[i + k] = Message("tool", chat[i].prompt, chat[i].round, k)
    /\ \A j \in DOMAIN chat : chat[j].role = "tool" =>
          \E i \in 1 .. j - 1 :
              /\ chat[i].role = "assistant"
              /\ chat[i].prompt = chat[j].prompt
              /\ chat[i].round = chat[j].round
              /\ j - i = chat[j].call
              /\ chat[j].call <= chat[i].call

IsTurn(chat) ==
    /\ chat # <<>>
    /\ chat[1].role = "user"
    /\ \A i \in DOMAIN chat : chat[i].prompt = chat[1].prompt
    /\ \A i \in 2 .. Len(chat) : chat[i].role # "user"
    /\ ResultsFollowCalls(chat)

CHInit == history = <<>>

CHNext ==
    /\ IsPrefix(history, history')
    /\ IsTurn(SubSeq(history', Len(history) + 1, Len(history')))

CHSpec == CHInit /\ [][CHNext]_history
=============================================================================

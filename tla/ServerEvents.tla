----------------------------- MODULE ServerEvents -----------------------------
(***************************************************************************)
(* What the pages of the web client are told (server_sse.go, server_types  *)
(* .go): events over a stream per page, and notifications that a service   *)
(* worker polls.                                                           *)
(*                                                                         *)
(* The state the events are about is the queue of a conversation: a number *)
(* that every change raises by one.  An event carries the whole queue, and *)
(* so does the answer to a page's own request.  A change is made under     *)
(* s.mu, broadcast after it, and answered after that.                      *)
(***************************************************************************)
EXTENDS Naturals, FiniteSetsExt, SequencesExt

CONSTANTS
    Pages,       \* pages of the web client
    ChanSize,    \* room in a page's channel: 64 in the code
    RingSize,    \* notifications kept: 100 in the code
    Second,      \* ticks of the clock in a second: 1000 in the code
    MaxState,    \* bound: changes of the state
    MaxAnswers,  \* bound: answers on their way
    MaxTick,     \* bound: the clock
    MaxNotifs    \* bound: notifications

ASSUME SEAssumption ==
    /\ {ChanSize, RingSize, Second} \subseteq Nat \ {0}
    /\ {MaxState, MaxAnswers, MaxTick, MaxNotifs} \subseteq Nat

VARIABLES
    truth,       \* the state
    unsent,      \* changes that are made and not yet broadcast
    answers,     \* on their way to pages: the state, and whether the request
                 \* has made it (own)
    lastSent,    \* the latest change that was broadcast
    page,        \* per page: "load", "loaded", "open", "error"
    chan,        \* per page: its channel in sseClients
    view,        \* per page: the state it shows
    skipped,     \* history, per page: it was not given the latest broadcast
    overtaken,   \* history, per page: what it shows came with an answer that was
                 \* older than the latest broadcast
    now,         \* the server's clock
    notifBuf,    \* notifications: number and time
    notifs,      \* number of notifications so far
    lastTimestamp,   \* of the service worker: the latest time it knows
    firstTimestamp,  \* what its own clock said when it was last started
    notified,    \* the notifications it has shown
    passed       \* history: notifications that have left the buffer

eventVars == <<truth, unsent, answers, lastSent, page, chan, view, skipped,
               overtaken>>
notifVars == <<now, notifBuf, notifs, lastTimestamp, firstTimestamp, notified,
               passed>>
seVars    == <<eventVars, notifVars>>

SEInit ==
    /\ truth = 0 /\ unsent = {} /\ answers = {} /\ lastSent = 0
    /\ page = [p \in Pages |-> "load"]
    /\ chan = [p \in Pages |-> <<>>]
    /\ view = [p \in Pages |-> 0]
    /\ skipped = [p \in Pages |-> FALSE]
    /\ overtaken = [p \in Pages |-> FALSE]
    /\ now = 1
    /\ notifBuf = <<>> /\ notifs = 0
    /\ lastTimestamp \in 0 .. 2
    /\ firstTimestamp = lastTimestamp
    /\ notified = {} /\ passed = {}

-----------------------------------------------------------------------------
(* The server's side of the stream. *)

(* As handleConvEnqueue and handleConvQueueDelete, for a page, and
   dequeuePrompt, for none: Lock, change, copy, Unlock. *)
Change(askers) ==
    /\ truth < MaxState
    /\ Cardinality(answers) + Cardinality(askers) <= MaxAnswers
    /\ truth' = truth + 1
    /\ unsent' = unsent \cup {truth'}
    /\ answers' = answers
          \cup {[to |-> p, state |-> truth', own |-> TRUE] : p \in askers}
    /\ UNCHANGED <<lastSent, page, chan, view, skipped, overtaken, notifVars>>

Loaded(p) == page[p] # "load"

(* /init, /undo and /trim answer with the conversation, and so with its queue
   as it is. *)
Ask(p) ==
    /\ Loaded(p)
    /\ Cardinality(answers) < MaxAnswers
    /\ answers' = answers \cup {[to |-> p, state |-> truth, own |-> FALSE]}
    /\ UNCHANGED <<truth, unsent, lastSent, page, chan, view, skipped, overtaken,
                   notifVars>>

(* An answer arrives, in any order with others and with events; one to a change
   was written after the broadcast of it.  The page takes what it says. *)
Answer(a) ==
    /\ a.own => a.state \notin unsent
    /\ answers' = answers \ {a}
    /\ view' = [view EXCEPT ![a.to] = a.state]
    /\ overtaken' = [overtaken EXCEPT ![a.to] = a.state < lastSent]
    /\ UNCHANGED <<truth, unsent, lastSent, page, chan, skipped, notifVars>>

Fits(p) == page[p] = "open" /\ Len(chan[p]) < ChanSize

(* Bug: the events are a stack. *)
BroadcastFront(v) ==
    /\ v \in unsent
    /\ unsent' = unsent \ {v}
    /\ lastSent' = v
    /\ chan' = [p \in Pages |-> IF Fits(p) THEN <<v>> \o chan[p] ELSE chan[p]]
    /\ skipped' = [p \in Pages |-> ~Fits(p)]
    /\ UNCHANGED <<truth, answers, page, view, overtaken, notifVars>>

(* broadcastSSE: what does not fit is dropped. *)
Broadcast(v) ==
    /\ v \in unsent
    /\ unsent' = unsent \ {v}
    /\ lastSent' = v
    /\ chan' = [p \in Pages |-> IF Fits(p) THEN Append(chan[p], v) ELSE chan[p]]
    /\ skipped' = [p \in Pages |-> ~Fits(p)]
    /\ UNCHANGED <<truth, answers, page, view, overtaken, notifVars>>

(* handleSSE: the channel is made and registered. *)
Subscribe(p) ==
    /\ page[p] \in {"loaded", "error"}
    /\ page' = [page EXCEPT ![p] = "open"]
    /\ UNCHANGED <<truth, unsent, answers, lastSent, chan, view, skipped,
                   overtaken, notifVars>>

(* handleSSE: an event is written, and the page handles it. *)
Deliver(p) ==
    /\ page[p] = "open"
    /\ chan[p] # <<>>
    /\ view' = [view EXCEPT ![p] = Head(chan[p])]
    /\ chan' = [chan EXCEPT ![p] = Tail(@)]
    /\ overtaken' = [overtaken EXCEPT ![p] = FALSE]
    /\ UNCHANGED <<truth, unsent, answers, lastSent, page, skipped, notifVars>>

(* The connection ends, with what is in the channel.  The page connects again,
   and does not load again. *)
Disconnect(p) ==
    /\ page[p] = "open"
    /\ page' = [page EXCEPT ![p] = "error"]
    /\ skipped' = [skipped EXCEPT ![p] = @ \/ chan[p] # <<>>]
    /\ chan' = [chan EXCEPT ![p] = <<>>]
    /\ UNCHANGED <<truth, unsent, answers, lastSent, view, overtaken, notifVars>>

(* The page loads the conversations before it subscribes. *)
LoadPage(p) ==
    /\ page[p] = "load"
    /\ page' = [page EXCEPT ![p] = "loaded"]
    /\ view' = [view EXCEPT ![p] = truth]
    /\ skipped' = [skipped EXCEPT ![p] = FALSE]
    /\ overtaken' = [overtaken EXCEPT ![p] = FALSE]
    /\ UNCHANGED <<truth, unsent, answers, lastSent, chan, notifVars>>

(* The page's requests end with it. *)
Reload(p) ==
    /\ page[p] = "open"
    /\ page' = [page EXCEPT ![p] = "load"]
    /\ chan' = [chan EXCEPT ![p] = <<>>]
    /\ answers' = {a \in answers : a.to # p}
    /\ UNCHANGED <<truth, unsent, lastSent, view, skipped, overtaken, notifVars>>

-----------------------------------------------------------------------------
(* Notifications. *)

Tick ==
    /\ now < MaxTick
    /\ now' = now + 1
    /\ UNCHANGED <<eventVars, notifBuf, notifs, lastTimestamp, firstTimestamp,
                   notified, passed>>

NumbersIn(entries) == {e.n : e \in entries}
Dropped == NumbersIn(ToSet(notifBuf)) \ NumbersIn(ToSet(notifBuf'))

(* Bug: the oldest are kept. *)
PushNotifFirst ==
    /\ notifs < MaxNotifs
    /\ notifs' = notifs + 1
    /\ notifBuf' = SubSeq(Append(notifBuf, [n |-> notifs', ts |-> now]), 1,
                        Min({RingSize, Len(notifBuf) + 1}))
    /\ passed' = passed \cup Dropped
    /\ UNCHANGED <<eventVars, now, lastTimestamp, firstTimestamp, notified>>

PushNotif ==
    /\ notifs < MaxNotifs
    /\ notifs' = notifs + 1
    /\ LET buf == Append(notifBuf, [n |-> notifs', ts |-> now])
       IN notifBuf' = SubSeq(buf, Max({1, Len(buf) - RingSize + 1}), Len(buf))
    /\ passed' = passed \cup Dropped
    /\ UNCHANGED <<eventVars, now, lastTimestamp, firstTimestamp, notified>>

(* handleNotifications.  The worker asks for what is later than the whole
   second of the latest one it has seen. *)
Since == (lastTimestamp \div Second) * Second
NewNotifs == {e \in ToSet(notifBuf) : e.ts > Since}

Poll ==
    /\ NewNotifs # {}
    /\ notified' = notified \cup NumbersIn(NewNotifs)
    /\ lastTimestamp' \in {e.ts : e \in NewNotifs} \cup {lastTimestamp}
    /\ lastTimestamp' >= lastTimestamp
    /\ \A e \in NewNotifs : lastTimestamp' >= e.ts
    /\ UNCHANGED <<eventVars, now, notifBuf, notifs, firstTimestamp, passed>>

(* The buffer is in memory. *)
ServerRestarts ==
    /\ notifBuf # <<>>
    /\ notifBuf' = <<>>
    /\ passed' = passed \cup Dropped
    /\ UNCHANGED <<eventVars, now, notifs, lastTimestamp, firstTimestamp,
                   notified>>

(* The browser ends a service worker that has nothing to do and starts it
   again: the worker's clock is one tick off the server's at most. *)
WorkerRestarts ==
    /\ lastTimestamp' \in {now - 1, now, now + 1} \cap Nat
    /\ firstTimestamp' = lastTimestamp'
    /\ UNCHANGED <<eventVars, now, notifBuf, notifs, notified, passed>>

EventsNext ==
    \/ \E askers \in {{}} \cup {{p} : p \in Pages} :
           (\A p \in askers : Loaded(p)) /\ Change(askers)
    \/ \E a \in answers : Answer(a)
    \/ \E v \in unsent : Broadcast(v)
    \/ \E p \in Pages : Subscribe(p) \/ Deliver(p) \/ Disconnect(p)
                           \/ LoadPage(p) \/ Reload(p) \/ Ask(p)

NotifsNext == Tick \/ PushNotif \/ Poll \/ ServerRestarts \/ WorkerRestarts

SESpec == SEInit /\ [][EventsNext \/ NotifsNext]_seVars

-----------------------------------------------------------------------------
(* A page that is connected and has handled all it was sent shows the queue as
   it is, unless the latest broadcast was not put into its channel (it was
   full, or the page between loading and subscribing, or reconnecting) or was
   not of the latest change (two changes may be broadcast in the other order),
   or the page has since taken an older answer to a request of its own.
   (server_sse.go:425-430, server_conversations.go:607-613, queue.js:53-57.) *)
ViewIsLatest ==
    \A p \in Pages :
        page[p] = "open" /\ chan[p] = <<>> /\ lastSent = truth
            /\ ~skipped[p] /\ ~overtaken[p]
        => view[p] = truth

(* A notification that is still in the buffer has been shown, or the next poll
   returns it, unless it was made in the first millisecond of a second (of two
   such the second may come after the poll that showed the first), or before
   what the worker's own clock said when it was last started.
   (server_types.go:152, sw.js:12, 53.) *)
NotificationsKept ==
    \A n \in 1 .. notifs :
        \/ n \in notified \/ n \in passed
        \/ n \in NumbersIn(NewNotifs)
        \/ \E e \in ToSet(notifBuf) :
              e.n = n /\ (e.ts <= firstTimestamp \/ e.ts % Second = 0)
=============================================================================

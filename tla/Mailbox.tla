------------------------------- MODULE Mailbox -------------------------------
(***************************************************************************)
(* What a mailbox channel promises, with no rings, indices or polling: a   *)
(* link that is up or down, requests that are taken in the order they were *)
(* sent, each at most once, and an answer that reaches the call it belongs *)
(* to and no other.  A reset takes the link down and forgets everything    *)
(* that was under way, except the request the server is working on.        *)
(***************************************************************************)
EXTENDS Naturals, Sequences

CONSTANTS Requests,   \* the requests a client may send
          Answered,   \* those of them that are answered
          None,       \* no request
          Depth       \* how many requests, or answers, may be pending

VARIABLES up,        \* the handshake of the last reset is complete
          todo,      \* requests sent and not taken
          cur,       \* the request the server works on, or None
          replies,   \* answers sent and not received
          wait       \* the request the client awaits the answer of, or None

mvars == <<up, todo, cur, replies, wait>>

MInit == up = FALSE /\ todo = <<>> /\ cur = None /\ replies = <<>> /\ wait = None

Send(m) ==
    /\ up /\ wait = None
    /\ Len(todo) < Depth
    /\ todo' = Append(todo, m)
    /\ wait' = IF m \in Answered THEN m ELSE None
    /\ UNCHANGED <<up, cur, replies>>

Take ==
    /\ up /\ cur = None
    /\ todo # <<>>
    /\ cur' = Head(todo)
    /\ todo' = Tail(todo)
    /\ UNCHANGED <<up, replies, wait>>

Answer ==
    /\ up /\ cur \in Answered
    /\ Len(replies) < Depth
    /\ replies' = Append(replies, cur)
    /\ cur' = None
    /\ UNCHANGED <<up, todo, wait>>

\* A request without an answer is done; a reset makes the others be dropped.
Finish ==
    /\ cur # None
    /\ cur \notin Answered \/ ~up
    /\ cur' = None
    /\ UNCHANGED <<up, todo, replies, wait>>

Receive ==
    /\ wait # None
    /\ replies # <<>> /\ Head(replies) = wait
    /\ replies' = Tail(replies)
    /\ wait' = None
    /\ UNCHANGED <<up, todo, cur>>

\* The client restarts: it forgets its call ...
Abort ==
    /\ wait' = None
    /\ UNCHANGED <<up, todo, cur, replies>>

\* ... and takes the link down.
Down ==
    /\ up' = FALSE
    /\ todo' = <<>> /\ replies' = <<>> /\ wait' = None
    /\ UNCHANGED cur

Up ==
    /\ ~up /\ cur = None
    /\ up' = TRUE
    /\ UNCHANGED <<todo, cur, replies, wait>>

MNext ==
    \/ \E m \in Requests : Send(m)
    \/ Take \/ Answer \/ Finish \/ Receive \/ Abort \/ Down \/ Up

MSpec == MInit /\ [][MNext]_mvars

==============================================================================

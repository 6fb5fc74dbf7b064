---------------------------- MODULE MBAsyncProof ----------------------------
(***************************************************************************)
(* Theorems about MBAsyncChannel for rings and index words of every size,  *)
(* any number of requests and resets, with or without dropped calls and    *)
(* the wake loop: no wakeup is lost, and the tasks implement Mailbox.      *)
(***************************************************************************)
EXTENDS MBAsyncProps, MBQueueProof

USE DEF INIT, READY, Task

-----------------------------------------------------------------------------
(* Type correctness.                                                        *)

LEMMA AsyncTypeInit == Init => AsyncTypeOK
<1> SUFFICES ASSUME Init PROVE AsyncTypeOK
  OBVIOUS
<1>1. NoMsg \in AnyMsg
  BY DEF AnyMsg
<1>2. idx \in [Words -> Idx]
  BY ZeroIsIndex DEF Init
<1>3. slot \in [{"req", "resp"} -> [Slot -> AnyMsg]] /\ buf \in [Task -> AnyMsg] /\ ret \in AnyMsg
  BY <1>1 DEF Init
<1>4. pc["sender"] = "idle" /\ pc["server"] = "reset"
      /\ pc \in [Task -> {"idle", "send_req", "recv_resp", "panic", "reset", "recv_req",
                          "do_cmd", "send_resp", "stopped"}]
  BY DEF Init
<1>5. nreq \in 0 .. MaxReq /\ nreset \in 0 .. MaxReset + 1 /\ served \in 0 .. MaxReq
  BY AsyncAssumption DEF Init
<1> QED
  BY <1>2, <1>3, <1>4, <1>5 DEF Init, AsyncTypeOK

\* Writing an entry and advancing an index keep both in their types.
LEMMA RingTypes ==
    ASSUME AsyncTypeOK, NEW q \in {"req", "resp"}
    PROVE  /\ \A m \in AnyMsg : put_commit(q, m) =>
                  /\ idx' \in [Words -> Idx]
                  /\ slot' \in [{"req", "resp"} -> [Slot -> AnyMsg]]
                  /\ UNCHANGED <<version, state>>
           /\ ack(q) => idx' \in [Words -> Idx] /\ UNCHANGED <<version, state, slot>>
           /\ cur_entry(q) \in AnyMsg
<1>1. <<q, "p">> \in Words /\ <<q, "c">> \in Words
  BY DEF Words
<1>2. idx[<<q, "p">>] \in Idx /\ idx[<<q, "c">>] \in Idx
  BY <1>1 DEF AsyncTypeOK
<1>3. /\ wrapping_inc(idx[<<q, "p">>]) \in Idx /\ wrapping_inc(idx[<<q, "c">>]) \in Idx
      /\ idx_masked(idx[<<q, "p">>]) \in Slot /\ idx_masked(idx[<<q, "c">>]) \in Slot
  BY <1>2, IndexTypes
<1>4. ASSUME NEW m \in AnyMsg, put_commit(q, m)
      PROVE  /\ idx' \in [Words -> Idx]
             /\ slot' \in [{"req", "resp"} -> [Slot -> AnyMsg]]
             /\ UNCHANGED <<version, state>>
  BY <1>1, <1>3, <1>4 DEF put_commit, AsyncTypeOK
<1>5. ack(q) => idx' \in [Words -> Idx] /\ UNCHANGED <<version, state, slot>>
  BY <1>1, <1>3 DEF ack, AsyncTypeOK
<1>6. cur_entry(q) \in AnyMsg
  BY <1>3 DEF cur_entry, AsyncTypeOK
<1> QED
  BY <1>4, <1>5, <1>6

LEMMA AsyncTypeNext == AsyncTypeOK /\ [Next]_vars => AsyncTypeOK'
<1> SUFFICES ASSUME AsyncTypeOK, [Next]_vars PROVE AsyncTypeOK'
  OBVIOUS
<1> USE AsyncAssumption, ZeroIsIndex
    DEF AsyncTypeOK, Await, Park, wake_s, wake_c, channel, bounds
<1>1. buf["sender"] \in AnyMsg /\ buf["server"] \in AnyMsg /\ NoMsg \in AnyMsg
  BY DEF AnyMsg
<1>2. \A m \in AnyMsg : m.id \in 0 .. MaxReq
  BY DEF AnyMsg, Msg, NoMsg
<1>4. CASE reset_req
  BY <1>1, <1>4 DEF reset_req, MayReset, MB_VERSION
<1>5. ASSUME NEW kind \in Kinds, Call(kind) PROVE AsyncTypeOK'
  <2>1. [id |-> nreq + 1, kind |-> kind] \in AnyMsg
    BY <1>5 DEF Call, AnyMsg, Msg
  <2> QED
    BY <1>5, <2>1 DEF Call
<1>6. CASE sender_try_send
  BY <1>1, <1>6, RingTypes, ZenonT(30) DEF sender_try_send
<1>7. CASE sender_try_recv
  BY <1>7, RingTypes, ZenonT(30) DEF sender_try_recv
<1>8. CASE wait_reset
  <2>1. idx' \in [Words -> Idx] /\ state' \in {INIT, READY} /\ UNCHANGED <<version, slot>>
    BY <1>8 DEF wait_reset
  <2>2. UNCHANGED <<buf, ret, nreq, nreset, served>>
    BY <1>8 DEF wait_reset
  <2>3. c_waker' \in {"none", "sender"} /\ s_waker' \in {"none", "server"} /\ parked' \subseteq Task
    BY <1>8 DEF wait_reset
  <2>4. pc' \in {pc, [pc EXCEPT !["server"] = "recv_req"]}
    BY <1>8, Zenon DEF wait_reset
  <2> QED
    BY <2>1, <2>2, <2>3, <2>4
<1>9. CASE server_try_recv
  <2>1. idx' \in [Words -> Idx] /\ UNCHANGED <<version, state, slot>>
    BY <1>9, RingTypes DEF server_try_recv
  <2>2. buf' \in [Task -> AnyMsg] /\ UNCHANGED <<ret, nreq, nreset, served>>
    BY <1>9, RingTypes DEF server_try_recv
  <2>3. c_waker' \in {"none", "sender"} /\ s_waker' \in {"none", "server"} /\ parked' \subseteq Task
    BY <1>9 DEF server_try_recv
  <2>4. pc' \in {pc, [pc EXCEPT !["server"] = "reset"], [pc EXCEPT !["server"] = "do_cmd"]}
    BY <1>9, Zenon DEF server_try_recv
  <2> QED
    BY <2>1, <2>2, <2>3, <2>4
<1>10. CASE do_cmd
  BY <1>1, <1>2, <1>10 DEF do_cmd, AfterCmd
<1>11. CASE server_try_send
  BY <1>1, <1>11, RingTypes DEF server_try_send
<1>12. CASE Wake
  BY <1>12 DEF Wake
<1>13. CASE UNCHANGED vars
  BY <1>13 DEF vars
<1> QED
  BY <1>4, <1>5, <1>6, <1>7, <1>8, <1>9, <1>10, <1>11, <1>12, <1>13
     DEF Next, PollSender, PollServer

\* Every variable keeps its type, the index words among them: nothing overflows
\* however often the rings go round.
THEOREM AsyncTypeCorrect == Spec => []AsyncTypeOK
BY AsyncTypeInit, AsyncTypeNext, PTL DEF Spec

-----------------------------------------------------------------------------
(* The wakers.                                                              *)

\* What makes NoLostWakeup inductive: only a task that awaits something is parked,
\* so the next call of the sender starts running; and the sender that awaits an
\* answer has found the channel READY, which only its own reset could end.
WakersInv ==
    /\ AsyncTypeOK
    /\ NoLostWakeup
    /\ "sender" \in parked => pc["sender"] \in {"send_req", "recv_resp"}
    /\ "server" \in parked => pc["server"] \in {"reset", "recv_req", "send_resp"}
    /\ pc["sender"] = "recv_resp" => is_ready
    /\ NoUnexpectedReset

LEMMA WakersInit == Init => WakersInv
BY AsyncTypeInit DEF Init, WakersInv, NoLostWakeup, NoUnexpectedReset

\* A task's condition stays false while the channel and its own position do.
LEMMA StillWaiting ==
    ASSUME UNCHANGED channel, NEW t \in Task, pc'[t] = pc[t]
    PROVE  Ready(t)' <=> Ready(t)
BY DEF channel, Ready, can_put, can_get, is_ready, reset_ready

\* Who takes a waker leaves its task running.
LEMMA Woken ==
    ASSUME WakersInv
    PROVE  /\ wake_s => "server" \notin parked' /\ UNCHANGED c_waker
                        /\ ("sender" \in parked' <=> "sender" \in parked)
           /\ wake_c => "sender" \notin parked' /\ UNCHANGED s_waker
                        /\ ("server" \in parked' <=> "server" \in parked)
BY DEF WakersInv, NoLostWakeup, AsyncTypeOK, wake_s, wake_c

LEMMA WakersNext == WakersInv /\ [Next]_vars => WakersInv'
<1> SUFFICES ASSUME WakersInv, [Next]_vars PROVE WakersInv'
  OBVIOUS
<1>1. AsyncTypeOK /\ AsyncTypeOK'
  BY AsyncTypeNext DEF WakersInv
<1>2. pc \in [Task -> {"idle", "send_req", "recv_resp", "panic", "reset", "recv_req",
                       "do_cmd", "send_resp", "stopped"}]
  BY <1>1 DEF AsyncTypeOK
<1> USE <1>2 DEF WakersInv, NoLostWakeup, NoUnexpectedReset, is_ready, Await
<1>3. CASE reset_req
  BY <1>1, <1>3, "server" \notin parked', "sender" \notin parked' DEF reset_req, AsyncTypeOK
<1>4. ASSUME NEW kind \in Kinds, Call(kind) PROVE WakersInv'
  <2>1. UNCHANGED <<channel, c_waker, s_waker, parked>> /\ pc'["server"] = pc["server"]
        /\ pc'["sender"] = "send_req" /\ "sender" \notin parked
    BY <1>4 DEF Call
  <2> QED
    BY <1>1, <2>1, StillWaiting DEF channel
<1>5. CASE PollSender
  <2>1. "sender" \notin parked
    BY <1>5 DEF PollSender
  \* The sender finds nothing to do: the receiver is where it was.
  <2>2. CASE Park("sender") /\ UNCHANGED channel /\ ~Ready("sender")
             /\ pc["sender"] \in {"send_req", "recv_resp"}
    <3>1. UNCHANGED <<pc, s_waker>> /\ parked' = parked \cup {"sender"} /\ c_waker' = "sender"
      BY <2>2 DEF Park
    <3>2. ~Ready("sender")' /\ (Ready("server")' <=> Ready("server"))
      BY <2>2, <3>1, StillWaiting
    <3> QED
      BY <1>1, <2>2, <3>1, <3>2 DEF channel
  \* It gets on: the receiver is woken, and the state word stays.
  <2>3. CASE wake_s /\ UNCHANGED state /\ pc'["sender"] # "panic"
             /\ (pc'["sender"] = "recv_resp" => is_ready)
    BY <1>1, <2>1, <2>3, Woken
  <2>4. CASE sender_try_send
    <3>1. CASE ~(can_put("req") /\ is_ready) /\ Park("sender") /\ UNCHANGED channel
      BY <2>2, <2>4, <3>1 DEF sender_try_send, Ready
    <3>2. CASE /\ put_commit("req", buf["sender"]) /\ wake_s /\ is_ready
               /\ Await("sender", IF buf["sender"].kind = "Ok" THEN "recv_resp" ELSE "idle")
      <4>1. UNCHANGED state /\ pc'["sender"] \in {"recv_resp", "idle"}
        BY <3>2 DEF put_commit
      <4> QED
        BY <2>3, <3>2, <4>1
    <3> QED
      BY <2>4, <3>1, <3>2 DEF sender_try_send
  <2>5. CASE sender_try_recv
    <3>1. CASE is_ready /\ ~can_get("resp") /\ Park("sender") /\ UNCHANGED channel
      BY <2>2, <2>5, <3>1 DEF sender_try_recv, Ready
    <3>2. CASE ack("resp") /\ wake_s /\ Await("sender", "idle")
      BY <2>3, <2>5, <3>2 DEF sender_try_recv, ack
    <3> QED
      BY <2>5, <3>1, <3>2 DEF sender_try_recv
  <2> QED
    BY <1>5, <2>4, <2>5 DEF PollSender
<1>6. CASE PollServer
  <2>1. "server" \notin parked
    BY <1>6 DEF PollServer
  <2>2. pc'["sender"] = pc["sender"]
    BY <1>6 DEF PollServer, wait_reset, server_try_recv, do_cmd, server_try_send, Park
  <2>3. CASE Park("server") /\ UNCHANGED channel /\ ~Ready("server")
             /\ pc["server"] \in {"reset", "recv_req", "send_resp"}
    <3>1. UNCHANGED <<pc, c_waker>> /\ parked' = parked \cup {"server"} /\ s_waker' = "server"
      BY <2>3 DEF Park
    <3>2. ~Ready("server")' /\ (Ready("sender")' <=> Ready("sender"))
      BY <2>3, <3>1, StillWaiting
    <3> QED
      BY <1>1, <2>3, <3>1, <3>2 DEF channel
  <2>4. CASE wake_c /\ state' \in {state, READY}
    BY <1>1, <2>1, <2>2, <2>4, Woken
  \* The channel is down, or the request is executed: nothing the sender waits for.
  <2>5. CASE UNCHANGED <<channel, c_waker>>
             /\ "server" \notin parked' /\ ("sender" \in parked' <=> "sender" \in parked)
    BY <1>1, <2>1, <2>2, <2>5, StillWaiting DEF channel
  <2>6. CASE wait_reset
    BY <2>3, <2>4, <2>6 DEF wait_reset, Ready
  <2>7. CASE server_try_recv
    <3>1. CASE ~is_ready /\ wake_s /\ UNCHANGED channel
      BY <2>5, <3>1, Woken
    <3>2. CASE is_ready /\ ~can_get("req") /\ Park("server") /\ UNCHANGED channel
      BY <2>3, <2>7, <3>2 DEF server_try_recv, Ready
    <3>3. CASE ack("req") /\ wake_c
      BY <2>4, <3>3 DEF ack
    <3> QED
      BY <2>7, <3>1, <3>2, <3>3 DEF server_try_recv
  <2>8. CASE do_cmd
    BY <2>1, <2>5, <2>8 DEF do_cmd
  <2>9. CASE server_try_send
    <3>1. CASE ~is_ready /\ wake_s /\ UNCHANGED channel
      BY <2>5, <3>1, Woken
    <3>2. CASE is_ready /\ ~can_put("resp") /\ Park("server") /\ UNCHANGED channel
      BY <2>3, <2>9, <3>2 DEF server_try_send, Ready
    <3>3. CASE put_commit("resp", buf["server"]) /\ wake_c
      BY <2>4, <3>3 DEF put_commit
    <3> QED
      BY <2>9, <3>1, <3>2, <3>3 DEF server_try_send
  <2> QED
    BY <1>6, <2>6, <2>7, <2>8, <2>9 DEF PollServer
<1>7. CASE Wake
  BY <1>1, <1>7 DEF Wake, channel, AsyncTypeOK
<1>8. CASE UNCHANGED vars
  BY <1>1, <1>8, StillWaiting DEF vars, channel
<1> QED
  BY <1>3, <1>4, <1>5, <1>6, <1>7, <1>8 DEF Next

\* A task that is not polled has left its waker and has nothing to do: no step of
\* the other side, no reset, no dropped call makes its condition true without waking it.
THEOREM NoWakeupLost == Spec => []NoLostWakeup
<1>1. WakersInv => NoLostWakeup
  BY DEF WakersInv
<1> QED
  BY <1>1, WakersInit, WakersNext, PTL DEF Spec

\* Between its send_req and its recv_resp a sender never meets a channel taken down.
THEOREM NoResetUnderCall == Spec => []NoUnexpectedReset
<1>1. WakersInv => NoUnexpectedReset
  BY DEF WakersInv
<1> QED
  BY <1>1, WakersInit, WakersNext, PTL DEF Spec

-----------------------------------------------------------------------------
(* The channel as Mailbox sees it.                                          *)

Queue   == {"req", "resp"}
Todo    == Pending("req")
Replies == Pending("resp")
InHand  == IF pc["server"] \in {"do_cmd", "send_resp"} THEN buf["server"] ELSE NoMsg
Asked   == IF pc["sender"] = "recv_resp" THEN buf["sender"] ELSE NoMsg

Held(q) == ahead(idx[<<q, "c">>], idx[<<q, "p">>])

\* No index is ever lapped.
RingsShort == \A q \in Queue : Held(q) <= MB_MAX_ENTRIES

LEMMA QueueTypes ==
    ASSUME AsyncTypeOK, NEW q \in Queue
    PROVE  /\ <<q, "c">> \in Words /\ <<q, "p">> \in Words
           /\ idx[<<q, "c">>] \in Idx /\ idx[<<q, "p">>] \in Idx
           /\ slot[q] \in [Slot -> AnyMsg]
           /\ Held(q) \in Nat
<1>1. <<q, "c">> \in Words /\ <<q, "p">> \in Words
  BY DEF Words, Queue
<1>2. idx[<<q, "c">>] \in Idx /\ idx[<<q, "p">>] \in Idx
  BY <1>1 DEF AsyncTypeOK
<1>3. slot[q] \in [Slot -> AnyMsg]
  BY DEF AsyncTypeOK, Queue
<1>4. Held(q) \in Idx
  BY <1>2, AheadSteps DEF Held
<1>5. Held(q) \in Nat
  BY <1>4, QueueAssumption DEF Idx
<1> QED
  BY <1>1, <1>2, <1>3, <1>5

LEMMA PendingIs ==
    ASSUME NEW q \in Queue
    PROVE  Pending(q) = IF is_ready THEN Ring(slot[q], idx[<<q, "c">>], idx[<<q, "p">>]) ELSE <<>>
BY DEF Pending, Ring

LEMMA PendingType ==
    ASSUME AsyncTypeOK, NEW q \in Queue
    PROVE  Pending(q) \in Seq(AnyMsg) /\ (is_ready => Len(Pending(q)) = Held(q))
<1>1. CASE is_ready
  <2>1. Pending(q) = Ring(slot[q], idx[<<q, "c">>], idx[<<q, "p">>])
    BY <1>1, PendingIs
  <2>2. /\ Ring(slot[q], idx[<<q, "c">>], idx[<<q, "p">>]) \in Seq(AnyMsg)
        /\ Len(Ring(slot[q], idx[<<q, "c">>], idx[<<q, "p">>])) = Held(q)
    <3>1. /\ idx[<<q, "c">>] \in Idx /\ idx[<<q, "p">>] \in Idx
          /\ slot[q] \in [Slot -> AnyMsg]
      BY QueueTypes
    <3> QED
      BY <3>1, RingIsSeq, ZenonT(30) DEF Held
  <2> QED
    BY <2>1, <2>2
<1>2. CASE ~is_ready
  <2>1. Pending(q) = <<>>
    BY <1>2, PendingIs
  <2> QED
    BY <1>2, <2>1
<1> QED
  BY <1>1, <1>2

LEMMA ChannelKept ==
    ASSUME UNCHANGED channel
    PROVE  /\ UNCHANGED <<is_ready, Todo, Replies>>
           /\ RingsShort => RingsShort'
BY DEF channel, is_ready, Todo, Replies, Pending, RingsShort, Held

\* What a put does to a channel that is up and has room.
LEMMA PutIs ==
    ASSUME AsyncTypeOK, RingsShort, NEW q \in Queue, NEW m \in AnyMsg,
           is_ready, can_put(q), put_commit(q, m)
    PROVE  /\ is_ready' /\ RingsShort'
           /\ Len(Pending(q)) < MB_MAX_ENTRIES
           /\ Pending(q)' = Append(Pending(q), m)
           /\ \A o \in Queue \ {q} : Pending(o)' = Pending(o)
<1>1. /\ idx[<<q, "c">>] \in Idx /\ idx[<<q, "p">>] \in Idx /\ slot[q] \in [Slot -> AnyMsg]
      /\ <<q, "p">> \in Words /\ <<q, "c">> \in Words
      /\ Held(q) \in Nat /\ Held(q) <= MB_MAX_ENTRIES /\ MB_MAX_ENTRIES \in Nat
  BY QueueTypes, QueueAssumption DEF RingsShort
<1>2. Held(q) < MB_MAX_ENTRIES
  <2>1. Held(q) # MB_MAX_ENTRIES
    BY <1>1, FullAndEmpty DEF can_put, Held
  <2> QED
    BY <1>1, <2>1
<1>3. /\ is_ready'
      /\ slot'[q] = [slot[q] EXCEPT ![idx_masked(idx[<<q, "p">>])] = m]
      /\ idx'[<<q, "p">>] = wrapping_inc(idx[<<q, "p">>]) /\ idx'[<<q, "c">>] = idx[<<q, "c">>]
  BY <1>1 DEF put_commit, is_ready, AsyncTypeOK, Queue
<1>4. ASSUME NEW o \in Queue \ {q}
      PROVE  slot'[o] = slot[o] /\ idx'[<<o, "p">>] = idx[<<o, "p">>] /\ idx'[<<o, "c">>] = idx[<<o, "c">>]
  <2>1. <<o, "c">> \in Words /\ <<o, "p">> \in Words
    BY DEF Queue, Words
  <2> QED
    BY <2>1 DEF put_commit, AsyncTypeOK, Queue
<1>5. Pending(q)' = Ring(slot'[q], idx'[<<q, "c">>], idx'[<<q, "p">>])
  BY <1>3 DEF Pending, Ring
<1>6. Pending(q) = Ring(slot[q], idx[<<q, "c">>], idx[<<q, "p">>])
  BY PendingIs
<1>7. Pending(q)' = Append(Pending(q), m) /\ Held(q)' = Held(q) + 1
  <2>1. ahead(idx[<<q, "c">>], idx[<<q, "p">>]) < MB_MAX_ENTRIES
    BY <1>2 DEF Held
  <2>2. /\ Ring([slot[q] EXCEPT ![idx_masked(idx[<<q, "p">>])] = m],
                idx[<<q, "c">>], wrapping_inc(idx[<<q, "p">>])) = Append(Pending(q), m)
        /\ ahead(idx[<<q, "c">>], wrapping_inc(idx[<<q, "p">>])) = Held(q) + 1
    <3> DEFINE f == slot[q]
               c == idx[<<q, "c">>]
               p == idx[<<q, "p">>]
    <3>0. f \in [Slot -> AnyMsg] /\ c \in Idx /\ p \in Idx /\ ahead(c, p) < MB_MAX_ENTRIES
      BY <1>1, <2>1
    <3> HIDE DEF f, c, p
    <3>1. /\ Ring([f EXCEPT ![idx_masked(p)] = m], c, wrapping_inc(p)) = Append(Ring(f, c, p), m)
          /\ ahead(c, wrapping_inc(p)) = ahead(c, p) + 1
      BY <3>0, RingPut, ZenonT(30)
    <3> QED
      BY <1>6, <3>1 DEF Held, f, c, p
  <2> QED
    BY <1>3, <1>5, <2>2 DEF Held
<1>8. \A o \in Queue \ {q} : Pending(o)' = Pending(o) /\ Held(o)' = Held(o)
  BY <1>3, <1>4 DEF Pending, Held
<1>9. RingsShort'
  BY <1>1, <1>2, <1>7, <1>8 DEF RingsShort
<1>10. Len(Pending(q)) < MB_MAX_ENTRIES
  BY <1>2, PendingType
<1> QED
  BY <1>3, <1>7, <1>8, <1>9, <1>10

\* What an acknowledgement does to a channel that is up and has an entry.
LEMMA AckIs ==
    ASSUME AsyncTypeOK, RingsShort, NEW q \in Queue, is_ready, can_get(q), ack(q)
    PROVE  /\ is_ready' /\ RingsShort'
           /\ Pending(q) # <<>> /\ Head(Pending(q)) = cur_entry(q)
           /\ Pending(q)' = Tail(Pending(q))
           /\ \A o \in Queue \ {q} : Pending(o)' = Pending(o)
<1>1. /\ idx[<<q, "c">>] \in Idx /\ idx[<<q, "p">>] \in Idx /\ slot[q] \in [Slot -> AnyMsg]
      /\ <<q, "p">> \in Words /\ <<q, "c">> \in Words
      /\ Held(q) \in Nat /\ Held(q) <= MB_MAX_ENTRIES /\ MB_MAX_ENTRIES \in Nat
  BY QueueTypes, QueueAssumption DEF RingsShort
<1>2. Held(q) > 0
  <2>1. Held(q) # 0
    BY <1>1, FullAndEmpty DEF can_get, Held
  <2> QED
    BY <1>1, <2>1
<1>3. /\ is_ready' /\ slot' = slot
      /\ idx'[<<q, "c">>] = wrapping_inc(idx[<<q, "c">>]) /\ idx'[<<q, "p">>] = idx[<<q, "p">>]
  BY <1>1 DEF ack, is_ready, AsyncTypeOK
<1>4. ASSUME NEW o \in Queue \ {q}
      PROVE  idx'[<<o, "p">>] = idx[<<o, "p">>] /\ idx'[<<o, "c">>] = idx[<<o, "c">>]
  <2>1. <<o, "c">> \in Words /\ <<o, "p">> \in Words
    BY DEF Queue, Words
  <2> QED
    BY <2>1 DEF ack, AsyncTypeOK
<1>5. Pending(q)' = Ring(slot'[q], idx'[<<q, "c">>], idx'[<<q, "p">>])
  BY <1>3 DEF Pending, Ring
<1>6. Pending(q) = Ring(slot[q], idx[<<q, "c">>], idx[<<q, "p">>])
  BY PendingIs
<1>7. /\ Pending(q) # <<>> /\ Head(Pending(q)) = cur_entry(q)
      /\ Pending(q)' = Tail(Pending(q)) /\ Held(q)' = Held(q) - 1
  BY <1>1, <1>2, <1>3, <1>5, <1>6, RingTake, ZenonT(30) DEF Held, cur_entry
<1>8. \A o \in Queue \ {q} : Pending(o)' = Pending(o) /\ Held(o)' = Held(o)
  BY <1>3, <1>4 DEF Pending, Held
<1>9. RingsShort'
  BY <1>1, <1>7, <1>8 DEF RingsShort
<1> QED
  BY <1>3, <1>7, <1>8, <1>9

\* What clearing the indices does.
LEMMA ClearIs ==
    ASSUME idx' = [w \in Words |-> 0]
    PROVE  RingsShort' /\ Todo' = <<>> /\ Replies' = <<>>
<1>1. \A q \in Queue : Held(q)' = 0
  <2> TAKE q \in Queue
  <2>1. idx'[<<q, "c">>] = 0 /\ idx'[<<q, "p">>] = 0
    BY DEF Queue, Words
  <2>2. ahead(0, 0) = 0
    BY AheadSteps, ZeroIsIndex
  <2> QED
    BY <2>1, <2>2 DEF Held
<1>2. \A q \in Queue : Pending(q)' = <<>>
  <2> TAKE q \in Queue
  <2>1. CASE is_ready'
    <3>1. Pending(q)' = [i \in 1 .. Held(q)' |-> slot'[q][idx_masked(idx'[<<q, "c">>] + i - 1)]]
      BY <2>1 DEF Pending, Held
    <3>2. 1 .. 0 = {}
      OBVIOUS
    <3> QED
      BY <1>1, <3>1, <3>2
  <2>2. CASE ~is_ready'
    BY <2>2 DEF Pending
  <2> QED
    BY <2>1, <2>2
<1>3. RingsShort'
  BY <1>1, QueueAssumption DEF RingsShort
<1> QED
  BY <1>2, <1>3 DEF Todo, Replies, Queue

-----------------------------------------------------------------------------
(* What the steps of the two tasks do to it.                                *)

USE DEF INIT, READY, Task

Base == WakersInv /\ RingsShort

SenderAt(l) == pc["sender"] = l
ServerAt(l) == pc["server"] = l

LEMMA LabelsAre ==
    ASSUME AsyncTypeOK
    PROVE  /\ \A l : Await("sender", l) => pc'["sender"] = l /\ pc'["server"] = pc["server"]
           /\ \A l : Await("server", l) => pc'["server"] = l /\ pc'["sender"] = pc["sender"]
BY DEF AsyncTypeOK, Await

LEMMA ResetIs ==
    ASSUME Base, reset_req
    PROVE  /\ ~is_ready' /\ RingsShort' /\ Todo' = <<>> /\ Replies' = <<>>
           /\ InHand' = InHand /\ Asked' = NoMsg
           /\ pc'["sender"] = "idle" /\ pc'["server"] = pc["server"]
           /\ buf'["server"] = buf["server"] /\ UNCHANGED <<nreq, served, ret>>
<1>1. /\ state' = INIT /\ idx' = [w \in Words |-> 0] /\ Await("sender", "idle")
      /\ buf' = [buf EXCEPT !["sender"] = NoMsg] /\ UNCHANGED <<nreq, served, ret>>
  BY DEF reset_req
<1>2. pc'["sender"] = "idle" /\ pc'["server"] = pc["server"] /\ buf'["server"] = buf["server"]
  BY <1>1, LabelsAre DEF Base, WakersInv, AsyncTypeOK
<1> QED
  BY <1>1, <1>2, ClearIs DEF is_ready, InHand, Asked

LEMMA CallIs ==
    ASSUME Base, NEW kind \in Kinds, Call(kind)
    PROVE  /\ UNCHANGED <<is_ready, Todo, Replies, InHand, Asked>> /\ RingsShort'
           /\ SenderAt("idle") /\ pc'["sender"] = "send_req" /\ pc'["server"] = pc["server"]
           /\ buf'["server"] = buf["server"] /\ buf'["sender"] = [id |-> nreq + 1, kind |-> kind]
           /\ nreq' = nreq + 1 /\ nreq < MaxReq /\ UNCHANGED <<served, ret>>
<1>1. /\ SenderAt("idle") /\ nreq < MaxReq /\ nreq' = nreq + 1 /\ Await("sender", "send_req")
      /\ buf' = [buf EXCEPT !["sender"] = [id |-> nreq + 1, kind |-> kind]]
      /\ UNCHANGED <<channel, served, ret>>
  BY DEF Call, SenderAt
<1>2. pc'["sender"] = "send_req" /\ pc'["server"] = pc["server"]
      /\ buf'["server"] = buf["server"] /\ buf'["sender"] = [id |-> nreq + 1, kind |-> kind]
  BY <1>1, LabelsAre DEF Base, WakersInv, AsyncTypeOK
<1> QED
  BY <1>1, <1>2, ChannelKept DEF InHand, Asked, Base, SenderAt

\* A task that parks, or is woken, changes nothing that Mailbox sees.
LEMMA IdleIs ==
    ASSUME Base, UNCHANGED <<channel, pc, buf>>
    PROVE  UNCHANGED <<is_ready, Todo, Replies, InHand, Asked>> /\ RingsShort'
BY ChannelKept DEF InHand, Asked, Base

LEMMA TrySendIs ==
    ASSUME Base, sender_try_send, ~UNCHANGED <<channel, pc, buf>>
    PROVE  /\ is_ready /\ is_ready' /\ RingsShort'
           /\ Len(Todo) < MB_MAX_ENTRIES /\ Todo' = Append(Todo, buf["sender"])
           /\ UNCHANGED <<Replies, InHand, buf, nreq, served, ret>>
           /\ SenderAt("send_req") /\ Asked = NoMsg
           /\ pc'["sender"] = IF buf["sender"].kind = "Ok" THEN "recv_resp" ELSE "idle"
           /\ pc'["server"] = pc["server"]
           /\ Asked' = IF buf["sender"].kind = "Ok" THEN buf["sender"] ELSE NoMsg
<1>1. /\ is_ready /\ can_put("req") /\ put_commit("req", buf["sender"])
      /\ Await("sender", IF buf["sender"].kind = "Ok" THEN "recv_resp" ELSE "idle")
      /\ SenderAt("send_req") /\ UNCHANGED <<buf, nreq, served, ret>>
  BY DEF sender_try_send, Park, bounds, SenderAt
<1>2. AsyncTypeOK /\ RingsShort /\ buf["sender"] \in AnyMsg /\ "req" \in Queue /\ "resp" \in Queue \ {"req"}
  BY DEF Base, WakersInv, AsyncTypeOK, Queue
<1>3. /\ is_ready' /\ RingsShort' /\ Len(Todo) < MB_MAX_ENTRIES
      /\ Todo' = Append(Todo, buf["sender"]) /\ Replies' = Replies
  BY <1>1, <1>2, PutIs DEF Todo, Replies
<1>4. /\ pc'["sender"] = IF buf["sender"].kind = "Ok" THEN "recv_resp" ELSE "idle"
      /\ pc'["server"] = pc["server"]
  BY <1>1, <1>2, LabelsAre
<1> QED
  BY <1>1, <1>3, <1>4 DEF InHand, Asked, SenderAt

LEMMA TryRecvIs ==
    ASSUME Base, sender_try_recv, ~UNCHANGED <<channel, pc, buf>>
    PROVE  /\ is_ready /\ is_ready' /\ RingsShort'
           /\ Replies # <<>> /\ Replies' = Tail(Replies) /\ ret' = Head(Replies)
           /\ UNCHANGED <<Todo, InHand, buf, nreq, served>>
           /\ SenderAt("recv_resp") /\ Asked = buf["sender"] /\ Asked' = NoMsg
           /\ pc'["sender"] = "idle" /\ pc'["server"] = pc["server"]
<1>1. is_ready
  BY DEF Base, WakersInv, sender_try_recv
<1>2. /\ can_get("resp") /\ ret' = cur_entry("resp") /\ ack("resp") /\ Await("sender", "idle")
      /\ SenderAt("recv_resp") /\ UNCHANGED <<buf, nreq, served>>
  BY <1>1 DEF sender_try_recv, Park, bounds, SenderAt
<1>3. AsyncTypeOK /\ RingsShort /\ "resp" \in Queue /\ "req" \in Queue \ {"resp"}
  BY DEF Base, WakersInv, Queue
<1>4. /\ is_ready' /\ RingsShort' /\ Replies # <<>> /\ Replies' = Tail(Replies)
      /\ Head(Replies) = cur_entry("resp") /\ Todo' = Todo
  BY <1>1, <1>2, <1>3, AckIs DEF Todo, Replies
<1>5. pc'["sender"] = "idle" /\ pc'["server"] = pc["server"]
  BY <1>2, <1>3, LabelsAre
<1> QED
  BY <1>1, <1>2, <1>4, <1>5 DEF InHand, Asked, SenderAt

\* The server's steps leave the sender where it is.
LEMMA WaitResetIs ==
    ASSUME Base, wait_reset, ~UNCHANGED <<channel, pc, buf>>
    PROVE  /\ ~is_ready /\ is_ready' /\ RingsShort'
           /\ UNCHANGED <<Todo, Replies, InHand, Asked, buf, nreq, served, ret>>
           /\ Todo = <<>> /\ Replies = <<>> /\ InHand = NoMsg
           /\ pc'["sender"] = pc["sender"] /\ pc'["server"] = "recv_req"
<1>1. /\ state = INIT /\ state' = READY /\ idx' = [w \in Words |-> 0] /\ Await("server", "recv_req")
      /\ ServerAt("reset") /\ UNCHANGED <<buf, nreq, served, ret>>
  BY DEF wait_reset, Park, bounds, reset_ready, ServerAt
<1>2. pc'["sender"] = pc["sender"] /\ pc'["server"] = "recv_req"
  BY <1>1, LabelsAre DEF Base, WakersInv
<1>3. Todo = <<>> /\ Replies = <<>>
  BY <1>1 DEF Todo, Replies, Pending, is_ready
<1> QED
  BY <1>1, <1>2, <1>3, ClearIs DEF is_ready, InHand, Asked, ServerAt

LEMMA TryTakeIs ==
    ASSUME Base, server_try_recv, ~UNCHANGED <<channel, pc, buf>>
    PROVE  /\ ServerAt("recv_req") /\ InHand = NoMsg /\ pc'["sender"] = pc["sender"]
           /\ UNCHANGED <<Replies, Asked, nreq, served, ret>> /\ RingsShort'
           /\ buf'["sender"] = buf["sender"] /\ is_ready' = is_ready
           /\ \/ UNCHANGED <<Todo, InHand>> /\ pc'["server"] = "reset"
              \/ /\ is_ready /\ Todo # <<>> /\ Todo' = Tail(Todo)
                 /\ InHand' = Head(Todo) /\ pc'["server"] = "do_cmd"
                 /\ buf'["server"] = Head(Todo)
<1>1. ServerAt("recv_req") /\ InHand = NoMsg /\ UNCHANGED <<nreq, served, ret>>
  BY DEF server_try_recv, ServerAt, InHand, bounds
<1>2. AsyncTypeOK /\ RingsShort /\ "req" \in Queue /\ "resp" \in Queue \ {"req"}
  BY DEF Base, WakersInv, Queue
<1>3. CASE ~is_ready
  <2>1. UNCHANGED <<channel, buf>> /\ Await("server", "reset")
    BY <1>3 DEF server_try_recv
  <2>2. pc'["server"] = "reset" /\ pc'["sender"] = pc["sender"]
    BY <1>2, <2>1, LabelsAre
  <2>3. UNCHANGED <<is_ready, Todo, Replies>> /\ RingsShort'
    BY <1>2, <2>1, ChannelKept
  <2> QED
    BY <1>1, <2>1, <2>2, <2>3 DEF InHand, Asked, ServerAt
<1>4. CASE is_ready
  <2>1. /\ can_get("req") /\ buf' = [buf EXCEPT !["server"] = cur_entry("req")]
        /\ ack("req") /\ Await("server", "do_cmd")
    BY <1>4 DEF server_try_recv, Park
  <2>2. buf'["server"] = cur_entry("req") /\ buf'["sender"] = buf["sender"]
    BY <1>2, <2>1 DEF AsyncTypeOK
  <2>3. /\ is_ready' /\ RingsShort' /\ Todo # <<>> /\ Todo' = Tail(Todo)
        /\ Head(Todo) = cur_entry("req") /\ Replies' = Replies
    BY <1>2, <1>4, <2>1, AckIs DEF Todo, Replies
  <2>4. pc'["server"] = "do_cmd" /\ pc'["sender"] = pc["sender"]
    BY <1>2, <2>1, LabelsAre
  <2> QED
    BY <1>1, <1>4, <2>2, <2>3, <2>4 DEF InHand, Asked
<1> QED
  BY <1>3, <1>4

LEMMA CmdIs ==
    ASSUME Base, do_cmd
    PROVE  /\ ServerAt("do_cmd") /\ InHand = buf["server"] /\ pc'["sender"] = pc["sender"]
           /\ UNCHANGED <<is_ready, Todo, Replies, Asked, buf, nreq, ret>> /\ RingsShort'
           /\ served' = buf["server"].id
           /\ pc'["server"] = AfterCmd(buf["server"].kind)
           /\ InHand' = IF buf["server"].kind = "Ok" THEN buf["server"] ELSE NoMsg
<1>1. /\ ServerAt("do_cmd") /\ Await("server", AfterCmd(buf["server"].kind))
      /\ served' = buf["server"].id /\ UNCHANGED <<channel, buf, nreq, ret>>
  BY DEF do_cmd, ServerAt, bounds
<1>2. pc'["server"] = AfterCmd(buf["server"].kind) /\ pc'["sender"] = pc["sender"]
  BY <1>1, LabelsAre DEF Base, WakersInv
<1> QED
  BY <1>1, <1>2, ChannelKept DEF InHand, Asked, AfterCmd, Base, ServerAt

LEMMA TryAnswerIs ==
    ASSUME Base, server_try_send, ~UNCHANGED <<channel, pc, buf>>
    PROVE  /\ ServerAt("send_resp") /\ InHand = buf["server"] /\ pc'["sender"] = pc["sender"]
           /\ UNCHANGED <<Todo, Asked, buf, nreq, served, ret>> /\ RingsShort'
           /\ is_ready' = is_ready /\ InHand' = NoMsg
           /\ \/ ~is_ready /\ UNCHANGED Replies /\ pc'["server"] = "reset"
              \/ /\ is_ready /\ Len(Replies) < MB_MAX_ENTRIES
                 /\ Replies' = Append(Replies, buf["server"]) /\ pc'["server"] = "recv_req"
<1>1. ServerAt("send_resp") /\ InHand = buf["server"] /\ UNCHANGED <<buf, nreq, served, ret>>
  BY DEF server_try_send, ServerAt, InHand, bounds
<1>2. AsyncTypeOK /\ RingsShort /\ buf["server"] \in AnyMsg /\ "resp" \in Queue /\ "req" \in Queue \ {"resp"}
  BY DEF Base, WakersInv, AsyncTypeOK, Queue
<1>3. CASE ~is_ready
  <2>1. UNCHANGED channel /\ Await("server", "reset")
    BY <1>3 DEF server_try_send
  <2>2. pc'["server"] = "reset" /\ pc'["sender"] = pc["sender"]
    BY <1>2, <2>1, LabelsAre
  <2>3. UNCHANGED <<is_ready, Todo, Replies>> /\ RingsShort'
    BY <1>2, <2>1, ChannelKept
  <2> QED
    BY <1>1, <1>3, <2>2, <2>3 DEF InHand, Asked
<1>4. CASE is_ready
  <2>1. can_put("resp") /\ put_commit("resp", buf["server"]) /\ Await("server", "recv_req")
    BY <1>1, <1>4 DEF server_try_send, Park
  <2>2. /\ is_ready' /\ RingsShort' /\ Len(Replies) < MB_MAX_ENTRIES
        /\ Replies' = Append(Replies, buf["server"]) /\ Todo' = Todo
    BY <1>2, <1>4, <2>1, PutIs DEF Todo, Replies
  <2>3. pc'["server"] = "recv_req" /\ pc'["sender"] = pc["sender"]
    BY <1>2, <2>1, LabelsAre
  <2> QED
    BY <1>1, <1>4, <2>2, <2>3 DEF InHand, Asked
<1> QED
  BY <1>3, <1>4

-----------------------------------------------------------------------------
(* Order and answers.                                                       *)

\* What is pending is numbered in the order it was sent, after what has been
\* executed and before what the sender is about to send.
Numbered ==
    /\ \A i \in 1 .. Len(Todo) :
          /\ Todo[i] \in Msg /\ served < Todo[i].id /\ Todo[i].id <= nreq
          /\ SenderAt("send_req") => Todo[i].id < nreq
          /\ ServerAt("do_cmd") => buf["server"].id < Todo[i].id
    /\ \A i, j \in 1 .. Len(Todo) : i < j => Todo[i].id < Todo[j].id
    /\ served <= nreq /\ (SenderAt("send_req") => served < nreq)

\* What each of the two has in hand.
InWork ==
    /\ SenderAt("send_req") => buf["sender"] \in Msg /\ buf["sender"].id = nreq
    /\ SenderAt("recv_resp") => buf["sender"] \in Msg /\ buf["sender"].kind = "Ok"
    /\ ServerAt("do_cmd") =>
          /\ buf["server"] \in Msg /\ served < buf["server"].id /\ buf["server"].id <= nreq
          /\ SenderAt("send_req") => buf["server"].id < nreq
    /\ ServerAt("send_resp") => buf["server"] \in Msg /\ buf["server"].kind = "Ok"

\* While the channel is up, one request at most is to be answered: it is in the
\* ring, with the server or answered, and the sender awaits its answer.
OneAsked ==
    is_ready =>
        /\ \A i \in 1 .. Len(Todo) :
              Todo[i].kind = "Ok" => Asked = Todo[i] /\ InHand.kind # "Ok" /\ Replies = <<>>
        /\ \A i, j \in 1 .. Len(Todo) : Todo[i].kind = "Ok" /\ Todo[j].kind = "Ok" => i = j
        /\ InHand.kind = "Ok" => Asked = InHand /\ Replies = <<>>
        /\ Replies # <<>> => Len(Replies) = 1 /\ Asked = Replies[1] /\ Asked.kind = "Ok"

CallsInv == Base /\ Numbered /\ InWork /\ OneAsked

LEMMA CallsInit == Init => CallsInv
<1> SUFFICES ASSUME Init PROVE CallsInv
  OBVIOUS
<1>1. WakersInv
  BY WakersInit
<1>2. ~is_ready /\ pc["sender"] = "idle" /\ pc["server"] = "reset" /\ served = 0 /\ nreq = 0
  BY DEF Init, is_ready
<1>3. Todo = <<>>
  BY <1>2 DEF Todo, Pending
<1>4. RingsShort
  <2> SUFFICES ASSUME NEW q \in Queue PROVE Held(q) <= MB_MAX_ENTRIES
    BY DEF RingsShort
  <2>1. idx[<<q, "c">>] = 0 /\ idx[<<q, "p">>] = 0
    BY DEF Init, Queue, Words
  <2>2. Held(q) = 0
    BY <2>1, AheadSteps, ZeroIsIndex DEF Held
  <2> QED
    BY <2>2, QueueAssumption
<1> QED
  BY <1>1, <1>2, <1>3, <1>4 DEF CallsInv, Base, Numbered, InWork, OneAsked, SenderAt, ServerAt

LEMMA SeqTypes ==
    ASSUME AsyncTypeOK
    PROVE  /\ Todo \in Seq(AnyMsg) /\ Len(Todo) \in Nat
           /\ Replies \in Seq(AnyMsg) /\ Len(Replies) \in Nat
           /\ nreq \in Nat /\ served \in Nat
BY PendingType, AsyncAssumption DEF Queue, Todo, Replies, AsyncTypeOK

LEMMA MsgTypes ==
    /\ \A m \in Msg : m.id \in Nat \ {0} /\ m.kind \in Kinds /\ m # NoMsg
    /\ NoMsg.kind # "Ok"
BY AsyncAssumption DEF Msg, NoMsg

\* The first of a sequence and the rest.
LEMMA Rest ==
    ASSUME NEW S, NEW s \in Seq(S), s # <<>>
    PROVE  /\ Len(s) \in Nat \ {0} /\ Head(s) = s[1] /\ 1 \in 1 .. Len(s)
           /\ Len(Tail(s)) = Len(s) - 1
           /\ \A i \in 1 .. Len(Tail(s)) : /\ i + 1 \in 1 .. Len(s) /\ i + 1 # 1
                                           /\ Tail(s)[i] = s[i + 1]
<1>1. Len(s) \in Nat \ {0} /\ Head(s) = s[1] /\ Len(Tail(s)) = Len(s) - 1
      /\ \A i \in 1 .. Len(Tail(s)) : Tail(s)[i] = s[i + 1]
  BY HeadTailProperties, EmptySeq
<1> QED
  BY <1>1

\* A step that Mailbox does not see and that leaves both tasks where they are.
LEMMA NothingDone ==
    ASSUME CallsInv, UNCHANGED <<channel, pc, buf, nreq, served>>, WakersInv'
    PROVE  CallsInv'
BY IdleIs DEF CallsInv, Base, Numbered, InWork, OneAsked, SenderAt, ServerAt

LEMMA CallsNext == CallsInv /\ [Next]_vars => CallsInv'
<1> SUFFICES ASSUME CallsInv, [Next]_vars PROVE CallsInv'
  OBVIOUS
<1>1. WakersInv' /\ Base /\ AsyncTypeOK /\ AsyncTypeOK'
  BY WakersNext DEF CallsInv, Base, WakersInv
<1>2. /\ Todo \in Seq(AnyMsg) /\ Len(Todo) \in Nat /\ Replies \in Seq(AnyMsg)
      /\ Len(Replies) \in Nat /\ nreq \in Nat /\ served \in Nat
  BY <1>1, SeqTypes
<1>3. CASE UNCHANGED <<channel, pc, buf, nreq, served>>
  BY <1>1, <1>3, NothingDone
<1>4. CASE reset_req
  BY <1>1, <1>4, ResetIs DEF CallsInv, Base, Numbered, InWork, OneAsked, SenderAt, ServerAt
<1>5. ASSUME NEW kind \in Kinds, Call(kind) PROVE CallsInv'
  <2>1. /\ UNCHANGED <<is_ready, Todo, Replies, InHand, Asked>> /\ RingsShort'
        /\ SenderAt("idle") /\ pc'["sender"] = "send_req" /\ pc'["server"] = pc["server"]
        /\ buf'["server"] = buf["server"] /\ buf'["sender"] = [id |-> nreq + 1, kind |-> kind]
        /\ nreq' = nreq + 1 /\ nreq < MaxReq /\ served' = served
    BY <1>1, <1>5, CallIs
  <2>2. buf'["sender"] \in Msg /\ buf'["sender"].id = nreq'
    BY <1>2, <2>1, AsyncAssumption DEF Msg
  <2>3. Numbered'
    BY <1>2, <2>1, MsgTypes DEF CallsInv, Numbered, InWork, SenderAt, ServerAt
  <2>4. InWork'
    BY <1>2, <2>1, <2>2, MsgTypes DEF CallsInv, InWork, SenderAt, ServerAt
  <2>5. OneAsked'
    BY <2>1 DEF CallsInv, OneAsked
  <2> QED
    BY <1>1, <2>1, <2>3, <2>4, <2>5 DEF CallsInv, Base
<1>6. CASE sender_try_send /\ ~UNCHANGED <<channel, pc, buf>>
  <2>1. /\ is_ready /\ is_ready' /\ RingsShort' /\ Todo' = Append(Todo, buf["sender"])
        /\ UNCHANGED <<Replies, InHand, buf, nreq, served>>
        /\ SenderAt("send_req") /\ Asked = NoMsg
        /\ pc'["sender"] = IF buf["sender"].kind = "Ok" THEN "recv_resp" ELSE "idle"
        /\ pc'["server"] = pc["server"]
        /\ Asked' = IF buf["sender"].kind = "Ok" THEN buf["sender"] ELSE NoMsg
    BY <1>1, <1>6, TrySendIs
  <2>2. /\ buf["sender"] \in Msg /\ buf["sender"].id = nreq
    BY <2>1 DEF CallsInv, InWork
  <2>3. /\ Len(Todo') = Len(Todo) + 1 /\ Todo'[Len(Todo) + 1] = buf["sender"]
        /\ \A i \in 1 .. Len(Todo) : Todo'[i] = Todo[i]
    BY <1>2, <2>1, <2>2, AppendProperties DEF AnyMsg
  <2>4. \A i \in 1 .. Len(Todo') : i \in 1 .. Len(Todo) \/ i = Len(Todo) + 1
    BY <1>2, <2>3
  <2>5. Numbered'
    <3>1. /\ served < nreq
          /\ \A i \in 1 .. Len(Todo) : Todo[i].id < nreq /\ Todo[i].id \in Nat
          /\ ServerAt("do_cmd") => buf["server"].id < nreq
      BY <2>1, MsgTypes DEF CallsInv, Numbered, InWork
    <3>2. pc'["sender"] # "send_req" /\ (ServerAt("do_cmd")' <=> ServerAt("do_cmd"))
      BY <2>1 DEF ServerAt
    <3>3. \A i \in 1 .. Len(Todo') :
              /\ Todo'[i] \in Msg /\ served < Todo'[i].id /\ Todo'[i].id <= nreq
              /\ ServerAt("do_cmd") => buf["server"].id < Todo'[i].id
      BY <1>2, <2>2, <2>3, <2>4, <3>1 DEF CallsInv, Numbered
    <3>4. \A i, j \in 1 .. Len(Todo') : i < j => Todo'[i].id < Todo'[j].id
      BY <1>2, <2>2, <2>3, <2>4, <3>1 DEF CallsInv, Numbered
    <3> QED
      BY <2>1, <3>1, <3>2, <3>3, <3>4 DEF CallsInv, Numbered, SenderAt
  <2>6. InWork'
    BY <2>1, <2>2 DEF CallsInv, InWork, SenderAt, ServerAt
  <2>7. OneAsked'
    <3>1. /\ \A i \in 1 .. Len(Todo) : Todo[i].kind # "Ok"
          /\ InHand.kind # "Ok" /\ Replies = <<>>
      <4>1. \A i \in 1 .. Len(Todo) : Todo[i].kind # "Ok"
        BY <2>1, MsgTypes DEF CallsInv, OneAsked
      <4>2. InHand.kind # "Ok"
        BY <2>1, MsgTypes DEF CallsInv, OneAsked
      <4>3. Replies = <<>>
        BY <2>1, MsgTypes DEF CallsInv, OneAsked
      <4> QED
        BY <4>1, <4>2, <4>3
    <3>2. \A i \in 1 .. Len(Todo') : Todo'[i].kind = "Ok" => i = Len(Todo) + 1
      BY <2>3, <2>4, <3>1
    <3> QED
      BY <2>1, <2>3, <3>1, <3>2 DEF OneAsked
  <2> QED
    BY <1>1, <2>1, <2>5, <2>6, <2>7 DEF CallsInv, Base

<1>7. CASE sender_try_recv /\ ~UNCHANGED <<channel, pc, buf>>
  <2>1. /\ is_ready /\ is_ready' /\ RingsShort' /\ Replies # <<>> /\ Replies' = Tail(Replies)
        /\ UNCHANGED <<Todo, InHand, buf, nreq, served>> /\ Asked' = NoMsg
        /\ SenderAt("recv_resp") /\ pc'["sender"] = "idle" /\ pc'["server"] = pc["server"]
    BY <1>1, <1>7, TryRecvIs
  <2>2. Len(Replies) = 1 /\ \A i \in 1 .. Len(Todo) : Todo[i].kind # "Ok"
    BY <2>1 DEF CallsInv, OneAsked
  <2>3. Replies' = <<>> /\ InHand.kind # "Ok"
    <3>1. Len(Tail(Replies)) = 0 /\ Tail(Replies) \in Seq(AnyMsg)
      BY <1>2, <2>1, <2>2, HeadTailProperties
    <3>2. InHand.kind # "Ok"
      BY <2>1 DEF CallsInv, OneAsked
    <3> QED
      BY <2>1, <3>1, <3>2, EmptySeq
  <2>4. Numbered' /\ InWork'
    BY <2>1 DEF CallsInv, Numbered, InWork, SenderAt, ServerAt
  <2>5. OneAsked'
    BY <2>1, <2>2, <2>3 DEF OneAsked
  <2> QED
    BY <1>1, <2>1, <2>4, <2>5 DEF CallsInv, Base
<1>8. CASE wait_reset /\ ~UNCHANGED <<channel, pc, buf>>
  <2>1. /\ RingsShort' /\ UNCHANGED <<Todo, Replies, InHand, Asked, buf, nreq, served>>
        /\ Todo = <<>> /\ Replies = <<>> /\ InHand = NoMsg
        /\ pc'["sender"] = pc["sender"] /\ pc'["server"] = "recv_req"
    BY <1>1, <1>8, WaitResetIs
  <2> QED
    BY <1>1, <2>1, MsgTypes DEF CallsInv, Base, Numbered, InWork, OneAsked, SenderAt, ServerAt
<1>9. CASE server_try_recv /\ ~UNCHANGED <<channel, pc, buf>>
  <2>1. /\ ServerAt("recv_req") /\ InHand = NoMsg /\ pc'["sender"] = pc["sender"]
        /\ UNCHANGED <<Replies, Asked, nreq, served>> /\ RingsShort'
        /\ buf'["sender"] = buf["sender"] /\ is_ready' = is_ready
    BY <1>1, <1>9, TryTakeIs
  <2>2. CASE UNCHANGED <<Todo, InHand>> /\ pc'["server"] = "reset"
    BY <1>1, <2>1, <2>2 DEF CallsInv, Base, Numbered, InWork, OneAsked, SenderAt, ServerAt
  <2>3. CASE /\ is_ready /\ Todo # <<>> /\ Todo' = Tail(Todo)
             /\ InHand' = Head(Todo) /\ pc'["server"] = "do_cmd"
             /\ buf'["server"] = Head(Todo)
    <3>1. /\ Head(Todo) = Todo[1] /\ 1 \in 1 .. Len(Todo) /\ Len(Todo') = Len(Todo) - 1
          /\ \A i \in 1 .. Len(Todo') : /\ i + 1 \in 1 .. Len(Todo) /\ i + 1 # 1
                                        /\ Todo'[i] = Todo[i + 1]
      BY <1>2, <2>3, Rest
    <3>2. /\ Todo[1] \in Msg /\ served < Todo[1].id /\ Todo[1].id <= nreq
          /\ SenderAt("send_req") => Todo[1].id < nreq
      BY <3>1 DEF CallsInv, Numbered
    <3>3. Numbered'
      <4>1. \A i \in 1 .. Len(Todo') : 1 < i + 1 /\ \A j \in 1 .. Len(Todo') : i < j => i + 1 < j + 1
        BY <1>2
      <4>2. \A i \in 1 .. Len(Todo') : buf'["server"].id < Todo'[i].id
        BY <2>3, <3>1, <4>1 DEF CallsInv, Numbered
      <4> QED
        BY <2>1, <3>1, <4>1, <4>2 DEF CallsInv, Numbered, SenderAt
    <3>4. InWork'
      BY <2>1, <2>3, <3>1, <3>2 DEF CallsInv, InWork, SenderAt, ServerAt
    <3>5. OneAsked'
      <4>1. \A i, j \in 1 .. Len(Todo') : i + 1 = j + 1 => i = j
        OBVIOUS
      <4> QED
        BY <2>1, <2>3, <3>1, <4>1 DEF CallsInv, OneAsked
    <3> QED
      BY <1>1, <2>1, <3>3, <3>4, <3>5 DEF CallsInv, Base
  <2> QED
    BY <1>1, <1>9, <2>2, <2>3, TryTakeIs
<1>10. CASE do_cmd
  <2>1. /\ ServerAt("do_cmd") /\ InHand = buf["server"] /\ pc'["sender"] = pc["sender"]
        /\ UNCHANGED <<is_ready, Todo, Replies, Asked, buf, nreq>> /\ RingsShort'
        /\ served' = buf["server"].id
        /\ pc'["server"] = AfterCmd(buf["server"].kind)
        /\ InHand' = IF buf["server"].kind = "Ok" THEN buf["server"] ELSE NoMsg
    BY <1>1, <1>10, CmdIs
  <2>2. /\ pc'["server"] # "do_cmd"
        /\ pc'["server"] = "send_resp" => buf["server"].kind = "Ok"
    BY <2>1 DEF AfterCmd
  <2>3. Numbered' /\ InWork'
    BY <1>2, <2>1, <2>2 DEF CallsInv, Numbered, InWork, SenderAt, ServerAt
  <2>4. OneAsked'
    BY <2>1, MsgTypes DEF CallsInv, OneAsked
  <2> QED
    BY <1>1, <2>1, <2>3, <2>4 DEF CallsInv, Base
<1>11. CASE server_try_send /\ ~UNCHANGED <<channel, pc, buf>>
  <2>1. /\ ServerAt("send_resp") /\ InHand = buf["server"] /\ pc'["sender"] = pc["sender"]
        /\ UNCHANGED <<Todo, Asked, buf, nreq, served>> /\ RingsShort'
        /\ is_ready' = is_ready /\ InHand' = NoMsg
        /\ pc'["server"] \in {"reset", "recv_req"}
    BY <1>1, <1>11, TryAnswerIs
  <2>2. Numbered' /\ InWork'
    BY <2>1 DEF CallsInv, Numbered, InWork, SenderAt, ServerAt
  <2>3. OneAsked'
    <3>1. CASE ~is_ready
      BY <2>1, <3>1 DEF OneAsked
    <3>2. CASE is_ready
      <4>1. Replies' = Append(Replies, buf["server"]) /\ buf["server"].kind = "Ok"
        BY <1>1, <1>11, <2>1, <3>2, TryAnswerIs DEF CallsInv, InWork
      <4>2. Replies = <<>> /\ Asked = buf["server"] /\ \A i \in 1 .. Len(Todo) : Todo[i].kind # "Ok"
        BY <2>1, <3>2, <4>1 DEF CallsInv, OneAsked
      <4>3. Len(Replies') = 1 /\ Replies'[1] = buf["server"]
        BY <4>1, <4>2
      <4> QED
        BY <2>1, <4>1, <4>2, <4>3, MsgTypes DEF OneAsked
    <3> QED
      BY <3>1, <3>2
  <2> QED
    BY <1>1, <2>1, <2>2, <2>3 DEF CallsInv, Base
<1>12. CASE Wake
  BY <1>3, <1>12 DEF Wake, bounds
<1>13. CASE UNCHANGED vars
  BY <1>3, <1>13 DEF vars, channel
<1> QED
  BY <1>3, <1>4, <1>5, <1>6, <1>7, <1>8, <1>9, <1>10, <1>11, <1>12, <1>13
     DEF Next, PollSender, PollServer, sender_try_send, sender_try_recv, wait_reset,
         server_try_recv, server_try_send, bounds

LEMMA CallsHold == Spec => []CallsInv
BY CallsInit, CallsNext, PTL DEF Spec

\* do_cmd sees requests in the order they were sent, none twice, none of before a
\* reset after one from behind it.
THEOREM ServedInOrder == Spec => []AsyncServesInOrder
<1>1. CallsInv => AsyncServesInOrder
  BY DEF CallsInv, InWork, AsyncServesInOrder, ServerAt
<1> QED
  BY <1>1, CallsHold, PTL

\* What recv_resp returns is the answer of the call that awaits it.
THEOREM OwnAnswers == Spec => AsyncOwnAnswer
<1>1. CallsInv /\ [Next]_vars =>
          [(pc["sender"] = "recv_resp" /\ pc'["sender"] = "idle" /\ nreset' = nreset)
               => ret' = buf["sender"]]_vars
  <2> SUFFICES ASSUME CallsInv, Next, pc["sender"] = "recv_resp", pc'["sender"] = "idle",
                      nreset' = nreset
               PROVE  ret' = buf["sender"]
    OBVIOUS
  <2>1. Base /\ AsyncTypeOK /\ nreset \in Nat
    BY AsyncAssumption DEF CallsInv, Base, WakersInv, AsyncTypeOK
  <2>2. ~reset_req
    BY <2>1 DEF reset_req
  <2>3. \A kind \in Kinds : ~Call(kind)
    BY DEF Call
  <2>4. ~Wake /\ ~sender_try_send
    BY DEF Wake, sender_try_send
  <2>5. ~PollServer
    <3> SUFFICES ASSUME PollServer PROVE pc'["sender"] = pc["sender"]
      OBVIOUS
    <3> QED
      BY <2>1, LabelsAre DEF PollServer, wait_reset, server_try_recv, do_cmd, server_try_send, Park
  <2>6. sender_try_recv /\ ~UNCHANGED <<channel, pc, buf>>
    BY <2>2, <2>3, <2>4, <2>5 DEF Next, PollSender
  <2>7. is_ready /\ Replies # <<>> /\ ret' = Head(Replies) /\ Asked = buf["sender"]
    BY <2>1, <2>6, TryRecvIs
  <2>8. Replies[1] = Asked
    BY <2>7 DEF CallsInv, OneAsked
  <2>9. Head(Replies) = Replies[1]
    BY <2>1, <2>7, SeqTypes, Rest
  <2> QED
    BY <2>7, <2>8, <2>9
<1> QED
  BY <1>1, CallsHold, PTL DEF Spec, AsyncOwnAnswer

-----------------------------------------------------------------------------
(* The refinement.                                                          *)

LEMMA MapsTo ==
    /\ Abstract!mvars = <<is_ready, Todo, InHand, Replies, Asked>>
    /\ UNCHANGED <<is_ready, Todo, InHand, Replies, Asked>> => UNCHANGED Abstract!mvars
BY DEF Abstract!mvars, Todo, InHand, Replies, Asked

LEMMA MailboxInit == Init => Abstract!MInit
BY DEF Init, Abstract!MInit, is_ready, Pending

LEMMA MailboxNext == CallsInv /\ [Next]_vars => [Abstract!MNext]_Abstract!mvars
<1> SUFFICES ASSUME CallsInv, [Next]_vars PROVE [Abstract!MNext]_Abstract!mvars
  OBVIOUS
<1>1. Base /\ AsyncTypeOK
  BY DEF CallsInv, Base, WakersInv
<1>2. Todo \in Seq(AnyMsg) /\ Replies \in Seq(AnyMsg)
  BY <1>1, SeqTypes
<1>3. CASE UNCHANGED <<channel, pc, buf>>
  BY <1>1, <1>3, IdleIs, MapsTo
<1>4. CASE reset_req
  <2>1. ~is_ready' /\ Todo' = <<>> /\ Replies' = <<>> /\ InHand' = InHand /\ Asked' = NoMsg
    BY <1>1, <1>4, ResetIs
  <2> QED
    BY <2>1 DEF Abstract!MNext, Abstract!Down, Todo, Replies, InHand, Asked, is_ready
<1>5. ASSUME NEW kind \in Kinds, Call(kind) PROVE UNCHANGED Abstract!mvars
  BY <1>1, <1>5, CallIs, MapsTo
<1>6. CASE sender_try_send /\ ~UNCHANGED <<channel, pc, buf>>
  <2>1. /\ is_ready /\ is_ready' /\ Len(Todo) < MB_MAX_ENTRIES
        /\ Todo' = Append(Todo, buf["sender"]) /\ UNCHANGED <<Replies, InHand>>
        /\ SenderAt("send_req") /\ Asked = NoMsg
        /\ Asked' = IF buf["sender"].kind = "Ok" THEN buf["sender"] ELSE NoMsg
    BY <1>1, <1>6, TrySendIs
  <2>2. buf["sender"] \in Msg
    BY <2>1 DEF CallsInv, InWork
  <2>3. Abstract!Send(buf["sender"])
    BY <2>1, <2>2 DEF Abstract!Send, Todo, Replies, InHand, Asked
  <2> QED
    BY <2>2, <2>3 DEF Abstract!MNext
<1>7. CASE sender_try_recv /\ ~UNCHANGED <<channel, pc, buf>>
  <2>1. /\ is_ready /\ is_ready' /\ Replies # <<>> /\ Replies' = Tail(Replies)
        /\ UNCHANGED <<Todo, InHand>> /\ Asked' = NoMsg /\ SenderAt("recv_resp") /\ Asked = buf["sender"]
    BY <1>1, <1>7, TryRecvIs
  <2>2. Asked # NoMsg
    BY <2>1, MsgTypes DEF CallsInv, InWork
  <2>3. Head(Replies) = Asked
    BY <1>2, <2>1, Rest DEF CallsInv, OneAsked
  <2>4. Abstract!Receive
    BY <2>1, <2>2, <2>3 DEF Abstract!Receive, Todo, Replies, InHand, Asked
  <2> QED
    BY <2>4 DEF Abstract!MNext
<1>8. CASE wait_reset /\ ~UNCHANGED <<channel, pc, buf>>
  <2>1. ~is_ready /\ is_ready' /\ UNCHANGED <<Todo, Replies, InHand, Asked>> /\ InHand = NoMsg
    BY <1>1, <1>8, WaitResetIs
  <2>2. Abstract!Up
    BY <2>1 DEF Abstract!Up, Todo, Replies, InHand, Asked, is_ready
  <2> QED
    BY <2>2 DEF Abstract!MNext
<1>9. CASE server_try_recv /\ ~UNCHANGED <<channel, pc, buf>>
  <2>1. InHand = NoMsg /\ UNCHANGED <<Replies, Asked, is_ready>>
    BY <1>1, <1>9, TryTakeIs
  <2>2. CASE UNCHANGED <<Todo, InHand>>
    BY <2>1, <2>2, MapsTo
  <2>3. CASE is_ready /\ Todo # <<>> /\ Todo' = Tail(Todo) /\ InHand' = Head(Todo)
    <3>1. Abstract!Take
      BY <2>1, <2>3 DEF Abstract!Take, Todo, Replies, InHand, Asked
    <3> QED
      BY <3>1 DEF Abstract!MNext
  <2> QED
    BY <1>1, <1>9, <2>2, <2>3, TryTakeIs
<1>10. CASE do_cmd
  <2>1. /\ ServerAt("do_cmd") /\ InHand = buf["server"]
        /\ UNCHANGED <<is_ready, Todo, Replies, Asked>>
        /\ InHand' = IF buf["server"].kind = "Ok" THEN buf["server"] ELSE NoMsg
    BY <1>1, <1>10, CmdIs
  <2>2. InHand # NoMsg
    BY <2>1, MsgTypes DEF CallsInv, InWork
  <2>3. CASE buf["server"].kind = "Ok"
    BY <2>1, <2>3, MapsTo
  <2>4. CASE buf["server"].kind # "Ok"
    <3>1. Abstract!Finish
      BY <2>1, <2>2, <2>4 DEF Abstract!Finish, Todo, Replies, InHand, Asked
    <3> QED
      BY <3>1 DEF Abstract!MNext
  <2> QED
    BY <2>3, <2>4
<1>11. CASE server_try_send /\ ~UNCHANGED <<channel, pc, buf>>
  <2>1. /\ ServerAt("send_resp") /\ InHand = buf["server"] /\ InHand' = NoMsg
        /\ UNCHANGED <<Todo, Asked, is_ready>>
    BY <1>1, <1>11, TryAnswerIs
  <2>2. buf["server"] \in Msg /\ buf["server"].kind = "Ok" /\ InHand # NoMsg
    BY <2>1, MsgTypes DEF CallsInv, InWork
  <2>3. CASE ~is_ready /\ UNCHANGED Replies
    <3>1. Abstract!Finish
      BY <2>1, <2>2, <2>3 DEF Abstract!Finish, Todo, Replies, InHand, Asked
    <3> QED
      BY <3>1 DEF Abstract!MNext
  <2>4. CASE is_ready /\ Len(Replies) < MB_MAX_ENTRIES /\ Replies' = Append(Replies, buf["server"])
    <3>1. Abstract!Answer
      BY <2>1, <2>2, <2>4 DEF Abstract!Answer, Todo, Replies, InHand, Asked
    <3> QED
      BY <3>1 DEF Abstract!MNext
  <2> QED
    BY <1>1, <1>11, <2>3, <2>4, TryAnswerIs
<1>12. CASE Wake
  BY <1>3, <1>12 DEF Wake
<1>13. CASE UNCHANGED vars
  BY <1>3, <1>13 DEF vars, channel
<1> QED
  BY <1>3, <1>4, <1>5, <1>6, <1>7, <1>8, <1>9, <1>10, <1>11, <1>12, <1>13
     DEF Next, PollSender, PollServer

\* Two tasks that share the channel under its Mutex, and park and wake each other,
\* make the promise of Mailbox, dropped calls and resets included.
THEOREM TasksRefineMailbox == Spec => AsyncImplementsMailbox
BY MailboxInit, MailboxNext, CallsInit, CallsNext, PTL
   DEF Spec, AsyncImplementsMailbox, Abstract!MSpec

=============================================================================

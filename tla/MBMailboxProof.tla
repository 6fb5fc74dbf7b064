--------------------------- MODULE MBMailboxProof ---------------------------
(***************************************************************************)
(* MBChannel, access by access, implements Mailbox, for rings and index    *)
(* words of every size and whatever resets and restarts happen: requests   *)
(* are executed in their order, and a call gets the answer of its own.     *)
(***************************************************************************)
EXTENDS MBChannelProof

USE DEF Proc, INIT, READY

-----------------------------------------------------------------------------
(* The channel as Mailbox sees it.                                          *)

Todo    == Pending(ReqHead, idx[<<"req", "p">>], ReqEntry)
Replies == Pending(idx[<<"resp", "c">>], idx[<<"resp", "p">>], RespEntry)
InHand  == IF Serving THEN buf["server"] ELSE NoMsg
Asked   == IF Waiting THEN buf["client"] ELSE NoMsg

Sending   == pc["client"] \in {"send.is_ready", "send.full", "put_req", "commit_req"}
Taken     == pc["server"] \in {"ack_req", "do_cmd"}
Answering == pc["server"] \in {"resp.is_ready", "resp.full", "put_resp", "commit_resp"}
Resetting == At("client", "reset_req")

ReqEntries == [i \in Slot |-> ReqEntry(i)]

LEMMA EntryTypes ==
    ASSUME TypeInv
    PROVE  ReqEntries \in [Slot -> AnyMsg] /\ resp_slot \in [Slot -> AnyMsg]
<1>1. NoMsg \in AnyMsg
  BY DEF AnyMsg
<1>2. \A i \in Slot : req_slot[i].head \in AnyMsg /\ req_slot[i].args \in AnyMsg
  BY DEF TypeInv, TypeOK
<1>3. \A i \in Slot : ReqEntry(i) \in AnyMsg
  BY <1>1, <1>2 DEF ReqEntry, Merge
<1> QED
  BY <1>3 DEF ReqEntries, TypeInv, TypeOK

LEMMA ReqHeadIs ==
    ASSUME TypeInv, HandshakeInv, RingInv
    PROVE  /\ ReqHead \in Idx
           /\ LinkUp => ahead(ReqHead, idx[<<"req", "p">>]) <= MB_MAX_ENTRIES
           /\ pc["client"] \in {"put_req", "commit_req"} =>
                 LinkUp /\ ahead(ReqHead, idx[<<"req", "p">>]) < MB_MAX_ENTRIES
<1> DEFINE c == idx[<<"req", "c">>]
           p == idx[<<"req", "p">>]
<1>1. c \in Idx /\ p \in Idx
  BY IdxTypes
<1>2. ReqHead \in Idx
  BY <1>1, IndexTypes DEF ReqHead
<1>3. ahead(c, p) \in Nat /\ MB_MAX_ENTRIES \in Nat
  BY <1>1, Numbers
<1>4. LinkUp => ahead(ReqHead, p) <= ahead(c, p) /\ ahead(c, p) <= MB_MAX_ENTRIES
  <2>1. SUFFICES ASSUME LinkUp
                 PROVE  ahead(ReqHead, p) <= ahead(c, p) /\ ahead(c, p) <= MB_MAX_ENTRIES
    OBVIOUS
  <2>2. ahead(c, p) <= MB_MAX_ENTRIES /\ (At("server", "ack_req") => ahead(c, p) > 0)
    BY <2>1 DEF LinkUp, RingInv, Bounded, ServerRings, Consuming, At
  <2>3. CASE At("server", "ack_req")
    <3>1. ahead(wrapping_inc(c), p) = ahead(c, p) - 1
      BY <1>1, <2>2, <2>3, AheadSteps
    <3> QED
      BY <1>3, <2>2, <2>3, <3>1 DEF ReqHead
  <2>4. CASE ~At("server", "ack_req")
    BY <1>3, <2>2, <2>4 DEF ReqHead
  <2> QED
    BY <2>3, <2>4
<1>5. pc["client"] \in {"put_req", "commit_req"} => LinkUp /\ ahead(c, p) < MB_MAX_ENTRIES
  BY DEF HandshakeInv, InCall, LinkUp, RingInv, ClientRings, Producing
<1>6. ahead(ReqHead, p) \in Nat
  BY <1>1, <1>2, Numbers
<1> QED
  BY <1>2, <1>3, <1>4, <1>5, <1>6

\* The two queues are what the rings hold.
QueuesAreRings ==
    /\ Todo = IF LinkUp THEN Ring(ReqEntries, ReqHead, idx[<<"req", "p">>]) ELSE <<>>
    /\ Replies = IF LinkUp THEN Ring(resp_slot, idx[<<"resp", "c">>], idx[<<"resp", "p">>])
                 ELSE <<>>

LEMMA QueuesAre == ReqHead \in Int => QueuesAreRings
<1> SUFFICES ASSUME ReqHead \in Int PROVE QueuesAreRings
  OBVIOUS
<1> DEFINE A == ahead(ReqHead, idx[<<"req", "p">>])
<1>1. \A i \in 1 .. A : ReqEntries[idx_masked(ReqHead + i - 1)] = ReqEntry(idx_masked(ReqHead + i - 1))
  <2> TAKE i \in 1 .. A
  <2>1. ReqHead + i - 1 \in Int
    OBVIOUS
  <2>2. idx_masked(ReqHead + i - 1) \in Slot
    BY <2>1, SlotsMeet, 0 \in Int
  <2> QED
    BY <2>2 DEF ReqEntries
<1>2. Ring(ReqEntries, ReqHead, idx[<<"req", "p">>])
         = [i \in 1 .. A |-> ReqEntry(idx_masked(ReqHead + i - 1))]
  BY <1>1 DEF Ring
<1>3. Todo = IF LinkUp THEN [i \in 1 .. A |-> ReqEntry(idx_masked(ReqHead + i - 1))] ELSE <<>>
  BY DEF Todo, Pending
<1>4. Replies = IF LinkUp THEN Ring(resp_slot, idx[<<"resp", "c">>], idx[<<"resp", "p">>]) ELSE <<>>
  BY DEF Replies, Pending, RespEntry, Ring
<1> QED
  BY <1>2, <1>3, <1>4 DEF QueuesAreRings

LEMMA QueuesNext == (ReqHead \in Int)' => QueuesAreRings'
BY QueuesAre, PTL

LEMMA QueueTypes ==
    ASSUME TypeInv, HandshakeInv, RingInv
    PROVE  /\ Todo \in Seq(AnyMsg) /\ Replies \in Seq(AnyMsg)
           /\ LinkUp => /\ Len(Todo) = ahead(ReqHead, idx[<<"req", "p">>])
                        /\ Len(Replies) = ahead(idx[<<"resp", "c">>], idx[<<"resp", "p">>])
<1>1. /\ ReqHead \in Idx /\ idx[<<"req", "p">>] \in Idx
      /\ idx[<<"resp", "c">>] \in Idx /\ idx[<<"resp", "p">>] \in Idx
  BY ReqHeadIs, IdxTypes
<1>2. QueuesAreRings
  BY <1>1, QueuesAre, QueueAssumption DEF Idx
<1>3. CASE LinkUp
  <2>1. /\ Todo = Ring(ReqEntries, ReqHead, idx[<<"req", "p">>])
        /\ Replies = Ring(resp_slot, idx[<<"resp", "c">>], idx[<<"resp", "p">>])
    BY <1>2, <1>3 DEF QueuesAreRings
  <2>2. /\ Ring(ReqEntries, ReqHead, idx[<<"req", "p">>]) \in Seq(AnyMsg)
        /\ Len(Ring(ReqEntries, ReqHead, idx[<<"req", "p">>])) = ahead(ReqHead, idx[<<"req", "p">>])
    <3>1. ReqEntries \in [Slot -> AnyMsg] /\ ReqHead \in Idx /\ idx[<<"req", "p">>] \in Idx
      BY <1>1, EntryTypes
    <3> QED
      BY <3>1, RingIsSeq
  <2>3. /\ Ring(resp_slot, idx[<<"resp", "c">>], idx[<<"resp", "p">>]) \in Seq(AnyMsg)
        /\ Len(Ring(resp_slot, idx[<<"resp", "c">>], idx[<<"resp", "p">>]))
              = ahead(idx[<<"resp", "c">>], idx[<<"resp", "p">>])
    <3>1. /\ resp_slot \in [Slot -> AnyMsg]
          /\ idx[<<"resp", "c">>] \in Idx /\ idx[<<"resp", "p">>] \in Idx
      BY <1>1, EntryTypes
    <3> QED
      BY <3>1, RingIsSeq, SMTT(30)
  <2> QED
    BY <2>1, <2>2, <2>3
<1>4. CASE ~LinkUp
  <2>1. Todo = <<>> /\ Replies = <<>>
    BY <1>2, <1>4 DEF QueuesAreRings
  <2> QED
    BY <1>4, <2>1
<1> QED
  BY <1>3, <1>4

\* With the link down nothing is pending.
LEMMA QueuesDown ==
    /\ ~LinkUp => Todo = <<>> /\ Replies = <<>>
    /\ ~LinkUp' => Todo' = <<>> /\ Replies' = <<>>
BY DEF Todo, Replies, Pending

\* A step that writes neither an index nor a slot.
LEMMA QueuesKept ==
    ASSUME UNCHANGED shared, At("server", "ack_req")' <=> At("server", "ack_req")
    PROVE  UNCHANGED <<LinkUp, Todo, Replies>>
BY DEF shared, LinkUp, Todo, Replies, Pending, ReqHead, ReqEntry, RespEntry

-----------------------------------------------------------------------------
(* What a step of one side leaves alone.                                    *)

ServerKeeps ==
    /\ Stays("client") /\ buf'["client"] = buf["client"]
    /\ UNCHANGED <<ret, req_slot, nreq, nreset>>
    /\ state = READY => /\ state' = READY
                        /\ idx'[<<"req", "p">>] = idx[<<"req", "p">>]
                        /\ idx'[<<"resp", "c">>] = idx[<<"resp", "c">>]

ClientKeeps ==
    /\ Stays("server") /\ buf'["server"] = buf["server"]
    /\ UNCHANGED <<resp_slot, served>>
    /\ state' = READY => /\ state = READY
                         /\ idx'[<<"req", "c">>] = idx[<<"req", "c">>]
                         /\ idx'[<<"resp", "p">>] = idx[<<"resp", "p">>]

LEMMA ServerFrame ==
    ASSUME TypeInv, RingInv, ServerStep
    PROVE  ServerKeeps
<1>a. "server" \in Proc /\ "client" \in Proc \ {"server"}
  OBVIOUS
<1>b. Detached => state # READY
  BY DEF RingInv
<1>1. /\ UNCHANGED <<ret, req_slot, nreq, nreset>>
      /\ buf' = buf \/ \E m \in AnyMsg : buf' = [buf EXCEPT !["server"] = m]
  <2>1. CASE get_req
    <3>1. \A i \in Slot : req_slot[i].head \in AnyMsg /\ req_slot[i].args \in AnyMsg
      BY DEF TypeInv, TypeOK
    <3>2. NoMsg \in AnyMsg
      BY DEF AnyMsg
    <3>3. k["server"] > 0 => r["server"] \in Slot
      BY <2>1 DEF get_req, TypeInv
    <3>4. k["server"] > 0 =>
             /\ req_slot[r["server"]].head \in AnyMsg
             /\ Merge(buf["server"], req_slot[r["server"]].args) \in AnyMsg
      BY <3>1, <3>2, <3>3 DEF Merge
    <3> QED
      BY <2>1, <3>4 DEF get_req, shared, bounds
  <2>2. CASE ~get_req
    BY <2>2 DEF ServerStep, new, clear, wait_reset, reset_pre_ack, reset_ack, check_version,
                server_try_recv, ack_req, do_cmd, server_try_send, put_resp, commit_resp,
                is_ready, q_empty, q_full, compare_idx, advance, shared, bounds
  <2> QED
    BY <2>1, <2>2
<1>2. buf'["client"] = buf["client"]
  BY <1>1 DEF TypeInv, TypeOK
<1>3. pc'["client"] = pc["client"] /\ k'["client"] = k["client"]
  <2>1. (\E l : Goto("server", l)) \/ Again("server")
    BY DEF ServerStep, new, clear, wait_reset, reset_pre_ack, reset_ack, check_version,
           server_try_recv, get_req, ack_req, do_cmd, server_try_send, put_resp, commit_resp,
           is_ready, q_empty, q_full, compare_idx, compare_slots, compare_flags, advance, load_slot
  <2> QED
    BY <1>a, <2>1, GotoIs, AgainIs
<1>4. r'["client"] = r["client"]
  <2>1. r' = r \/ \E v : r' = [r EXCEPT !["server"] = v]
    BY DEF ServerStep, new, clear, wait_reset, reset_pre_ack, reset_ack, check_version,
           server_try_recv, get_req, ack_req, do_cmd, server_try_send, put_resp, commit_resp,
           is_ready, q_empty, q_full, compare_idx, compare_slots, compare_flags, advance, load_slot, shared
  <2> QED
    BY <1>a, <2>1, RegIs
<1>5. ASSUME state = READY
      PROVE  /\ state' = READY
             /\ idx'[<<"req", "p">>] = idx[<<"req", "p">>]
             /\ idx'[<<"resp", "c">>] = idx[<<"resp", "c">>]
  <2>1. ~new /\ ~reset_pre_ack /\ ~reset_ack
    BY <1>b, <1>5 DEF new, reset_pre_ack, reset_ack, clear, Detached, At
  <2>2. CASE ack_req
    <3>1. advance("server", "ack_req", "req", "c", "do_cmd")
      BY <2>2 DEF ack_req
    <3> QED
      BY <1>a, <1>5, <3>1, AdvanceStep
  <2>3. CASE commit_resp
    <3>1. advance("server", "commit_resp", "resp", "p", "recv.is_ready")
      BY <2>3 DEF commit_resp
    <3> QED
      BY <1>a, <1>5, <3>1, AdvanceStep
  <2>4. CASE ~ack_req /\ ~commit_resp
    <3>1. idx' = idx /\ state' = state
      BY <2>1, <2>4 DEF ServerStep, wait_reset, check_version, server_try_recv, get_req, do_cmd,
                        server_try_send, put_resp, is_ready, q_empty, q_full, compare_idx, shared
    <3> QED
      BY <1>5, <3>1
  <2> QED
    BY <2>2, <2>3, <2>4
<1> QED
  BY <1>1, <1>2, <1>3, <1>4, <1>5 DEF ServerKeeps, Stays

LEMMA ClientFrame ==
    ASSUME TypeInv, RingInv, Reset \/ (\E kind \in Kinds : Call(kind)) \/ ClientStep
    PROVE  ClientKeeps
<1>a. "client" \in Proc /\ "server" \in Proc \ {"client"}
  OBVIOUS
<1>1. /\ UNCHANGED <<resp_slot, served>>
      /\ buf' = buf \/ \E m : buf' = [buf EXCEPT !["client"] = m]
  BY DEF ClientStep, Reset, Call, reset_req, reset_req_p2, clear, client_try_send, put_req, commit_req,
         client_try_recv, get_resp, ack_resp, is_ready, q_empty, q_full, compare_idx, advance,
         shared, bounds
<1>2. buf'["server"] = buf["server"]
  BY <1>1 DEF TypeInv, TypeOK
<1>3. pc'["server"] = pc["server"] /\ k'["server"] = k["server"]
  <2>1. (\E l : Goto("client", l)) \/ Again("client")
    BY DEF ClientStep, Reset, Call, reset_req, reset_req_p2, clear, client_try_send, put_req, commit_req,
           client_try_recv, get_resp, ack_resp, is_ready, q_empty, q_full, compare_idx,
           compare_slots, compare_flags, advance, load_slot
  <2> QED
    BY <1>a, <2>1, GotoIs, AgainIs
<1>4. r'["server"] = r["server"]
  <2>1. r' = r \/ \E v : r' = [r EXCEPT !["client"] = v]
    BY DEF ClientStep, Reset, Call, reset_req, reset_req_p2, clear, client_try_send, put_req, commit_req,
           client_try_recv, get_resp, ack_resp, is_ready, q_empty, q_full, compare_idx,
           compare_slots, compare_flags, advance, load_slot, shared
  <2> QED
    BY <1>a, <2>1, RegIs
<1>5. ASSUME state' = READY
      PROVE  /\ state = READY
             /\ idx'[<<"req", "c">>] = idx[<<"req", "c">>]
             /\ idx'[<<"resp", "p">>] = idx[<<"resp", "p">>]
  <2>1. CASE reset_req_p2
    <3>1. state = READY /\ At("client", "reset_req_p2") /\ k["client"] \in 0 .. 3
          /\ idx' = [idx EXCEPT ![ClearOrder[k["client"] + 1]] = 0]
      BY <1>5, <2>1 DEF reset_req_p2, clear, TypeInv, ClearLabels, At
    <3>2. AllZero
      BY <3>1 DEF RingInv, LateClear
    <3>3. idx'[<<"req", "c">>] = idx[<<"req", "c">>] /\ idx'[<<"resp", "p">>] = idx[<<"resp", "p">>]
      BY <3>1, <3>2 DEF AllZero, Words, TypeInv, TypeOK, ClearOrder
    <3> QED
      BY <3>1, <3>3
  <2>2. CASE commit_req
    <3>1. advance("client", "commit_req", "req", "p", AfterCommit)
      BY <2>2 DEF commit_req
    <3> QED
      BY <1>a, <1>5, <3>1, AdvanceStep
  <2>3. CASE ack_resp
    <3>1. advance("client", "ack_resp", "resp", "c", "idle")
      BY <2>3 DEF ack_resp
    <3> QED
      BY <1>a, <1>5, <3>1, AdvanceStep
  <2>4. CASE ~reset_req_p2 /\ ~commit_req /\ ~ack_resp
    <3>1. idx' = idx /\ (state' = state \/ state' = INIT)
      BY <2>4 DEF ClientStep, Reset, Call, reset_req, client_try_send, put_req, client_try_recv,
                  get_resp, is_ready, q_empty, q_full, compare_idx, shared
    <3> QED
      BY <1>5, <3>1
  <2> QED
    BY <2>1, <2>2, <2>3, <2>4
<1> QED
  BY <1>1, <1>2, <1>3, <1>4, <1>5 DEF ClientKeeps, Stays

-----------------------------------------------------------------------------
(* What is in the slots that are being worked on.                           *)

\* The client's: the request it publishes is written as a whole, the answer it
\* took is the one it acknowledges.
ClientSlots ==
    /\ At("client", "put_req") /\ k["client"] = 2 =>
          req_slot[idx_masked(idx[<<"req", "p">>])].head = buf["client"]
    /\ At("client", "commit_req") =>
          ReqEntry(idx_masked(idx[<<"req", "p">>])) = buf["client"]
    /\ At("client", "ack_resp") => ret = resp_slot[idx_masked(idx[<<"resp", "c">>])]

\* The server's, as long as no reset takes the channel down.
ServerSlots ==
    /\ At("server", "get_req") /\ k["server"] = 2 =>
          buf["server"] = req_slot[idx_masked(idx[<<"req", "c">>])].head
    /\ At("server", "recv.is_ready3") =>
          buf["server"] = ReqEntry(idx_masked(idx[<<"req", "c">>]))
    /\ At("server", "commit_resp") =>
          buf["server"] = resp_slot[idx_masked(idx[<<"resp", "p">>])]

SlotsInv == ClientSlots /\ (state = READY => ServerSlots)

LEMMA SlotsInit == Init => SlotsInv
BY DEF Init, SlotsInv, ClientSlots, At

LEMMA IdxSlots ==
    ASSUME TypeInv
    PROVE  \A q \in {"req", "resp"}, end \in {"p", "c"} : idx_masked(idx[<<q, end>>]) \in Slot
BY IdxTypes, IndexTypes

LEMMA ClientSlotsByClient ==
    ASSUME TypeInv, HandshakeInv, RingInv, SlotsInv,
           Reset \/ (\E kind \in Kinds : Call(kind)) \/ ClientStep
    PROVE  ClientSlots'
<1>a. "client" \in Proc
  OBVIOUS
<1>b. ClientSlots
  BY DEF SlotsInv
<1>1. CASE put_req
  <2> DEFINE s == idx_masked(idx[<<"req", "p">>])
  <2>1. pc["client"] = "put_req" /\ idx' = idx /\ buf' = buf
    BY <1>1 DEF put_req, At
  <2>2. s \in Slot /\ (k["client"] > 0 => r["client"] = s)
    BY <2>1, IdxSlots DEF RingInv, ClientRings, Producing, At
  <2>3. CASE load_slot("client", "req", "p")
    <3>1. pc'["client"] = "put_req" /\ k'["client"] = 1
      BY <2>1, <2>3, LoadStep
    <3> QED
      BY <3>1 DEF ClientSlots, At
  <2>4. CASE /\ k["client"] = 1 /\ Again("client")
             /\ req_slot' = [req_slot EXCEPT ![r["client"]].head = buf["client"]]
    <3>1. pc'["client"] = "put_req"
      BY <1>a, <2>1, <2>4, AgainIs
    <3>2. req_slot'[s].head = buf["client"]
      BY <2>2, <2>4 DEF TypeInv, TypeOK
    <3> QED
      BY <2>1, <3>1, <3>2 DEF ClientSlots, At
  <2>5. CASE /\ k["client"] = 2 /\ Goto("client", "commit_req")
             /\ req_slot' = [req_slot EXCEPT ![r["client"]].args = buf["client"]]
    <3>1. pc'["client"] = "commit_req"
      BY <1>a, <2>5, GotoIs
    <3>2. req_slot[s].head = buf["client"]
      BY <1>b, <2>1, <2>5 DEF ClientSlots, At
    <3>3. req_slot'[s].head = buf["client"] /\ req_slot'[s].args = buf["client"]
      BY <2>2, <2>5, <3>2 DEF TypeInv, TypeOK
    <3> QED
      BY <2>1, <3>1, <3>3 DEF ClientSlots, At, ReqEntry, Merge
  <2> QED
    BY <1>1, <2>3, <2>4, <2>5 DEF put_req
<1>2. CASE commit_req
  <2>1. advance("client", "commit_req", "req", "p", AfterCommit) /\ UNCHANGED <<buf, req_slot>>
    BY <1>2 DEF commit_req, advance
  <2>2. /\ pc["client"] = "commit_req"
        /\ \/ pc'["client"] = "commit_req" /\ idx' = idx
           \/ pc'["client"] \in {"recv.is_ready", "idle"}
    BY <1>a, <2>1, AdvanceStep DEF AfterCommit
  <2> QED
    BY <1>b, <2>1, <2>2 DEF ClientSlots, At, ReqEntry
<1>3. CASE get_resp
  <2>1. pc["client"] = "get_resp" /\ UNCHANGED <<idx, resp_slot>>
    BY <1>3 DEF get_resp, At, shared
  <2>2. CASE load_slot("client", "resp", "c")
    <3>1. pc'["client"] = "get_resp"
      BY <2>1, <2>2, LoadStep
    <3> QED
      BY <3>1 DEF ClientSlots, At
  <2>3. CASE k["client"] = 1 /\ ret' = resp_slot[r["client"]] /\ Goto("client", "ack_resp")
    <3>1. pc'["client"] = "ack_resp"
      BY <1>a, <2>3, GotoIs
    <3>2. r["client"] = idx_masked(idx[<<"resp", "c">>])
      BY <2>1, <2>3 DEF RingInv, ClientRings, Consuming, At
    <3> QED
      BY <2>1, <2>3, <3>1, <3>2 DEF ClientSlots, At
  <2> QED
    BY <1>3, <2>2, <2>3 DEF get_resp
<1>4. CASE ack_resp
  <2>1. advance("client", "ack_resp", "resp", "c", "idle") /\ UNCHANGED <<ret, resp_slot>>
    BY <1>4 DEF ack_resp, advance
  <2>2. /\ pc["client"] = "ack_resp"
        /\ \/ pc'["client"] = "ack_resp" /\ idx' = idx
           \/ pc'["client"] = "idle"
    BY <1>a, <2>1, AdvanceStep
  <2> QED
    BY <1>b, <2>1, <2>2 DEF ClientSlots, At
<1>5. CASE client_try_send
  <2>1. \A l : Goto("client", l) => pc'["client"] = l /\ k'["client"] = 0
    BY <1>a, GotoIs
  <2>2. Again("client") => pc'["client"] = pc["client"]
    BY <1>a, AgainIs
  <2>3. \/ pc'["client"] \in {"send.is_ready", "send.full"}
        \/ pc'["client"] = "put_req" /\ k'["client"] = 0
    BY <1>5, <2>1, <2>2 DEF client_try_send, is_ready, q_full, compare_idx, compare_slots, compare_flags, At
  <2> QED
    BY <2>3 DEF ClientSlots, At
<1>6. CASE client_try_recv
  <2>1. \A l : Goto("client", l) => pc'["client"] = l
    BY <1>a, GotoIs
  <2>2. Again("client") => pc'["client"] = pc["client"]
    BY <1>a, AgainIs
  <2>3. pc'["client"] \in {"recv.is_ready", "recv.empty", "get_resp", "panic"}
    BY <1>6, <2>1, <2>2 DEF client_try_recv, is_ready, q_empty, compare_idx, compare_slots, compare_flags, At
  <2> QED
    BY <2>3 DEF ClientSlots, At
<1>7. CASE Reset \/ (\E kind \in Kinds : Call(kind)) \/ reset_req \/ reset_req_p2
  <2>1. \A l : Goto("client", l) => pc'["client"] = l
    BY <1>a, GotoIs
  <2>2. Again("client") => pc'["client"] = pc["client"]
    BY <1>a, AgainIs
  <2>3. pc'["client"] \in {"reset_req", "send.is_ready", "reset_req_p2", "idle"}
    BY <1>7, <2>1, <2>2 DEF Reset, Call, reset_req, reset_req_p2, clear, At
  <2> QED
    BY <2>3 DEF ClientSlots, At
<1> QED
  BY <1>1, <1>2, <1>3, <1>4, <1>5, <1>6, <1>7 DEF ClientStep

\* The server writes an answer slot only, and not the one the client takes.
LEMMA ClientSlotsByServer ==
    ASSUME TypeInv, HandshakeInv, RingInv, SlotsInv, ServerStep
    PROVE  ClientSlots'
<1>1. ServerKeeps /\ ClientSlots
  BY ServerFrame DEF SlotsInv
<1>2. pc["client"] \in {"put_req", "commit_req", "ack_resp"} => state = READY
  BY DEF HandshakeInv, InCall
<1>3. ASSUME At("client", "ack_resp")
      PROVE  resp_slot'[idx_masked(idx[<<"resp", "c">>])] = resp_slot[idx_masked(idx[<<"resp", "c">>])]
  <2> DEFINE c == idx[<<"resp", "c">>]
             p == idx[<<"resp", "p">>]
  <2>1. CASE put_resp /\ k["server"] = 1
    <3>1. state = READY /\ pc["server"] = "put_resp"
      BY <1>2, <1>3, <2>1 DEF put_resp, At
    <3>2. r["server"] = idx_masked(p) /\ ahead(c, p) < MB_MAX_ENTRIES
      BY <2>1, <3>1 DEF RingInv, ServerRings, Producing, At
    <3>3. ahead(c, p) > 0
      BY <1>3 DEF RingInv, ClientRings, Consuming, At
    <3>4. idx_masked(c) # idx_masked(p)
      BY <3>2, <3>3, IdxTypes, SlotsDiffer
    <3>5. resp_slot' = [resp_slot EXCEPT ![idx_masked(p)] = buf["server"]]
      BY <2>1, <3>2 DEF put_resp, load_slot
    <3> QED
      BY <3>4, <3>5, IdxSlots DEF TypeInv, TypeOK
  <2>2. CASE ~put_resp \/ k["server"] # 1
    <3>1. resp_slot' = resp_slot
      BY <2>2 DEF ServerStep, new, clear, wait_reset, reset_pre_ack, reset_ack, check_version,
                server_try_recv, get_req, ack_req, do_cmd, server_try_send, put_resp, commit_resp,
                is_ready, q_empty, q_full, compare_idx, advance, load_slot, shared
    <3> QED
      BY <3>1
  <2> QED
    BY <2>1, <2>2
<1> QED
  BY <1>1, <1>2, <1>3 DEF ServerKeeps, Stays, ClientSlots, At, ReqEntry

\* The client writes a request slot only, and not the one the server takes.
LEMMA ServerSlotsByClient ==
    ASSUME TypeInv, HandshakeInv, RingInv, SlotsInv, state' = READY,
           Reset \/ (\E kind \in Kinds : Call(kind)) \/ ClientStep
    PROVE  ServerSlots'
<1>1. ClientKeeps /\ state = READY /\ ServerSlots
  BY ClientFrame DEF SlotsInv, ClientKeeps
<1> DEFINE c == idx[<<"req", "c">>]
           p == idx[<<"req", "p">>]
<1>2. ASSUME pc["server"] \in {"get_req", "recv.is_ready3"}
      PROVE  req_slot'[idx_masked(c)] = req_slot[idx_masked(c)]
  <2>1. CASE put_req /\ k["client"] # 0
    <3>1. pc["client"] = "put_req"
      BY <2>1 DEF put_req, At
    <3>2. k["client"] \in {1, 2}
      BY <2>1 DEF put_req, load_slot
    <3>3. r["client"] = idx_masked(p) /\ ahead(c, p) < MB_MAX_ENTRIES
      BY <3>1, <3>2 DEF RingInv, ClientRings, Producing, At
    <3>4. ahead(c, p) > 0
      BY <1>1, <1>2 DEF RingInv, ServerRings, Consuming
    <3>5. idx_masked(c) # idx_masked(p)
      BY <3>3, <3>4, IdxTypes, SlotsDiffer
    <3>6. \/ req_slot' = [req_slot EXCEPT ![idx_masked(p)].head = buf["client"]]
          \/ req_slot' = [req_slot EXCEPT ![idx_masked(p)].args = buf["client"]]
      BY <2>1, <3>3 DEF put_req, load_slot
    <3> QED
      BY <3>5, <3>6, IdxSlots DEF TypeInv, TypeOK
  <2>2. CASE put_req /\ k["client"] = 0
    BY <2>2 DEF put_req, load_slot
  <2>3. CASE ~put_req
    <3>1. req_slot' = req_slot
      BY <2>3 DEF ClientStep, Reset, Call, reset_req, reset_req_p2, clear, client_try_send,
                  commit_req, client_try_recv, get_resp, ack_resp, is_ready, q_empty, q_full,
                  compare_idx, advance, shared
    <3> QED
      BY <3>1
  <2> QED
    BY <2>1, <2>2, <2>3
<1> QED
  BY <1>1, <1>2 DEF ClientKeeps, Stays, ServerSlots, At, ReqEntry

LEMMA ServerSlotsByServer ==
    ASSUME TypeInv, HandshakeInv, RingInv, SlotsInv, state' = READY, ServerStep
    PROVE  ServerSlots'
<1>a. "server" \in Proc
  OBVIOUS
<1>b. \A l : Goto("server", l) => pc'["server"] = l /\ k'["server"] = 0
  BY <1>a, GotoIs
<1>c. Again("server") => pc'["server"] = pc["server"] /\ k'["server"] = k["server"] + 1
  BY <1>a, AgainIs
<1>1. CASE get_req
  <2>1. /\ pc["server"] = "get_req" /\ state = READY /\ UNCHANGED <<idx, req_slot>>
    BY <1>1 DEF get_req, At, shared
  <2>2. ServerSlots /\ (k["server"] > 0 => r["server"] = idx_masked(idx[<<"req", "c">>]))
    BY <2>1 DEF SlotsInv, RingInv, ServerRings, Consuming, At
  <2>3. CASE load_slot("server", "req", "c")
    <3>1. pc'["server"] = "get_req" /\ k'["server"] = 1
      BY <2>1, <2>3, LoadStep
    <3> QED
      BY <3>1 DEF ServerSlots, At
  <2>4. CASE /\ k["server"] = 1 /\ Again("server")
             /\ buf' = [buf EXCEPT !["server"] = req_slot[r["server"]].head]
    <3>1. pc'["server"] = "get_req" /\ buf'["server"] = req_slot[r["server"]].head
      BY <1>c, <2>1, <2>4 DEF TypeInv, TypeOK
    <3> QED
      BY <2>1, <2>2, <2>4, <3>1 DEF ServerSlots, At
  <2>5. CASE /\ k["server"] = 2 /\ Goto("server", "recv.is_ready3")
             /\ buf' = [buf EXCEPT !["server"] = Merge(@, req_slot[r["server"]].args)]
    <3>1. /\ pc'["server"] = "recv.is_ready3"
          /\ buf'["server"] = Merge(buf["server"], req_slot[r["server"]].args)
      BY <1>b, <2>5 DEF TypeInv, TypeOK
    <3>2. buf["server"] = req_slot[idx_masked(idx[<<"req", "c">>])].head
          /\ r["server"] = idx_masked(idx[<<"req", "c">>])
      BY <2>1, <2>2, <2>5 DEF ServerSlots, At
    <3> QED
      BY <2>1, <3>1, <3>2 DEF ServerSlots, At, ReqEntry
  <2> QED
    BY <1>1, <2>3, <2>4, <2>5 DEF get_req
<1>2. CASE put_resp
  <2>1. /\ pc["server"] = "put_resp" /\ state = READY /\ UNCHANGED <<idx, buf>>
    BY <1>2 DEF put_resp, At
  <2>2. k["server"] > 0 => r["server"] = idx_masked(idx[<<"resp", "p">>])
    BY <2>1 DEF RingInv, ServerRings, Producing, At
  <2>3. CASE load_slot("server", "resp", "p")
    <3>1. pc'["server"] = "put_resp"
      BY <2>1, <2>3, LoadStep
    <3> QED
      BY <3>1 DEF ServerSlots, At
  <2>4. CASE /\ k["server"] = 1 /\ Goto("server", "commit_resp")
             /\ resp_slot' = [resp_slot EXCEPT ![r["server"]] = buf["server"]]
    <3>1. pc'["server"] = "commit_resp" /\ r["server"] = idx_masked(idx[<<"resp", "p">>])
      BY <1>b, <2>2, <2>4
    <3>2. resp_slot'[idx_masked(idx[<<"resp", "p">>])] = buf["server"]
      BY <2>4, <3>1, IdxSlots DEF TypeInv, TypeOK
    <3> QED
      BY <2>1, <3>1, <3>2 DEF ServerSlots, At
  <2> QED
    BY <1>2, <2>3, <2>4 DEF put_resp
<1>3. CASE commit_resp
  <2>1. /\ advance("server", "commit_resp", "resp", "p", "recv.is_ready")
        /\ UNCHANGED <<buf, resp_slot, state>>
    BY <1>3 DEF commit_resp, advance
  <2>2. /\ pc["server"] = "commit_resp"
        /\ \/ pc'["server"] = "commit_resp" /\ idx' = idx
           \/ pc'["server"] = "recv.is_ready"
    BY <1>a, <2>1, AdvanceStep
  <2> QED
    BY <2>1, <2>2 DEF SlotsInv, ServerSlots, At
<1>4. CASE server_try_recv
  <2>1. \/ pc'["server"] \in {"recv.empty", "wait_reset", "recv.is_ready2", "recv.is_ready", "ack_req"}
        \/ pc'["server"] = "get_req" /\ k'["server"] = 0
    BY <1>4, <1>b, <1>c DEF server_try_recv, is_ready, q_empty, compare_idx, compare_slots, compare_flags, At
  <2> QED
    BY <2>1 DEF ServerSlots, At
<1>5. CASE server_try_send
  <2>1. pc'["server"] \in {"resp.is_ready", "resp.full", "wait_reset", "put_resp"}
    BY <1>5, <1>b, <1>c DEF server_try_send, is_ready, q_full, compare_idx, compare_slots, compare_flags, At
  <2> QED
    BY <2>1 DEF ServerSlots, At
<1>6. CASE new \/ wait_reset \/ reset_pre_ack \/ reset_ack \/ check_version
  <2>1. pc'["server"] \in {"new", "wait_reset", "reset_pre_ack", "reset_ack", "check_version",
                           "recv.is_ready", "panic"}
    BY <1>6, <1>b, <1>c DEF new, wait_reset, reset_pre_ack, clear, reset_ack, check_version, At
  <2> QED
    BY <2>1 DEF ServerSlots, At
<1>7. CASE ack_req
  <2>1. advance("server", "ack_req", "req", "c", "do_cmd")
    BY <1>7 DEF ack_req
  <2>2. pc'["server"] \in {"ack_req", "do_cmd"}
    BY <1>a, <2>1, AdvanceStep
  <2> QED
    BY <2>2 DEF ServerSlots, At
<1>8. CASE do_cmd
  <2>1. pc'["server"] \in {"resp.is_ready", "recv.is_ready", "stopped", "panic"}
    BY <1>8, <1>b DEF do_cmd, AfterCmd
  <2> QED
    BY <2>1 DEF ServerSlots, At
<1> QED
  BY <1>1, <1>2, <1>3, <1>4, <1>5, <1>6, <1>7, <1>8 DEF ServerStep

LEMMA SlotsNext == TypeInv /\ HandshakeInv /\ RingInv /\ SlotsInv /\ [Next]_vars => SlotsInv'
<1> SUFFICES ASSUME TypeInv, HandshakeInv, RingInv, SlotsInv, [Next]_vars PROVE SlotsInv'
  OBVIOUS
<1>1. CASE UNCHANGED vars
  BY <1>1 DEF vars, SlotsInv, ClientSlots, ServerSlots, At, ReqEntry
<1>2. CASE Reset \/ (\E kind \in Kinds : Call(kind)) \/ ClientStep
  BY <1>2, ClientSlotsByClient, ServerSlotsByClient DEF SlotsInv
<1>3. CASE ServerStep
  BY <1>3, ClientSlotsByServer, ServerSlotsByServer DEF SlotsInv
<1> QED
  BY <1>1, <1>2, <1>3 DEF Next

-----------------------------------------------------------------------------
(* The kinds of steps there are, as Mailbox sees them.                      *)

SameClient ==
    /\ Sending' <=> Sending
    /\ Waiting' <=> Waiting
    /\ Resetting' <=> Resetting
    /\ buf'["client"] = buf["client"] /\ nreq' = nreq

SameServer ==
    /\ Taken' <=> Taken
    /\ Answering' <=> Answering
    /\ Serving => buf'["server"] = buf["server"]
    /\ served' = served

SameQueues == UNCHANGED <<LinkUp, Todo, Replies>>

Silent == SameClient /\ SameServer /\ SameQueues

\* Steps of the client ...
Aborts ==
    /\ Resetting' /\ ~Sending' /\ ~Waiting' /\ nreq' = nreq
    /\ SameQueues /\ SameServer

Calls ==
    /\ ~Sending /\ ~Waiting /\ ~Resetting
    /\ Sending' /\ ~Waiting' /\ ~Resetting'
    /\ nreq' = nreq + 1
    /\ buf'["client"] \in Msg /\ buf'["client"].id = nreq'
    /\ SameQueues /\ SameServer

GoesDown ==
    /\ ~LinkUp' /\ ~Sending' /\ ~Waiting' /\ nreq' = nreq
    /\ SameServer

Sends ==
    /\ Sending /\ ~Waiting /\ ~Resetting
    /\ ~Sending' /\ ~Resetting' /\ (Waiting' <=> buf["client"].kind = "Ok")
    /\ buf'["client"] = buf["client"] /\ nreq' = nreq
    /\ LinkUp /\ LinkUp' /\ Len(Todo) < MB_MAX_ENTRIES
    /\ Todo' = Append(Todo, buf["client"]) /\ Replies' = Replies
    /\ SameServer

Receives ==
    /\ Waiting /\ ~Sending /\ ~Resetting
    /\ ~Sending' /\ ~Waiting' /\ ~Resetting'
    /\ buf'["client"] = buf["client"] /\ nreq' = nreq
    /\ LinkUp /\ LinkUp' /\ Replies # <<>>
    /\ Replies' = Tail(Replies) /\ Todo' = Todo
    /\ SameServer

\* ... and of the server.
GoesUp ==
    /\ ~LinkUp /\ LinkUp' /\ Todo' = <<>> /\ Replies' = <<>>
    /\ ~Waiting /\ ~Serving
    /\ SameClient /\ SameServer

Takes ==
    /\ ~Serving /\ Taken' /\ ~Answering'
    /\ LinkUp /\ LinkUp' /\ Todo # <<>>
    /\ buf'["server"] = Head(Todo)
    /\ Todo' = Tail(Todo) /\ Replies' = Replies
    /\ served' = served /\ SameClient

Executes ==
    /\ Taken /\ ~Answering /\ ~Taken'
    /\ Answering' <=> buf["server"].kind = "Ok"
    /\ buf'["server"] = buf["server"] /\ served' = buf["server"].id
    /\ SameQueues /\ SameClient

Drops ==
    /\ Answering /\ ~Taken /\ ~Serving'
    /\ ~LinkUp /\ ~LinkUp'
    /\ served' = served /\ SameClient

Answers ==
    /\ Answering /\ ~Taken /\ ~Serving'
    /\ LinkUp /\ LinkUp' /\ Len(Replies) < MB_MAX_ENTRIES
    /\ Replies' = Append(Replies, buf["server"]) /\ Todo' = Todo
    /\ served' = served /\ SameClient

LEMMA KeepsSame ==
    /\ ServerKeeps => SameClient
    /\ ClientKeeps => SameServer /\ (At("server", "ack_req")' <=> At("server", "ack_req"))
BY DEF ServerKeeps, ClientKeeps, Stays, SameClient, SameServer, Sending, Waiting, Resetting,
       Taken, Answering, Serving, At

LEMMA ServingIs == (Serving <=> Taken \/ Answering) /\ (Serving' <=> Taken' \/ Answering')
BY DEF Serving, Taken, Answering

\* A write to the slot of the producer, or none, leaves the queues as they are.
LEMMA PutKeepsQueues ==
    ASSUME TypeInv, HandshakeInv, RingInv, UNCHANGED <<state, idx>>,
           At("server", "ack_req")' <=> At("server", "ack_req"),
           \/ UNCHANGED <<req_slot, resp_slot>>
           \/ /\ pc["client"] = "put_req" /\ resp_slot' = resp_slot
              /\ \A i \in Slot \ {idx_masked(idx[<<"req", "p">>])} : req_slot'[i] = req_slot[i]
           \/ /\ pc["server"] = "put_resp" /\ req_slot' = req_slot
              /\ \A i \in Slot \ {idx_masked(idx[<<"resp", "p">>])} : resp_slot'[i] = resp_slot[i]
    PROVE  SameQueues
<1>1. ReqHead' = ReqHead /\ ReqHead \in Idx
  BY ReqHeadIs DEF ReqHead
<1>2. QueuesAreRings /\ QueuesAreRings' /\ LinkUp' = LinkUp
  <2>1. ReqHead \in Int
    BY <1>1, QueueAssumption DEF Idx
  <2>2. (ReqHead \in Int)'
    BY <1>1, <2>1
  <2> QED
    BY <2>1, <2>2, QueuesAre, QueuesNext DEF LinkUp
<1>3. /\ idx[<<"req", "p">>] \in Idx /\ idx[<<"resp", "c">>] \in Idx /\ idx[<<"resp", "p">>] \in Idx
      /\ ReqEntries \in [Slot -> AnyMsg] /\ resp_slot \in [Slot -> AnyMsg]
  BY IdxTypes, EntryTypes
<1>4. CASE UNCHANGED <<req_slot, resp_slot>>
  <2>1. ReqEntries' = ReqEntries
    BY <1>4 DEF ReqEntries, ReqEntry
  <2> QED
    BY <1>1, <1>2, <1>4, <2>1 DEF QueuesAreRings, SameQueues
<1>5. CASE ~LinkUp
  BY <1>2, <1>5, QueuesDown DEF SameQueues
<1>6. CASE /\ pc["client"] = "put_req" /\ resp_slot' = resp_slot /\ LinkUp
           /\ \A i \in Slot \ {idx_masked(idx[<<"req", "p">>])} : req_slot'[i] = req_slot[i]
  <2>1. ahead(ReqHead, idx[<<"req", "p">>]) < MB_MAX_ENTRIES
    BY <1>6, ReqHeadIs
  <2>2. \A i \in Slot \ {idx_masked(idx[<<"req", "p">>])} : ReqEntries'[i] = ReqEntries[i]
    BY <1>6 DEF ReqEntries, ReqEntry
  <2>3. Ring(ReqEntries', ReqHead, idx[<<"req", "p">>])
           = Ring(ReqEntries, ReqHead, idx[<<"req", "p">>])
    BY <1>1, <1>3, <2>1, <2>2, RingKept
  <2> QED
    BY <1>1, <1>2, <1>6, <2>3 DEF QueuesAreRings, SameQueues
<1>7. CASE /\ pc["server"] = "put_resp" /\ req_slot' = req_slot /\ LinkUp
           /\ \A i \in Slot \ {idx_masked(idx[<<"resp", "p">>])} : resp_slot'[i] = resp_slot[i]
  <2>1. \A i \in Slot \ {idx_masked(idx[<<"resp", "p">>])} : resp_slot'[i] = resp_slot[i]
    BY <1>7
  <2>2. ahead(idx[<<"resp", "c">>], idx[<<"resp", "p">>]) < MB_MAX_ENTRIES
    BY <1>7 DEF RingInv, ServerRings, Producing, LinkUp
  <2>3. Ring(resp_slot', idx[<<"resp", "c">>], idx[<<"resp", "p">>])
           = Ring(resp_slot, idx[<<"resp", "c">>], idx[<<"resp", "p">>])
    BY <1>3, <2>1, <2>2, RingKept
  <2>4. ReqEntries' = ReqEntries
    BY <1>7 DEF ReqEntries, ReqEntry
  <2> QED
    BY <1>1, <1>2, <1>7, <2>3, <2>4 DEF QueuesAreRings, SameQueues
<1> QED
  BY <1>4, <1>5, <1>6, <1>7

\* A producer that has written the slot behind its ring publishes it.
LEMMA CommitPuts ==
    ASSUME NEW S, NEW f \in [Slot -> S], NEW c \in Idx, NEW p \in Idx,
           ahead(c, p) < MB_MAX_ENTRIES
    PROVE  Ring(f, c, wrapping_inc(p)) = Append(Ring(f, c, p), f[idx_masked(p)])
<1> DEFINE m == f[idx_masked(p)]
<1>1. idx_masked(p) \in Slot
  BY IndexTypes
<1>2. m \in S /\ [f EXCEPT ![idx_masked(p)] = m] = f
  BY <1>1
<1>3. Ring([f EXCEPT ![idx_masked(p)] = m], c, wrapping_inc(p)) = Append(Ring(f, c, p), m)
  <2>1. m \in S
    BY <1>2
  <2> HIDE DEF m
  <2> QED
    BY <2>1, RingPut, ZenonT(30)
<1> QED
  BY <1>2, <1>3

Base == TypeInv /\ HandshakeInv /\ RingInv /\ SlotsInv

ClientKinds == Silent \/ Aborts \/ Calls \/ GoesDown \/ Sends \/ Receives
ServerKinds == Silent \/ GoesUp \/ Takes \/ Executes \/ Drops \/ Answers

ClientLabelsMove ==
    /\ \A l : Goto("client", l) => pc'["client"] = l /\ k'["client"] = 0
    /\ Again("client") => pc'["client"] = pc["client"]

ServerLabelsMove ==
    /\ \A l : Goto("server", l) => pc'["server"] = l /\ k'["server"] = 0
    /\ Again("server") => pc'["server"] = pc["server"]

LEMMA LabelsMove == TypeInv => ClientLabelsMove /\ ServerLabelsMove
BY GotoIs, AgainIs DEF ClientLabelsMove, ServerLabelsMove

LEMMA CommitReqIs ==
    ASSUME Base, commit_req
    PROVE  Silent \/ Sends
<1> USE DEF Base
<1> DEFINE p == idx[<<"req", "p">>]
<1>1. ClientKeeps /\ SameServer /\ (At("server", "ack_req")' <=> At("server", "ack_req"))
  BY ClientFrame, KeepsSame DEF ClientStep
<1>2. /\ advance("client", "commit_req", "req", "p", AfterCommit)
      /\ UNCHANGED <<buf, nreq, req_slot, resp_slot>>
  BY DEF commit_req, advance, bounds
<1>3. /\ state' = state /\ pc["client"] = "commit_req"
      /\ \/ /\ pc'["client"] = "commit_req" /\ idx' = idx
         \/ /\ pc'["client"] = AfterCommit /\ k["client"] = 1
            /\ idx'[<<"req", "p">>] = wrapping_inc(r["client"])
            /\ \A z \in {"req", "resp"}, e \in {"p", "c"} :
                  <<z, e>> # <<"req", "p">> => idx'[<<z, e>>] = idx[<<z, e>>]
  BY <1>2, AdvanceStep
<1>4. CASE pc'["client"] = "commit_req" /\ idx' = idx
  <2>1. SameQueues
    BY <1>1, <1>2, <1>3, <1>4, PutKeepsQueues
  <2>2. SameClient
    BY <1>2, <1>3, <1>4 DEF SameClient, Sending, Waiting, Resetting, At
  <2> QED
    BY <1>1, <2>1, <2>2 DEF Silent
<1>5. CASE /\ pc'["client"] = AfterCommit /\ k["client"] = 1
           /\ idx'[<<"req", "p">>] = wrapping_inc(r["client"])
           /\ \A z \in {"req", "resp"}, e \in {"p", "c"} :
                 <<z, e>> # <<"req", "p">> => idx'[<<z, e>>] = idx[<<z, e>>]
  <2>1. /\ ReqHead \in Idx /\ LinkUp /\ ahead(ReqHead, p) < MB_MAX_ENTRIES
        /\ p \in Idx /\ r["client"] = p
    BY <1>3, <1>5, ReqHeadIs, IdxTypes DEF RingInv, ClientRings, Producing, At
  <2>2. ReqHead' = ReqHead /\ LinkUp'
    BY <1>1, <1>3, <1>5, <2>1 DEF ReqHead, LinkUp
  <2>3. QueuesAreRings /\ QueuesAreRings'
    <3>1. ReqHead \in Int
      BY <2>1, QueueAssumption DEF Idx
    <3>2. (ReqHead \in Int)'
      BY <2>2, <3>1
    <3> QED
      BY <3>1, <3>2, QueuesAre, QueuesNext
  <2>4. ReqEntries' = ReqEntries /\ resp_slot' = resp_slot
    BY <1>2 DEF ReqEntries, ReqEntry
  <2>5. ReqEntries[idx_masked(p)] = buf["client"]
    BY <1>3, IdxSlots DEF SlotsInv, ClientSlots, ReqEntries, At
  <2>6. Ring(ReqEntries, ReqHead, wrapping_inc(p))
           = Append(Ring(ReqEntries, ReqHead, p), ReqEntries[idx_masked(p)])
    <3>1. ReqEntries \in [Slot -> AnyMsg]
      BY EntryTypes
    <3> QED
      BY <2>1, <3>1, CommitPuts
  <2>7. Todo' = Append(Todo, buf["client"]) /\ Replies' = Replies
    <3>1. Todo = Ring(ReqEntries, ReqHead, p)
      BY <2>1, <2>3 DEF QueuesAreRings
    <3>2. Todo' = Ring(ReqEntries, ReqHead, wrapping_inc(p))
      BY <1>5, <2>1, <2>2, <2>3, <2>4 DEF QueuesAreRings
    <3>3. Replies' = Replies
      BY <1>5, <2>1, <2>2, <2>3, <2>4 DEF QueuesAreRings
    <3> QED
      BY <2>5, <2>6, <3>1, <3>2, <3>3
  <2>8. Len(Todo) < MB_MAX_ENTRIES
    BY <2>1, QueueTypes
  <2>9. pc'["client"] = IF buf["client"].kind = "Ok" THEN "recv.is_ready" ELSE "idle"
    BY <1>5 DEF AfterCommit
  <2> QED
    BY <1>1, <1>2, <1>3, <2>1, <2>2, <2>7, <2>8, <2>9
       DEF Sends, Sending, Waiting, Resetting, At
<1> QED
  BY <1>3, <1>4, <1>5

LEMMA AckRespIs ==
    ASSUME Base, ack_resp
    PROVE  Silent \/ Receives
<1> USE DEF Base
<1> DEFINE c == idx[<<"resp", "c">>]
           p == idx[<<"resp", "p">>]
<1>1. ClientKeeps /\ SameServer /\ (At("server", "ack_req")' <=> At("server", "ack_req"))
  BY ClientFrame, KeepsSame DEF ClientStep
<1>2. /\ advance("client", "ack_resp", "resp", "c", "idle")
      /\ UNCHANGED <<buf, nreq, req_slot, resp_slot>>
  BY DEF ack_resp, advance, bounds
<1>3. /\ state' = state /\ pc["client"] = "ack_resp"
      /\ \/ /\ pc'["client"] = "ack_resp" /\ idx' = idx
         \/ /\ pc'["client"] = "idle" /\ k["client"] = 1
            /\ idx'[<<"resp", "c">>] = wrapping_inc(r["client"])
            /\ \A z \in {"req", "resp"}, e \in {"p", "c"} :
                  <<z, e>> # <<"resp", "c">> => idx'[<<z, e>>] = idx[<<z, e>>]
  BY <1>2, AdvanceStep
<1>4. CASE pc'["client"] = "ack_resp" /\ idx' = idx
  <2>1. SameQueues
    BY <1>1, <1>2, <1>3, <1>4, PutKeepsQueues
  <2>2. SameClient
    BY <1>2, <1>3, <1>4 DEF SameClient, Sending, Waiting, Resetting, At
  <2> QED
    BY <1>1, <2>1, <2>2 DEF Silent
<1>5. CASE /\ pc'["client"] = "idle" /\ k["client"] = 1
           /\ idx'[<<"resp", "c">>] = wrapping_inc(r["client"])
           /\ \A z \in {"req", "resp"}, e \in {"p", "c"} :
                 <<z, e>> # <<"resp", "c">> => idx'[<<z, e>>] = idx[<<z, e>>]
  <2>1. /\ LinkUp /\ LinkUp' /\ ahead(c, p) > 0 /\ r["client"] = c
        /\ c \in Idx /\ p \in Idx /\ ReqHead \in Idx
    BY <1>3, <1>5, ReqHeadIs, IdxTypes
       DEF HandshakeInv, InCall, LinkUp, RingInv, ClientRings, Consuming, At
  <2>2. ReqHead' = ReqHead
    BY <1>1, <1>5 DEF ReqHead
  <2>3. QueuesAreRings /\ QueuesAreRings'
    <3>1. ReqHead \in Int
      BY <2>1, QueueAssumption DEF Idx
    <3>2. (ReqHead \in Int)'
      BY <2>2, <3>1
    <3> QED
      BY <3>1, <3>2, QueuesAre, QueuesNext
  <2>4. ReqEntries' = ReqEntries /\ resp_slot' = resp_slot
    BY <1>2 DEF ReqEntries, ReqEntry
  <2>5. /\ Ring(resp_slot, c, p) # <<>>
        /\ Ring(resp_slot, wrapping_inc(c), p) = Tail(Ring(resp_slot, c, p))
    <3>1. resp_slot \in [Slot -> AnyMsg]
      BY EntryTypes
    <3> QED
      BY <2>1, <3>1, RingTake
  <2>6. Replies # <<>> /\ Replies' = Tail(Replies) /\ Todo' = Todo
    <3>1. Replies = Ring(resp_slot, c, p) /\ Todo = Ring(ReqEntries, ReqHead, idx[<<"req", "p">>])
      BY <2>1, <2>3 DEF QueuesAreRings
    <3>2. /\ Replies' = Ring(resp_slot, wrapping_inc(c), p)
          /\ Todo' = Ring(ReqEntries, ReqHead, idx[<<"req", "p">>])
      BY <1>5, <2>1, <2>2, <2>3, <2>4 DEF QueuesAreRings
    <3> QED
      BY <2>5, <3>1, <3>2
  <2> QED
    BY <1>1, <1>2, <1>3, <1>5, <2>1, <2>6 DEF Receives, Sending, Waiting, Resetting, At
<1> QED
  BY <1>3, <1>4, <1>5

LEMMA ClientEffect ==
    ASSUME Base, Reset \/ (\E kind \in Kinds : Call(kind)) \/ ClientStep
    PROVE  ClientKinds
<1> USE DEF Base
<1>a. ClientKeeps /\ SameServer /\ (At("server", "ack_req")' <=> At("server", "ack_req"))
  BY ClientFrame, KeepsSame
<1>b. ClientLabelsMove
  BY LabelsMove
<1>c. UNCHANGED shared => SameQueues
  BY <1>a, QueuesKept DEF SameQueues
<1>1. CASE Reset
  <2>1. pc'["client"] = "reset_req" /\ UNCHANGED <<shared, nreq>>
    BY <1>1, <1>b DEF Reset, ClientLabelsMove
  <2> QED
    BY <1>a, <1>c, <2>1 DEF ClientKinds, Aborts, Sending, Waiting, Resetting, At
<1>2. CASE \E kind \in Kinds : Call(kind)
  <2>1. PICK kind \in Kinds : Call(kind)
    BY <1>2
  <2>2. pc["client"] = "idle" /\ pc'["client"] = "send.is_ready" /\ UNCHANGED shared
        /\ nreq' = nreq + 1 /\ nreq < MaxReq /\ buf' = [buf EXCEPT !["client"] = [id |-> nreq + 1, kind |-> kind]]
    BY <2>1, <1>b DEF Call, ClientLabelsMove, At
  <2>3. nreq \in Nat /\ buf'["client"] = [id |-> nreq + 1, kind |-> kind]
    BY <2>2, ChannelAssumption DEF TypeInv, TypeOK
  <2>4. buf'["client"] \in Msg /\ buf'["client"].id = nreq'
    BY <2>2, <2>3, ChannelAssumption DEF Msg
  <2>5. Calls
    BY <1>a, <1>c, <2>2, <2>4 DEF Calls, Sending, Waiting, Resetting, At
  <2> QED
    BY <2>5 DEF ClientKinds
<1>3. CASE reset_req
  <2>1. pc["client"] = "reset_req" /\ UNCHANGED <<idx, req_slot, resp_slot, buf, nreq>>
    BY <1>3 DEF reset_req, At, bounds
  <2>2. CASE Again("client") /\ state' = state
    <3>1. pc'["client"] = "reset_req"
      BY <1>b, <2>1, <2>2 DEF ClientLabelsMove
    <3>2. SameQueues
      BY <1>a, <2>1, <2>2, PutKeepsQueues
    <3> QED
      BY <1>a, <2>1, <3>1, <3>2 DEF ClientKinds, Silent, SameClient, Sending, Waiting, Resetting, At
  <2>3. CASE Goto("client", "reset_req_p2") /\ state' = INIT
    <3>1. pc'["client"] = "reset_req_p2" /\ ~LinkUp'
      BY <1>b, <2>3 DEF ClientLabelsMove, LinkUp
    <3> QED
      BY <1>a, <2>1, <3>1 DEF ClientKinds, GoesDown, Sending, Waiting
  <2> QED
    BY <1>3, <2>2, <2>3 DEF reset_req
<1>4. CASE reset_req_p2
  <2>1. /\ pc["client"] = "reset_req_p2" /\ state' = state /\ UNCHANGED <<req_slot, resp_slot, buf, nreq>>
        /\ idx' = [idx EXCEPT ![ClearOrder[k["client"] + 1]] = 0]
        /\ k["client"] \in 0 .. 3
    BY <1>4 DEF reset_req_p2, clear, At, bounds, TypeInv, ClearLabels
  <2>2. pc'["client"] \in {"reset_req_p2", "idle"}
    BY <1>4, <1>b, <2>1 DEF reset_req_p2, clear, ClientLabelsMove
  <2>3. SameQueues
    <3>1. CASE LinkUp
      <4>1. AllZero /\ idx \in [Words -> Idx] /\ ClearOrder[k["client"] + 1] \in Words
        BY <2>1, <3>1 DEF RingInv, LateClear, LinkUp, At, TypeInv, TypeOK, ClearOrder, Words
      <4>2. idx' = idx
        BY <2>1, <4>1 DEF AllZero
      <4> QED
        BY <1>a, <2>1, <4>2, PutKeepsQueues
    <3>2. CASE ~LinkUp
      <4>1. LinkUp' = LinkUp
        BY <2>1 DEF LinkUp
      <4> QED
        BY <3>2, <4>1, QueuesDown DEF SameQueues
    <3> QED
      BY <3>1, <3>2
  <2>4. SameClient
    BY <2>1, <2>2 DEF SameClient, Sending, Waiting, Resetting, At
  <2> QED
    BY <1>a, <2>3, <2>4 DEF ClientKinds, Silent
<1>5. CASE client_try_send
  <2>1. /\ pc["client"] \in {"send.is_ready", "send.full"}
        /\ pc'["client"] \in {"send.is_ready", "send.full", "put_req"}
        /\ UNCHANGED <<shared, buf, nreq>>
    BY <1>5, <1>b DEF client_try_send, is_ready, q_full, compare_idx, compare_slots, compare_flags,
                      ClientLabelsMove, At, bounds
  <2>2. SameClient
    BY <2>1 DEF SameClient, Sending, Waiting, Resetting, At
  <2> QED
    BY <1>a, <1>c, <2>1, <2>2 DEF ClientKinds, Silent
<1>6. CASE put_req
  <2>1. /\ pc["client"] = "put_req" /\ pc'["client"] \in {"put_req", "commit_req"}
        /\ UNCHANGED <<state, idx, resp_slot, buf, nreq>>
    BY <1>6, <1>b DEF put_req, load_slot, ClientLabelsMove, At, bounds
  <2>2. \A i \in Slot \ {idx_masked(idx[<<"req", "p">>])} : req_slot'[i] = req_slot[i]
    <3>1. k["client"] > 0 => r["client"] = idx_masked(idx[<<"req", "p">>])
      BY <2>1 DEF RingInv, ClientRings, Producing, At
    <3> QED
      BY <1>6, <3>1 DEF put_req, load_slot, TypeInv, TypeOK
  <2>3. SameQueues
    BY <1>a, <2>1, <2>2, PutKeepsQueues
  <2>4. SameClient
    BY <2>1 DEF SameClient, Sending, Waiting, Resetting, At
  <2> QED
    BY <1>a, <2>3, <2>4 DEF ClientKinds, Silent
<1>7. CASE client_try_recv
  <2>1. /\ pc["client"] \in {"recv.is_ready", "recv.empty"} /\ UNCHANGED <<shared, buf, nreq>>
        /\ pc'["client"] \in {"recv.is_ready", "recv.empty", "get_resp", "panic"}
    BY <1>7, <1>b DEF client_try_recv, is_ready, q_empty, compare_idx, compare_slots, compare_flags,
                      ClientLabelsMove, At, bounds
  <2>2. pc'["client"] # "panic"
    <3>1. state = READY
      BY <2>1 DEF HandshakeInv, InCall
    <3> QED
      BY <1>7, <1>b, <2>1, <3>1 DEF client_try_recv, is_ready, q_empty, compare_idx, compare_slots,
                                    compare_flags, ClientLabelsMove, At
  <2>3. SameClient
    BY <2>1, <2>2 DEF SameClient, Sending, Waiting, Resetting, At
  <2> QED
    BY <1>a, <1>c, <2>1, <2>3 DEF ClientKinds, Silent
<1>8. CASE get_resp
  <2>1. /\ pc["client"] = "get_resp" /\ pc'["client"] \in {"get_resp", "ack_resp"}
        /\ UNCHANGED <<shared, buf, nreq>>
    BY <1>8, <1>b DEF get_resp, load_slot, ClientLabelsMove, At, bounds
  <2>2. SameClient
    BY <2>1 DEF SameClient, Sending, Waiting, Resetting, At
  <2> QED
    BY <1>a, <1>c, <2>1, <2>2 DEF ClientKinds, Silent
<1>9. CASE commit_req
  BY <1>9, CommitReqIs DEF ClientKinds
<1>10. CASE ack_resp
  BY <1>10, AckRespIs DEF ClientKinds
<1> QED
  BY <1>1, <1>2, <1>3, <1>4, <1>5, <1>6, <1>7, <1>8, <1>9, <1>10 DEF ClientStep

LEMMA TakeIs ==
    ASSUME Base, is_ready("server", "recv.is_ready3", "ack_req", "wait_reset"), server_try_recv
    PROVE  Silent \/ Takes
<1> USE DEF Base
<1> DEFINE c == idx[<<"req", "c">>]
           p == idx[<<"req", "p">>]
<1>1. SameClient /\ UNCHANGED <<shared, buf, served>>
  BY ServerFrame, KeepsSame DEF ServerStep, server_try_recv, is_ready
<1>2. /\ pc["server"] = "recv.is_ready3"
      /\ pc'["server"] = (IF state = READY THEN "ack_req" ELSE "wait_reset")
  BY ReadyStep
<1>3. CASE ~LinkUp
  <2>1. pc'["server"] = "wait_reset"
    BY <1>2, <1>3 DEF LinkUp
  <2>2. SameQueues
    BY <1>1, <1>2, <2>1, QueuesKept DEF SameQueues, At
  <2> QED
    BY <1>1, <1>2, <2>1, <2>2 DEF Silent, SameServer, Taken, Answering, Serving
<1>4. CASE LinkUp
  <2>1. pc'["server"] = "ack_req" /\ LinkUp' /\ idx' = idx
    BY <1>1, <1>2, <1>4 DEF LinkUp, shared
  <2>2. c \in Idx /\ p \in Idx /\ ahead(c, p) > 0
    BY <1>2, <1>4, IdxTypes DEF LinkUp, RingInv, ServerRings, Consuming
  <2>3. ReqHead = c /\ ReqHead' = wrapping_inc(c)
    BY <1>2, <2>1 DEF ReqHead, At
  <2>4. QueuesAreRings /\ QueuesAreRings'
    <3>1. ReqHead \in Int
      BY <2>2, <2>3, QueueAssumption DEF Idx
    <3>2. (ReqHead \in Int)'
      BY <2>2, <2>3, IndexTypes, QueueAssumption DEF Idx
    <3> QED
      BY <3>1, <3>2, QueuesAre, QueuesNext
  <2>5. ReqEntries' = ReqEntries /\ resp_slot' = resp_slot
    BY <1>1 DEF ReqEntries, ReqEntry, shared
  <2>6. /\ Ring(ReqEntries, c, p) # <<>> /\ Head(Ring(ReqEntries, c, p)) = ReqEntries[idx_masked(c)]
        /\ Ring(ReqEntries, wrapping_inc(c), p) = Tail(Ring(ReqEntries, c, p))
    <3>1. ReqEntries \in [Slot -> AnyMsg]
      BY EntryTypes
    <3> QED
      BY <2>2, <3>1, RingTake
  <2>7. ReqEntries[idx_masked(c)] = buf["server"]
    BY <1>2, <1>4, IdxSlots DEF LinkUp, SlotsInv, ServerSlots, ReqEntries, At
  <2>8. Todo = Ring(ReqEntries, c, p) /\ Todo' = Ring(ReqEntries, wrapping_inc(c), p) /\ Replies' = Replies
    BY <1>4, <2>1, <2>3, <2>4, <2>5 DEF QueuesAreRings
  <2>9. Todo # <<>> /\ buf'["server"] = Head(Todo) /\ Todo' = Tail(Todo)
    BY <1>1, <2>6, <2>7, <2>8
  <2> QED
    BY <1>1, <1>2, <1>4, <2>1, <2>8, <2>9 DEF Takes, Taken, Answering, Serving
<1> QED
  BY <1>3, <1>4

\* The index of a request that is already taken is published, or lost to a reset.
LEMMA AckReqIs ==
    ASSUME Base, ack_req
    PROVE  Silent
<1> USE DEF Base
<1> DEFINE c == idx[<<"req", "c">>]
           p == idx[<<"req", "p">>]
<1>1. SameClient /\ UNCHANGED <<buf, served, state, req_slot, resp_slot>>
  BY ServerFrame, KeepsSame DEF ServerStep, ack_req, advance
<1>2. advance("server", "ack_req", "req", "c", "do_cmd")
  BY DEF ack_req
<1>3. /\ pc["server"] = "ack_req"
      /\ \/ /\ pc'["server"] = "ack_req" /\ idx' = idx
         \/ /\ pc'["server"] = "do_cmd" /\ k["server"] = 1
            /\ idx'[<<"req", "c">>] = wrapping_inc(r["server"])
            /\ \A z \in {"req", "resp"}, e \in {"p", "c"} :
                  <<z, e>> # <<"req", "c">> => idx'[<<z, e>>] = idx[<<z, e>>]
  BY <1>2, AdvanceStep
<1>4. SameServer
  BY <1>1, <1>3 DEF SameServer, Taken, Answering, Serving
<1>5. SameQueues
  <2>1. CASE ~LinkUp
    <3>1. LinkUp' = LinkUp
      BY <1>1 DEF LinkUp
    <3> QED
      BY <2>1, <3>1, QueuesDown DEF SameQueues
  <2>2. CASE pc'["server"] = "ack_req" /\ idx' = idx
    BY <1>1, <1>3, <2>2, PutKeepsQueues DEF At
  <2>3. CASE /\ LinkUp /\ pc'["server"] = "do_cmd" /\ k["server"] = 1
             /\ idx'[<<"req", "c">>] = wrapping_inc(r["server"])
             /\ \A z \in {"req", "resp"}, e \in {"p", "c"} :
                   <<z, e>> # <<"req", "c">> => idx'[<<z, e>>] = idx[<<z, e>>]
    <3>1. r["server"] = c
      BY <1>3, <2>3 DEF LinkUp, RingInv, ServerRings, Consuming, At
    <3>2. ReqHead' = ReqHead /\ LinkUp' = LinkUp
      BY <1>1, <1>3, <2>3, <3>1 DEF ReqHead, LinkUp, At
    <3>3. QueuesAreRings /\ QueuesAreRings'
      <4>1. ReqHead \in Idx
        BY ReqHeadIs
      <4>2. ReqHead \in Int
        BY <4>1, QueueAssumption DEF Idx
      <4>3. (ReqHead \in Int)'
        BY <3>2, <4>2
      <4> QED
        BY <4>2, <4>3, QueuesAre, QueuesNext
    <3>4. ReqEntries' = ReqEntries /\ resp_slot' = resp_slot
      BY <1>1 DEF ReqEntries, ReqEntry
    <3> QED
      BY <2>3, <3>2, <3>3, <3>4 DEF QueuesAreRings, SameQueues
  <2> QED
    BY <1>3, <2>1, <2>2, <2>3
<1> QED
  BY <1>1, <1>4, <1>5 DEF Silent

LEMMA CommitRespIs ==
    ASSUME Base, commit_resp
    PROVE  Silent \/ Drops \/ Answers
<1> USE DEF Base
<1> DEFINE c == idx[<<"resp", "c">>]
           p == idx[<<"resp", "p">>]
<1>1. SameClient /\ UNCHANGED <<buf, served, state, req_slot, resp_slot>>
  BY ServerFrame, KeepsSame DEF ServerStep, commit_resp, advance
<1>2. advance("server", "commit_resp", "resp", "p", "recv.is_ready")
  BY DEF commit_resp
<1>3. /\ pc["server"] = "commit_resp"
      /\ \/ /\ pc'["server"] = "commit_resp" /\ idx' = idx
         \/ /\ pc'["server"] = "recv.is_ready" /\ k["server"] = 1
            /\ idx'[<<"resp", "p">>] = wrapping_inc(r["server"])
            /\ \A z \in {"req", "resp"}, e \in {"p", "c"} :
                  <<z, e>> # <<"resp", "p">> => idx'[<<z, e>>] = idx[<<z, e>>]
  BY <1>2, AdvanceStep
<1>4. CASE pc'["server"] = "commit_resp" /\ idx' = idx
  <2>1. SameQueues
    BY <1>1, <1>3, <1>4, PutKeepsQueues DEF At
  <2> QED
    BY <1>1, <1>3, <1>4, <2>1 DEF Silent, SameServer, Taken, Answering, Serving
<1>5. CASE ~LinkUp /\ pc'["server"] = "recv.is_ready"
  <2>1. ~LinkUp'
    BY <1>1, <1>5 DEF LinkUp
  <2> QED
    BY <1>1, <1>3, <1>5, <2>1 DEF Drops, Taken, Answering, Serving
<1>6. CASE /\ LinkUp /\ pc'["server"] = "recv.is_ready" /\ k["server"] = 1
           /\ idx'[<<"resp", "p">>] = wrapping_inc(r["server"])
           /\ \A z \in {"req", "resp"}, e \in {"p", "c"} :
                 <<z, e>> # <<"resp", "p">> => idx'[<<z, e>>] = idx[<<z, e>>]
  <2>1. /\ r["server"] = p /\ c \in Idx /\ p \in Idx /\ ahead(c, p) < MB_MAX_ENTRIES
        /\ ReqHead \in Idx
    BY <1>3, <1>6, ReqHeadIs, IdxTypes DEF LinkUp, RingInv, ServerRings, Producing, At
  <2>2. ReqHead' = ReqHead /\ LinkUp'
    BY <1>1, <1>3, <1>6 DEF ReqHead, LinkUp, At
  <2>3. QueuesAreRings /\ QueuesAreRings'
    <3>1. ReqHead \in Int
      BY <2>1, QueueAssumption DEF Idx
    <3>2. (ReqHead \in Int)'
      BY <2>2, <3>1
    <3> QED
      BY <3>1, <3>2, QueuesAre, QueuesNext
  <2>4. ReqEntries' = ReqEntries /\ resp_slot' = resp_slot
    BY <1>1 DEF ReqEntries, ReqEntry
  <2>5. resp_slot[idx_masked(p)] = buf["server"]
    BY <1>3, <1>6 DEF LinkUp, SlotsInv, ServerSlots, At
  <2>6. Ring(resp_slot, c, wrapping_inc(p)) = Append(Ring(resp_slot, c, p), resp_slot[idx_masked(p)])
    <3>1. resp_slot \in [Slot -> AnyMsg]
      BY EntryTypes
    <3> QED
      BY <2>1, <3>1, CommitPuts
  <2>7. Replies' = Append(Replies, buf["server"]) /\ Todo' = Todo
    <3>1. Replies = Ring(resp_slot, c, p) /\ Todo = Ring(ReqEntries, ReqHead, idx[<<"req", "p">>])
      BY <1>6, <2>3 DEF QueuesAreRings
    <3>2. /\ Replies' = Ring(resp_slot, c, wrapping_inc(p))
          /\ Todo' = Ring(ReqEntries, ReqHead, idx[<<"req", "p">>])
      BY <1>6, <2>1, <2>2, <2>3, <2>4 DEF QueuesAreRings
    <3> QED
      BY <2>5, <2>6, <3>1, <3>2
  <2>8. Len(Replies) < MB_MAX_ENTRIES
    BY <1>6, <2>1, QueueTypes
  <2> QED
    BY <1>1, <1>3, <1>6, <2>2, <2>7, <2>8 DEF Answers, Taken, Answering, Serving
<1> QED
  BY <1>3, <1>4, <1>5, <1>6

\* The handshake and its clears move nothing but the link.
LEMMA HandshakeIs ==
    ASSUME Base, new \/ wait_reset \/ reset_pre_ack \/ reset_ack \/ check_version
    PROVE  Silent \/ GoesUp
<1> USE DEF Base
<1>a. SameClient /\ UNCHANGED <<buf, served>>
  BY ServerFrame, KeepsSame DEF ServerStep, new, wait_reset, reset_pre_ack, reset_ack, check_version, bounds
<1>b. ServerLabelsMove
  BY LabelsMove
<1>c. Detached => ~LinkUp
  BY DEF RingInv, LinkUp
<1>d. /\ pc["server"] \in {"new", "wait_reset", "reset_pre_ack", "reset_ack", "check_version"}
      /\ pc'["server"] \in {"new", "wait_reset", "reset_pre_ack", "reset_ack", "check_version",
                            "recv.is_ready", "panic"}
  BY <1>b DEF new, wait_reset, reset_pre_ack, clear, reset_ack, check_version, ServerLabelsMove, At
<1>e. SameServer
  BY <1>a, <1>d DEF SameServer, Taken, Answering, Serving
<1>1. CASE reset_ack
  <2>1. pc["server"] = "reset_ack" /\ idx' = idx /\ LinkUp'
    BY <1>1 DEF reset_ack, At, LinkUp
  <2>2. AllZero /\ ~LinkUp
    BY <1>c, <2>1 DEF RingInv, ClearedSoFar, Detached, At
  <2>3. ReqHead' = 0 /\ idx'[<<"req", "p">>] = 0 /\ idx'[<<"resp", "c">>] = 0 /\ idx'[<<"resp", "p">>] = 0
    BY <1>d, <2>1, <2>2, <1>1, <1>b DEF reset_ack, ServerLabelsMove, ReqHead, AllZero, Words, At
  <2>4. QueuesAreRings'
    <3>1. (ReqHead \in Int)'
      BY <2>3
    <3> QED
      BY <3>1, QueuesNext
  <2>5. \A f : Ring(f, 0, 0) = <<>>
    <3>1. ahead(0, 0) = 0
      BY AheadSteps, ZeroIsIndex
    <3> QED
      BY <3>1 DEF Ring
  <2>6. Todo' = <<>> /\ Replies' = <<>>
    BY <2>1, <2>3, <2>4, <2>5 DEF QueuesAreRings
  <2>7. ~Waiting /\ ~Serving
    BY <2>1, <2>2 DEF HandshakeInv, InCall, Waiting, Serving, LinkUp
  <2> QED
    BY <1>a, <1>e, <2>1, <2>2, <2>6, <2>7 DEF GoesUp
<1>2. CASE new \/ reset_pre_ack
  <2>1. state' = state /\ Detached
    BY <1>2 DEF new, reset_pre_ack, clear, Detached, At
  <2>2. ~LinkUp /\ LinkUp' = LinkUp
    BY <1>c, <2>1 DEF LinkUp
  <2> QED
    BY <1>a, <1>e, <2>2, QueuesDown DEF Silent, SameQueues
<1>3. CASE wait_reset \/ check_version
  <2>1. UNCHANGED shared
    BY <1>3 DEF wait_reset, check_version
  <2>2. SameQueues
    BY <1>d, <2>1, QueuesKept DEF SameQueues, At
  <2> QED
    BY <1>a, <1>e, <2>2 DEF Silent
<1> QED
  BY <1>1, <1>2, <1>3

LEMMA ServerEffect ==
    ASSUME Base, ServerStep
    PROVE  ServerKinds
<1> USE DEF Base
<1>a. SameClient
  BY ServerFrame, KeepsSame
<1>b. ServerLabelsMove
  BY LabelsMove
<1>c. UNCHANGED shared /\ (At("server", "ack_req")' <=> At("server", "ack_req")) => SameQueues
  BY QueuesKept DEF SameQueues
<1>1. CASE new \/ wait_reset \/ reset_pre_ack \/ reset_ack \/ check_version
  BY <1>1, HandshakeIs DEF ServerKinds
<1>2. CASE server_try_recv
  <2>1. CASE is_ready("server", "recv.is_ready3", "ack_req", "wait_reset")
    BY <1>2, <2>1, TakeIs DEF ServerKinds
  <2>2. CASE \/ is_ready("server", "recv.is_ready", "recv.empty", "wait_reset")
             \/ q_empty("server", "recv.empty", "req", "recv.is_ready2", "get_req")
             \/ is_ready("server", "recv.is_ready2", "recv.is_ready", "wait_reset")
    <3>1. /\ pc["server"] \in {"recv.is_ready", "recv.empty", "recv.is_ready2"}
          /\ pc'["server"] \in {"recv.is_ready", "recv.empty", "recv.is_ready2", "wait_reset", "get_req"}
          /\ UNCHANGED shared
      BY <2>2, <1>b DEF is_ready, q_empty, compare_idx, compare_slots, compare_flags, ServerLabelsMove, At
    <3>2. UNCHANGED <<buf, served>>
      BY <1>2 DEF server_try_recv
    <3>3. SameServer
      BY <3>1, <3>2 DEF SameServer, Taken, Answering, Serving
    <3> QED
      BY <1>a, <1>c, <3>1, <3>3 DEF ServerKinds, Silent, At
  <2> QED
    BY <1>2, <2>1, <2>2 DEF server_try_recv
<1>3. CASE get_req
  <2>1. /\ pc["server"] = "get_req" /\ pc'["server"] \in {"get_req", "recv.is_ready3"}
        /\ UNCHANGED <<shared, served>>
    BY <1>3, <1>b DEF get_req, load_slot, ServerLabelsMove, At
  <2>2. SameServer
    BY <2>1 DEF SameServer, Taken, Answering, Serving
  <2> QED
    BY <1>a, <1>c, <2>1, <2>2 DEF ServerKinds, Silent, At
<1>4. CASE ack_req
  BY <1>4, AckReqIs DEF ServerKinds
<1>5. CASE do_cmd
  <2>1. /\ pc["server"] = "do_cmd" /\ UNCHANGED <<shared, buf>> /\ served' = buf["server"].id
        /\ pc'["server"] = AfterCmd(buf["server"].kind)
    BY <1>5, <1>b DEF do_cmd, ServerLabelsMove, At
  <2>2. /\ pc'["server"] \in {"resp.is_ready", "recv.is_ready", "stopped", "panic"}
        /\ pc'["server"] = "resp.is_ready" <=> buf["server"].kind = "Ok"
    BY <2>1 DEF AfterCmd
  <2>3. Executes
    BY <1>a, <1>c, <2>1, <2>2 DEF Executes, Taken, Answering, At
  <2> QED
    BY <2>3 DEF ServerKinds
<1>6. CASE server_try_send
  <2>1. UNCHANGED <<buf, served>>
    BY <1>6 DEF server_try_send
  <2>2. CASE is_ready("server", "resp.is_ready", "resp.full", "wait_reset")
    <3>1. /\ pc["server"] = "resp.is_ready" /\ UNCHANGED shared
          /\ pc'["server"] = (IF LinkUp THEN "resp.full" ELSE "wait_reset")
      BY <2>2, ReadyStep DEF is_ready, LinkUp
    <3>2. CASE LinkUp
      <4>1. SameServer
        BY <2>1, <3>1, <3>2 DEF SameServer, Taken, Answering, Serving
      <4> QED
        BY <1>a, <1>c, <3>1, <3>2, <4>1 DEF ServerKinds, Silent, At
    <3>3. CASE ~LinkUp
      <4>1. ~LinkUp'
        BY <3>1, <3>3 DEF LinkUp, shared
      <4>2. Drops
        BY <1>a, <2>1, <3>1, <3>3, <4>1 DEF Drops, Taken, Answering, Serving
      <4> QED
        BY <4>2 DEF ServerKinds
    <3> QED
      BY <3>2, <3>3
  <2>3. CASE q_full("server", "resp.full", "resp", "resp.is_ready", "put_resp")
    <3>1. /\ pc["server"] = "resp.full" /\ UNCHANGED shared
          /\ pc'["server"] \in {"resp.full", "resp.is_ready", "put_resp"}
      BY <2>3, <1>b DEF q_full, compare_idx, compare_slots, compare_flags, ServerLabelsMove, At
    <3>2. SameServer
      BY <2>1, <3>1 DEF SameServer, Taken, Answering, Serving
    <3> QED
      BY <1>a, <1>c, <3>1, <3>2 DEF ServerKinds, Silent, At
  <2> QED
    BY <1>6, <2>2, <2>3 DEF server_try_send
<1>7. CASE put_resp
  <2>1. /\ pc["server"] = "put_resp" /\ pc'["server"] \in {"put_resp", "commit_resp"}
        /\ UNCHANGED <<state, idx, req_slot, buf, served>>
    BY <1>7, <1>b DEF put_resp, load_slot, ServerLabelsMove, At
  <2>2. SameQueues
    <3>1. CASE LinkUp
      <4>1. k["server"] > 0 => r["server"] = idx_masked(idx[<<"resp", "p">>])
        BY <2>1, <3>1 DEF LinkUp, RingInv, ServerRings, Producing, At
      <4>2. \A i \in Slot \ {idx_masked(idx[<<"resp", "p">>])} : resp_slot'[i] = resp_slot[i]
        BY <1>7, <4>1 DEF put_resp, load_slot, TypeInv, TypeOK
      <4> QED
        BY <2>1, <4>2, PutKeepsQueues DEF At
    <3>2. CASE ~LinkUp
      <4>1. LinkUp' = LinkUp
        BY <2>1 DEF LinkUp
      <4> QED
        BY <3>2, <4>1, QueuesDown DEF SameQueues
    <3> QED
      BY <3>1, <3>2
  <2>3. SameServer
    BY <2>1 DEF SameServer, Taken, Answering, Serving
  <2> QED
    BY <1>a, <2>2, <2>3 DEF ServerKinds, Silent
<1>8. CASE commit_resp
  BY <1>8, CommitRespIs DEF ServerKinds
<1> QED
  BY <1>1, <1>2, <1>3, <1>4, <1>5, <1>6, <1>7, <1>8 DEF ServerStep

-----------------------------------------------------------------------------
(* Order and answers.                                                       *)

\* What is pending is numbered in the order it was issued, after what the server
\* has in hand and before what the client is about to publish.
Numbered ==
    /\ \A i \in 1 .. Len(Todo) :
          /\ Todo[i] \in Msg /\ served < Todo[i].id /\ Todo[i].id <= nreq
          /\ Sending => Todo[i].id < nreq
          /\ Taken => buf["server"].id < Todo[i].id
    /\ \A i, j \in 1 .. Len(Todo) : i < j => Todo[i].id < Todo[j].id
    /\ served <= nreq /\ (Sending => served < nreq)

\* What each of the two has in hand.
InWork ==
    /\ Sending => buf["client"] \in Msg /\ buf["client"].id = nreq
    /\ Waiting => buf["client"] \in Msg /\ buf["client"].kind = "Ok"
    /\ Taken =>
          /\ buf["server"] \in Msg /\ served < buf["server"].id /\ buf["server"].id <= nreq
          /\ Sending => buf["server"].id < nreq
    /\ Answering => buf["server"] \in Msg /\ buf["server"].kind = "Ok"

\* While the channel is up, one request at most is to be answered: it is in the
\* ring, with the server or answered, and the client awaits its answer.  A client
\* that restarted has forgotten it, and takes the channel down.
OneAsked ==
    LinkUp /\ ~Resetting =>
        /\ \A i \in 1 .. Len(Todo) :
              Todo[i].kind = "Ok" => Asked = Todo[i] /\ InHand.kind # "Ok" /\ Replies = <<>>
        /\ \A i, j \in 1 .. Len(Todo) : Todo[i].kind = "Ok" /\ Todo[j].kind = "Ok" => i = j
        /\ InHand.kind = "Ok" => Asked = InHand /\ Replies = <<>>
        /\ Replies # <<>> => Len(Replies) = 1 /\ Asked = Replies[1] /\ Asked.kind = "Ok"

CallsInv == Base /\ Numbered /\ InWork /\ OneAsked

LEMMA CallsInit == Init => CallsInv
<1> SUFFICES ASSUME Init PROVE CallsInv
  OBVIOUS
<1>1. Base
  BY TypeInit, HandshakeInit, RingInit, SlotsInit DEF Base
<1>2. /\ ~LinkUp /\ pc["client"] = "reset_req" /\ pc["server"] = "new"
      /\ served = 0 /\ nreq = 0
  BY DEF Init, LinkUp
<1>3. Todo = <<>>
  BY <1>2, QueuesDown
<1>4. ~Sending /\ ~Waiting /\ ~Taken /\ ~Answering
  BY <1>2 DEF Sending, Waiting, Taken, Answering
<1> QED
  BY <1>1, <1>2, <1>3, <1>4 DEF CallsInv, Numbered, InWork, OneAsked

LEMMA CallTypes ==
    ASSUME Base
    PROVE  /\ Todo \in Seq(AnyMsg) /\ Len(Todo) \in Nat
           /\ Replies \in Seq(AnyMsg) /\ Len(Replies) \in Nat
           /\ nreq \in Nat /\ served \in Nat
<1>1. Todo \in Seq(AnyMsg) /\ Replies \in Seq(AnyMsg)
  BY QueueTypes DEF Base
<1> QED
  BY <1>1, ChannelAssumption DEF Base, TypeInv, TypeOK

LEMMA MsgTypes ==
    /\ \A m \in Msg : m.id \in Nat \ {0} /\ m.kind \in Kinds /\ m # NoMsg
    /\ NoMsg.kind # "Ok"
BY ChannelAssumption DEF Msg, NoMsg

\* The first of a sequence and the rest.
LEMMA Rest ==
    ASSUME NEW S, NEW s \in Seq(S), s # <<>>
    PROVE  /\ Len(s) \in Nat \ {0} /\ Head(s) = s[1] /\ 1 \in 1 .. Len(s)
           /\ Len(Tail(s)) = Len(s) - 1 /\ Tail(s) \in Seq(S)
           /\ \A i \in 1 .. Len(Tail(s)) : /\ i + 1 \in 1 .. Len(s) /\ i + 1 # 1
                                           /\ Tail(s)[i] = s[i + 1]
<1>1. Len(s) \in Nat \ {0} /\ Head(s) = s[1] /\ Len(Tail(s)) = Len(s) - 1 /\ Tail(s) \in Seq(S)
      /\ \A i \in 1 .. Len(Tail(s)) : Tail(s)[i] = s[i + 1]
  BY HeadTailProperties, EmptySeq
<1> QED
  BY <1>1

\* What each has in hand follows from where it is.
LEMMA HandsAre ==
    /\ SameClient => Asked' = Asked
    /\ SameServer => InHand' = InHand
    /\ ~Waiting => Asked = NoMsg
    /\ ~Waiting' => Asked' = NoMsg
    /\ ~Serving => InHand = NoMsg
    /\ ~Serving' => InHand' = NoMsg
    /\ Waiting => Asked = buf["client"]
    /\ Waiting' => Asked' = buf'["client"]
    /\ Serving => InHand = buf["server"]
    /\ Serving' => InHand' = buf'["server"]
BY ServingIs DEF SameClient, SameServer, Asked, InHand

LEMMA BaseNext == Base /\ [Next]_vars => Base'
BY TypeNext, HandshakeNext, RingNext, SlotsNext DEF Base

LEMMA SilentKeeps == CallsInv /\ Base' /\ Silent => CallsInv'
<1> SUFFICES ASSUME CallsInv, Base', Silent PROVE CallsInv'
  OBVIOUS
<1>1. /\ Asked' = Asked /\ InHand' = InHand /\ UNCHANGED <<LinkUp, Todo, Replies, nreq, served>>
      /\ Sending' <=> Sending
      /\ Waiting' <=> Waiting
      /\ Resetting' <=> Resetting
      /\ Taken' <=> Taken
      /\ Answering' <=> Answering
  BY HandsAre DEF Silent, SameQueues, SameClient, SameServer
<1>2. buf'["client"] = buf["client"] /\ (Taken \/ Answering => buf'["server"] = buf["server"])
  BY ServingIs DEF Silent, SameClient, SameServer
<1>3. Numbered'
  BY <1>1, <1>2 DEF CallsInv, Numbered
<1>4. InWork'
  BY <1>1, <1>2 DEF CallsInv, InWork
<1>5. OneAsked'
  BY <1>1 DEF CallsInv, OneAsked
<1> QED
  BY <1>3, <1>4, <1>5 DEF CallsInv

LEMMA ClientKindsKeep ==
    ASSUME CallsInv, Base', Aborts \/ Calls \/ GoesDown \/ Sends \/ Receives
    PROVE  CallsInv'
<1>1. /\ Todo \in Seq(AnyMsg) /\ Len(Todo) \in Nat /\ Replies \in Seq(AnyMsg)
      /\ Len(Replies) \in Nat /\ nreq \in Nat /\ served \in Nat
  BY CallTypes DEF CallsInv
<1>2. /\ Taken' <=> Taken
      /\ Answering' <=> Answering
      /\ Taken \/ Answering => buf'["server"] = buf["server"]
      /\ served' = served /\ InHand' = InHand
  BY ServingIs, HandsAre DEF Aborts, Calls, GoesDown, Sends, Receives, SameServer
<1>3. Numbered /\ InWork /\ OneAsked
  BY DEF CallsInv
<1>4. CASE Aborts
  <2>1. /\ Resetting' /\ ~Sending' /\ ~Waiting' /\ nreq' = nreq /\ Todo' = Todo
    BY <1>4 DEF Aborts, SameQueues
  <2> QED
    BY <1>2, <1>3, <2>1 DEF CallsInv, Numbered, InWork, OneAsked
<1>5. CASE Calls
  <2>1. /\ ~Sending /\ ~Waiting /\ ~Resetting /\ Sending' /\ ~Waiting' /\ ~Resetting'
        /\ nreq' = nreq + 1 /\ buf'["client"] \in Msg /\ buf'["client"].id = nreq'
        /\ UNCHANGED <<LinkUp, Todo, Replies>> /\ Asked' = Asked
    BY <1>5, HandsAre DEF Calls, SameQueues
  <2>2. Numbered'
    <3>1. \A i \in 1 .. Len(Todo) : Todo[i].id \in Nat /\ Todo[i].id <= nreq
      BY <1>3, MsgTypes DEF Numbered
    <3> QED
      BY <1>1, <1>2, <1>3, <2>1, <3>1 DEF Numbered, InWork
  <2>3. InWork'
    <3>1. Taken => buf["server"].id \in Nat
      BY <1>3, MsgTypes DEF InWork
    <3> QED
      BY <1>1, <1>2, <1>3, <2>1, <3>1 DEF InWork
  <2>4. OneAsked'
    BY <1>2, <1>3, <2>1 DEF OneAsked
  <2> QED
    BY <2>2, <2>3, <2>4 DEF CallsInv
<1>6. CASE GoesDown
  <2>1. ~LinkUp' /\ ~Sending' /\ ~Waiting' /\ nreq' = nreq /\ Todo' = <<>>
    BY <1>6, QueuesDown DEF GoesDown
  <2> QED
    BY <1>2, <1>3, <2>1 DEF CallsInv, Numbered, InWork, OneAsked
<1>7. CASE Sends
  <2>1. /\ Sending /\ ~Waiting /\ ~Resetting /\ ~Sending' /\ ~Resetting'
        /\ Waiting' <=> buf["client"].kind = "Ok"
        /\ buf'["client"] = buf["client"] /\ nreq' = nreq /\ LinkUp
        /\ Todo' = Append(Todo, buf["client"]) /\ Replies' = Replies
    BY <1>7 DEF Sends
  <2>2. buf["client"] \in Msg /\ buf["client"].id = nreq /\ served < nreq
    BY <1>3, <2>1 DEF InWork, Numbered
  <2>3. /\ Len(Todo') = Len(Todo) + 1 /\ Todo'[Len(Todo) + 1] = buf["client"]
        /\ \A i \in 1 .. Len(Todo) : Todo'[i] = Todo[i]
    BY <1>1, <2>1, <2>2, AppendProperties DEF AnyMsg
  <2>4. \A i \in 1 .. Len(Todo') : i \in 1 .. Len(Todo) \/ i = Len(Todo) + 1
    BY <1>1, <2>3
  <2>5. Numbered'
    <3>1. /\ \A i \in 1 .. Len(Todo) : Todo[i].id < nreq /\ Todo[i].id \in Nat
          /\ Taken => buf["server"].id < nreq
      BY <1>3, <2>1, MsgTypes DEF Numbered, InWork
    <3>2. \A i \in 1 .. Len(Todo') :
              /\ Todo'[i] \in Msg /\ served < Todo'[i].id /\ Todo'[i].id <= nreq
              /\ Taken => buf["server"].id < Todo'[i].id
      BY <1>1, <1>3, <2>2, <2>3, <2>4, <3>1 DEF Numbered
    <3>3. \A i, j \in 1 .. Len(Todo') : i < j => Todo'[i].id < Todo'[j].id
      BY <1>1, <1>3, <2>2, <2>3, <2>4, <3>1 DEF Numbered
    <3> QED
      BY <1>2, <1>3, <2>1, <3>2, <3>3 DEF Numbered
  <2>6. InWork'
    BY <1>2, <1>3, <2>1, <2>2 DEF InWork
  <2>7. OneAsked'
    <3>1. Asked = NoMsg /\ (Waiting' => Asked' = buf["client"])
      BY <2>1, HandsAre
    <3>2. /\ \A i \in 1 .. Len(Todo) : Todo[i].kind # "Ok"
          /\ InHand.kind # "Ok" /\ Replies = <<>>
      <4>1. \A i \in 1 .. Len(Todo) : Todo[i].kind # "Ok"
        BY <1>3, <2>1, <3>1, MsgTypes DEF OneAsked
      <4>2. InHand.kind # "Ok"
        BY <1>3, <2>1, <3>1, MsgTypes DEF OneAsked
      <4>3. Replies = <<>>
        BY <1>3, <2>1, <3>1, MsgTypes DEF OneAsked
      <4> QED
        BY <4>1, <4>2, <4>3
    <3>3. \A i \in 1 .. Len(Todo') : Todo'[i].kind = "Ok" => i = Len(Todo) + 1
      BY <2>3, <2>4, <3>2
    <3> QED
      BY <1>2, <2>1, <2>3, <3>1, <3>2, <3>3 DEF OneAsked
  <2> QED
    BY <2>5, <2>6, <2>7 DEF CallsInv
<1>8. CASE Receives
  <2>1. /\ Waiting /\ ~Sending /\ ~Resetting /\ ~Sending' /\ ~Waiting' /\ ~Resetting'
        /\ nreq' = nreq /\ LinkUp /\ Replies # <<>>
        /\ Replies' = Tail(Replies) /\ Todo' = Todo /\ Asked' = NoMsg
    BY <1>8, HandsAre DEF Receives
  <2>2. Len(Replies) = 1 /\ InHand.kind # "Ok" /\ \A i \in 1 .. Len(Todo) : Todo[i].kind # "Ok"
    BY <1>3, <2>1 DEF OneAsked
  <2>3. Replies' = <<>>
    <3>1. Len(Tail(Replies)) = 0 /\ Tail(Replies) \in Seq(AnyMsg)
      BY <1>1, <2>1, <2>2, Rest
    <3> QED
      BY <2>1, <3>1, EmptySeq
  <2>4. Numbered' /\ InWork'
    BY <1>2, <1>3, <2>1 DEF Numbered, InWork
  <2>5. OneAsked'
    BY <1>2, <2>1, <2>2, <2>3 DEF OneAsked
  <2> QED
    BY <2>4, <2>5 DEF CallsInv
<1> QED
  BY <1>4, <1>5, <1>6, <1>7, <1>8

LEMMA ServerKindsKeep ==
    ASSUME CallsInv, Base', GoesUp \/ Takes \/ Executes \/ Drops \/ Answers
    PROVE  CallsInv'
<1>1. /\ Todo \in Seq(AnyMsg) /\ Len(Todo) \in Nat /\ Replies \in Seq(AnyMsg)
      /\ Len(Replies) \in Nat /\ nreq \in Nat /\ served \in Nat
  BY CallTypes DEF CallsInv
<1>2. /\ Sending' <=> Sending
      /\ Waiting' <=> Waiting
      /\ Resetting' <=> Resetting
      /\ buf'["client"] = buf["client"] /\ nreq' = nreq /\ Asked' = Asked
  BY HandsAre DEF GoesUp, Takes, Executes, Drops, Answers, SameClient
<1>3. Numbered /\ InWork /\ OneAsked
  BY DEF CallsInv
<1>4. CASE GoesUp
  <2>1. /\ Todo' = <<>> /\ Replies' = <<>> /\ ~Taken /\ ~Answering /\ ~Taken' /\ ~Answering'
        /\ InHand' = NoMsg /\ served' = served
    BY <1>4, ServingIs, HandsAre DEF GoesUp, SameServer
  <2> QED
    BY <1>2, <1>3, <2>1, MsgTypes DEF CallsInv, Numbered, InWork, OneAsked
<1>5. CASE Takes
  <2>1. /\ ~Taken /\ ~Answering /\ Taken' /\ ~Answering' /\ LinkUp /\ Todo # <<>>
        /\ buf'["server"] = Head(Todo) /\ InHand' = Head(Todo) /\ Todo' = Tail(Todo)
        /\ Replies' = Replies /\ served' = served
    BY <1>5, ServingIs, HandsAre DEF Takes
  <2>2. /\ Head(Todo) = Todo[1] /\ 1 \in 1 .. Len(Todo) /\ Len(Todo') = Len(Todo) - 1
        /\ \A i \in 1 .. Len(Todo') : /\ i + 1 \in 1 .. Len(Todo) /\ i + 1 # 1
                                      /\ Todo'[i] = Todo[i + 1]
    BY <1>1, <2>1, Rest
  <2>3. /\ Todo[1] \in Msg /\ served < Todo[1].id /\ Todo[1].id <= nreq
        /\ Sending => Todo[1].id < nreq
    BY <1>3, <2>2 DEF Numbered
  <2>4. Numbered'
    <3>1. \A i \in 1 .. Len(Todo') : 1 < i + 1 /\ \A j \in 1 .. Len(Todo') : i < j => i + 1 < j + 1
      OBVIOUS
    <3>2. \A i \in 1 .. Len(Todo') : buf'["server"].id < Todo'[i].id
      BY <1>3, <2>1, <2>2, <3>1 DEF Numbered
    <3> QED
      BY <1>2, <1>3, <2>1, <2>2, <3>1, <3>2 DEF Numbered
  <2>5. InWork'
    BY <1>2, <1>3, <2>1, <2>2, <2>3 DEF InWork
  <2>6. OneAsked'
    <3>1. \A i, j \in 1 .. Len(Todo') : i + 1 = j + 1 => i = j
      OBVIOUS
    <3> QED
      BY <1>2, <1>3, <2>1, <2>2, <3>1 DEF OneAsked
  <2> QED
    BY <2>4, <2>5, <2>6 DEF CallsInv
<1>6. CASE Executes
  <2>1. /\ Taken /\ ~Taken'
        /\ Answering' <=> buf["server"].kind = "Ok"
        /\ buf'["server"] = buf["server"] /\ served' = buf["server"].id
        /\ UNCHANGED <<LinkUp, Todo, Replies>>
    BY <1>6 DEF Executes, SameQueues
  <2>2. InHand = buf["server"] /\ InHand' = (IF buf["server"].kind = "Ok" THEN buf["server"] ELSE NoMsg)
    BY <2>1, ServingIs, HandsAre
  <2>3. Numbered' /\ InWork'
    BY <1>1, <1>2, <1>3, <2>1 DEF Numbered, InWork
  <2>4. OneAsked'
    BY <1>2, <1>3, <2>1, <2>2, MsgTypes DEF OneAsked
  <2> QED
    BY <2>3, <2>4 DEF CallsInv
<1>7. CASE Drops
  <2>1. /\ ~LinkUp' /\ ~Taken' /\ ~Answering' /\ served' = served /\ Todo' = Todo
    BY <1>7, ServingIs, QueuesDown DEF Drops
  <2> QED
    BY <1>2, <1>3, <2>1 DEF CallsInv, Numbered, InWork, OneAsked
<1>8. CASE Answers
  <2>1. /\ Answering /\ ~Taken' /\ ~Answering' /\ LinkUp
        /\ Replies' = Append(Replies, buf["server"]) /\ Todo' = Todo
        /\ served' = served /\ InHand' = NoMsg /\ InHand = buf["server"]
    BY <1>8, ServingIs, HandsAre DEF Answers
  <2>2. Numbered' /\ InWork'
    BY <1>2, <1>3, <2>1 DEF Numbered, InWork
  <2>3. OneAsked'
    <3>1. CASE Resetting
      BY <1>2, <3>1 DEF OneAsked
    <3>2. CASE ~Resetting
      <4>1. buf["server"].kind = "Ok"
        BY <1>3, <2>1 DEF InWork
      <4>2. Replies = <<>> /\ Asked = buf["server"] /\ \A i \in 1 .. Len(Todo) : Todo[i].kind # "Ok"
        BY <1>3, <2>1, <3>2, <4>1 DEF OneAsked
      <4>3. Len(Replies') = 1 /\ Replies'[1] = buf["server"]
        BY <2>1, <4>2
      <4> QED
        BY <1>2, <2>1, <4>1, <4>2, <4>3, MsgTypes DEF OneAsked
    <3> QED
      BY <3>1, <3>2
  <2> QED
    BY <2>2, <2>3 DEF CallsInv
<1> QED
  BY <1>4, <1>5, <1>6, <1>7, <1>8

\* Every step is of one of the kinds.
LEMMA KindsOfSteps ==
    ASSUME Base, [Next]_vars
    PROVE  ClientKinds \/ ServerKinds
<1>1. CASE UNCHANGED vars
  <2>1. SameQueues
    BY <1>1, QueuesKept DEF vars, shared, At, SameQueues
  <2>2. Silent
    BY <1>1, <2>1 DEF vars, Silent, SameClient, SameServer, Sending, Waiting, Resetting, Taken, Answering, At
  <2> QED
    BY <2>2 DEF ClientKinds
<1> QED
  BY <1>1, ClientEffect, ServerEffect DEF Next

LEMMA CallsNext == CallsInv /\ [Next]_vars => CallsInv'
<1> SUFFICES ASSUME CallsInv, [Next]_vars PROVE CallsInv'
  OBVIOUS
<1>1. Base /\ Base'
  BY BaseNext DEF CallsInv
<1> QED
  BY <1>1, KindsOfSteps, SilentKeeps, ClientKindsKeep, ServerKindsKeep DEF ClientKinds, ServerKinds

LEMMA CallsHold == Spec => []CallsInv
BY CallsInit, CallsNext, PTL DEF Spec

\* do_cmd only sees requests the client committed as a whole, in the order they
\* were issued and none twice, whatever resets and restarts leave in the ring.
THEOREM ServedInOrder == Spec => []ServesInOrder
<1>1. CallsInv => ServesInOrder
  <2> SUFFICES ASSUME CallsInv, At("server", "do_cmd") PROVE buf["server"].id > served
    BY DEF ServesInOrder
  <2>1. Taken
    BY DEF Taken, At
  <2>2. buf["server"] \in Msg /\ served < buf["server"].id
    BY <2>1 DEF CallsInv, InWork
  <2>3. served \in Nat
    BY CallTypes DEF CallsInv
  <2> QED
    BY <2>2, <2>3, MsgTypes
<1> QED
  BY <1>1, CallsHold, PTL

\* What get_resp copied is the answer of the request the client is waiting for.
THEOREM OwnAnswers == Spec => []OwnAnswer
<1>1. CallsInv => OwnAnswer
  <2> SUFFICES ASSUME CallsInv, At("client", "ack_resp") PROVE ret = buf["client"]
    BY DEF OwnAnswer
  <2> DEFINE c == idx[<<"resp", "c">>]
             p == idx[<<"resp", "p">>]
  <2>1. Base
    BY DEF CallsInv
  <2>2. LinkUp /\ ~Resetting /\ Asked = buf["client"]
    BY <2>1, HandsAre DEF Base, HandshakeInv, InCall, LinkUp, Resetting, Waiting, At
  <2>3. c \in Idx /\ p \in Idx /\ ahead(c, p) > 0 /\ ReqHead \in Idx
    BY <2>1, IdxTypes, ReqHeadIs DEF Base, RingInv, ClientRings, Consuming, At
  <2>4. QueuesAreRings
    BY <2>3, QueuesAre, QueueAssumption DEF Idx
  <2>5. Replies # <<>> /\ Head(Replies) = resp_slot[idx_masked(c)]
    <3>1. Replies = Ring(resp_slot, c, p)
      BY <2>2, <2>4 DEF QueuesAreRings
    <3>2. resp_slot \in [Slot -> AnyMsg]
      BY <2>1, EntryTypes DEF Base
    <3>3. Ring(resp_slot, c, p) # <<>> /\ Head(Ring(resp_slot, c, p)) = resp_slot[idx_masked(c)]
      BY <2>3, <3>2, RingTake
    <3> QED
      BY <3>1, <3>3
  <2>6. Head(Replies) = Replies[1]
    BY <2>1, <2>5, CallTypes, Rest
  <2>7. Replies[1] = Asked
    BY <2>2, <2>5 DEF CallsInv, OneAsked
  <2>8. ret = resp_slot[idx_masked(c)]
    BY <2>1 DEF Base, SlotsInv, ClientSlots
  <2> QED
    BY <2>2, <2>5, <2>6, <2>7, <2>8
<1> QED
  BY <1>1, CallsHold, PTL

-----------------------------------------------------------------------------
(* The refinement.                                                          *)

LEMMA MapsTo ==
    /\ Abstract!mvars = <<LinkUp, Todo, InHand, Replies, Asked>>
    /\ UNCHANGED <<LinkUp, Todo, InHand, Replies, Asked>> => UNCHANGED Abstract!mvars
BY DEF Abstract!mvars, Todo, InHand, Replies, Asked

LEMMA MailboxInit == Init => Abstract!MInit
<1> SUFFICES ASSUME Init PROVE Abstract!MInit
  OBVIOUS
<1>1. ~LinkUp /\ pc["client"] = "reset_req" /\ pc["server"] = "new"
  BY DEF Init, LinkUp
<1>2. Todo = <<>> /\ Replies = <<>>
  BY <1>1, QueuesDown
<1>3. InHand = NoMsg /\ Asked = NoMsg /\ LinkUp = FALSE
  BY <1>1 DEF InHand, Asked, Serving, Waiting, LinkUp
<1> QED
  BY <1>2, <1>3 DEF Abstract!MInit, Todo, Replies, InHand, Asked

LEMMA MailboxNext == CallsInv /\ [Next]_vars => [Abstract!MNext]_Abstract!mvars
<1> SUFFICES ASSUME CallsInv, [Next]_vars PROVE [Abstract!MNext]_Abstract!mvars
  OBVIOUS
<1>1. Todo \in Seq(AnyMsg) /\ Replies \in Seq(AnyMsg) /\ InWork /\ OneAsked
  BY CallTypes DEF CallsInv
<1>2. CASE Silent
  BY <1>2, HandsAre, MapsTo DEF Silent, SameQueues
<1>3. CASE Aborts
  <2>1. UNCHANGED <<LinkUp, Todo, Replies, InHand>> /\ Asked' = NoMsg
    BY <1>3, HandsAre DEF Aborts, SameQueues
  <2>2. Abstract!Abort
    BY <2>1 DEF Abstract!Abort, Todo, Replies, InHand, Asked
  <2> QED
    BY <2>2 DEF Abstract!MNext
<1>4. CASE Calls
  <2>1. UNCHANGED <<LinkUp, Todo, Replies, InHand, Asked>>
    BY <1>4, HandsAre DEF Calls, SameQueues
  <2> QED
    BY <2>1, MapsTo
<1>5. CASE GoesDown
  <2>1. ~LinkUp' /\ Todo' = <<>> /\ Replies' = <<>> /\ InHand' = InHand /\ Asked' = NoMsg
    BY <1>5, HandsAre, QueuesDown DEF GoesDown
  <2>2. LinkUp' = FALSE
    BY <2>1 DEF LinkUp
  <2>3. Abstract!Down
    BY <2>1, <2>2 DEF Abstract!Down, Todo, Replies, InHand, Asked
  <2> QED
    BY <2>3 DEF Abstract!MNext
<1>6. CASE Sends
  <2>1. /\ LinkUp /\ LinkUp' /\ Len(Todo) < MB_MAX_ENTRIES
        /\ Todo' = Append(Todo, buf["client"]) /\ UNCHANGED <<Replies, InHand>>
        /\ Asked = NoMsg
        /\ Asked' = IF buf["client"].kind = "Ok" THEN buf["client"] ELSE NoMsg
    BY <1>6, HandsAre DEF Sends
  <2>2. buf["client"] \in Msg
    BY <1>1, <1>6 DEF Sends, InWork
  <2>3. UNCHANGED LinkUp
    BY <2>1 DEF LinkUp
  <2>4. Abstract!Send(buf["client"])
    BY <2>1, <2>2, <2>3 DEF Abstract!Send, Todo, Replies, InHand, Asked
  <2> QED
    BY <2>2, <2>4 DEF Abstract!MNext
<1>7. CASE Receives
  <2>1. /\ LinkUp /\ LinkUp' /\ ~Resetting /\ Replies # <<>> /\ Replies' = Tail(Replies)
        /\ UNCHANGED <<Todo, InHand>> /\ Asked = buf["client"] /\ Asked' = NoMsg
    BY <1>7, HandsAre DEF Receives
  <2>2. Asked # NoMsg
    BY <1>1, <1>7, <2>1, MsgTypes DEF Receives, InWork
  <2>3. Head(Replies) = Asked
    BY <1>1, <2>1, Rest DEF OneAsked
  <2>4. UNCHANGED LinkUp
    BY <2>1 DEF LinkUp
  <2>5. Abstract!Receive
    BY <2>1, <2>2, <2>3, <2>4 DEF Abstract!Receive, Todo, Replies, InHand, Asked
  <2> QED
    BY <2>5 DEF Abstract!MNext
<1>8. CASE GoesUp
  <2>1. ~LinkUp /\ UNCHANGED <<Todo, Replies, InHand, Asked>> /\ InHand = NoMsg
    BY <1>8, HandsAre, QueuesDown DEF GoesUp
  <2>2. LinkUp' = TRUE
    BY <1>8 DEF GoesUp, LinkUp
  <2>3. Abstract!Up
    BY <2>1, <2>2 DEF Abstract!Up, Todo, Replies, InHand, Asked
  <2> QED
    BY <2>3 DEF Abstract!MNext
<1>9. CASE Takes
  <2>1. /\ LinkUp /\ LinkUp' /\ InHand = NoMsg /\ InHand' = Head(Todo)
        /\ Todo # <<>> /\ Todo' = Tail(Todo) /\ UNCHANGED <<Replies, Asked>>
    BY <1>9, HandsAre, ServingIs DEF Takes
  <2>2. UNCHANGED LinkUp
    BY <2>1 DEF LinkUp
  <2>3. Abstract!Take
    BY <2>1, <2>2 DEF Abstract!Take, Todo, Replies, InHand, Asked
  <2> QED
    BY <2>3 DEF Abstract!MNext
<1>10. CASE Executes
  <2>1. /\ InHand = buf["server"] /\ UNCHANGED <<LinkUp, Todo, Replies, Asked>>
        /\ InHand' = IF buf["server"].kind = "Ok" THEN buf["server"] ELSE NoMsg
    BY <1>10, HandsAre, ServingIs DEF Executes, SameQueues
  <2>2. InHand # NoMsg
    BY <1>1, <1>10, <2>1, MsgTypes DEF Executes, InWork
  <2>3. CASE buf["server"].kind = "Ok"
    BY <2>1, <2>3, MapsTo
  <2>4. CASE buf["server"].kind # "Ok"
    <3>1. Abstract!Finish
      BY <2>1, <2>2, <2>4 DEF Abstract!Finish, Todo, Replies, InHand, Asked
    <3> QED
      BY <3>1 DEF Abstract!MNext
  <2> QED
    BY <2>3, <2>4
<1>11. CASE Drops
  <2>1. ~LinkUp /\ InHand = buf["server"] /\ InHand' = NoMsg /\ UNCHANGED <<Todo, Replies, Asked>>
    BY <1>11, HandsAre, ServingIs, QueuesDown DEF Drops
  <2>2. InHand # NoMsg
    BY <1>1, <1>11, <2>1, MsgTypes DEF Drops, InWork
  <2>3. UNCHANGED LinkUp
    BY <1>11 DEF Drops, LinkUp
  <2>4. Abstract!Finish
    BY <2>1, <2>2, <2>3 DEF Abstract!Finish, Todo, Replies, InHand, Asked
  <2> QED
    BY <2>4 DEF Abstract!MNext
<1>12. CASE Answers
  <2>1. /\ LinkUp /\ InHand = buf["server"] /\ InHand' = NoMsg /\ UNCHANGED <<Todo, Asked>>
        /\ Len(Replies) < MB_MAX_ENTRIES /\ Replies' = Append(Replies, buf["server"])
    BY <1>12, HandsAre, ServingIs DEF Answers
  <2>2. buf["server"] \in Msg /\ buf["server"].kind = "Ok"
    BY <1>1, <1>12 DEF Answers, InWork
  <2>3. UNCHANGED LinkUp
    BY <1>12 DEF Answers, LinkUp
  <2>4. Abstract!Answer
    BY <2>1, <2>2, <2>3 DEF Abstract!Answer, Todo, Replies, InHand, Asked
  <2> QED
    BY <2>4 DEF Abstract!MNext
<1>13. Base
  BY DEF CallsInv
<1> QED
  BY <1>2, <1>3, <1>4, <1>5, <1>6, <1>7, <1>8, <1>9, <1>10, <1>11, <1>12, <1>13, KindsOfSteps
     DEF ClientKinds, ServerKinds

\* Every access to a shared word is a step of the promise of Mailbox or none, for
\* rings of any size, whatever resets, restarts of the firmware and requests without
\* an answer there are.
THEOREM AccessesRefineMailbox == Spec => ImplementsMailbox
BY MailboxInit, MailboxNext, CallsInit, CallsNext, PTL
   DEF Spec, ImplementsMailbox, Abstract!MSpec

=============================================================================

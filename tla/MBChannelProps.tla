--------------------------- MODULE MBChannelProps ---------------------------
(***************************************************************************)
(* What MBChannel must guarantee, and that it implements Mailbox.          *)
(***************************************************************************)
EXTENDS MBChannel, Sequences

ClientLabels == {"reset_req", "reset_req_p2", "idle", "send.is_ready", "send.full",
                 "put_req", "commit_req", "recv.is_ready", "recv.empty",
                 "get_resp", "ack_resp", "panic"}

ServerLabels == {"new", "wait_reset", "reset_pre_ack", "reset_ack", "check_version",
                 "recv.is_ready", "recv.empty", "recv.is_ready2", "get_req",
                 "recv.is_ready3", "ack_req", "do_cmd", "resp.is_ready", "resp.full",
                 "put_resp", "commit_resp", "stopped", "panic"}

\* The type invariant: index words stay in the width of the word, a slot number
\* stays in the ring, and no compound access runs past its last word.
TypeOK ==
    /\ version \in Nat
    /\ state \in {INIT, READY}
    /\ idx \in [Words -> Idx]
    /\ req_slot \in [Slot -> [head : AnyMsg, args : AnyMsg]]
    /\ resp_slot \in [Slot -> AnyMsg]
    /\ pc \in [Proc -> ClientLabels \cup ServerLabels]
    /\ pc["client"] \in ClientLabels /\ pc["server"] \in ServerLabels
    /\ k \in [Proc -> 0 .. 5]
    /\ r \in [Proc -> Idx]
    /\ buf \in [Proc -> AnyMsg]
    /\ ret \in AnyMsg
    /\ started \in BOOLEAN
    /\ nreq \in 0 .. MaxReq /\ nreset \in 0 .. MaxReset /\ served \in 0 .. MaxReq

-----------------------------------------------------------------------------
\* The client is inside a call and has seen the channel READY.
InCall == pc["client"] \in {"send.full", "put_req", "commit_req", "recv.is_ready",
                            "recv.empty", "get_resp", "ack_resp"}

\* The server has seen the reset request and is answering it.
Acking ==
    \/ At("server", "wait_reset") /\ k["server"] >= 2
    \/ pc["server"] \in {"reset_pre_ack", "reset_ack"}

\* The server never zeroes the indices (reset_pre_ack) under a client that is
\* using them: the two clears of the handshake cannot meet a put or a get.
ResetExclusive == InCall => ~Acking /\ state = READY

\* The firmware never runs into the unwrap() of a receive that finds the
\* channel not ready (mb_nb_channel.rs:92, 161), crashes and resets included.
ClientNeverPanics == ~At("client", "panic")

\* The slots are never shared: the client does not write the entry the server is
\* copying, unless a reset has made the copy void; nor does the server write
\* the entry the client is copying.
NoTornAccess ==
    /\ ~ /\ At("client", "put_req") /\ k["client"] > 0
         /\ At("server", "get_req") /\ k["server"] > 0
         /\ r["client"] = r["server"]
    /\ ~ /\ At("server", "put_resp") /\ k["server"] > 0
         /\ At("client", "get_resp") /\ k["client"] > 0
         /\ r["client"] = r["server"]

\* do_cmd only ever sees a request the client committed as a whole, and sees the
\* requests in the order they were issued, none twice - also when resets leave
\* entries and half-cleared indices of an earlier life in the ring.
ServesInOrder == At("server", "do_cmd") => buf["server"].id > served

\* A send that returned has the answer of its own request, never one of
\* an earlier call or of a life before a reset.
OwnAnswer == At("client", "ack_resp") => ret = buf["client"]

\* While the channel is READY each ring holds between none and all of its
\* slots: no producer laps its consumer, though full() and empty() are four
\* reads that the other side's steps may fall between.
RingBounds ==
    state = READY => \A q \in {"req", "resp"} :
        ahead(idx[<<q, "c">>], idx[<<q, "p">>]) <= MB_MAX_ENTRIES

-----------------------------------------------------------------------------
(* Why the rings stay in bounds: what each side may conclude from indices it *)
(* has read while the other side moved on.                                  *)

AllZero == \A w \in Words : idx[w] = 0

\* Until the server has acknowledged a reset, the state word stays INIT.
Detached == pc["server"] \in {"new", "wait_reset", "reset_pre_ack", "reset_ack"}

\* Nothing but zeros is written between reset_pre_ack and reset_ack.
ClearedSoFar ==
    /\ At("server", "reset_pre_ack") =>
          \A i \in 0 .. 3 : i < k["server"] => idx[ClearOrder[i + 1]] = 0
    /\ At("server", "reset_ack") => AllZero

\* A client still clearing when the acknowledgement of an earlier reset arrives
\* clears what is clear, and the server finds nothing to receive.
LateClear ==
    At("client", "reset_req_p2") /\ state = READY =>
        /\ AllZero
        /\ pc["server"] \in {"check_version", "recv.is_ready", "recv.empty",
                             "recv.is_ready2", "panic"}

Bounded(q) == ahead(idx[<<q, "c">>], idx[<<q, "p">>]) <= MB_MAX_ENTRIES

\* A producer may hold an old idx_c: the ring is no fuller than it looks.
Producing(self, q, test, put, commit) ==
    LET c == idx[<<q, "c">>]  p == idx[<<q, "p">>] IN
    /\ At(self, test) /\ k[self] > 0 =>
          ahead(r[self], p) <= MB_MAX_ENTRIES /\ ahead(c, p) <= ahead(r[self], p)
    /\ pc[self] \in {put, commit} => ahead(c, p) < MB_MAX_ENTRIES
    /\ At(self, put) /\ k[self] > 0 => r[self] = idx_masked(p)
    /\ At(self, commit) /\ k[self] > 0 => r[self] = p

\* A consumer holds its own idx_c, and the ring does not get emptier.
Consuming(self, q, test, get, got, ack) ==
    LET c == idx[<<q, "c">>]  p == idx[<<q, "p">>] IN
    /\ At(self, test) /\ k[self] > 0 => r[self] = c
    /\ pc[self] \in {get, got, ack} => ahead(c, p) > 0
    /\ At(self, get) /\ k[self] > 0 => r[self] = idx_masked(c)
    /\ At(self, ack) /\ k[self] > 0 => r[self] = c

ServerRings ==
    /\ Producing("server", "resp", "resp.full", "put_resp", "commit_resp")
    /\ Consuming("server", "req", "recv.empty", "get_req", "recv.is_ready3", "ack_req")

ClientRings ==
    /\ Producing("client", "req", "send.full", "put_req", "commit_req")
    /\ Consuming("client", "resp", "recv.empty", "get_resp", "get_resp", "ack_resp")

RingInv ==
    /\ Detached => state = INIT
    /\ ClearedSoFar
    /\ LateClear
    /\ state = READY => Bounded("req") /\ Bounded("resp") /\ ServerRings
    /\ ClientRings

-----------------------------------------------------------------------------
(* The refinement: the link is up when the state word says so; the pending  *)
(* requests and answers are the slots between the indices of the rings.     *)

LinkUp == state = READY

Pending(c, p, Entry(_)) ==
    IF LinkUp THEN [i \in 1 .. ahead(c, p) |-> Entry(idx_masked(c + i - 1))] ELSE <<>>

\* ack_req only publishes what the server has already decided to take.
ReqHead == IF At("server", "ack_req") THEN wrapping_inc(idx[<<"req", "c">>]) ELSE idx[<<"req", "c">>]

ReqEntry(i)  == Merge(req_slot[i].head, req_slot[i].args)
RespEntry(i) == resp_slot[i]

Serving == pc["server"] \in {"ack_req", "do_cmd", "resp.is_ready", "resp.full",
                             "put_resp", "commit_resp"}

Waiting == pc["client"] \in {"recv.is_ready", "recv.empty", "get_resp", "ack_resp"}

Abstract == INSTANCE Mailbox WITH
    Requests <- Msg,
    Answered <- {m \in Msg : m.kind = "Ok"},
    None     <- NoMsg,
    Depth    <- MB_MAX_ENTRIES,
    up       <- LinkUp,
    todo     <- Pending(ReqHead, idx[<<"req", "p">>], ReqEntry),
    cur      <- IF Serving THEN buf["server"] ELSE NoMsg,
    replies  <- Pending(idx[<<"resp", "c">>], idx[<<"resp", "p">>], RespEntry),
    wait     <- IF Waiting THEN buf["client"] ELSE NoMsg

\* The channel implements Mailbox: every access to a shared word is a step of the
\* promise or no step at all.
ImplementsMailbox == Abstract!MSpec

-----------------------------------------------------------------------------
\* reset() is answered: "reset detected" (mb_async_channel.rs:264, 295) is followed
\* by READY, which the first call after a reset waits for.
ResetCompletes == At("client", "reset_req_p2") ~> LinkUp

\* A reset that begins when the server is waiting for one is always answered: so a client
\* that resets again after a reset that got lost is served.
ResetRecovers ==
    At("client", "reset_req") /\ At("server", "wait_reset") ~> LinkUp

\* Every call returns: a send that has begun comes back to the caller.
CallReturns == At("client", "send.is_ready") ~> At("client", "idle")

\* Everything committed is eventually executed, if no reset comes between.
EventuallyServed == \A n \in 1 .. MaxReq : nreq = n ~> served = n

==============================================================================

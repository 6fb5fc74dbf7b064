----------------------------- MODULE MBAsyncProps -----------------------------
(***************************************************************************)
(* What MBAsyncChannel must guarantee, and that it implements Mailbox.     *)
(***************************************************************************)
EXTENDS MBAsyncChannel, Sequences

\* The type invariant: index words keep their width.
AsyncTypeOK ==
    /\ version \in {0, MB_VERSION} /\ state \in {INIT, READY}
    /\ idx \in [Words -> Idx]
    /\ slot \in [{"req", "resp"} -> [Slot -> AnyMsg]]
    /\ c_waker \in {"none", "sender"} /\ s_waker \in {"none", "server"}
    /\ parked \subseteq Task
    /\ pc["sender"] \in {"idle", "send_req", "recv_resp", "panic"}
    /\ pc["server"] \in {"reset", "recv_req", "do_cmd", "send_resp", "stopped", "panic"}
    /\ pc \in [Task -> {"idle", "send_req", "recv_resp", "panic", "reset", "recv_req",
                        "do_cmd", "send_resp", "stopped"}]
    /\ buf \in [Task -> AnyMsg] /\ ret \in AnyMsg
    /\ nreq \in 0 .. MaxReq /\ nreset \in 0 .. MaxReset + 1 /\ served \in 0 .. MaxReq

\* What a task waits for: the condition that was false when its future last
\* returned Pending.
Ready(t) ==
    CASE pc[t] = "send_req"  -> can_put("req") /\ is_ready
      [] pc[t] = "recv_resp" -> can_get("resp") \/ ~is_ready
      [] pc[t] = "reset"     -> reset_ready
      [] pc[t] = "recv_req"  -> can_get("req") \/ ~is_ready
      [] pc[t] = "send_resp" -> can_put("resp") \/ ~is_ready
      [] OTHER               -> FALSE

\* No wakeup is lost: a task that is not polled has left a waker, and has nothing to
\* do - neither the other side nor a reset made its condition true without waking
\* it.  With one waker per side and each overwritten at will, this rests on every
\* try_* that changes the channel waking the other side.
NoLostWakeup ==
    /\ "server" \in parked => s_waker = "server" /\ ~Ready("server")
    /\ "sender" \in parked => c_waker = "sender" /\ ~Ready("sender")

\* The expect("Unexpected reset!") of a receive (mb_async_channel.rs:126) never fires:
\* between a send_req and its recv_resp nobody takes the channel down.
NoUnexpectedReset == pc["sender"] # "panic"

\* do_cmd sees requests in the order they were issued, none twice, and never an
\* entry of a ring that a reset has emptied.
AsyncServesInOrder == pc["server"] = "do_cmd" => buf["server"].id > served

\* A call returns the answer of its own request, also after a call was dropped and the
\* channel reset while the server was at work on it.
AsyncOwnAnswer ==
    [][(pc["sender"] = "recv_resp" /\ pc'["sender"] = "idle" /\ nreset' = nreset)
            => ret' = buf["sender"]]_vars

-----------------------------------------------------------------------------
(* The refinement, as for MBChannel: pending is what lies between the indices. *)

Pending(q) ==
    IF is_ready
    THEN [i \in 1 .. ahead(idx[<<q, "c">>], idx[<<q, "p">>]) |->
             slot[q][idx_masked(idx[<<q, "c">>] + i - 1)]]
    ELSE <<>>

Abstract == INSTANCE Mailbox WITH
    Requests <- Msg,
    Answered <- {m \in Msg : m.kind = "Ok"},
    None     <- NoMsg,
    Depth    <- MB_MAX_ENTRIES,
    up       <- is_ready,
    todo     <- Pending("req"),
    cur      <- IF pc["server"] \in {"do_cmd", "send_resp"} THEN buf["server"] ELSE NoMsg,
    replies  <- Pending("resp"),
    wait     <- IF pc["sender"] = "recv_resp" THEN buf["sender"] ELSE NoMsg

\* Sender and receiver tasks implement the same promise as a firmware client and
\* its server.
AsyncImplementsMailbox == Abstract!MSpec

-----------------------------------------------------------------------------
\* With no wake loop and no polls but those the wakers ask for, every call returns ...
AsyncCallReturns ==
    \A n \in 1 .. MaxReq :
        (nreq = n /\ pc["sender"] = "send_req") ~> (nreq > n \/ pc["sender"] = "idle")

\* ... and every reset is acknowledged: the window in which MBChannel can lose one
\* is closed by the Mutex.
AsyncResetCompletes == (state = INIT /\ nreset > 0) ~> (state = READY)

==============================================================================

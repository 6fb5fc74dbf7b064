---------------------------- MODULE MBAsyncChannel ----------------------------
(***************************************************************************)
(* A channel whose two sides are async tasks of one host process           *)
(* (mb_async_channel.rs): an MBAsyncSender, and the MBAsyncReceiver of a   *)
(* serve loop.  All they share is behind one Mutex, so a try_* call is one *)
(* step.  What can go wrong is the scheduling: a task whose future is      *)
(* Pending is not polled again before the waker it has left in c_waker or  *)
(* s_waker is called.                                                      *)
(*                                                                         *)
(* The application calls and resets one after the other; with Cancels it   *)
(* may also drop the future of a call, as a timeout does, and then reset.  *)
(***************************************************************************)
EXTENDS MBQueue

CONSTANTS Kinds,      \* what the requests are: subset of AllKinds
          MaxReq,     \* bound: requests
          MaxReset,   \* bound: resets after the first
          Cancels,    \* TRUE: calls may be dropped in favour of a reset
          WakeLoop    \* TRUE: MBChannelShareMemSys::wake runs beside the tasks

AllKinds == {"Ok", "NoResp", "Stop"}

ASSUME AsyncAssumption ==
    /\ Kinds \subseteq AllKinds
    /\ MaxReq \in Nat /\ MaxReset \in Nat
    /\ Cancels \in BOOLEAN /\ WakeLoop \in BOOLEAN

VARIABLES
    version, state,     \* the words of the channel header
    idx,                \* idx_p and idx_c of the two rings
    slot,               \* the entries of the two rings
    c_waker, s_waker,   \* the task to wake, or "none"
    parked,             \* the tasks that are polled again only when woken
    pc,                 \* what each task awaits
    buf,                \* the request a task sends or serves
    ret,                \* what recv_resp returned last
    nreq, nreset,       \* requests issued and resets so far (bounded)
    served              \* history: id of the last request do_cmd executed

channel == <<version, state, idx, slot>>
tasks   == <<c_waker, s_waker, parked, pc>>
bounds  == <<nreq, nreset>>
vars == <<version, state, idx, slot, c_waker, s_waker, parked, pc, buf, ret,
          nreq, nreset, served>>

Task  == {"sender", "server"}
Words == {"req", "resp"} \X {"p", "c"}
INIT  == "INIT"
READY == "READY"

\* Both sides are built from one crate, so check_version finds what it expects.
MB_VERSION == 1

Msg    == [id : 1 .. MaxReq, kind : Kinds]
NoMsg  == [id |-> 0, kind |-> "IDLE"]
AnyMsg == Msg \cup {NoMsg}

Init ==
    /\ version = 0 /\ state = INIT
    /\ idx = [w \in Words |-> 0]
    /\ slot = [q \in {"req", "resp"} |-> [i \in Slot |-> NoMsg]]
    /\ c_waker = "none" /\ s_waker = "none"
    /\ parked = {}
    /\ pc = [t \in Task |-> IF t = "server" THEN "reset" ELSE "idle"]
    /\ buf = [t \in Task |-> NoMsg]
    /\ ret = NoMsg
    /\ nreq = 0 /\ nreset = 0 /\ served = 0

-----------------------------------------------------------------------------
(* The channel, under the Mutex.                                            *)

is_ready   == state = READY
can_put(q) == ~full(idx[<<q, "c">>], idx[<<q, "p">>])
can_get(q) == ~empty(idx[<<q, "c">>], idx[<<q, "p">>])

put_commit(q, m) ==
    /\ slot' = [slot EXCEPT ![q][idx_masked(idx[<<q, "p">>])] = m]
    /\ idx' = [idx EXCEPT ![<<q, "p">>] = wrapping_inc(@)]
    /\ UNCHANGED <<version, state>>

cur_entry(q) == slot[q][idx_masked(idx[<<q, "c">>])]

ack(q) ==
    /\ idx' = [idx EXCEPT ![<<q, "c">>] = wrapping_inc(@)]
    /\ UNCHANGED <<version, state, slot>>

reset_ready == version # 0 /\ state = INIT /\ \A w \in Words : idx[w] = 0

-----------------------------------------------------------------------------
(* Polling.  A future that is ready leaves its task running; yield_now wakes *)
(* its task at once, which is then running too.                             *)

Await(t, l) == pc' = [pc EXCEPT ![t] = l]

\* Bug: whoever made room, or filled an entry, tells nobody.
wake_s_Nobody == UNCHANGED <<s_waker, c_waker, parked>>
wake_c_Nobody == UNCHANGED <<s_waker, c_waker, parked>>

\* if let Some(w) = ch.s_waker.take() { w.wake() }, and the same for c_waker.
wake_s == s_waker' = "none" /\ parked' = parked \ {s_waker} /\ UNCHANGED c_waker
wake_c == c_waker' = "none" /\ parked' = parked \ {c_waker} /\ UNCHANGED s_waker

Park(t) ==
    /\ parked' = parked \cup {t}
    /\ IF t = "server" THEN s_waker' = t /\ UNCHANGED c_waker
                       ELSE c_waker' = t /\ UNCHANGED s_waker
    /\ UNCHANGED pc

-----------------------------------------------------------------------------
(* The sender.                                                              *)

\* The application resets the channel before its first call.
Call(kind) ==
    /\ pc["sender"] = "idle" /\ nreset > 0
    /\ nreq < MaxReq
    /\ nreq' = nreq + 1
    /\ buf' = [buf EXCEPT !["sender"] = [id |-> nreq + 1, kind |-> kind]]
    /\ Await("sender", "send_req")
    /\ UNCHANGED <<channel, c_waker, s_waker, parked, ret, nreset, served>>

\* The future of a call is dropped with its waker still registered.
MayReset ==
    /\ nreset <= MaxReset
    /\ pc["sender"] = "idle" \/ (Cancels /\ pc["sender"] \in {"send_req", "recv_resp"})

\* Bug: the reset does not clear the indices.
reset_req_KeepsRings ==
    /\ MayReset
    /\ nreset' = nreset + 1
    /\ version' = MB_VERSION /\ state' = INIT
    /\ s_waker' = "none" /\ parked' = parked \ {s_waker, "sender"}
    /\ Await("sender", "idle")
    /\ buf' = [buf EXCEPT !["sender"] = NoMsg]
    /\ UNCHANGED <<idx, slot, c_waker, ret, nreq, served>>

\* reset(): reset_req and reset_req_p2 under one lock.
reset_req ==
    /\ MayReset
    /\ nreset' = nreset + 1
    /\ version' = MB_VERSION /\ state' = INIT
    /\ idx' = [w \in Words |-> 0]
    /\ s_waker' = "none" /\ parked' = parked \ {s_waker, "sender"}
    /\ Await("sender", "idle")
    /\ buf' = [buf EXCEPT !["sender"] = NoMsg]
    /\ UNCHANGED <<slot, c_waker, ret, nreq, served>>

\* Bug: a send that takes no notice of a full ring.
sender_try_send_Full ==
    /\ pc["sender"] = "send_req"
    /\ \/ ~is_ready /\ Park("sender") /\ UNCHANGED channel
       \/ /\ is_ready
          /\ put_commit("req", buf["sender"])
          /\ wake_s
          /\ Await("sender", IF buf["sender"].kind = "Ok" THEN "recv_resp" ELSE "idle")
    /\ UNCHANGED <<buf, ret, bounds, served>>

\* Bug: a send that does not wait for the server to acknowledge the reset.
sender_try_send_NotReady ==
    /\ pc["sender"] = "send_req"
    /\ \/ ~can_put("req") /\ Park("sender") /\ UNCHANGED channel
       \/ /\ can_put("req")
          /\ put_commit("req", buf["sender"])
          /\ wake_s
          /\ Await("sender", IF buf["sender"].kind = "Ok" THEN "recv_resp" ELSE "idle")
    /\ UNCHANGED <<buf, ret, bounds, served>>

sender_try_send ==
    /\ pc["sender"] = "send_req"
    /\ \/ ~(can_put("req") /\ is_ready) /\ Park("sender") /\ UNCHANGED channel
       \/ /\ can_put("req") /\ is_ready
          /\ put_commit("req", buf["sender"])
          /\ wake_s
          /\ Await("sender", IF buf["sender"].kind = "Ok" THEN "recv_resp" ELSE "idle")
    /\ UNCHANGED <<buf, ret, bounds, served>>

\* NotReady meets expect("Unexpected reset!").
sender_try_recv ==
    /\ pc["sender"] = "recv_resp"
    /\ \/ ~is_ready /\ wake_s /\ Await("sender", "panic") /\ UNCHANGED <<channel, ret>>
       \/ is_ready /\ ~can_get("resp") /\ Park("sender") /\ UNCHANGED <<channel, ret>>
       \/ /\ is_ready /\ can_get("resp")
          /\ ret' = cur_entry("resp")
          /\ ack("resp")
          /\ wake_s
          /\ Await("sender", "idle")
    /\ UNCHANGED <<buf, bounds, served>>

-----------------------------------------------------------------------------
(* The receiver and the serve loop.                                         *)

wait_reset ==
    /\ pc["server"] = "reset"
    /\ \/ ~reset_ready /\ Park("server") /\ UNCHANGED channel
       \/ /\ reset_ready
          /\ state' = READY
          /\ idx' = [w \in Words |-> 0]
          /\ wake_c
          /\ Await("server", "recv_req")
          /\ UNCHANGED <<version, slot>>
    /\ UNCHANGED <<buf, ret, bounds, served>>

\* The two later looks at the state word see what the first has seen: it only
\* changes under the Mutex.
server_try_recv ==
    /\ pc["server"] = "recv_req"
    /\ \/ ~is_ready /\ wake_s /\ Await("server", "reset") /\ UNCHANGED <<channel, buf>>
       \/ is_ready /\ ~can_get("req") /\ Park("server") /\ UNCHANGED <<channel, buf>>
       \/ /\ is_ready /\ can_get("req")
          /\ buf' = [buf EXCEPT !["server"] = cur_entry("req")]
          /\ ack("req")
          /\ wake_c
          /\ Await("server", "do_cmd")
    /\ UNCHANGED <<ret, bounds, served>>

\* Bug: requests nobody awaits an answer of are answered too.
AfterCmd_AnswersAll(kind) ==
    CASE kind \in {"Ok", "NoResp"} -> "send_resp"
      [] kind = "Stop"   -> "stopped"
      [] OTHER           -> "panic"

AfterCmd(kind) ==
    CASE kind = "Ok"     -> "send_resp"
      [] kind = "NoResp" -> "recv_req"
      [] kind = "Stop"   -> "stopped"
      [] OTHER           -> "panic"

do_cmd ==
    /\ pc["server"] = "do_cmd"
    /\ Await("server", AfterCmd(buf["server"].kind))
    /\ served' = buf["server"].id
    /\ UNCHANGED <<channel, c_waker, s_waker, parked, buf, ret, bounds>>

\* Bug: the answer to a request of before a reset is sent after it.
server_try_send_Retries ==
    /\ pc["server"] = "send_resp"
    /\ \/ ~is_ready /\ reset_ready /\ state' = READY /\ wake_c
          /\ UNCHANGED <<version, idx, slot, pc>>
       \/ ~is_ready /\ ~reset_ready /\ Park("server") /\ UNCHANGED channel
       \/ is_ready /\ ~can_put("resp") /\ Park("server") /\ UNCHANGED channel
       \/ /\ is_ready /\ can_put("resp")
          /\ put_commit("resp", buf["server"])
          /\ wake_c
          /\ Await("server", "recv_req")
    /\ UNCHANGED <<buf, ret, bounds, served>>

\* A response that meets a reset is dropped.
server_try_send ==
    /\ pc["server"] = "send_resp"
    /\ \/ ~is_ready /\ wake_s /\ Await("server", "reset") /\ UNCHANGED channel
       \/ is_ready /\ ~can_put("resp") /\ Park("server") /\ UNCHANGED channel
       \/ /\ is_ready /\ can_put("resp")
          /\ put_commit("resp", buf["server"])
          /\ wake_c
          /\ Await("server", "recv_req")
    /\ UNCHANGED <<buf, ret, bounds, served>>

-----------------------------------------------------------------------------
\* A round of the wake loop: MBAsyncWake wakes whoever is registered.
Wake ==
    /\ WakeLoop
    /\ c_waker # "none" \/ s_waker # "none"
    /\ c_waker' = "none" /\ s_waker' = "none"
    /\ parked' = parked \ {c_waker, s_waker}
    /\ UNCHANGED <<channel, pc, buf, ret, bounds, served>>

PollSender == "sender" \notin parked /\ (sender_try_send \/ sender_try_recv)

PollServer ==
    "server" \notin parked /\ (wait_reset \/ server_try_recv \/ do_cmd \/ server_try_send)

Next ==
    \/ reset_req
    \/ \E kind \in Kinds : Call(kind)
    \/ PollSender
    \/ PollServer
    \/ Wake

Spec == Init /\ [][Next]_vars

\* The executor polls every task that is not parked; nothing else is owed.
FairSpec == Spec /\ WF_vars(PollServer) /\ WF_vars(PollSender)

==============================================================================

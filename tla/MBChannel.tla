------------------------------ MODULE MBChannel ------------------------------
(***************************************************************************)
(* One mailbox channel between a firmware client (MBNbRefSender, no_std)   *)
(* and its host server (MBAsyncReceiver and the serve loop), each on a     *)
(* processor of its own.  They share nothing but the words of the channel: *)
(* version, state, and for each of the two rings the indices idx_p, idx_c  *)
(* and the slots.  There is no lock between them, so a step of this model  *)
(* is one access to one shared word; everything the code does between two  *)
(* accesses is local and belongs to the step before.                       *)
(*                                                                         *)
(* A client may call reset() at any time it is between two calls; with     *)
(* Crashes it may also restart in the middle of anything, its first act    *)
(* then being reset().                                                     *)
(***************************************************************************)
EXTENDS MBQueue

CONSTANTS Kinds,           \* what the requests are: subset of AllKinds
          MB_VERSION,      \* version the server was built with
          ClientVersions,  \* versions the firmware may have been built with
          MaxReq,          \* bound: requests the client sends
          MaxReset,        \* bound: resets after the one at boot
          Crashes          \* TRUE: the client may restart in mid-operation

\* What do_cmd makes of a request: "Ok" is answered, "NoResp" is not, "Stop"
\* ends the server; IDLE is the action of an entry nobody wrote.
AllKinds == {"Ok", "NoResp", "Stop"}

ASSUME ChannelAssumption ==
    /\ Kinds \subseteq AllKinds
    /\ MB_VERSION \in Nat \ {0}
    /\ ClientVersions \subseteq Nat \ {0}
    /\ MaxReq \in Nat
    /\ MaxReset \in Nat
    /\ Crashes \in BOOLEAN

VARIABLES
    version, state,   \* the words of the channel header
    idx,              \* idx_p and idx_c of the two rings
    req_slot,         \* request entries, written and read in two parts
    resp_slot,        \* response entries: the rets word
    pc,               \* what client and server are executing ...
    k,                \* ... how many shared words it has accessed there ...
    r,                \* ... and the index word it has read
    buf,              \* the request being sent, the request being served
    ret,              \* what get_resp returned to the client last
    started,          \* the server is past check_version
    nreq, nreset,     \* requests issued and resets so far (bounded)
    served            \* history: id of the last request do_cmd executed

shared == <<version, state, idx, req_slot, resp_slot>>
bounds == <<nreq, nreset>>
vars == <<version, state, idx, req_slot, resp_slot, pc, k, r, buf, ret,
          started, nreq, nreset, served>>

Proc == {"client", "server"}
Words == {"req", "resp"} \X {"p", "c"}
INIT  == "INIT"
READY == "READY"

Msg    == [id : 1 .. MaxReq, kind : Kinds]
NoMsg  == [id |-> 0, kind |-> "IDLE"]
AnyMsg == Msg \cup {NoMsg}

-----------------------------------------------------------------------------
(* Control flow: a label is a call the process is executing, k counts the   *)
(* shared accesses made in it.                                              *)

At(self, l) == pc[self] = l

Goto(self, l) ==
    /\ pc' = [pc EXCEPT ![self] = l]
    /\ k' = [k EXCEPT ![self] = 0]

Again(self) ==
    /\ k' = [k EXCEPT ![self] = @ + 1]
    /\ UNCHANGED pc

-----------------------------------------------------------------------------
(* The operations of MBChannelIf, for whichever side calls them.            *)

\* One read of the state word: READY or not.
is_ready(self, at, yes, no) ==
    /\ At(self, at)
    /\ Goto(self, IF state = READY THEN yes ELSE no)
    /\ UNCHANGED <<shared, r>>

\* full() and empty() read idx_c and idx_p twice: once to compare the slot
\* numbers and, if these agree, once more to compare the lap flags.
compare_slots(self, q, no) ==
    /\ k[self] = 1
    /\ IF idx_masked(r[self]) = idx_masked(idx[<<q, "p">>])
       THEN Again(self) ELSE Goto(self, no)
    /\ UNCHANGED r

compare_flags(self, q, same, yes, no) ==
    /\ k[self] = 3
    /\ Goto(self, IF (idx_flag(r[self]) = idx_flag(idx[<<q, "p">>])) = same
                  THEN yes ELSE no)
    /\ UNCHANGED r

compare_idx(self, at, q, same, yes, no) ==
    /\ At(self, at)
    /\ \/ /\ k[self] \in {0, 2}
          /\ r' = [r EXCEPT ![self] = idx[<<q, "c">>]]
          /\ Again(self)
       \/ compare_slots(self, q, no)
       \/ compare_flags(self, q, same, yes, no)
    /\ UNCHANGED shared

\* Bug: a producer that does not look whether the ring is full.
q_full_Unchecked(self, at, q, yes, no) ==
    At(self, at) /\ Goto(self, no) /\ UNCHANGED <<shared, r>>

q_full(self, at, q, yes, no)  == compare_idx(self, at, q, FALSE, yes, no)
q_empty(self, at, q, yes, no) == compare_idx(self, at, q, TRUE, yes, no)

\* advance_p, advance_c: read the word, write it back incremented.
advance(self, at, q, end, next) ==
    /\ At(self, at)
    /\ \/ /\ k[self] = 0
          /\ r' = [r EXCEPT ![self] = idx[<<q, end>>]]
          /\ Again(self)
          /\ UNCHANGED idx
       \/ /\ k[self] = 1
          /\ idx' = [idx EXCEPT ![<<q, end>>] = wrapping_inc(r[self])]
          /\ Goto(self, next)
          /\ UNCHANGED r
    /\ UNCHANGED <<version, state, req_slot, resp_slot>>

\* The slot number a put or a get works on.
load_slot(self, q, end) ==
    /\ k[self] = 0
    /\ r' = [r EXCEPT ![self] = idx_masked(idx[<<q, end>>])]
    /\ Again(self)

ClearOrder == << <<"req", "p">>, <<"req", "c">>, <<"resp", "p">>, <<"resp", "c">> >>

\* reset_req_p2, reset_pre_ack: four writes of zero.
clear(self, at, next) ==
    /\ At(self, at)
    /\ idx' = [idx EXCEPT ![ClearOrder[k[self] + 1]] = 0]
    /\ IF k[self] = 3 THEN Goto(self, next) ELSE Again(self)
    /\ UNCHANGED <<version, state, req_slot, resp_slot, r>>

-----------------------------------------------------------------------------
Init ==
    /\ version = 0
    /\ state = INIT
    /\ idx = [w \in Words |-> 0]
    /\ req_slot = [i \in Slot |-> [head |-> NoMsg, args |-> NoMsg]]
    /\ resp_slot = [i \in Slot |-> NoMsg]
    /\ pc = [self \in Proc |-> IF self = "client" THEN "reset_req" ELSE "new"]
    /\ k = [self \in Proc |-> 0]
    /\ r = [self \in Proc |-> 0]
    /\ buf = [self \in Proc |-> NoMsg]
    /\ ret = NoMsg
    /\ started = FALSE
    /\ nreq = 0 /\ nreset = 0 /\ served = 0

-----------------------------------------------------------------------------
(* The client.                                                              *)

\* reset() between two calls, or a restart of the firmware anywhere.
Reset ==
    /\ nreset < MaxReset
    /\ At("client", "idle") \/ (Crashes /\ ~At("client", "panic"))
    /\ Goto("client", "reset_req")
    /\ nreset' = nreset + 1
    /\ buf' = [buf EXCEPT !["client"] = NoMsg]
    /\ UNCHANGED <<shared, r, ret, started, nreq, served>>

\* Bug: the reset forgets to take the state away from READY.
reset_req_NoInit ==
    /\ At("client", "reset_req")
    /\ version' \in ClientVersions
    /\ Goto("client", "reset_req_p2")
    /\ UNCHANGED <<state, idx, req_slot, resp_slot, r, buf, ret, started, bounds, served>>

\* Bug: the reset forgets to publish the version.
reset_req_NoVersion ==
    /\ At("client", "reset_req")
    /\ state' = INIT
    /\ Goto("client", "reset_req_p2")
    /\ UNCHANGED <<version, idx, req_slot, resp_slot, r, buf, ret, started, bounds, served>>

reset_req ==
    /\ At("client", "reset_req")
    /\ \/ /\ k["client"] = 0
          /\ version' \in ClientVersions
          /\ Again("client")
          /\ UNCHANGED state
       \/ /\ k["client"] = 1
          /\ state' = INIT
          /\ Goto("client", "reset_req_p2")
          /\ UNCHANGED version
    /\ UNCHANGED <<idx, req_slot, resp_slot, r, buf, ret, started, bounds, served>>

\* Bug: the reset leaves the last of the four index words as it was.
reset_req_p2_ThreeWords ==
    /\ At("client", "reset_req_p2")
    /\ idx' = [idx EXCEPT ![ClearOrder[k["client"] + 1]] = 0]
    /\ IF k["client"] = 2 THEN Goto("client", "idle") ELSE Again("client")
    /\ UNCHANGED <<version, state, req_slot, resp_slot, r, buf, ret, started, bounds, served>>

reset_req_p2 ==
    /\ clear("client", "reset_req_p2", "idle")
    /\ UNCHANGED <<buf, ret, started, bounds, served>>

\* send() or send_nb(), by the kind of the request.
Call(kind) ==
    /\ At("client", "idle")
    /\ nreq < MaxReq
    /\ nreq' = nreq + 1
    /\ buf' = [buf EXCEPT !["client"] = [id |-> nreq + 1, kind |-> kind]]
    /\ Goto("client", "send.is_ready")
    /\ UNCHANGED <<shared, r, ret, started, nreset, served>>

\* Bug: a send that does not wait for READY.
client_try_send_NotReady ==
    /\ \/ is_ready("client", "send.is_ready", "send.full", "send.full")
       \/ q_full("client", "send.full", "req", "send.is_ready", "put_req")
    /\ UNCHANGED <<buf, ret, started, bounds, served>>

\* try_send under block!: not ready and full both mean "try again".
client_try_send ==
    /\ \/ is_ready("client", "send.is_ready", "send.full", "send.is_ready")
       \/ q_full("client", "send.full", "req", "send.is_ready", "put_req")
    /\ UNCHANGED <<buf, ret, started, bounds, served>>

put_req ==
    /\ At("client", "put_req")
    /\ \/ load_slot("client", "req", "p") /\ UNCHANGED req_slot
       \/ /\ k["client"] = 1
          /\ req_slot' = [req_slot EXCEPT ![r["client"]].head = buf["client"]]
          /\ Again("client") /\ UNCHANGED r
       \/ /\ k["client"] = 2
          /\ req_slot' = [req_slot EXCEPT ![r["client"]].args = buf["client"]]
          /\ Goto("client", "commit_req") /\ UNCHANGED r
    /\ UNCHANGED <<version, state, idx, resp_slot, buf, ret, started, bounds, served>>

AfterCommit == IF buf["client"].kind = "Ok" THEN "recv.is_ready" ELSE "idle"

commit_req ==
    /\ advance("client", "commit_req", "req", "p", AfterCommit)
    /\ UNCHANGED <<buf, ret, started, bounds, served>>

\* try_recv under block!: empty means "try again", not ready is an error that
\* unwrap() turns into a panic.
client_try_recv ==
    /\ \/ is_ready("client", "recv.is_ready", "recv.empty", "panic")
       \/ q_empty("client", "recv.empty", "resp", "recv.is_ready", "get_resp")
    /\ UNCHANGED <<buf, ret, started, bounds, served>>

get_resp ==
    /\ At("client", "get_resp")
    /\ \/ load_slot("client", "resp", "c") /\ UNCHANGED ret
       \/ /\ k["client"] = 1
          /\ ret' = resp_slot[r["client"]]
          /\ Goto("client", "ack_resp") /\ UNCHANGED r
    /\ UNCHANGED <<shared, buf, started, bounds, served>>

ack_resp ==
    /\ advance("client", "ack_resp", "resp", "c", "idle")
    /\ UNCHANGED <<buf, ret, started, bounds, served>>

-----------------------------------------------------------------------------
(* The server.                                                              *)

\* MBChannelShareMem::new overwrites both rings with empty ones; state and
\* version keep what they had.  (The entries it writes are the empty ones that
\* no client has touched yet.)
new ==
    /\ clear("server", "new", "wait_reset")
    /\ UNCHANGED <<buf, ret, started, bounds, served>>

\* reset_ready reads six words, in this order, until one of them disagrees.
ResetReadyWord(i) ==
    CASE i = 0 -> version # 0
      [] i = 1 -> state = INIT
      [] OTHER -> idx[ClearOrder[i - 1]] = 0

wait_reset ==
    /\ At("server", "wait_reset")
    /\ IF ~ResetReadyWord(k["server"]) THEN Goto("server", "wait_reset")
       ELSE IF k["server"] = 5 THEN Goto("server", "reset_pre_ack")
       ELSE Again("server")
    /\ UNCHANGED <<shared, r, buf, ret, started, bounds, served>>

reset_pre_ack ==
    /\ clear("server", "reset_pre_ack", "reset_ack")
    /\ UNCHANGED <<buf, ret, started, bounds, served>>

reset_ack ==
    /\ At("server", "reset_ack")
    /\ state' = READY
    /\ Goto("server", IF started THEN "recv.is_ready" ELSE "check_version")
    /\ UNCHANGED <<version, idx, req_slot, resp_slot, r, buf, ret, started, bounds, served>>

\* Only the first reset is followed by check_version.
check_version ==
    /\ At("server", "check_version")
    /\ Goto("server", IF version = MB_VERSION THEN "recv.is_ready" ELSE "panic")
    /\ started' = TRUE
    /\ UNCHANGED <<shared, r, buf, ret, bounds, served>>

\* Bug: the copied entry is taken without a last look at the state.
server_try_recv_NoRecheck ==
    /\ \/ is_ready("server", "recv.is_ready", "recv.empty", "wait_reset")
       \/ q_empty("server", "recv.empty", "req", "recv.is_ready2", "get_req")
       \/ is_ready("server", "recv.is_ready2", "recv.is_ready", "wait_reset")
       \/ is_ready("server", "recv.is_ready3", "ack_req", "ack_req")
    /\ UNCHANGED <<buf, ret, started, bounds, served>>

\* try_recv looks at the state on entry, again when the ring is empty, and
\* again once the entry is copied.
server_try_recv ==
    /\ \/ is_ready("server", "recv.is_ready", "recv.empty", "wait_reset")
       \/ q_empty("server", "recv.empty", "req", "recv.is_ready2", "get_req")
       \/ is_ready("server", "recv.is_ready2", "recv.is_ready", "wait_reset")
       \/ is_ready("server", "recv.is_ready3", "ack_req", "wait_reset")
    /\ UNCHANGED <<buf, ret, started, bounds, served>>

\* An entry whose parts belong to different requests is none the client sent.
Merge(head, args) == IF head = args THEN args ELSE NoMsg

get_req ==
    /\ At("server", "get_req")
    /\ \/ load_slot("server", "req", "c") /\ UNCHANGED buf
       \/ /\ k["server"] = 1
          /\ buf' = [buf EXCEPT !["server"] = req_slot[r["server"]].head]
          /\ Again("server") /\ UNCHANGED r
       \/ /\ k["server"] = 2
          /\ buf' = [buf EXCEPT !["server"] = Merge(@, req_slot[r["server"]].args)]
          /\ Goto("server", "recv.is_ready3") /\ UNCHANGED r
    /\ UNCHANGED <<shared, ret, started, bounds, served>>

ack_req ==
    /\ advance("server", "ack_req", "req", "c", "do_cmd")
    /\ UNCHANGED <<buf, ret, started, bounds, served>>

\* Bug: requests nobody awaits an answer of are answered too.
AfterCmd_AnswersAll(kind) ==
    CASE kind \in {"Ok", "NoResp"} -> "resp.is_ready"
      [] kind = "Stop"   -> "stopped"
      [] OTHER           -> "panic"

\* Bug: after such a request the server waits for a reset.
AfterCmd_Resets(kind) ==
    CASE kind = "Ok"     -> "resp.is_ready"
      [] kind = "NoResp" -> "wait_reset"
      [] kind = "Stop"   -> "stopped"
      [] OTHER           -> "panic"

\* do_cmd and what the serve loop does with its result.
AfterCmd(kind) ==
    CASE kind = "Ok"     -> "resp.is_ready"
      [] kind = "NoResp" -> "recv.is_ready"
      [] kind = "Stop"   -> "stopped"
      [] OTHER           -> "panic"

do_cmd ==
    /\ At("server", "do_cmd")
    /\ Goto("server", AfterCmd(buf["server"].kind))
    /\ served' = buf["server"].id
    /\ UNCHANGED <<shared, r, buf, ret, started, bounds>>

\* try_send: a response that meets a reset is dropped.
server_try_send ==
    /\ \/ is_ready("server", "resp.is_ready", "resp.full", "wait_reset")
       \/ q_full("server", "resp.full", "resp", "resp.is_ready", "put_resp")
    /\ UNCHANGED <<buf, ret, started, bounds, served>>

put_resp ==
    /\ At("server", "put_resp")
    /\ \/ load_slot("server", "resp", "p") /\ UNCHANGED resp_slot
       \/ /\ k["server"] = 1
          /\ resp_slot' = [resp_slot EXCEPT ![r["server"]] = buf["server"]]
          /\ Goto("server", "commit_resp") /\ UNCHANGED r
    /\ UNCHANGED <<version, state, idx, req_slot, buf, ret, started, bounds, served>>

\* Bug: the answer is written and never published.
commit_resp_Lost ==
    /\ At("server", "commit_resp")
    /\ Goto("server", "recv.is_ready")
    /\ UNCHANGED <<shared, r, buf, ret, started, bounds, served>>

commit_resp ==
    /\ advance("server", "commit_resp", "resp", "p", "recv.is_ready")
    /\ UNCHANGED <<buf, ret, started, bounds, served>>

-----------------------------------------------------------------------------
\* Code the client runs without being asked: everything but a new call.
ClientStep ==
    \/ reset_req \/ reset_req_p2 \/ client_try_send \/ put_req \/ commit_req
    \/ client_try_recv \/ get_resp \/ ack_resp

ServerStep ==
    \/ new \/ wait_reset \/ reset_pre_ack \/ reset_ack \/ check_version
    \/ server_try_recv \/ get_req \/ ack_req \/ do_cmd
    \/ server_try_send \/ put_resp \/ commit_resp

Next == Reset \/ (\E kind \in Kinds : Call(kind)) \/ ClientStep \/ ServerStep

Spec == Init /\ [][Next]_vars

\* The firmware spins inside a call until it is over; the host task is polled
\* for ever because the wake loop wakes it (mb_builder.rs).
FairSpec == Spec /\ WF_vars(ClientStep) /\ WF_vars(ServerStep)

==============================================================================

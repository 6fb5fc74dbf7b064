------------------------------- MODULE MBNbLock -------------------------------
(***************************************************************************)
(* MBNbLockRefSender (mb_nb_channel.rs:33-104): the harts of one firmware, *)
(* and the interrupt handlers that run on them, share a channel under a    *)
(* spin lock.  send and send_nb surround the lock with __mb_save_flag and  *)
(* __mb_restore_flag, reset does not; the lock is released when the guard  *)
(* is dropped at the end of the function, after the flag is restored.      *)
(*                                                                         *)
(* A try_send, try_recv or reset is one step here: MBChannel has their     *)
(* accesses one by one.  The server takes and answers as Mailbox says.     *)
(***************************************************************************)
EXTENDS Naturals, Sequences

CONSTANTS Hart,           \* the harts of the firmware
          Depth,          \* how many requests, or answers, a ring holds
          MaxReq,         \* bound: requests
          MaxReset,       \* bound: resets
          IrqHarts        \* the harts whose interrupt handlers call, too

ASSUME LockAssumption ==
    /\ Depth \in Nat \ {0} /\ MaxReq \in Nat /\ MaxReset \in Nat
    /\ IrqHarts \subseteq Hart

VARIABLES
    masks,              \* the platform's __mb_save_flag masks interrupts
    masked, in_irq,     \* of each hart: interrupts are off; its handler runs
    holder,             \* who holds the Mutex, or Free
    pc, op, flag,       \* of each context: where it is, in which call, saved flag
    req, got,           \* of each context: its request and the answer it took
    link,               \* "up", or how far the handshake of a reset has come
    todo, cur, replies, \* the channel, as in Mailbox
    nreq, nreset        \* requests and resets so far (bounded)

hw      == <<masks, masked, in_irq>>
channel == <<link, todo, cur, replies>>
bounds  == <<nreq, nreset>>
calls   == <<holder, pc, op, flag, req, got>>
vars    == <<hw, channel, calls, bounds>>

Ctx  == Hart \X {"main", "irq"}
Free == <<"none", "none">>

Kinds == {"Ok", "NoResp"}
Req   == [id : 1 .. MaxReq, kind : Kinds]
NoReq == [id |-> 0, kind |-> "IDLE"]

Labels == {"idle", "lock", "try_send", "try_recv", "restore", "reset_req", "unlock", "panic"}
Ops    == {"send", "send_nb", "reset"}

Init ==
    /\ masks \in BOOLEAN
    /\ masked = [h \in Hart |-> FALSE] /\ in_irq = [h \in Hart |-> FALSE]
    /\ holder = Free
    /\ pc = [c \in Ctx |-> "idle"] /\ op = [c \in Ctx |-> "reset"]
    /\ flag = [c \in Ctx |-> FALSE]
    /\ req = [c \in Ctx |-> NoReq] /\ got = [c \in Ctx |-> NoReq]
    /\ link = "off" /\ todo = <<>> /\ cur = NoReq /\ replies = <<>>
    /\ nreq = 0 /\ nreset = 0

up == link = "up"

\* A handler suspends the main program of its hart until it returns.
Runs(c) == in_irq[c[1]] <=> c[2] = "irq"
At(c, label) == Runs(c) /\ pc[c] = label
Goto(c, label) == pc' = [pc EXCEPT ![c] = label]

\* The weak flag functions do nothing; a platform's own mask interrupts.
restore_flag(c) ==
    masked' = [masked EXCEPT ![c[1]] = IF masks THEN flag[c] ELSE @]

\* send and send_nb get as far as waiting for the lock.
Begin(c, kind) ==
    /\ nreq < MaxReq /\ nreq' = nreq + 1
    /\ req' = [req EXCEPT ![c] = [id |-> nreq', kind |-> kind]]
    /\ op' = [op EXCEPT ![c] = IF kind = "Ok" THEN "send" ELSE "send_nb"]
    /\ Goto(c, "lock")
    /\ UNCHANGED <<masks, channel, holder, got, nreset>>

\* Bug: saves the flag without masking.
save_flag_Unmasked(c, was) ==
    /\ flag' = [flag EXCEPT ![c] = was]
    /\ masked' = [masked EXCEPT ![c[1]] = was]

save_flag(c, was) ==
    /\ flag' = [flag EXCEPT ![c] = was]
    /\ masked' = [masked EXCEPT ![c[1]] = was \/ masks]

\* The main program calls.
Call(h, kind) ==
    LET c == <<h, "main">> IN
    /\ At(c, "idle")
    /\ save_flag(c, masked[h])
    /\ Begin(c, kind)
    /\ UNCHANGED in_irq

\* An interrupt whose handler calls.  Taking it masks further ones, as hardware does.
Interrupt(h, kind) ==
    /\ h \in IrqHarts
    /\ ~in_irq[h] /\ ~masked[h]
    /\ in_irq' = [in_irq EXCEPT ![h] = TRUE]
    /\ save_flag(<<h, "irq">>, TRUE)
    /\ Begin(<<h, "irq">>, kind)

\* Bug: a reset that does not take the lock.
Reset_Unlocked(h) ==
    LET c == <<h, "main">> IN
    /\ At(c, "idle")
    /\ nreset < MaxReset /\ nreset' = nreset + 1
    /\ op' = [op EXCEPT ![c] = "reset"]
    /\ Goto(c, "reset_req")
    /\ UNCHANGED <<hw, channel, holder, flag, req, got, nreq>>

\* reset: wait for the lock, with interrupts as they are.
Reset(h) ==
    LET c == <<h, "main">> IN
    /\ At(c, "idle")
    /\ nreset < MaxReset /\ nreset' = nreset + 1
    /\ op' = [op EXCEPT ![c] = "reset"]
    /\ Goto(c, "lock")
    /\ UNCHANGED <<hw, channel, holder, flag, req, got, nreq>>

\* Bug: does not wait until the lock is free.
lock_Unchecked(c) ==
    /\ At(c, "lock")
    /\ holder' = c
    /\ Goto(c, IF op[c] = "reset" THEN "reset_req" ELSE "try_send")
    /\ UNCHANGED <<hw, channel, op, flag, req, got, bounds>>

lock(c) ==
    /\ At(c, "lock") /\ holder = Free
    /\ holder' = c
    /\ Goto(c, IF op[c] = "reset" THEN "reset_req" ELSE "try_send")
    /\ UNCHANGED <<hw, channel, op, flag, req, got, bounds>>

\* Bug: puts without req_can_put.
try_send_Full(c) ==
    /\ At(c, "try_send") /\ up
    /\ todo' = Append(todo, req[c])
    /\ Goto(c, IF op[c] = "send" THEN "try_recv" ELSE "restore")
    /\ UNCHANGED <<hw, link, cur, replies, holder, op, flag, req, got, bounds>>

\* One successful turn of block!(try_send); the others change nothing.
try_send(c) ==
    /\ At(c, "try_send") /\ up /\ Len(todo) < Depth
    /\ todo' = Append(todo, req[c])
    /\ Goto(c, IF op[c] = "send" THEN "try_recv" ELSE "restore")
    /\ UNCHANGED <<hw, link, cur, replies, holder, op, flag, req, got, bounds>>

\* block!(try_recv).unwrap(): a channel that is not ready is an error here.
try_recv(c) ==
    /\ At(c, "try_recv")
    /\ up => replies # <<>>
    /\ IF up
       THEN /\ got' = [got EXCEPT ![c] = Head(replies)]
            /\ replies' = Tail(replies)
            /\ Goto(c, "restore")
       ELSE Goto(c, "panic") /\ UNCHANGED <<replies, got>>
    /\ UNCHANGED <<hw, link, todo, cur, holder, op, flag, req, bounds>>

restore(c) ==
    /\ At(c, "restore")
    /\ restore_flag(c)
    /\ Goto(c, "unlock")
    /\ UNCHANGED <<masks, in_irq, channel, holder, op, flag, req, got, bounds>>

\* Bug: the guard is forgotten.
unlock_Forgotten(c) ==
    /\ At(c, "unlock")
    /\ Goto(c, "idle")
    /\ UNCHANGED <<hw, channel, holder, op, flag, req, got, bounds>>

\* The guard goes out of scope and the call returns.
unlock(c) ==
    /\ At(c, "unlock")
    /\ holder' = Free
    /\ Goto(c, "idle")
    /\ UNCHANGED <<hw, channel, op, flag, req, got, bounds>>

\* A server that is taking or answering a request may lose the reset, until there
\* is another (run channel_lost_reset).
reset_req(c) ==
    /\ At(c, "reset_req")
    /\ link' \in IF cur # NoReq \/ todo # <<>> THEN {"asked", "lost"} ELSE {"asked"}
    /\ todo' = <<>> /\ replies' = <<>>
    /\ Goto(c, "unlock")
    /\ UNCHANGED <<hw, cur, holder, op, flag, req, got, bounds>>

\* The handler is done and interrupts are as they were.
Return(h) ==
    /\ At(<<h, "irq">>, "idle")
    /\ in_irq' = [in_irq EXCEPT ![h] = FALSE]
    /\ masked' = [masked EXCEPT ![h] = FALSE]
    /\ UNCHANGED <<masks, channel, calls, bounds>>

-----------------------------------------------------------------------------
(* The server, as the channel promises it to be.                            *)

Take ==
    /\ up /\ cur = NoReq /\ todo # <<>>
    /\ cur' = Head(todo) /\ todo' = Tail(todo)
    /\ UNCHANGED <<link, replies>>

\* Bug: answers with a default entry.
Answer_Default ==
    /\ up /\ cur.kind = "Ok" /\ Len(replies) < Depth
    /\ replies' = Append(replies, NoReq) /\ cur' = NoReq
    /\ UNCHANGED <<link, todo>>

Answer ==
    /\ up /\ cur.kind = "Ok" /\ Len(replies) < Depth
    /\ replies' = Append(replies, cur) /\ cur' = NoReq
    /\ UNCHANGED <<link, todo>>

Finish ==
    /\ cur # NoReq /\ (cur.kind = "NoResp" \/ ~up)
    /\ cur' = NoReq
    /\ UNCHANGED <<link, todo, replies>>

\* The server acknowledges the reset.
Up ==
    /\ link = "asked" /\ cur = NoReq
    /\ link' = "up"
    /\ UNCHANGED <<todo, cur, replies>>

Server == (Take \/ Answer \/ Finish \/ Up) /\ UNCHANGED <<hw, calls, bounds>>

-----------------------------------------------------------------------------
\* The steps a context takes by itself once it is in a call.
Step(c) ==
    \/ lock(c) \/ try_send(c) \/ try_recv(c)
    \/ restore(c) \/ unlock(c) \/ reset_req(c)

Next ==
    \/ \E h \in Hart : Reset(h) \/ Return(h)
    \/ \E h \in Hart, kind \in Kinds : Call(h, kind) \/ Interrupt(h, kind)
    \/ \E c \in Ctx : Step(c)
    \/ Server

Spec == Init /\ [][Next]_vars

\* Every hart goes on, and so does the server.  A handler ends.
FairSpec ==
    /\ Spec
    /\ \A c \in Ctx : WF_vars(Step(c))
    /\ \A h \in Hart : WF_vars(Return(h))
    /\ WF_vars(Server)
===============================================================================

---------------------------- MODULE MBNbLockProps ----------------------------
(***************************************************************************)
(* What the locked sender must guarantee, and that it implements Mailbox.  *)
(***************************************************************************)
EXTENDS MBNbLock

\* The type invariant.
LockTypeOK ==
    /\ masks \in BOOLEAN
    /\ masked \in [Hart -> BOOLEAN] /\ in_irq \in [Hart -> BOOLEAN]
    /\ holder \in Ctx \cup {Free}
    /\ pc \in [Ctx -> Labels] /\ op \in [Ctx -> Ops] /\ flag \in [Ctx -> BOOLEAN]
    /\ req \in [Ctx -> Req \cup {NoReq}] /\ got \in [Ctx -> Req \cup {NoReq}]
    /\ link \in {"off", "asked", "lost", "up"}
    /\ todo \in Seq(Req) /\ cur \in Req \cup {NoReq} /\ replies \in Seq(Req)
    /\ nreq \in 0 .. MaxReq /\ nreset \in 0 .. MaxReset

\* The guard is alive.
Inside(c) == pc[c] \in {"try_send", "try_recv", "restore", "reset_req", "unlock"}

\* Whoever of the harts and handlers calls, an answer goes to the call that asked
\* for it, although the code takes the first answer in the ring for its own.
LockOwnAnswer ==
    \A c \in Ctx : pc[c] = "restore" /\ op[c] = "send" => got[c] = req[c]

\* No hart's reset pulls the channel away between the halves of another's send, so
\* the unwrap() of try_recv (92) never fires.
LockNeverPanics == \A c \in Ctx : pc[c] # "panic"

\* A handler that waits for a lock its own hart's main program holds.
Stuck(h) == in_irq[h] /\ pc[<<h, "irq">>] = "lock" /\ holder = <<h, "main">>

\* On a platform that masks interrupts, a handler can only get stuck on a main
\* program that is in reset(), or has restored the flag and not yet dropped the
\* guard; never in the middle of a send.
StuckOnlyInWindow ==
    masks => \A h \in Hart : Stuck(h) =>
        pc[<<h, "main">>] = "unlock" \/ op[<<h, "main">>] = "reset"

\* The request whose answer the holder of the lock awaits.
Awaited ==
    IF \E c \in Ctx : pc[c] = "try_recv" /\ req[c].kind = "Ok"
    THEN req[CHOOSE c \in Ctx : pc[c] = "try_recv"] ELSE NoReq

Abstract == INSTANCE Mailbox WITH
    Requests <- Req,
    Answered <- {m \in Req : m.kind = "Ok"},
    None     <- NoReq,
    wait     <- Awaited

\* Several harts and their handlers under the lock look like the one client that
\* Mailbox promises its service to.
LockImplementsMailbox == Abstract!MSpec

-----------------------------------------------------------------------------
InCall(c) == pc[c] \notin {"idle", "panic"}

\* Every call returns, unless a handler is stuck in the window or a reset is lost:
\* no third way to hang.  (The spin lock is not fair: calls are bounded here.)
LockCallsReturn ==
    \/ \A c \in Ctx : InCall(c) ~> ~InCall(c)
    \/ <>[](\E h \in Hart : Stuck(h))
    \/ <>[](link \in {"off", "lost"})
===============================================================================

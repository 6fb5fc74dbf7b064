---------------------------- MODULE MBNbLockProof ----------------------------
(***************************************************************************)
(* Theorems about MBNbLock for any number of harts, any ring depth, and    *)
(* any number of requests and resets.                                      *)
(***************************************************************************)
EXTENDS MBNbLockProps, SequenceTheorems, TLAPS

-----------------------------------------------------------------------------
(* Type correctness.                                                        *)

\* The channel and the counters, which are all that a context does not own.
ChannelTypeOK ==
    /\ link \in {"off", "asked", "lost", "up"}
    /\ todo \in Seq(Req) /\ cur \in Req \cup {NoReq} /\ replies \in Seq(Req)
    /\ nreq \in 0 .. MaxReq /\ nreset \in 0 .. MaxReset

LEMMA Contexts ==
    /\ \A h \in Hart : <<h, "main">> \in Ctx /\ <<h, "irq">> \in Ctx
    /\ \A c \in Ctx : c[1] \in Hart /\ c[2] \in {"main", "irq"} /\ c = <<c[1], c[2]>>
    /\ Free \notin Ctx
  BY DEF Ctx, Free

\* A context that sends has a request of the kind that goes with its call.
Asked ==
    \A c \in Ctx :
        /\ op[c] = "send" => req[c] \in Req /\ req[c].kind = "Ok"
        /\ op[c] = "send_nb" => req[c] \in Req /\ req[c].kind = "NoResp"
        /\ pc[c] \in {"try_send", "restore"} => op[c] # "reset"
        /\ pc[c] = "try_recv" => op[c] = "send"
        /\ pc[c] = "reset_req" => op[c] = "reset"

LEMMA LockTypeInit == Init => LockTypeOK /\ Asked
  BY LockAssumption DEF Init, LockTypeOK, Asked, Labels, Ops, Req, NoReq

\* What is common to all calls.
LEMMA BeginTypes ==
    ASSUME LockTypeOK, NEW c \in Ctx, NEW kind \in Kinds, Begin(c, kind)
    PROVE  /\ pc' \in [Ctx -> Labels] /\ op' \in [Ctx -> Ops]
           /\ req' \in [Ctx -> Req \cup {NoReq}] /\ got' \in [Ctx -> Req \cup {NoReq}]
           /\ holder' \in Ctx \cup {Free} /\ masks' \in BOOLEAN
           /\ ChannelTypeOK'
<1>1. nreq' \in 1 .. MaxReq
  BY LockAssumption DEF Begin, LockTypeOK
<1>2. [id |-> nreq', kind |-> kind] \in Req
  BY <1>1 DEF Req
<1>3. req' \in [Ctx -> Req \cup {NoReq}]
  BY <1>2 DEF Begin, LockTypeOK
<1>4. pc' \in [Ctx -> Labels] /\ op' \in [Ctx -> Ops]
  BY DEF Begin, Goto, LockTypeOK, Labels, Ops
<1>5. ChannelTypeOK'
  BY <1>1 DEF Begin, LockTypeOK, ChannelTypeOK, channel
<1> QED
  BY <1>3, <1>4, <1>5 DEF Begin, LockTypeOK

LEMMA LockTypeNext == LockTypeOK /\ Asked /\ [Next]_vars => LockTypeOK'
<1> SUFFICES ASSUME LockTypeOK, Asked, [Next]_vars PROVE LockTypeOK'
  OBVIOUS
<1> USE LockAssumption, Contexts
<1>1. ASSUME NEW h \in Hart, Reset(h) PROVE LockTypeOK'
  <2>1. pc' \in [Ctx -> Labels] /\ op' \in [Ctx -> Ops]
    BY <1>1 DEF Reset, Goto, LockTypeOK, Labels, Ops
  <2> QED
    BY <1>1, <2>1 DEF Reset, LockTypeOK, hw, channel
<1>2. ASSUME NEW h \in Hart, Return(h) PROVE LockTypeOK'
  BY <1>2 DEF Return, LockTypeOK, channel, calls, bounds
<1>3. ASSUME NEW h \in Hart, NEW kind \in Kinds, Call(h, kind) PROVE LockTypeOK'
  <2>1. Begin(<<h, "main">>, kind)
    BY <1>3 DEF Call
  <2>2. masked' \in [Hart -> BOOLEAN] /\ flag' \in [Ctx -> BOOLEAN] /\ in_irq' = in_irq
    BY <1>3 DEF Call, save_flag, LockTypeOK
  <2> QED
    BY <2>1, <2>2, BeginTypes DEF LockTypeOK, ChannelTypeOK
<1>4. ASSUME NEW h \in Hart, NEW kind \in Kinds, Interrupt(h, kind) PROVE LockTypeOK'
  <2>1. Begin(<<h, "irq">>, kind)
    BY <1>4 DEF Interrupt
  <2>2. masked' \in [Hart -> BOOLEAN] /\ flag' \in [Ctx -> BOOLEAN] /\ in_irq' \in [Hart -> BOOLEAN]
    BY <1>4 DEF Interrupt, save_flag, LockTypeOK
  <2> QED
    BY <2>1, <2>2, BeginTypes DEF LockTypeOK, ChannelTypeOK
<1>5. ASSUME NEW c \in Ctx, Step(c) PROVE LockTypeOK'
  <2>1. CASE lock(c)
    <3>1. pc' \in [Ctx -> Labels] /\ holder' \in Ctx \cup {Free}
      BY <2>1 DEF lock, Goto, LockTypeOK, Labels
    <3> QED
      BY <2>1, <3>1 DEF lock, LockTypeOK, hw, channel, bounds
  <2>2. CASE try_send(c)
    <3>1. op[c] \in Ops /\ op[c] # "reset" /\ req[c] \in Req
      BY <2>2 DEF try_send, At, Asked, LockTypeOK, Ops
    <3>2. pc' \in [Ctx -> Labels]
      BY <2>2 DEF try_send, Goto, LockTypeOK, Labels
    <3>3. todo' \in Seq(Req)
      BY <2>2, <3>1 DEF try_send, LockTypeOK
    <3> QED
      BY <2>2, <3>2, <3>3 DEF try_send, LockTypeOK, hw, bounds
  <2>3. CASE try_recv(c)
    <3>1. pc' \in [Ctx -> Labels]
      BY <2>3 DEF try_recv, Goto, LockTypeOK, Labels
    <3>2. replies' \in Seq(Req) /\ got' \in [Ctx -> Req \cup {NoReq}]
      <4>1. CASE up
        <5>1. replies # <<>> /\ replies' = Tail(replies) /\ got' = [got EXCEPT ![c] = Head(replies)]
          BY <2>3, <4>1 DEF try_recv
        <5>2. Head(replies) \in Req /\ Tail(replies) \in Seq(Req)
          BY <5>1 DEF LockTypeOK
        <5> QED
          BY <5>1, <5>2 DEF LockTypeOK
      <4>2. CASE ~up
        BY <2>3, <4>2 DEF try_recv, LockTypeOK
      <4> QED
        BY <4>1, <4>2
    <3> QED
      BY <2>3, <3>1, <3>2 DEF try_recv, LockTypeOK, hw, bounds
  <2>4. CASE restore(c)
    <3>1. pc' \in [Ctx -> Labels] /\ masked' \in [Hart -> BOOLEAN]
      BY <2>4 DEF restore, restore_flag, Goto, LockTypeOK, Labels
    <3> QED
      BY <2>4, <3>1 DEF restore, LockTypeOK, channel, bounds
  <2>5. CASE unlock(c)
    <3>1. pc' \in [Ctx -> Labels]
      BY <2>5 DEF unlock, Goto, LockTypeOK, Labels
    <3> QED
      BY <2>5, <3>1 DEF unlock, LockTypeOK, hw, channel, bounds
  <2>6. CASE reset_req(c)
    <3>1. pc' \in [Ctx -> Labels]
      BY <2>6 DEF reset_req, Goto, LockTypeOK, Labels
    <3>2. link' \in {"asked", "lost"} /\ todo' \in Seq(Req) /\ replies' \in Seq(Req)
      BY <2>6 DEF reset_req
    <3> QED
      BY <2>6, <3>1, <3>2 DEF reset_req, LockTypeOK, hw, bounds
  <2> QED
    BY <1>5, <2>1, <2>2, <2>3, <2>4, <2>5, <2>6 DEF Step
<1>6. CASE Server
  <2>1. UNCHANGED <<hw, calls, bounds>>
    BY <1>6 DEF Server
  <2>2. CASE Take
    BY <2>1, <2>2 DEF Take, LockTypeOK, hw, calls, bounds
  <2>3. CASE Answer
    BY <2>1, <2>3 DEF Answer, LockTypeOK, NoReq, hw, calls, bounds
  <2>4. CASE Finish
    BY <2>1, <2>4 DEF Finish, LockTypeOK, hw, calls, bounds
  <2>5. CASE Up
    BY <2>1, <2>5 DEF Up, LockTypeOK, hw, calls, bounds
  <2> QED
    BY <1>6, <2>2, <2>3, <2>4, <2>5 DEF Server
<1>7. CASE UNCHANGED vars
  BY <1>7 DEF vars, LockTypeOK, hw, channel, calls, bounds
<1> QED
  BY <1>1, <1>2, <1>3, <1>4, <1>5, <1>6, <1>7 DEF Next

LEMMA AskedNext == LockTypeOK /\ Asked /\ [Next]_vars => Asked'
<1> SUFFICES ASSUME LockTypeOK, Asked, [Next]_vars PROVE Asked'
  OBVIOUS
<1> USE Contexts
<1>1. ASSUME NEW h \in Hart, Reset(h) PROVE Asked'
  BY <1>1 DEF Reset, Goto, At, LockTypeOK, Asked
<1>2. ASSUME NEW c \in Ctx, NEW kind \in Kinds, Begin(c, kind) PROVE Asked'
  <2>1. [id |-> nreq', kind |-> kind] \in Req
    BY <1>2, LockAssumption DEF Begin, Req, LockTypeOK
  <2>2. req' = [req EXCEPT ![c] = [id |-> nreq', kind |-> kind]]
        /\ op' = [op EXCEPT ![c] = IF kind = "Ok" THEN "send" ELSE "send_nb"]
        /\ pc' = [pc EXCEPT ![c] = "lock"]
    BY <1>2 DEF Begin, Goto
  <2> QED
    BY <2>1, <2>2 DEF LockTypeOK, Asked, Kinds
<1>3. ASSUME NEW c \in Ctx, Step(c) PROVE Asked'
  <2>1. UNCHANGED <<op, req>>
    BY <1>3 DEF Step, lock, try_send, try_recv, restore, unlock, reset_req
  <2>2. op[c] \in Ops
    BY DEF LockTypeOK
  <2>3. PICK l \in Labels : pc' = [pc EXCEPT ![c] = l] /\
          (l \in {"try_send", "restore"} => op[c] # "reset") /\
          (l = "try_recv" => op[c] = "send") /\ (l = "reset_req" => op[c] = "reset")
    BY <1>3, <2>2 DEF Step, lock, try_send, try_recv, restore, unlock, reset_req, Goto, At,
       Asked, Labels, Ops
  <2> QED
    BY <2>1, <2>3 DEF LockTypeOK, Asked
<1>4. CASE Server
  BY <1>4 DEF Server, calls, Asked
<1>5. ASSUME NEW h \in Hart, Return(h) PROVE Asked'
  BY <1>5 DEF Return, calls, Asked
<1>6. CASE UNCHANGED vars
  BY <1>6 DEF vars, calls, Asked
<1> QED
  BY <1>1, <1>2, <1>3, <1>4, <1>5, <1>6 DEF Next, Call, Interrupt

\* The variables keep their types.
THEOREM LockTypeCorrect == Spec => [](LockTypeOK /\ Asked)
<1>1. LockTypeOK /\ Asked /\ [Next]_vars => (LockTypeOK /\ Asked)'
  BY LockTypeNext, AskedNext
<1> QED
  BY LockTypeInit, <1>1, PTL DEF Spec

-----------------------------------------------------------------------------
(* The lock, and the window.                                                *)

\* A guard is alive exactly where it is held, and the channel stays up while an
\* answer is awaited.
Mutex ==
    \A c \in Ctx :
        /\ Inside(c) <=> holder = c
        /\ pc[c] = "try_recv" => up
        /\ pc[c] # "panic"

\* From the saved to the restored flag no handler runs.
Masked ==
    masks => \A h \in Hart :
        pc[<<h, "main">>] \in {"lock", "try_send", "try_recv", "restore"} /\ op[<<h, "main">>] # "reset"
            => masked[h] /\ ~in_irq[h]

\* A handler that does not run is not in a call.
HandlersReturn == \A h \in Hart : ~in_irq[h] => pc[<<h, "irq">>] = "idle"

LEMMA MutexInit == Init => HandlersReturn /\ Mutex /\ Masked
<1> SUFFICES ASSUME Init PROVE HandlersReturn /\ Mutex /\ Masked
  OBVIOUS
<1>1. holder = Free /\ \A c \in Ctx : pc[c] = "idle"
  BY DEF Init
<1>2. Mutex
  BY <1>1, Contexts DEF Mutex, Inside
<1>3. HandlersReturn /\ Masked
  BY <1>1, Contexts DEF HandlersReturn, Masked
<1> QED
  BY <1>2, <1>3

LEMMA HandlersReturnNext == LockTypeOK /\ HandlersReturn /\ [Next]_vars => HandlersReturn'
<1> SUFFICES ASSUME LockTypeOK, HandlersReturn, [Next]_vars PROVE HandlersReturn'
  OBVIOUS
<1> USE Contexts
<1>1. ASSUME NEW h \in Hart, Reset(h) PROVE HandlersReturn'
  BY <1>1 DEF Reset, Goto, hw, LockTypeOK, HandlersReturn
<1>2. ASSUME NEW h \in Hart, NEW kind \in Kinds, Call(h, kind) PROVE HandlersReturn'
  BY <1>2 DEF Call, Begin, Goto, LockTypeOK, HandlersReturn
<1>3. ASSUME NEW h \in Hart, NEW kind \in Kinds, Interrupt(h, kind) PROVE HandlersReturn'
  BY <1>3 DEF Interrupt, Begin, Goto, LockTypeOK, HandlersReturn
<1>4. ASSUME NEW h \in Hart, Return(h) PROVE HandlersReturn'
  BY <1>4 DEF Return, At, calls, LockTypeOK, HandlersReturn
<1>5. ASSUME NEW c \in Ctx, Step(c) PROVE HandlersReturn'
  <2>1. in_irq' = in_irq /\ At(c, pc[c]) /\ \E l \in Labels : pc' = [pc EXCEPT ![c] = l]
    BY <1>5 DEF Step, lock, try_send, try_recv, restore, unlock, reset_req, Goto, At, hw, Labels
  <2> QED
    BY <2>1 DEF At, Runs, LockTypeOK, HandlersReturn
<1>6. CASE Server
  BY <1>6 DEF Server, hw, calls, HandlersReturn
<1>7. CASE UNCHANGED vars
  BY <1>7 DEF vars, hw, calls, HandlersReturn
<1> QED
  BY <1>1, <1>2, <1>3, <1>4, <1>5, <1>6, <1>7 DEF Next

\* Only a context that is inside changes the link, the server apart.
LEMMA MutexNext == LockTypeOK /\ Asked /\ HandlersReturn /\ Mutex /\ [Next]_vars => Mutex'
<1> SUFFICES ASSUME LockTypeOK, Asked, HandlersReturn, Mutex, [Next]_vars PROVE Mutex'
  OBVIOUS
<1> USE Contexts DEF Inside, up
<1>1. ASSUME NEW h \in Hart, Reset(h) PROVE Mutex'
  BY <1>1 DEF Reset, Goto, At, channel, LockTypeOK, Mutex
<1>2. ASSUME NEW c \in Ctx, NEW kind \in Kinds, At(c, "idle"), Begin(c, kind) PROVE Mutex'
  BY <1>2 DEF Begin, Goto, At, channel, LockTypeOK, Mutex
<1>3. ASSUME NEW h \in Hart, Return(h) PROVE Mutex'
  BY <1>3 DEF Return, calls, channel, Mutex
<1>4. ASSUME NEW c \in Ctx, Step(c) PROVE Mutex'
  <2>1. CASE lock(c)
    BY <2>1 DEF lock, Goto, At, channel, LockTypeOK, Mutex
  <2>2. CASE try_send(c)
    BY <2>2 DEF try_send, Goto, At, LockTypeOK, Mutex
  <2>3. CASE try_recv(c)
    <3>1. up
      BY <2>3 DEF try_recv, At, Mutex
    <3>2. pc' = [pc EXCEPT ![c] = "restore"] /\ UNCHANGED <<link, holder>>
      BY <2>3, <3>1 DEF try_recv, Goto
    <3> QED
      BY <2>3, <3>2 DEF try_recv, At, LockTypeOK, Mutex
  <2>4. CASE restore(c)
    BY <2>4 DEF restore, Goto, At, channel, LockTypeOK, Mutex
  <2>5. CASE unlock(c)
    BY <2>5 DEF unlock, Goto, At, channel, LockTypeOK, Mutex
  <2>6. CASE reset_req(c)
    BY <2>6 DEF reset_req, Goto, At, LockTypeOK, Mutex
  <2> QED
    BY <1>4, <2>1, <2>2, <2>3, <2>4, <2>5, <2>6 DEF Step
<1>5. CASE Server
  BY <1>5 DEF Server, Take, Answer, Finish, Up, calls, Mutex
<1>6. CASE UNCHANGED vars
  BY <1>6 DEF vars, channel, calls, Mutex
<1>7. ASSUME NEW h \in Hart, NEW kind \in Kinds, Interrupt(h, kind) PROVE Mutex'
  <2>1. pc[<<h, "irq">>] = "idle"
    BY <1>7 DEF Interrupt, HandlersReturn
  <2> QED
    BY <1>7, <2>1 DEF Interrupt, Begin, Goto, channel, LockTypeOK, Mutex
<1> QED
  BY <1>1, <1>2, <1>3, <1>4, <1>5, <1>6, <1>7 DEF Next, Call

LEMMA MaskedNext == LockTypeOK /\ Masked /\ [Next]_vars => Masked'
<1> SUFFICES ASSUME LockTypeOK, Masked, [Next]_vars PROVE Masked'
  OBVIOUS
<1> USE Contexts
<1>1. ASSUME NEW h \in Hart, Reset(h) PROVE Masked'
  BY <1>1 DEF Reset, Goto, hw, LockTypeOK, Masked
<1>2. ASSUME NEW h \in Hart, NEW kind \in Kinds, Call(h, kind) PROVE Masked'
  BY <1>2 DEF Call, save_flag, Begin, Goto, At, Runs, LockTypeOK, Masked
<1>3. ASSUME NEW h \in Hart, NEW kind \in Kinds, Interrupt(h, kind) PROVE Masked'
  BY <1>3 DEF Interrupt, save_flag, Begin, Goto, LockTypeOK, Masked
<1>4. ASSUME NEW h \in Hart, Return(h) PROVE Masked'
  BY <1>4 DEF Return, At, Runs, calls, LockTypeOK, Masked
<1>5. ASSUME NEW c \in Ctx, Step(c) PROVE Masked'
  <2>1. CASE restore(c)
    <3>1. c[2] = "irq" => in_irq[c[1]]
      BY <2>1 DEF restore, At, Runs
    <3> QED
      BY <2>1, <3>1 DEF restore, restore_flag, Goto, LockTypeOK, Masked
  <2>2. ASSUME ~restore(c) PROVE Masked'
    <3>1. UNCHANGED <<hw, op>> /\ \E l \in Labels : pc' = [pc EXCEPT ![c] = l]
                            /\ (l \in {"lock", "try_send", "try_recv", "restore"} /\ op[c] # "reset" =>
                                 pc[c] \in {"lock", "try_send", "try_recv", "restore"})
      BY <1>5, <2>2 DEF Step, lock, try_send, try_recv, unlock, reset_req, Goto, At, Labels
    <3> QED
      BY <3>1, ZenonT(30) DEF hw, LockTypeOK, Masked
  <2> QED
    BY <2>1, <2>2
<1>6. CASE Server
  BY <1>6 DEF Server, hw, calls, Masked
<1>7. CASE UNCHANGED vars
  BY <1>7 DEF vars, hw, calls, Masked
<1> QED
  BY <1>1, <1>2, <1>3, <1>4, <1>5, <1>6, <1>7 DEF Next

LockInv == LockTypeOK /\ Asked /\ HandlersReturn /\ Mutex /\ Masked

LEMMA LockInvNext == LockInv /\ [Next]_vars => LockInv'
  BY LockTypeNext, AskedNext, HandlersReturnNext, MutexNext, MaskedNext DEF LockInv

LEMMA LockInvAlways == Spec => []LockInv
<1>1. Init => LockInv
  BY LockTypeInit, MutexInit DEF LockInv
<1> QED
  BY <1>1, LockInvNext, PTL DEF Spec

\* No hart finds the channel down between the two halves of its send.
THEOREM NoHartPanics == Spec => []LockNeverPanics
<1>1. LockInv => LockNeverPanics
  BY DEF LockInv, Mutex, LockNeverPanics
<1> QED
  BY <1>1, LockInvAlways, PTL

\* Where interrupts are masked, the only way for a handler to get stuck is the
\* window after the flag is restored, and reset().
THEOREM OnlyTheWindow == Spec => []StuckOnlyInWindow
<1>1. LockInv => StuckOnlyInWindow
  <2> SUFFICES ASSUME LockInv, masks, NEW h \in Hart, Stuck(h)
               PROVE  pc[<<h, "main">>] = "unlock" \/ op[<<h, "main">>] = "reset"
    BY DEF StuckOnlyInWindow
  <2>1. Inside(<<h, "main">>) /\ in_irq[h]
    BY Contexts DEF Stuck, LockInv, Mutex
  <2> QED
    BY <2>1, Contexts DEF Inside, LockInv, Masked, Asked
<1> QED
  BY <1>1, LockInvAlways, PTL

-----------------------------------------------------------------------------
(* Whose answer it is.                                                      *)

Awaits(m) == \E c \in Ctx : pc[c] = "try_recv" /\ req[c] = m

\* While the channel is up there is at most one request that is to be answered, on
\* its way, with the server or answered, and somebody awaits its answer.
OneAsked ==
    /\ ~up => todo = <<>> /\ replies = <<>>
    /\ up =>
        /\ \A i \in 1 .. Len(todo) :
              todo[i].kind = "Ok" => Awaits(todo[i]) /\ cur.kind # "Ok" /\ replies = <<>>
        /\ \A i, j \in 1 .. Len(todo) : todo[i].kind = "Ok" /\ todo[j].kind = "Ok" => i = j
        /\ cur.kind = "Ok" => Awaits(cur) /\ replies = <<>>
        /\ replies # <<>> => Len(replies) = 1 /\ Awaits(replies[1])

AnswerInv == LockInv /\ OneAsked /\ LockOwnAnswer

LEMMA OneAskedInit == Init => OneAsked /\ LockOwnAnswer
  BY DEF Init, OneAsked, LockOwnAnswer, up, NoReq

\* A step that leaves the channel alone, and whoever awaits an answer.
LEMMA OthersKeep ==
    ASSUME OneAsked, UNCHANGED channel, \A m : Awaits(m) => Awaits(m)'
    PROVE  OneAsked'
  BY DEF OneAsked, channel, up

\* Whoever is inside is alone.
LEMMA AloneInside ==
    ASSUME LockInv, NEW c \in Ctx, Inside(c)
    PROVE  /\ \A d \in Ctx \ {c} : pc[d] \notin {"try_send", "try_recv", "restore", "reset_req", "unlock"}
           /\ \A m : Awaits(m) <=> pc[c] = "try_recv" /\ req[c] = m
<1>1. \A d \in Ctx \ {c} : ~Inside(d)
  BY DEF LockInv, Mutex
<1> QED
  BY <1>1 DEF Inside, Awaits

LEMMA OneAskedNext == AnswerInv /\ [Next]_vars => OneAsked' /\ LockOwnAnswer'
<1> SUFFICES ASSUME AnswerInv, [Next]_vars PROVE OneAsked' /\ LockOwnAnswer'
  OBVIOUS
<1> USE Contexts DEF AnswerInv, LockInv
<1>1. ASSUME NEW h \in Hart, Reset(h) PROVE OneAsked' /\ LockOwnAnswer'
  <2>1. pc' = [pc EXCEPT ![<<h, "main">>] = "lock"] /\ pc[<<h, "main">>] = "idle"
        /\ op' = [op EXCEPT ![<<h, "main">>] = "reset"] /\ UNCHANGED <<req, got, channel>>
    BY <1>1 DEF Reset, Goto, At, channel
  <2>2. \A m : Awaits(m) => Awaits(m)'
    BY <2>1 DEF LockTypeOK, Awaits
  <2> QED
    BY <2>1, <2>2, OthersKeep DEF LockTypeOK, LockOwnAnswer
<1>2. ASSUME NEW c \in Ctx, NEW kind \in Kinds, pc[c] = "idle", Begin(c, kind)
      PROVE  OneAsked' /\ LockOwnAnswer'
  <2>1. /\ pc' = [pc EXCEPT ![c] = "lock"] /\ UNCHANGED <<got, channel>>
        /\ \A d \in Ctx \ {c} : req'[d] = req[d] /\ op'[d] = op[d]
    BY <1>2 DEF Begin, Goto, channel, LockTypeOK
  <2>2. \A m : Awaits(m) => Awaits(m)'
    BY <1>2, <2>1 DEF LockTypeOK, Awaits
  <2> QED
    BY <2>1, <2>2, OthersKeep DEF LockTypeOK, LockOwnAnswer
<1>3. ASSUME NEW h \in Hart, Return(h) PROVE OneAsked' /\ LockOwnAnswer'
  BY <1>3, OthersKeep DEF Return, calls, Awaits, LockOwnAnswer
<1>4. ASSUME NEW c \in Ctx, Step(c) PROVE OneAsked' /\ LockOwnAnswer'
  <2>1. CASE lock(c) \/ restore(c) \/ unlock(c)
    <3>1. /\ UNCHANGED <<op, req, got, channel>> /\ pc[c] # "try_recv"
          /\ \E l \in Labels \ {"restore"} : pc' = [pc EXCEPT ![c] = l]
      BY <2>1 DEF lock, restore, unlock, Goto, At, channel, Labels
    <3>2. \A m : Awaits(m) => Awaits(m)'
      BY <3>1 DEF LockTypeOK, Awaits
    <3> QED
      BY <3>1, <3>2, OthersKeep DEF LockTypeOK, LockOwnAnswer
  <2>2. CASE try_send(c)
    <3>1. /\ up /\ up' /\ UNCHANGED <<cur, replies, op, req, got>>
          /\ pc[c] = "try_send" /\ todo' = Append(todo, req[c])
          /\ pc' = [pc EXCEPT ![c] = IF op[c] = "send" THEN "try_recv" ELSE "restore"]
      BY <2>2 DEF try_send, At, Goto, up
    <3>2. \A m : ~Awaits(m)
      BY <3>1, AloneInside DEF Inside
    <3>3. /\ \A k \in 1 .. Len(todo) : todo[k].kind # "Ok"
          /\ cur.kind # "Ok" /\ replies = <<>>
      BY <3>1, <3>2 DEF OneAsked
    <3>4. op[c] \in {"send", "send_nb"} /\ req[c] \in Req
      BY <3>1 DEF LockTypeOK, Asked, Ops
    <3>5. Len(todo') = Len(todo) + 1 /\ Len(todo) \in Nat /\ todo'[Len(todo) + 1] = req[c]
          /\ \A k \in 1 .. Len(todo) : todo'[k] = todo[k]
      BY <3>1, <3>4 DEF LockTypeOK
    <3>6. req[c].kind = "Ok" => Awaits(req[c])'
      <4>1. req[c].kind = "Ok" => op[c] = "send"
        BY <3>4 DEF Asked
      <4> QED
        BY <3>1, <4>1 DEF LockTypeOK, Awaits
    <3>7. OneAsked'
      <4>1. \A k \in 1 .. Len(todo') : todo'[k].kind = "Ok" => k = Len(todo) + 1
        BY <3>3, <3>5
      <4> QED
        BY <3>1, <3>3, <3>5, <3>6, <4>1 DEF OneAsked
    <3>8. LockOwnAnswer'
      BY <3>1 DEF LockTypeOK, LockOwnAnswer
    <3> QED
      BY <3>7, <3>8
  <2>3. CASE try_recv(c)
    <3>1. up /\ pc[c] = "try_recv"
      BY <2>3 DEF try_recv, At, Mutex
    <3>2. /\ replies # <<>> /\ replies' = Tail(replies) /\ got' = [got EXCEPT ![c] = Head(replies)]
          /\ pc' = [pc EXCEPT ![c] = "restore"] /\ UNCHANGED <<link, todo, cur, op, req>>
      BY <2>3, <3>1 DEF try_recv, Goto
    <3>3. Len(replies) = 1 /\ Awaits(replies[1])
      BY <3>1, <3>2 DEF OneAsked
    <3>4. Head(replies) = req[c] /\ replies' = <<>>
      <4>1. replies[1] = req[c]
        BY <3>1, <3>3, AloneInside DEF Inside
      <4>2. Len(Tail(replies)) = 0 /\ Tail(replies) \in Seq(Req) /\ Head(replies) = replies[1]
        BY <3>2, <3>3, HeadTailProperties DEF LockTypeOK
      <4> QED
        BY <3>2, <4>1, <4>2, EmptySeq
    <3>5. OneAsked'
      BY <3>1, <3>2, <3>4 DEF OneAsked, up
    <3>6. LockOwnAnswer'
      BY <3>2, <3>4 DEF LockTypeOK, LockOwnAnswer
    <3> QED
      BY <3>5, <3>6
  <2>4. CASE reset_req(c)
    <3>1. link' # "up" /\ todo' = <<>> /\ replies' = <<>> /\ UNCHANGED <<op, req, got>>
          /\ pc' = [pc EXCEPT ![c] = "unlock"]
      BY <2>4 DEF reset_req, Goto
    <3> QED
      BY <3>1 DEF OneAsked, up, LockTypeOK, LockOwnAnswer
  <2> QED
    BY <1>4, <2>1, <2>2, <2>3, <2>4 DEF Step
<1>5. CASE Server
  <2>1. UNCHANGED <<pc, op, req, got>>
    BY <1>5 DEF Server, calls
  <2>2. LockOwnAnswer'
    BY <2>1 DEF LockOwnAnswer
  <2>3. \A m : Awaits(m)' <=> Awaits(m)
    BY <2>1 DEF Awaits
  <2>4. CASE Take
    <3>1. up /\ up' /\ cur = NoReq /\ todo # <<>> /\ cur' = Head(todo) /\ todo' = Tail(todo)
          /\ replies' = replies
      BY <2>4 DEF Take, up
    <3>2. Len(todo) \in Nat \ {0} /\ cur' = todo[1] /\ Len(todo') = Len(todo) - 1
          /\ \A k \in 1 .. Len(todo') : todo'[k] = todo[k + 1]
      BY <3>1, HeadTailProperties, EmptySeq DEF LockTypeOK
    <3>3. \A k \in 1 .. Len(todo') : k + 1 \in 1 .. Len(todo) /\ k + 1 # 1
      BY <3>2
    <3>4. 1 \in 1 .. Len(todo)
      BY <3>2
    <3> QED
      BY <2>2, <2>3, <3>1, <3>2, <3>3, <3>4 DEF OneAsked
  <2>5. CASE Answer
    <3>1. up /\ up' /\ cur.kind = "Ok" /\ replies' = Append(replies, cur) /\ cur' = NoReq
          /\ todo' = todo
      BY <2>5 DEF Answer, up
    <3>2. replies = <<>> /\ Awaits(cur) /\ \A k \in 1 .. Len(todo) : todo[k].kind # "Ok"
      BY <3>1 DEF OneAsked
    <3>3. Len(replies') = 1 /\ replies'[1] = cur
      BY <3>1, <3>2
    <3>4. cur'.kind # "Ok"
      BY <3>1 DEF NoReq
    <3> QED
      BY <2>2, <2>3, <3>1, <3>2, <3>3, <3>4 DEF OneAsked
  <2>6. CASE Finish
    BY <2>2, <2>3, <2>6 DEF Finish, OneAsked, up, NoReq
  <2>7. CASE Up
    BY <2>2, <2>3, <2>7 DEF Up, OneAsked, up, NoReq
  <2> QED
    BY <1>5, <2>4, <2>5, <2>6, <2>7 DEF Server
<1>6. CASE UNCHANGED vars
  BY <1>6, OthersKeep DEF vars, calls, Awaits, LockOwnAnswer
<1>7. ASSUME NEW h \in Hart, NEW kind \in Kinds, Call(h, kind) \/ Interrupt(h, kind)
      PROVE  OneAsked' /\ LockOwnAnswer'
  <2>1. CASE Call(h, kind)
    BY <1>2, <2>1 DEF Call, At
  <2>2. CASE Interrupt(h, kind)
    <3>1. pc[<<h, "irq">>] = "idle"
      BY <2>2 DEF Interrupt, HandlersReturn
    <3> QED
      BY <1>2, <2>2, <3>1 DEF Interrupt
  <2> QED
    BY <1>7, <2>1, <2>2
<1> QED
  BY <1>1, <1>3, <1>4, <1>5, <1>6, <1>7 DEF Next

LEMMA AnswerInvNext == AnswerInv /\ [Next]_vars => AnswerInv'
  BY LockInvNext, OneAskedNext DEF AnswerInv

LEMMA AnswerInvInit == Init => AnswerInv
  BY LockTypeInit, MutexInit, OneAskedInit DEF AnswerInv, LockInv

\* Of several harts and handlers that share the channel, each gets its own answer.
THEOREM OwnAnswerUnderLock == Spec => []LockOwnAnswer
<1>1. AnswerInv => LockOwnAnswer
  BY DEF AnswerInv
<1> QED
  BY AnswerInvInit, AnswerInvNext, <1>1, PTL DEF Spec

-----------------------------------------------------------------------------
(* The harts under the lock are one client of Mailbox.                      *)

\* There is one at most who awaits an answer, and it is what Awaited says.
AwaitedExact ==
    /\ \A c \in Ctx : pc[c] = "try_recv" => Awaited = req[c]
    /\ (\A c \in Ctx : pc[c] # "try_recv") => Awaited = NoReq

LEMMA AwaitedIs == AnswerInv => AwaitedExact
<1> SUFFICES ASSUME AnswerInv PROVE AwaitedExact
  OBVIOUS
<1> USE Contexts DEF AnswerInv
<1>1. ASSUME NEW c \in Ctx, pc[c] = "try_recv" PROVE Awaited = req[c]
  <2>1. \A d \in Ctx : pc[d] = "try_recv" => d = c
    BY <1>1, AloneInside DEF Inside
  <2>2. req[c].kind = "Ok"
    BY <1>1 DEF LockInv, Asked
  <2>3. (CHOOSE d \in Ctx : pc[d] = "try_recv") = c
    BY <1>1, <2>1
  <2> QED
    BY <1>1, <2>2, <2>3 DEF Awaited
<1>2. (\A c \in Ctx : pc[c] # "try_recv") => Awaited = NoReq
  BY DEF Awaited
<1> QED
  BY <1>1, <1>2 DEF AwaitedExact

LEMMA AwaitedNext == AnswerInv /\ [Next]_vars => AwaitedExact /\ AwaitedExact'
<1>1. AnswerInv' => AwaitedExact'
  BY AwaitedIs, PTL
<1> QED
  BY <1>1, AwaitedIs, AnswerInvNext

\* A step that leaves the channel alone, and whoever awaits an answer.
LEMMA OthersStutter ==
    ASSUME AwaitedExact, AwaitedExact', UNCHANGED channel,
           \A c \in Ctx : pc'[c] = "try_recv" <=> pc[c] = "try_recv",
           \A c \in Ctx : pc[c] = "try_recv" => req'[c] = req[c]
    PROVE  UNCHANGED Abstract!mvars
<1>1. Awaited' = Awaited
  BY DEF AwaitedExact
<1> QED
  BY <1>1 DEF Abstract!mvars, channel, up

LEMMA StepImplements ==
    AnswerInv /\ [Next]_vars => [Abstract!MNext]_Abstract!mvars
<1> SUFFICES ASSUME AnswerInv, [Next]_vars PROVE [Abstract!MNext]_Abstract!mvars
  OBVIOUS
<1> USE Contexts DEF AnswerInv, LockInv
<1>0. AwaitedExact /\ AwaitedExact'
  BY AwaitedNext
<1>1. ASSUME NEW h \in Hart, Reset(h) PROVE UNCHANGED Abstract!mvars
  BY <1>0, <1>1, OthersStutter DEF Reset, Goto, At, LockTypeOK
<1>2. ASSUME NEW c \in Ctx, NEW kind \in Kinds, pc[c] = "idle", Begin(c, kind)
      PROVE  UNCHANGED Abstract!mvars
  BY <1>0, <1>2, OthersStutter DEF Begin, Goto, LockTypeOK
<1>3. ASSUME NEW h \in Hart, Return(h) PROVE UNCHANGED Abstract!mvars
  BY <1>0, <1>3, OthersStutter DEF Return, calls
<1>4. ASSUME NEW c \in Ctx, Step(c) PROVE [Abstract!MNext]_Abstract!mvars
  <2>1. CASE lock(c) \/ restore(c) \/ unlock(c)
    BY <1>0, <2>1, OthersStutter DEF lock, restore, unlock, Goto, At, channel, LockTypeOK
  <2>2. CASE try_send(c)
    <3>1. /\ up /\ up' /\ Len(todo) < Depth /\ todo' = Append(todo, req[c])
          /\ UNCHANGED <<cur, replies, req>> /\ pc[c] = "try_send"
          /\ pc' = [pc EXCEPT ![c] = IF op[c] = "send" THEN "try_recv" ELSE "restore"]
      BY <2>2 DEF try_send, At, Goto, up
    <3>2. \A d \in Ctx : pc[d] # "try_recv"
      BY <3>1, AloneInside DEF Inside
    <3>3. Awaited = NoReq
      BY <1>0, <3>2 DEF AwaitedExact
    <3>4. op[c] \in {"send", "send_nb"} /\ req[c] \in Req
          /\ (req[c].kind = "Ok" <=> op[c] = "send")
      BY <3>1 DEF LockTypeOK, Asked, Ops
    <3>5. Awaited' = IF req[c].kind = "Ok" THEN req[c] ELSE NoReq
      BY <1>0, <3>1, <3>2, <3>4 DEF AwaitedExact, LockTypeOK
    <3> QED
      BY <3>1, <3>3, <3>4, <3>5 DEF Abstract!MNext, Abstract!Send, up
  <2>3. CASE try_recv(c)
    <3>1. up /\ pc[c] = "try_recv"
      BY <2>3 DEF try_recv, At, Mutex
    <3>2. /\ replies # <<>> /\ replies' = Tail(replies)
          /\ pc' = [pc EXCEPT ![c] = "restore"] /\ UNCHANGED <<link, todo, cur, req>>
      BY <2>3, <3>1 DEF try_recv, Goto
    <3>3. Awaited = req[c] /\ Awaited # NoReq
      BY <1>0, <3>1 DEF AwaitedExact, Asked, NoReq
    <3>4. replies[1] = req[c] /\ Head(replies) = replies[1]
      BY <3>1, <3>2, AloneInside, HeadTailProperties DEF OneAsked, Inside, LockTypeOK
    <3>5. \A d \in Ctx : pc'[d] # "try_recv"
      BY <3>1, <3>2, AloneInside DEF Inside, LockTypeOK
    <3>6. Awaited' = NoReq
      BY <1>0, <3>5 DEF AwaitedExact
    <3> QED
      BY <3>2, <3>3, <3>4, <3>6 DEF Abstract!MNext, Abstract!Receive, up
  <2>4. CASE reset_req(c)
    <3>1. /\ pc[c] = "reset_req" /\ pc' = [pc EXCEPT ![c] = "unlock"]
          /\ link' # "up" /\ todo' = <<>> /\ replies' = <<>> /\ cur' = cur
      BY <2>4 DEF reset_req, Goto, At
    <3>2. \A d \in Ctx : pc'[d] # "try_recv"
      BY <3>1, AloneInside DEF Inside, LockTypeOK
    <3>3. Awaited' = NoReq
      BY <1>0, <3>2 DEF AwaitedExact
    <3> QED
      BY <3>1, <3>3 DEF Abstract!MNext, Abstract!Down, up
  <2> QED
    BY <1>4, <2>1, <2>2, <2>3, <2>4 DEF Step
<1>5. CASE Server
  <2>1. UNCHANGED <<pc, req>>
    BY <1>5 DEF Server, calls
  <2>2. Awaited' = Awaited
    BY <2>1 DEF Awaited
  <2>3. CASE Take
    BY <2>2, <2>3 DEF Take, Abstract!MNext, Abstract!Take, up
  <2>4. CASE Answer
    <3>1. cur \in Req
      BY <2>4 DEF Answer, LockTypeOK, NoReq
    <3> QED
      BY <2>2, <2>4, <3>1 DEF Answer, Abstract!MNext, Abstract!Answer, up
  <2>5. CASE Finish
    BY <2>2, <2>5 DEF Finish, Abstract!MNext, Abstract!Finish, up
  <2>6. CASE Up
    BY <2>2, <2>6 DEF Up, Abstract!MNext, Abstract!Up, up
  <2> QED
    BY <1>5, <2>3, <2>4, <2>5, <2>6 DEF Server
<1>6. CASE UNCHANGED vars
  BY <1>0, <1>6, OthersStutter DEF vars, calls
<1>7. ASSUME NEW h \in Hart, NEW kind \in Kinds, Call(h, kind) \/ Interrupt(h, kind)
      PROVE  UNCHANGED Abstract!mvars
  <2>1. CASE Call(h, kind)
    BY <1>2, <2>1 DEF Call, At
  <2>2. CASE Interrupt(h, kind)
    <3>1. pc[<<h, "irq">>] = "idle"
      BY <2>2 DEF Interrupt, HandlersReturn
    <3> QED
      BY <1>2, <2>2, <3>1 DEF Interrupt
  <2> QED
    BY <1>7, <2>1, <2>2
<1> QED
  BY <1>1, <1>3, <1>4, <1>5, <1>6, <1>7 DEF Next

\* The harts and handlers of a firmware, under the lock, look to each other and to
\* the server like the one client that Mailbox makes its promise to.
THEOREM LockRefinesMailbox == Spec => LockImplementsMailbox
<1>1. Init => Abstract!MInit
  <2> SUFFICES ASSUME Init PROVE Abstract!MInit
    OBVIOUS
  <2>1. Awaited = NoReq
    BY Contexts DEF Init, Awaited
  <2> QED
    BY <2>1 DEF Init, Abstract!MInit, up
<1> QED
  BY <1>1, AnswerInvInit, AnswerInvNext, StepImplements, PTL
     DEF Spec, LockImplementsMailbox, Abstract!MSpec
===============================================================================

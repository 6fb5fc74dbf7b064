--------------------------- MODULE MBChannelProof ---------------------------
(***************************************************************************)
(* Theorems about MBChannel for rings and index words of every size, any   *)
(* number of requests and resets, any versions, with or without restarts:  *)
(* its types, its handshake, and its rings.                                *)
(***************************************************************************)
EXTENDS MBChannelProps, MBQueueProof

USE DEF Proc, INIT, READY

-----------------------------------------------------------------------------
(* Type correctness.                                                        *)

ClearLabels == {"new", "reset_req_p2", "reset_pre_ack"}

\* TypeOK is not inductive: a clear must know that it has only four words to
\* write, and a get that the register it indexes the ring with is a slot number.
TypeInv ==
    /\ TypeOK
    /\ \A self \in Proc : pc[self] \in ClearLabels => k[self] \in 0 .. 3
    /\ At("client", "get_resp") /\ k["client"] > 0 => r["client"] \in Slot
    /\ At("server", "get_req") /\ k["server"] > 0 => r["server"] \in Slot

LEMMA TypeInit == Init => TypeInv
<1> SUFFICES ASSUME Init PROVE TypeInv
  OBVIOUS
<1>1. NoMsg \in AnyMsg
  BY DEF AnyMsg
<1>2. idx \in [Words -> Idx] /\ r \in [Proc -> Idx]
  BY ZeroIsIndex DEF Init
<1>3. req_slot \in [Slot -> [head : AnyMsg, args : AnyMsg]] /\ resp_slot \in [Slot -> AnyMsg]
  BY <1>1 DEF Init
<1>4. pc \in [Proc -> ClientLabels \cup ServerLabels] /\ k \in [Proc -> 0 .. 5]
  BY DEF Init, ClientLabels, ServerLabels
<1>5. pc["client"] = "reset_req" /\ pc["server"] = "new" /\ \A self \in Proc : k[self] = 0
  BY DEF Init
<1>6. started \in BOOLEAN
  BY Zenon DEF Init
<1>7. buf \in [Proc -> AnyMsg] /\ ret \in AnyMsg
  BY <1>1 DEF Init
<1>8. version \in Nat /\ state \in {INIT, READY}
  BY DEF Init
<1>9. nreq \in 0 .. MaxReq /\ nreset \in 0 .. MaxReset /\ served \in 0 .. MaxReq
  BY ChannelAssumption DEF Init
<1>10. TypeOK
  BY <1>2, <1>3, <1>4, <1>5, <1>6, <1>7, <1>8, <1>9 DEF TypeOK, ClientLabels, ServerLabels
<1> QED
  BY <1>5, <1>10 DEF TypeInv, At

LEMMA MsgIds == \A m \in AnyMsg : m.id \in 0 .. MaxReq
BY ChannelAssumption DEF AnyMsg, Msg, NoMsg

\* An advance keeps every index in its word.
LEMMA AdvanceTypes ==
    ASSUME TypeOK, NEW self \in Proc, NEW at, NEW next,
           NEW q \in {"req", "resp"}, NEW end \in {"p", "c"},
           advance(self, at, q, end, next)
    PROVE  idx' \in [Words -> Idx] /\ r' \in [Proc -> Idx]
<1>1. <<q, end>> \in Words
  BY DEF Words
<1>2. idx[<<q, end>>] \in Idx /\ r[self] \in Idx
  BY <1>1 DEF TypeOK
<1>3. wrapping_inc(r[self]) \in Idx
  BY <1>2, IndexTypes
<1> QED
  BY <1>1, <1>2, <1>3 DEF TypeOK, advance

LEMMA TypeNext == TypeInv /\ [Next]_vars => TypeInv'
<1> SUFFICES ASSUME TypeInv, [Next]_vars PROVE TypeInv'
  OBVIOUS
<1> USE ChannelAssumption, ZeroIsIndex, SlotsAreIndices, IndexTypes
    DEF TypeInv, TypeOK, At, Goto, Again, shared, bounds, ClientLabels,
        ServerLabels, ClearLabels, AnyMsg
<1>1. CASE Reset
  BY <1>1 DEF Reset
<1>2. CASE \E kind \in Kinds : Call(kind)
  BY <1>2 DEF Call, Msg
<1>3. CASE reset_req
  <2>1. version' \in Nat /\ state' \in {INIT, READY}
    BY <1>3 DEF reset_req
  <2> QED
    BY <1>3, <2>1 DEF reset_req
<1>4. CASE reset_req_p2
  BY <1>4 DEF reset_req_p2, clear, ClearOrder, Words
<1>5. CASE client_try_send
  BY <1>5 DEF client_try_send, is_ready, q_full, compare_idx, compare_slots, compare_flags, Words
<1>6. CASE put_req
  <2>1. buf["client"] \in AnyMsg
    OBVIOUS
  <2>2. req_slot' \in [Slot -> [head : AnyMsg, args : AnyMsg]]
    BY <1>6, <2>1 DEF put_req, load_slot
  <2>3. r' \in [Proc -> Idx]
    BY <1>6 DEF put_req, load_slot, Words
  <2> QED
    BY <1>6, <2>2, <2>3 DEF put_req, load_slot
<1>7. CASE commit_req
  <2>1. idx' \in [Words -> Idx] /\ r' \in [Proc -> Idx]
    BY <1>7, AdvanceTypes DEF commit_req
  <2> QED
    BY <1>7, <2>1 DEF commit_req, advance, AfterCommit
<1>8. CASE client_try_recv
  BY <1>8 DEF client_try_recv, is_ready, q_empty, compare_idx, compare_slots, compare_flags, Words
<1>9. CASE get_resp
  BY <1>9 DEF get_resp, load_slot, Words
<1>10. CASE ack_resp
  <2>1. idx' \in [Words -> Idx] /\ r' \in [Proc -> Idx]
    BY <1>10, AdvanceTypes DEF ack_resp
  <2> QED
    BY <1>10, <2>1 DEF ack_resp, advance
<1>11. CASE new
  BY <1>11 DEF new, clear, ClearOrder, Words
<1>12. CASE wait_reset
  BY <1>12 DEF wait_reset
<1>13. CASE reset_pre_ack
  BY <1>13 DEF reset_pre_ack, clear, ClearOrder, Words
<1>14. CASE reset_ack
  BY <1>14 DEF reset_ack
<1>15. CASE check_version
  BY <1>15 DEF check_version
<1>16. CASE server_try_recv
  BY <1>16 DEF server_try_recv, is_ready, q_empty, compare_idx, compare_slots, compare_flags, Words
<1>17. CASE get_req
  BY <1>17 DEF get_req, load_slot, Merge, Words
<1>18. CASE ack_req
  <2>1. idx' \in [Words -> Idx] /\ r' \in [Proc -> Idx]
    BY <1>18, AdvanceTypes DEF ack_req
  <2> QED
    BY <1>18, <2>1 DEF ack_req, advance
<1>19. CASE do_cmd
  <2>1. served' \in 0 .. MaxReq
    BY <1>19, MsgIds DEF do_cmd
  <2>2. AfterCmd(buf["server"].kind) \in {"resp.is_ready", "recv.is_ready", "stopped", "panic"}
    BY DEF AfterCmd
  <2> QED
    BY <1>19, <2>1, <2>2 DEF do_cmd
<1>20. CASE server_try_send
  BY <1>20 DEF server_try_send, is_ready, q_full, compare_idx, compare_slots, compare_flags, Words
<1>21. CASE put_resp
  BY <1>21 DEF put_resp, load_slot, Words
<1>22. CASE commit_resp
  <2>1. idx' \in [Words -> Idx] /\ r' \in [Proc -> Idx]
    BY <1>22, AdvanceTypes DEF commit_resp
  <2> QED
    BY <1>22, <2>1 DEF commit_resp, advance
<1>23. CASE UNCHANGED vars
  BY <1>23 DEF vars
<1> QED
  BY <1>1, <1>2, <1>3, <1>4, <1>5, <1>6, <1>7, <1>8, <1>9, <1>10, <1>11, <1>12, <1>13, <1>14, <1>15, <1>16, <1>17, <1>18, <1>19, <1>20, <1>21, <1>22, <1>23 DEF Next, ClientStep, ServerStep

\* Every variable stays in its type, for every size of ring and word.
THEOREM TypeCorrect == Spec => []TypeOK
<1>1. Spec => []TypeInv
  BY TypeInit, TypeNext, PTL DEF Spec
<1>2. TypeInv => TypeOK
  BY DEF TypeInv
<1> QED
  BY <1>1, <1>2, PTL

-----------------------------------------------------------------------------
(* The handshake: who may change the state word, and what each side may      *)
(* conclude from having read it.                                            *)

\* Only the client takes the channel down and only the server brings it up, each
\* when the other cannot be relying on the contrary: a client in a call keeps
\* the word READY, a server that has seen the reset keeps it INIT.
HandshakeInv ==
    /\ InCall => state = READY
    /\ Acking => state = INIT
    /\ ClientNeverPanics

LEMMA HandshakeInit == Init => HandshakeInv
BY DEF Init, HandshakeInv, InCall, Acking, ClientNeverPanics, At

LEMMA HandshakeNext == TypeInv /\ HandshakeInv /\ [Next]_vars => HandshakeInv'
<1> SUFFICES ASSUME TypeInv, HandshakeInv, [Next]_vars PROVE HandshakeInv'
  OBVIOUS
<1> USE DEF TypeInv, TypeOK, HandshakeInv, InCall, Acking, ClientNeverPanics, At, Goto, Again, shared
<1>1. CASE Reset
  BY <1>1 DEF Reset
<1>2. CASE \E kind \in Kinds : Call(kind)
  BY <1>2 DEF Call
<1>3. CASE reset_req
  BY <1>3 DEF reset_req
<1>4. CASE reset_req_p2
  BY <1>4 DEF reset_req_p2, clear
<1>5. CASE client_try_send
  BY <1>5 DEF client_try_send, is_ready, q_full, compare_idx, compare_slots, compare_flags
<1>6. CASE put_req
  BY <1>6 DEF put_req, load_slot
<1>7. CASE commit_req
  BY <1>7 DEF commit_req, advance, AfterCommit
<1>8. CASE client_try_recv
  BY <1>8 DEF client_try_recv, is_ready, q_empty, compare_idx, compare_slots, compare_flags
<1>9. CASE get_resp
  BY <1>9 DEF get_resp, load_slot
<1>10. CASE ack_resp
  BY <1>10 DEF ack_resp, advance
<1>11. CASE new
  BY <1>11 DEF new, clear
<1>12. CASE wait_reset
  BY <1>12 DEF wait_reset, ResetReadyWord
<1>13. CASE reset_pre_ack
  BY <1>13 DEF reset_pre_ack, clear
<1>14. CASE reset_ack
  BY <1>14 DEF reset_ack
<1>15. CASE check_version
  BY <1>15 DEF check_version
<1>16. CASE server_try_recv
  BY <1>16 DEF server_try_recv, is_ready, q_empty, compare_idx, compare_slots, compare_flags
<1>17. CASE get_req
  BY <1>17 DEF get_req, load_slot
<1>18. CASE ack_req
  BY <1>18 DEF ack_req, advance
<1>19. CASE do_cmd
  BY <1>19 DEF do_cmd, AfterCmd
<1>20. CASE server_try_send
  BY <1>20 DEF server_try_send, is_ready, q_full, compare_idx, compare_slots, compare_flags
<1>21. CASE put_resp
  BY <1>21 DEF put_resp, load_slot
<1>22. CASE commit_resp
  BY <1>22 DEF commit_resp, advance
<1>23. CASE UNCHANGED vars
  BY <1>23 DEF vars
<1> QED
  BY <1>1, <1>2, <1>3, <1>4, <1>5, <1>6, <1>7, <1>8, <1>9, <1>10, <1>11, <1>12, <1>13, <1>14, <1>15, <1>16, <1>17, <1>18, <1>19, <1>20, <1>21, <1>22, <1>23 DEF Next, ClientStep, ServerStep

\* A client that is inside a call and a server that is zeroing the indices never
\* meet, and the client keeps the channel READY while it is inside a call.
THEOREM ResetsExclude == Spec => []ResetExclusive
<1>1. Spec => [](TypeInv /\ HandshakeInv)
  BY TypeInit, TypeNext, HandshakeInit, HandshakeNext, PTL DEF Spec
<1>2. HandshakeInv => ResetExclusive
  BY DEF HandshakeInv, ResetExclusive
<1> QED
  BY <1>1, <1>2, PTL

\* No receive of the firmware ever meets a channel that is not ready.
THEOREM NoPanic == Spec => []ClientNeverPanics
<1>1. Spec => [](TypeInv /\ HandshakeInv)
  BY TypeInit, TypeNext, HandshakeInit, HandshakeNext, PTL DEF Spec
<1>2. HandshakeInv => ClientNeverPanics
  BY DEF HandshakeInv
<1> QED
  BY <1>1, <1>2, PTL

-----------------------------------------------------------------------------
(* The rings: neither index is ever lapped, and no slot is used from both   *)
(* sides at once, whatever resets and restarts happen.                      *)

LEMMA Numbers == MB_MAX_ENTRIES \in Nat \ {0} /\ \A c, p \in Idx : ahead(c, p) \in Nat
<1>1. ASSUME NEW c \in Idx, NEW p \in Idx PROVE ahead(c, p) \in Nat
  <2>1. ahead(c, p) \in Idx
    BY AheadSteps
  <2> QED
    BY <2>1, QueueAssumption DEF Idx
<1> QED
  BY <1>1, QueueAssumption

-----------------------------------------------------------------------------
(* What full() and empty() let their callers conclude.                      *)

LEMMA NotFull ==
    ASSUME NEW c \in Idx, NEW p \in Idx, ahead(c, p) <= MB_MAX_ENTRIES,
           idx_masked(c) # idx_masked(p) \/ idx_flag(c) = idx_flag(p)
    PROVE  ahead(c, p) < MB_MAX_ENTRIES
<1>1. ahead(c, p) # MB_MAX_ENTRIES
  BY FullAndEmpty DEF full
<1>2. ahead(c, p) \in Int /\ MB_MAX_ENTRIES \in Int
  BY AheadSteps, QueueAssumption DEF Idx
<1> QED
  BY <1>1, <1>2

LEMMA NotEmpty ==
    ASSUME NEW c \in Idx, NEW p \in Idx,
           idx_masked(c) # idx_masked(p) \/ idx_flag(c) # idx_flag(p)
    PROVE  ahead(c, p) > 0
<1>1. ahead(c, p) # 0
  BY AheadSteps
<1>2. ahead(c, p) \in Nat
  BY AheadSteps DEF Idx
<1> QED
  BY <1>1, <1>2

-----------------------------------------------------------------------------
(* How the pieces of a step move a process, word by word.                   *)

LEMMA IdxTypes ==
    ASSUME TypeInv
    PROVE  /\ \A q \in {"req", "resp"}, end \in {"p", "c"} : idx[<<q, end>>] \in Idx
           /\ \A self \in Proc : r[self] \in Idx /\ k[self] \in 0 .. 5
BY DEF TypeInv, TypeOK, Words

Stays(self) == pc'[self] = pc[self] /\ k'[self] = k[self] /\ r'[self] = r[self]

LEMMA GotoIs ==
    ASSUME TypeInv, NEW self \in Proc, NEW l, Goto(self, l)
    PROVE  /\ pc'[self] = l /\ k'[self] = 0
           /\ \A o \in Proc \ {self} : pc'[o] = pc[o] /\ k'[o] = k[o]
BY DEF TypeInv, TypeOK, Goto

LEMMA AgainIs ==
    ASSUME TypeInv, NEW self \in Proc, Again(self)
    PROVE  /\ pc'[self] = pc[self] /\ k'[self] = k[self] + 1
           /\ \A o \in Proc \ {self} : pc'[o] = pc[o] /\ k'[o] = k[o]
BY DEF TypeInv, TypeOK, Again

LEMMA RegIs ==
    ASSUME TypeInv, NEW self \in Proc, NEW v, r' = [r EXCEPT ![self] = v]
    PROVE  r'[self] = v /\ \A o \in Proc \ {self} : r'[o] = r[o]
BY DEF TypeInv, TypeOK

LEMMA WordIs ==
    ASSUME TypeInv, NEW q \in {"req", "resp"}, NEW end \in {"p", "c"}, NEW v,
           idx' = [idx EXCEPT ![<<q, end>>] = v]
    PROVE  /\ idx'[<<q, end>>] = v
           /\ \A z \in {"req", "resp"}, e \in {"p", "c"} :
                 <<z, e>> # <<q, end>> => idx'[<<z, e>>] = idx[<<z, e>>]
BY DEF TypeInv, TypeOK, Words

-----------------------------------------------------------------------------
(* One side's view of a ring, step by step.                                 *)

\* A process that is not working on a ring knows nothing of it.
LEMMA NotProducing ==
    ASSUME NEW self, NEW q, NEW test, NEW put, NEW commit,
           pc'[self] \notin {put, commit}, pc'[self] = test => k'[self] = 0
    PROVE  Producing(self, q, test, put, commit)'
BY DEF Producing, At

LEMMA NotConsuming ==
    ASSUME NEW self, NEW q, NEW test, NEW get, NEW got, NEW ack,
           pc'[self] \notin {get, got, ack}, pc'[self] = test => k'[self] = 0
    PROVE  Consuming(self, q, test, get, got, ack)'
BY DEF Consuming, At

\* The test whether there is room.
LEMMA FullStep ==
    ASSUME TypeInv, NEW self \in Proc, NEW q \in {"req", "resp"},
           NEW test, NEW put, NEW commit, NEW yes,
           yes \notin {test, put, commit}, test \notin {put, commit}, put # commit,
           Bounded(q), Producing(self, q, test, put, commit),
           q_full(self, test, q, yes, put)
    PROVE  /\ Producing(self, q, test, put, commit)'
           /\ idx' = idx /\ state' = state
           /\ \A o \in Proc \ {self} : Stays(o)
           /\ pc'[self] \in {test, yes, put}
           /\ pc'[self] = yes => k'[self] = 0
<1> DEFINE c == idx[<<q, "c">>]
           p == idx[<<q, "p">>]
<1>1. c \in Idx /\ p \in Idx /\ r[self] \in Idx /\ k[self] \in 0 .. 5
  BY IdxTypes
<1>2. idx' = idx /\ state' = state /\ pc[self] = test
  BY DEF q_full, compare_idx, shared, At
<1>3. ahead(c, p) <= MB_MAX_ENTRIES
  BY DEF Bounded
<1>4. k[self] > 0 => ahead(r[self], p) <= MB_MAX_ENTRIES /\ ahead(c, p) <= ahead(r[self], p)
  BY <1>2 DEF Producing, At
<1>5. ahead(c, p) \in Int /\ ahead(r[self], p) \in Int /\ MB_MAX_ENTRIES \in Int
  BY <1>1, Numbers
<1>6. CASE k[self] \in {0, 2} /\ r' = [r EXCEPT ![self] = c] /\ Again(self)
  <2>a. pc'[self] = test /\ \A o \in Proc \ {self} : pc'[o] = pc[o] /\ k'[o] = k[o]
    BY <1>2, <1>6, AgainIs
  <2>b. r'[self] = c /\ \A o \in Proc \ {self} : r'[o] = r[o]
    BY <1>6, RegIs
  <2>1. pc'[self] = test /\ r'[self] = c /\ \A o \in Proc \ {self} : Stays(o)
    BY <2>a, <2>b DEF Stays
  <2>2. Producing(self, q, test, put, commit)'
    BY <1>2, <1>3, <1>5, <2>1 DEF Producing, At
  <2> QED
    BY <1>1, <1>2, <1>6, <2>1, <2>2, AgainIs
<1>7. CASE r' = r /\ Again(self) /\ k[self] = 1
  <2>1. pc'[self] = test /\ \A o \in Proc \ {self} : Stays(o)
    BY <1>2, <1>7, AgainIs DEF Stays
  <2>2. Producing(self, q, test, put, commit)'
    BY <1>2, <1>4, <1>7, <2>1 DEF Producing, At
  <2> QED
    BY <1>1, <1>2, <1>7, <2>1, <2>2, AgainIs
<1>8. CASE r' = r /\ Goto(self, yes)
  <2>1. pc'[self] = yes /\ k'[self] = 0 /\ \A o \in Proc \ {self} : Stays(o)
    BY <1>8, GotoIs DEF Stays
  <2>2. Producing(self, q, test, put, commit)'
    BY <2>1, NotProducing
  <2> QED
    BY <1>2, <2>1, <2>2
<1>9. CASE /\ r' = r /\ Goto(self, put) /\ k[self] > 0
           /\ idx_masked(r[self]) # idx_masked(p) \/ idx_flag(r[self]) = idx_flag(p)
  <2>1. pc'[self] = put /\ k'[self] = 0 /\ \A o \in Proc \ {self} : Stays(o)
    BY <1>9, GotoIs DEF Stays
  <2>2. ahead(c, p) < MB_MAX_ENTRIES
    BY <1>1, <1>4, <1>5, <1>9, NotFull
  <2>3. Producing(self, q, test, put, commit)'
    BY <1>2, <2>1, <2>2 DEF Producing, At
  <2>4. put # yes
    OBVIOUS
  <2> QED
    BY <1>2, <2>1, <2>3, <2>4
<1> QED
  BY <1>1, <1>6, <1>7, <1>8, <1>9 DEF q_full, compare_idx, compare_slots, compare_flags

\* The test whether there is anything to get.
LEMMA EmptyStep ==
    ASSUME TypeInv, NEW self \in Proc, NEW q \in {"req", "resp"},
           NEW test, NEW get, NEW got, NEW ack, NEW yes,
           yes \notin {test, get, got, ack}, test \notin {get, got, ack}, get # ack,
           Consuming(self, q, test, get, got, ack),
           q_empty(self, test, q, yes, get)
    PROVE  /\ Consuming(self, q, test, get, got, ack)'
           /\ idx' = idx /\ state' = state
           /\ \A o \in Proc \ {self} : Stays(o)
           /\ pc'[self] \in {test, yes, get}
           /\ pc'[self] = yes => k'[self] = 0
           /\ pc'[self] = get => idx[<<q, "c">>] # idx[<<q, "p">>]
<1> DEFINE c == idx[<<q, "c">>]
           p == idx[<<q, "p">>]
<1>1. c \in Idx /\ p \in Idx /\ r[self] \in Idx /\ k[self] \in 0 .. 5
  BY IdxTypes
<1>2. idx' = idx /\ state' = state /\ pc[self] = test
  BY DEF q_empty, compare_idx, shared, At
<1>3. k[self] > 0 => r[self] = c
  BY <1>2 DEF Consuming, At
<1>4. test # get /\ yes # get
  OBVIOUS
<1>5. CASE k[self] \in {0, 2} /\ r' = [r EXCEPT ![self] = c] /\ Again(self)
  <2>1. pc'[self] = test /\ \A o \in Proc \ {self} : pc'[o] = pc[o] /\ k'[o] = k[o]
    BY <1>2, <1>5, AgainIs
  <2>2. r'[self] = c /\ \A o \in Proc \ {self} : r'[o] = r[o]
    BY <1>5, RegIs
  <2>3. \A o \in Proc \ {self} : Stays(o)
    BY <2>1, <2>2 DEF Stays
  <2>4. Consuming(self, q, test, get, got, ack)'
    BY <1>2, <2>1, <2>2 DEF Consuming, At
  <2> QED
    BY <1>2, <1>4, <2>1, <2>3, <2>4
<1>6. CASE r' = r /\ Again(self) /\ k[self] = 1
  <2>1. pc'[self] = test /\ \A o \in Proc \ {self} : pc'[o] = pc[o] /\ k'[o] = k[o]
    BY <1>2, <1>6, AgainIs
  <2>2. \A o \in Proc \ {self} : Stays(o)
    BY <1>6, <2>1 DEF Stays
  <2>3. Consuming(self, q, test, get, got, ack)'
    BY <1>2, <1>3, <1>6, <2>1 DEF Consuming, At
  <2> QED
    BY <1>2, <1>4, <2>1, <2>2, <2>3
<1>7. CASE r' = r /\ Goto(self, yes)
  <2>1. pc'[self] = yes /\ k'[self] = 0 /\ \A o \in Proc \ {self} : Stays(o)
    BY <1>7, GotoIs DEF Stays
  <2>2. Consuming(self, q, test, get, got, ack)'
    BY <2>1, NotConsuming
  <2> QED
    BY <1>2, <1>4, <2>1, <2>2
<1>8. CASE /\ r' = r /\ Goto(self, get) /\ k[self] > 0
           /\ idx_masked(r[self]) # idx_masked(p) \/ idx_flag(r[self]) # idx_flag(p)
  <2>1. pc'[self] = get /\ k'[self] = 0 /\ \A o \in Proc \ {self} : Stays(o)
    BY <1>8, GotoIs DEF Stays
  <2>2. ahead(c, p) > 0 /\ c # p
    BY <1>1, <1>3, <1>8, NotEmpty
  <2>3. Consuming(self, q, test, get, got, ack)'
    BY <1>2, <2>1, <2>2 DEF Consuming, At
  <2> QED
    BY <1>2, <1>4, <2>1, <2>2, <2>3
<1> QED
  BY <1>1, <1>5, <1>6, <1>7, <1>8 DEF q_empty, compare_idx, compare_slots, compare_flags

\* A put or a get first computes the slot it works on.
LEMMA LoadStep ==
    ASSUME TypeInv, NEW self \in Proc, NEW q \in {"req", "resp"}, NEW end \in {"p", "c"},
           load_slot(self, q, end)
    PROVE  /\ pc'[self] = pc[self] /\ k'[self] = 1 /\ k[self] = 0
           /\ r'[self] = idx_masked(idx[<<q, end>>])
           /\ \A o \in Proc \ {self} : Stays(o)
<1>1. pc'[self] = pc[self] /\ k'[self] = 1 /\ k[self] = 0
      /\ \A o \in Proc \ {self} : pc'[o] = pc[o] /\ k'[o] = k[o]
  BY AgainIs DEF load_slot
<1>2. r'[self] = idx_masked(idx[<<q, end>>]) /\ \A o \in Proc \ {self} : r'[o] = r[o]
  BY RegIs DEF load_slot
<1> QED
  BY <1>1, <1>2 DEF Stays

\* What an advance does to the index word and to the distance between the two.
LEMMA AdvanceStep ==
    ASSUME TypeInv, NEW self \in Proc, NEW q \in {"req", "resp"}, NEW end \in {"p", "c"},
           NEW at, NEW next, advance(self, at, q, end, next)
    PROVE  /\ state' = state /\ pc[self] = at
           /\ \A o \in Proc \ {self} : Stays(o)
           /\ \/ /\ pc'[self] = at /\ k'[self] = 1 /\ k[self] = 0 /\ idx' = idx
                 /\ r'[self] = idx[<<q, end>>]
              \/ /\ pc'[self] = next /\ k'[self] = 0 /\ k[self] = 1
                 /\ idx'[<<q, end>>] = wrapping_inc(r[self])
                 /\ \A z \in {"req", "resp"}, e \in {"p", "c"} :
                       <<z, e>> # <<q, end>> => idx'[<<z, e>>] = idx[<<z, e>>]
<1>1. state' = state /\ pc[self] = at
  BY DEF advance, At
<1>2. CASE k[self] = 0 /\ r' = [r EXCEPT ![self] = idx[<<q, end>>]] /\ Again(self) /\ idx' = idx
  <2>1. pc'[self] = at /\ k'[self] = 1 /\ \A o \in Proc \ {self} : pc'[o] = pc[o] /\ k'[o] = k[o]
    BY <1>1, <1>2, AgainIs
  <2>2. r'[self] = idx[<<q, end>>] /\ \A o \in Proc \ {self} : r'[o] = r[o]
    BY <1>2, RegIs
  <2> QED
    BY <1>1, <1>2, <2>1, <2>2 DEF Stays
<1>3. CASE /\ k[self] = 1 /\ idx' = [idx EXCEPT ![<<q, end>>] = wrapping_inc(r[self])]
           /\ Goto(self, next) /\ r' = r
  <2>1. pc'[self] = next /\ k'[self] = 0 /\ \A o \in Proc \ {self} : Stays(o)
    BY <1>3, GotoIs DEF Stays
  <2>2. /\ idx'[<<q, end>>] = wrapping_inc(r[self])
        /\ \A z \in {"req", "resp"}, e \in {"p", "c"} :
              <<z, e>> # <<q, end>> => idx'[<<z, e>>] = idx[<<z, e>>]
    BY <1>3, WordIs
  <2> QED
    BY <1>1, <1>3, <2>1, <2>2
<1> QED
  BY <1>2, <1>3 DEF advance

\* The distance, as the producer sees it grow ...
LEMMA ProducerMoves ==
    ASSUME NEW c \in Idx, NEW p \in Idx, ahead(c, p) < MB_MAX_ENTRIES
    PROVE  ahead(c, wrapping_inc(p)) = ahead(c, p) + 1
<1>1. 2 * MB_MAX_ENTRIES <= IDX_MOD /\ MB_MAX_ENTRIES \in Nat \ {0} /\ IDX_MOD \in Nat
  BY SlotsAreIndices, QueueAssumption
<1>2. ahead(c, p) \in Nat
  BY AheadSteps DEF Idx
<1> QED
  BY <1>1, <1>2, AheadSteps

\* A read of the state word moves only the process that reads it.
LEMMA ReadyStep ==
    ASSUME TypeInv, NEW self \in Proc, NEW at, NEW yes, NEW no, is_ready(self, at, yes, no)
    PROVE  /\ idx' = idx /\ state' = state /\ pc[self] = at
           /\ pc'[self] = (IF state = READY THEN yes ELSE no) /\ k'[self] = 0
           /\ \A o \in Proc \ {self} : Stays(o)
BY GotoIs DEF is_ready, At, shared, Stays

-----------------------------------------------------------------------------
(* What a step need not look at.                                            *)

LateLabels == {"check_version", "recv.is_ready", "recv.empty", "recv.is_ready2", "panic"}

\* A step of the client that writes no shared word.
LEMMA ClientQuiet ==
    ASSUME RingInv, idx' = idx, state' = state, Stays("server"),
           pc'["client"] # "reset_req_p2", ClientRings'
    PROVE  RingInv'
<1>1. ServerRings => ServerRings'
  BY DEF ServerRings, Producing, Consuming, At, Stays
<1>2. (Bounded("req") => Bounded("req")') /\ (Bounded("resp") => Bounded("resp")')
  BY DEF Bounded
<1>3. ClearedSoFar'
  BY DEF RingInv, ClearedSoFar, AllZero, At, Stays
<1> QED
  BY <1>1, <1>2, <1>3 DEF RingInv, Detached, LateClear, At, Stays

\* A step of the server that writes no shared word.
LEMMA ServerQuiet ==
    ASSUME RingInv, idx' = idx, state' = state, Stays("client"),
           state = READY => ServerRings',
           Detached' => state = INIT, ClearedSoFar',
           LateClear /\ pc["client"] = "reset_req_p2" /\ state = READY
              => pc'["server"] \in LateLabels
    PROVE  RingInv'
<1>1. ClientRings'
  BY DEF RingInv, ClientRings, Producing, Consuming, At, Stays
<1>2. (Bounded("req") => Bounded("req")') /\ (Bounded("resp") => Bounded("resp")')
  BY DEF Bounded
<1>3. LateClear'
  BY DEF RingInv, LateClear, LateLabels, AllZero, At, Stays
<1> QED
  BY <1>1, <1>2, <1>3 DEF RingInv

\* A process that is at none of the steps of a put or a get, and at the start of
\* whatever it does next, need know nothing.
LEMMA ClientIdles ==
    ASSUME pc'["client"] \notin {"put_req", "commit_req", "get_resp", "ack_resp"},
           k'["client"] = 0 \/ pc'["client"] \notin {"send.full", "recv.empty"}
    PROVE  ClientRings'
BY DEF ClientRings, Producing, Consuming, At

LEMMA ServerIdles ==
    ASSUME pc'["server"] \notin {"put_resp", "commit_resp", "get_req", "recv.is_ready3", "ack_req"},
           k'["server"] = 0 \/ pc'["server"] \notin {"resp.full", "recv.empty"}
    PROVE  ServerRings'
BY DEF ServerRings, Producing, Consuming, At

-----------------------------------------------------------------------------
LEMMA RingInit == Init => RingInv
<1> SUFFICES ASSUME Init PROVE RingInv
  OBVIOUS
<1>1. pc["client"] = "reset_req" /\ pc["server"] = "new" /\ k["server"] = 0 /\ state = INIT
  BY DEF Init
<1>2. ClientRings
  BY <1>1 DEF ClientRings, Producing, Consuming, At
<1> QED
  BY <1>1, <1>2 DEF RingInv, Detached, ClearedSoFar, LateClear, At

LEMMA ClientRingNext ==
    ASSUME TypeInv, HandshakeInv, RingInv,
           Reset \/ (\E kind \in Kinds : Call(kind)) \/ ClientStep
    PROVE  RingInv'
<1>a. ClientRings
  BY DEF RingInv
<1>b. "client" \in Proc /\ "server" \in Proc \ {"client"}
  OBVIOUS
<1>c. InCall => state = READY /\ Bounded("req") /\ Bounded("resp")
  BY DEF HandshakeInv, RingInv
<1>1. CASE Reset
  <2>1. pc'["client"] = "reset_req" /\ Stays("server") /\ idx' = idx /\ state' = state
    BY <1>1, GotoIs DEF Reset, shared, Stays
  <2> QED
    BY <2>1, ClientIdles, ClientQuiet
<1>2. CASE \E kind \in Kinds : Call(kind)
  <2>1. pc'["client"] = "send.is_ready" /\ Stays("server") /\ idx' = idx /\ state' = state
    BY <1>2, GotoIs DEF Call, shared, Stays
  <2> QED
    BY <2>1, ClientIdles, ClientQuiet
<1>3. CASE reset_req
  <2>1. idx' = idx /\ r' = r /\ pc["client"] = "reset_req"
    BY <1>3 DEF reset_req, At
  <2>2. CASE Again("client") /\ state' = state
    <3>1. pc'["client"] = "reset_req" /\ Stays("server")
      BY <2>1, <2>2, AgainIs DEF Stays
    <3> QED
      BY <2>1, <2>2, <3>1, ClientIdles, ClientQuiet
  <2>3. CASE Goto("client", "reset_req_p2") /\ state' = INIT
    <3>1. pc'["client"] = "reset_req_p2" /\ Stays("server")
      BY <2>1, <2>3, GotoIs DEF Stays
    <3>2. ClientRings'
      BY <3>1, ClientIdles
    <3>3. ClearedSoFar'
      BY <2>1, <3>1 DEF RingInv, ClearedSoFar, AllZero, At, Stays
    <3>4. LateClear'
      BY <2>3 DEF LateClear
    <3>5. state' = "INIT" /\ ~(state' = "READY")
      BY <2>3
    <3> QED
      BY <3>2, <3>3, <3>4, <3>5 DEF RingInv
  <2> QED
    BY <1>3, <2>2, <2>3 DEF reset_req
<1>4. CASE reset_req_p2
  <2>1. /\ pc["client"] = "reset_req_p2" /\ state' = state /\ r' = r
        /\ idx' = [idx EXCEPT ![ClearOrder[k["client"] + 1]] = 0]
        /\ k["client"] \in 0 .. 3
    BY <1>4 DEF reset_req_p2, clear, At, TypeInv, ClearLabels
  <2>2. pc'["client"] \in {"reset_req_p2", "idle"} /\ Stays("server")
    <3>1. Goto("client", "idle") \/ Again("client")
      BY <1>4 DEF reset_req_p2, clear
    <3> QED
      BY <2>1, <3>1, GotoIs, AgainIs DEF Stays
  <2>3. ClientRings'
    BY <2>2, ClientIdles
  <2>4. idx \in [Words -> Idx] /\ ClearOrder[k["client"] + 1] \in Words
    BY <2>1 DEF TypeInv, TypeOK, ClearOrder, Words
  <2>5. \A w \in Words : idx'[w] = idx[w] \/ idx'[w] = 0
    BY <2>1, <2>4
  <2>6. ClearedSoFar'
    <3>1. \A i \in 0 .. 3 : ClearOrder[i + 1] \in Words
      BY DEF ClearOrder, Words
    <3> QED
      BY <2>2, <2>5, <3>1 DEF RingInv, ClearedSoFar, AllZero, At, Stays
  <2>7. CASE state = READY
    <3>1. AllZero
      BY <2>1, <2>7 DEF RingInv, LateClear, At
    <3>2. idx' = idx
      BY <2>1, <2>4, <3>1 DEF AllZero
    <3>3. ServerRings' /\ Bounded("req")' /\ Bounded("resp")'
      BY <2>2, <2>7, <3>2 DEF RingInv, Bounded, ServerRings, Producing, Consuming, At, Stays
    <3>4. LateClear'
      BY <2>1, <2>2, <2>7, <3>1, <3>2 DEF RingInv, LateClear, AllZero, At, Stays
    <3> QED
      BY <2>1, <2>2, <2>3, <2>6, <2>7, <3>3, <3>4 DEF RingInv, Detached, Stays
  <2>8. CASE state # READY
    BY <2>1, <2>2, <2>3, <2>6, <2>8 DEF RingInv, LateClear, Detached, Stays
  <2> QED
    BY <2>7, <2>8
<1>5. CASE client_try_send
  <2>1. CASE is_ready("client", "send.is_ready", "send.full", "send.is_ready")
    <3>1. /\ pc'["client"] \in {"send.is_ready", "send.full"} /\ k'["client"] = 0
          /\ Stays("server") /\ idx' = idx /\ state' = state
      BY <2>1, <1>b, ReadyStep
    <3> QED
      BY <3>1, ClientIdles, ClientQuiet
  <2>2. CASE q_full("client", "send.full", "req", "send.is_ready", "put_req")
    <3>1. Bounded("req")
      BY <2>2, <1>c DEF q_full, compare_idx, At, InCall
    <3>2. Producing("client", "req", "send.full", "put_req", "commit_req")
      BY <1>a DEF ClientRings
    <3>3. /\ Producing("client", "req", "send.full", "put_req", "commit_req")'
          /\ pc'["client"] \in {"send.full", "send.is_ready", "put_req"}
          /\ \A o \in Proc \ {"client"} : Stays(o)
          /\ idx' = idx /\ state' = state
      BY <1>b, <2>2, <3>1, <3>2, FullStep
    <3>4. ClientRings'
      BY <3>3 DEF ClientRings, Consuming, At
    <3> QED
      BY <1>b, <3>3, <3>4, ClientQuiet
  <2> QED
    BY <1>5, <2>1, <2>2 DEF client_try_send
<1>6. CASE put_req
  <2>1. pc["client"] = "put_req" /\ idx' = idx /\ state' = state
    BY <1>6 DEF put_req, At
  <2>2. Producing("client", "req", "send.full", "put_req", "commit_req")
    BY <1>a DEF ClientRings
  <2>3. CASE load_slot("client", "req", "p")
    <3>1. /\ pc'["client"] = "put_req" /\ Stays("server")
          /\ r'["client"] = idx_masked(idx[<<"req", "p">>])
      BY <1>b, <2>1, <2>3, LoadStep
    <3>2. ClientRings'
      BY <2>1, <2>2, <3>1 DEF ClientRings, Producing, Consuming, At
    <3> QED
      BY <2>1, <3>1, <3>2, ClientQuiet
  <2>4. CASE k["client"] = 1 /\ Again("client") /\ r' = r
    <3>1. pc'["client"] = "put_req" /\ Stays("server")
      BY <1>b, <2>1, <2>4, AgainIs DEF Stays
    <3>2. ClientRings'
      BY <2>1, <2>2, <2>4, <3>1 DEF ClientRings, Producing, Consuming, At
    <3> QED
      BY <2>1, <3>1, <3>2, ClientQuiet
  <2>5. CASE Goto("client", "commit_req") /\ r' = r
    <3>1. pc'["client"] = "commit_req" /\ k'["client"] = 0 /\ Stays("server")
      BY <1>b, <2>1, <2>5, GotoIs DEF Stays
    <3>2. ClientRings'
      BY <2>1, <2>2, <3>1 DEF ClientRings, Producing, Consuming, At
    <3> QED
      BY <2>1, <3>1, <3>2, ClientQuiet
  <2> QED
    BY <1>6, <2>3, <2>4, <2>5 DEF put_req
<1>7. CASE commit_req
  <2> DEFINE c == idx[<<"req", "c">>]
             p == idx[<<"req", "p">>]
  <2>1. advance("client", "commit_req", "req", "p", AfterCommit)
    BY <1>7 DEF commit_req
  <2>2. /\ state' = state /\ pc["client"] = "commit_req" /\ Stays("server")
        /\ \/ /\ pc'["client"] = "commit_req" /\ k'["client"] = 1 /\ k["client"] = 0
              /\ idx' = idx /\ r'["client"] = p
           \/ /\ pc'["client"] = AfterCommit /\ k'["client"] = 0 /\ k["client"] = 1
              /\ idx'[<<"req", "p">>] = wrapping_inc(r["client"])
              /\ \A z \in {"req", "resp"}, e \in {"p", "c"} :
                    <<z, e>> # <<"req", "p">> => idx'[<<z, e>>] = idx[<<z, e>>]
    BY <1>b, <2>1, AdvanceStep
  <2>3. ahead(c, p) < MB_MAX_ENTRIES /\ (k["client"] > 0 => r["client"] = p)
    BY <1>a, <2>2 DEF ClientRings, Producing, At
  <2>4. state = READY
    BY <2>2 DEF HandshakeInv, InCall
  <2>5. CASE pc'["client"] = "commit_req" /\ idx' = idx /\ r'["client"] = p
    <3>1. ClientRings'
      BY <2>3, <2>5 DEF ClientRings, Producing, Consuming, At
    <3> QED
      BY <2>2, <2>5, <3>1, ClientQuiet
  <2>6. CASE /\ pc'["client"] = AfterCommit /\ k'["client"] = 0 /\ k["client"] = 1
             /\ idx'[<<"req", "p">>] = wrapping_inc(r["client"])
             /\ \A z \in {"req", "resp"}, e \in {"p", "c"} :
                   <<z, e>> # <<"req", "p">> => idx'[<<z, e>>] = idx[<<z, e>>]
    <3>1. pc'["client"] \in {"recv.is_ready", "idle"}
      BY <2>6 DEF AfterCommit
    <3>2. ClientRings'
      BY <2>6, <3>1, ClientIdles
    <3>3. c \in Idx /\ p \in Idx /\ MB_MAX_ENTRIES \in Int /\ ahead(c, p) \in Int
      BY IdxTypes, Numbers
    <3>4. /\ idx'[<<"req", "c">>] = c /\ idx'[<<"req", "p">>] = wrapping_inc(p)
          /\ idx'[<<"resp", "c">>] = idx[<<"resp", "c">>] /\ idx'[<<"resp", "p">>] = idx[<<"resp", "p">>]
      BY <2>3, <2>6
    <3>5. ahead(c, wrapping_inc(p)) = ahead(c, p) + 1
      BY <2>3, <3>3, ProducerMoves
    <3>6. Bounded("req")' /\ Bounded("resp")'
      BY <2>3, <2>4, <3>3, <3>4, <3>5 DEF RingInv, Bounded
    <3>7. ServerRings'
      BY <2>2, <2>4, <3>3, <3>4, <3>5 DEF RingInv, ServerRings, Producing, Consuming, At, Stays
    <3>8. pc["server"] \notin {"new", "wait_reset", "reset_pre_ack", "reset_ack"}
      BY <2>4 DEF RingInv, Detached, At
    <3> QED
      BY <2>2, <2>4, <3>1, <3>2, <3>6, <3>7, <3>8 DEF RingInv, Detached, ClearedSoFar, LateClear, At, Stays
  <2> QED
    BY <2>2, <2>5, <2>6
<1>8. CASE client_try_recv
  <2>1. CASE is_ready("client", "recv.is_ready", "recv.empty", "panic")
    <3>1. /\ pc'["client"] \in {"recv.empty", "panic"} /\ k'["client"] = 0
          /\ Stays("server") /\ idx' = idx /\ state' = state
      BY <2>1, <1>b, ReadyStep
    <3> QED
      BY <3>1, ClientIdles, ClientQuiet
  <2>2. CASE q_empty("client", "recv.empty", "resp", "recv.is_ready", "get_resp")
    <3>1. Consuming("client", "resp", "recv.empty", "get_resp", "get_resp", "ack_resp")
      BY <1>a DEF ClientRings
    <3>2. /\ Consuming("client", "resp", "recv.empty", "get_resp", "get_resp", "ack_resp")'
          /\ pc'["client"] \in {"recv.empty", "recv.is_ready", "get_resp"}
          /\ \A o \in Proc \ {"client"} : Stays(o)
          /\ idx' = idx /\ state' = state
      BY <1>b, <2>2, <3>1, EmptyStep
    <3>3. ClientRings'
      BY <3>2 DEF ClientRings, Producing, At
    <3> QED
      BY <1>b, <3>2, <3>3, ClientQuiet
  <2> QED
    BY <1>8, <2>1, <2>2 DEF client_try_recv
<1>9. CASE get_resp
  <2>1. pc["client"] = "get_resp" /\ idx' = idx /\ state' = state
    BY <1>9 DEF get_resp, At, shared
  <2>2. Consuming("client", "resp", "recv.empty", "get_resp", "get_resp", "ack_resp")
    BY <1>a DEF ClientRings
  <2>3. CASE load_slot("client", "resp", "c")
    <3>1. /\ pc'["client"] = "get_resp" /\ Stays("server")
          /\ r'["client"] = idx_masked(idx[<<"resp", "c">>])
      BY <1>b, <2>1, <2>3, LoadStep
    <3>2. ClientRings'
      BY <2>1, <2>2, <3>1 DEF ClientRings, Producing, Consuming, At
    <3> QED
      BY <2>1, <3>1, <3>2, ClientQuiet
  <2>4. CASE Goto("client", "ack_resp") /\ r' = r
    <3>1. pc'["client"] = "ack_resp" /\ k'["client"] = 0 /\ Stays("server")
      BY <1>b, <2>1, <2>4, GotoIs DEF Stays
    <3>2. ClientRings'
      BY <2>1, <2>2, <3>1 DEF ClientRings, Producing, Consuming, At
    <3> QED
      BY <2>1, <3>1, <3>2, ClientQuiet
  <2> QED
    BY <1>9, <2>3, <2>4 DEF get_resp
<1>10. CASE ack_resp
  <2> DEFINE c == idx[<<"resp", "c">>]
             p == idx[<<"resp", "p">>]
  <2>1. advance("client", "ack_resp", "resp", "c", "idle")
    BY <1>10 DEF ack_resp
  <2>2. /\ state' = state /\ pc["client"] = "ack_resp" /\ Stays("server")
        /\ \/ /\ pc'["client"] = "ack_resp" /\ k'["client"] = 1 /\ k["client"] = 0
              /\ idx' = idx /\ r'["client"] = c
           \/ /\ pc'["client"] = "idle" /\ k'["client"] = 0 /\ k["client"] = 1
              /\ idx'[<<"resp", "c">>] = wrapping_inc(r["client"])
              /\ \A z \in {"req", "resp"}, e \in {"p", "c"} :
                    <<z, e>> # <<"resp", "c">> => idx'[<<z, e>>] = idx[<<z, e>>]
    BY <1>b, <2>1, AdvanceStep
  <2>3. ahead(c, p) > 0 /\ (k["client"] > 0 => r["client"] = c)
    BY <1>a, <2>2 DEF ClientRings, Consuming, At
  <2>4. state = READY
    BY <2>2 DEF HandshakeInv, InCall
  <2>5. CASE pc'["client"] = "ack_resp" /\ idx' = idx /\ r'["client"] = c
    <3>1. ClientRings'
      BY <2>3, <2>5 DEF ClientRings, Producing, Consuming, At
    <3> QED
      BY <2>2, <2>5, <3>1, ClientQuiet
  <2>6. CASE /\ pc'["client"] = "idle" /\ k'["client"] = 0 /\ k["client"] = 1
             /\ idx'[<<"resp", "c">>] = wrapping_inc(r["client"])
             /\ \A z \in {"req", "resp"}, e \in {"p", "c"} :
                   <<z, e>> # <<"resp", "c">> => idx'[<<z, e>>] = idx[<<z, e>>]
    <3>1. ClientRings'
      BY <2>6, ClientIdles
    <3>2. c \in Idx /\ p \in Idx /\ MB_MAX_ENTRIES \in Int /\ ahead(c, p) \in Int
      BY IdxTypes, Numbers
    <3>3. /\ idx'[<<"resp", "c">>] = wrapping_inc(c) /\ idx'[<<"resp", "p">>] = p
          /\ idx'[<<"req", "c">>] = idx[<<"req", "c">>] /\ idx'[<<"req", "p">>] = idx[<<"req", "p">>]
      BY <2>3, <2>6
    <3>4. ahead(wrapping_inc(c), p) = ahead(c, p) - 1
      BY <2>3, <3>2, AheadSteps
    <3>5. Bounded("req")' /\ Bounded("resp")'
      BY <2>3, <2>4, <3>2, <3>3, <3>4 DEF RingInv, Bounded
    <3>6. r["server"] \in Idx /\ ahead(r["server"], p) \in Int
      BY <3>2, IdxTypes, Numbers
    <3>7. ServerRings'
      BY <2>2, <2>4, <3>2, <3>3, <3>4, <3>6 DEF RingInv, ServerRings, Producing, Consuming, At, Stays
    <3>8. pc["server"] \notin {"new", "wait_reset", "reset_pre_ack", "reset_ack"}
      BY <2>4 DEF RingInv, Detached, At
    <3> QED
      BY <2>2, <2>4, <2>6, <3>1, <3>5, <3>7, <3>8 DEF RingInv, Detached, ClearedSoFar, LateClear, At, Stays
  <2> QED
    BY <2>2, <2>5, <2>6
<1> QED
  BY <1>1, <1>2, <1>3, <1>4, <1>5, <1>6, <1>7, <1>8, <1>9, <1>10 DEF ClientStep

\* With the state word at INIT the client is in no call.
LEMMA ClientAway ==
    ASSUME TypeInv, HandshakeInv, state = INIT, Stays("client")
    PROVE  ClientRings'
<1>1. ~InCall
  BY DEF HandshakeInv
<1>2. pc'["client"] \notin {"send.full", "put_req", "commit_req", "recv.empty", "get_resp", "ack_resp"}
  BY <1>1 DEF InCall, Stays
<1> QED
  BY <1>2, ClientIdles

LEMMA ServerRingNext ==
    ASSUME TypeInv, HandshakeInv, RingInv, ServerStep
    PROVE  RingInv'
<1>a. state = READY => ServerRings /\ Bounded("req") /\ Bounded("resp")
  BY DEF RingInv
<1>b. "server" \in Proc /\ "client" \in Proc \ {"server"}
  OBVIOUS
<1>c. state \in {INIT, READY} /\ (Detached => state = INIT)
  BY DEF RingInv, TypeInv, TypeOK
<1>d. LateClear /\ pc["client"] = "reset_req_p2" /\ state = READY
         => AllZero /\ pc["server"] \in LateLabels
  BY DEF LateClear, LateLabels, At
<1>1. CASE new
  <2>1. /\ pc["server"] = "new" /\ state' = state /\ r' = r
        /\ Goto("server", "wait_reset") \/ Again("server")
    BY <1>1 DEF new, clear, At
  <2>2. pc'["server"] \in {"new", "wait_reset"} /\ Stays("client")
    BY <1>b, <2>1, GotoIs, AgainIs DEF Stays
  <2>3. state = INIT
    BY <1>c, <2>1 DEF Detached, At
  <2>4. ClientRings'
    BY <2>2, <2>3, ClientAway
  <2> QED
    BY <2>1, <2>2, <2>3, <2>4 DEF RingInv, Detached, ClearedSoFar, LateClear, At
<1>2. CASE wait_reset
  <2>1. /\ pc["server"] = "wait_reset" /\ state' = state /\ r' = r /\ idx' = idx
        /\ Goto("server", "wait_reset") \/ Goto("server", "reset_pre_ack") \/ Again("server")
    BY <1>2 DEF wait_reset, At, shared
  <2>2. /\ pc'["server"] = "wait_reset" \/ (pc'["server"] = "reset_pre_ack" /\ k'["server"] = 0)
        /\ Stays("client")
    BY <1>b, <2>1, GotoIs, AgainIs DEF Stays
  <2>3. state = INIT
    BY <1>c, <2>1 DEF Detached, At
  <2>4. ClearedSoFar'
    BY <2>2 DEF ClearedSoFar, At
  <2> QED
    BY <2>1, <2>2, <2>3, <2>4, ServerQuiet
<1>3. CASE reset_pre_ack
  <2>1. /\ pc["server"] = "reset_pre_ack" /\ state' = state /\ r' = r
        /\ idx' = [idx EXCEPT ![ClearOrder[k["server"] + 1]] = 0]
        /\ k["server"] \in 0 .. 3
        /\ IF k["server"] = 3 THEN Goto("server", "reset_ack") ELSE Again("server")
    BY <1>3 DEF reset_pre_ack, clear, At, TypeInv, ClearLabels
  <2>2. /\ Stays("client")
        /\ IF k["server"] = 3 THEN pc'["server"] = "reset_ack"
           ELSE pc'["server"] = "reset_pre_ack" /\ k'["server"] = k["server"] + 1
    BY <1>b, <2>1, GotoIs, AgainIs DEF Stays
  <2>3. state = INIT
    BY <1>c, <2>1 DEF Detached, At
  <2>4. ClientRings'
    BY <2>2, <2>3, ClientAway
  <2>5. \A i \in 0 .. 3 : i < k["server"] => idx[ClearOrder[i + 1]] = 0
    BY <2>1 DEF RingInv, ClearedSoFar, At
  <2>6. idx \in [Words -> Idx] /\ \A i \in 0 .. 3 : ClearOrder[i + 1] \in Words
    BY DEF TypeInv, TypeOK, ClearOrder, Words
  <2>7. \A i \in 0 .. 3 : i < k["server"] + 1 => idx'[ClearOrder[i + 1]] = 0
    BY <2>1, <2>5, <2>6
  <2>8. Words = {ClearOrder[1], ClearOrder[2], ClearOrder[3], ClearOrder[4]}
    BY DEF ClearOrder, Words
  <2>9. k["server"] = 3 => AllZero'
    <3>1. SUFFICES ASSUME k["server"] = 3 PROVE AllZero'
      OBVIOUS
    <3>2. idx'[ClearOrder[0 + 1]] = 0 /\ idx'[ClearOrder[1 + 1]] = 0
          /\ idx'[ClearOrder[2 + 1]] = 0 /\ idx'[ClearOrder[3 + 1]] = 0
      BY <2>7, <3>1
    <3> QED
      BY <2>8, <3>2 DEF AllZero
  <2>10. ClearedSoFar'
    BY <2>1, <2>2, <2>7, <2>9 DEF ClearedSoFar, At
  <2> QED
    BY <2>1, <2>2, <2>3, <2>4, <2>10 DEF RingInv, LateClear
<1>4. CASE reset_ack
  <2>1. /\ pc["server"] = "reset_ack" /\ state' = READY /\ r' = r /\ idx' = idx
        /\ Goto("server", "recv.is_ready") \/ Goto("server", "check_version")
    BY <1>4 DEF reset_ack, At
  <2>2. Stays("client") /\ pc'["server"] \in {"recv.is_ready", "check_version"}
    BY <1>b, <2>1, GotoIs DEF Stays
  <2>3. state = INIT /\ AllZero
    BY <1>c, <2>1 DEF Detached, RingInv, ClearedSoFar, At
  <2>4. ClientRings' /\ ServerRings'
    BY <2>2, <2>3, ClientAway, ServerIdles
  <2>5. ahead(0, 0) = 0 /\ MB_MAX_ENTRIES \in Nat
    BY AheadSteps, ZeroIsIndex, Numbers
  <2>6. AllZero' /\ Bounded("req")' /\ Bounded("resp")'
    BY <2>1, <2>3, <2>5 DEF AllZero, Bounded, Words
  <2> QED
    BY <2>1, <2>2, <2>4, <2>6 DEF RingInv, Detached, ClearedSoFar, LateClear, At
<1>5. CASE check_version
  <2>1. /\ pc["server"] = "check_version" /\ state' = state /\ r' = r /\ idx' = idx
        /\ Goto("server", "recv.is_ready") \/ Goto("server", "panic")
    BY <1>5 DEF check_version, At, shared
  <2>2. Stays("client") /\ pc'["server"] \in {"recv.is_ready", "panic"}
    BY <1>b, <2>1, GotoIs DEF Stays
  <2>3. ServerRings' /\ ~Detached' /\ ClearedSoFar'
    BY <2>2, ServerIdles DEF Detached, ClearedSoFar, At
  <2> QED
    BY <2>1, <2>2, <2>3, ServerQuiet DEF LateLabels
<1>6. CASE server_try_recv
  <2>1. CASE \/ is_ready("server", "recv.is_ready", "recv.empty", "wait_reset")
             \/ is_ready("server", "recv.is_ready2", "recv.is_ready", "wait_reset")
    <3>1. /\ idx' = idx /\ state' = state /\ Stays("client") /\ k'["server"] = 0
          /\ IF state = READY THEN pc'["server"] \in {"recv.empty", "recv.is_ready"}
             ELSE pc'["server"] = "wait_reset"
      BY <1>b, <2>1, ReadyStep
    <3>2. ServerRings' /\ (Detached' => state = INIT) /\ ClearedSoFar'
      BY <1>c, <3>1, ServerIdles DEF Detached, ClearedSoFar, At
    <3> QED
      BY <3>1, <3>2, ServerQuiet DEF LateLabels
  <2>2. CASE is_ready("server", "recv.is_ready3", "ack_req", "wait_reset")
    <3>1. /\ idx' = idx /\ state' = state /\ Stays("client") /\ k'["server"] = 0
          /\ pc["server"] = "recv.is_ready3"
          /\ IF state = READY THEN pc'["server"] = "ack_req" ELSE pc'["server"] = "wait_reset"
      BY <1>b, <2>2, ReadyStep
    <3>2. state = READY => ServerRings'
      BY <1>a, <3>1 DEF ServerRings, Producing, Consuming, At
    <3>3. (Detached' => state = INIT) /\ ClearedSoFar'
      BY <1>c, <3>1 DEF Detached, ClearedSoFar, At
    <3>4. pc["server"] \notin LateLabels
      BY <3>1 DEF LateLabels
    <3> QED
      BY <1>d, <3>1, <3>2, <3>3, <3>4, ServerQuiet
  <2>3. CASE q_empty("server", "recv.empty", "req", "recv.is_ready2", "get_req")
    <3>1. CASE state = READY
      <4>1. Consuming("server", "req", "recv.empty", "get_req", "recv.is_ready3", "ack_req")
        BY <1>a, <3>1 DEF ServerRings
      <4>2. /\ Consuming("server", "req", "recv.empty", "get_req", "recv.is_ready3", "ack_req")'
            /\ pc'["server"] \in {"recv.empty", "recv.is_ready2", "get_req"}
            /\ \A o \in Proc \ {"server"} : Stays(o)
            /\ idx' = idx /\ state' = state
            /\ pc'["server"] = "get_req" => idx[<<"req", "c">>] # idx[<<"req", "p">>]
        BY <1>b, <2>3, <4>1, EmptyStep
      <4>3. ServerRings'
        BY <4>2 DEF ServerRings, Producing, At
      <4>4. ~Detached' /\ ClearedSoFar'
        BY <4>2 DEF Detached, ClearedSoFar, At
      <4>5. AllZero => pc'["server"] \in LateLabels
        BY <4>2 DEF AllZero, LateLabels, Words
      <4> QED
        BY <1>b, <1>d, <4>2, <4>3, <4>4, <4>5, ServerQuiet
    <3>2. CASE state # READY
      <4>1. /\ idx' = idx /\ state' = state /\ pc["server"] = "recv.empty"
            /\ \/ r' = [r EXCEPT !["server"] = idx[<<"req", "c">>]]
               \/ r' = r
            /\ \/ Again("server") \/ Goto("server", "recv.is_ready2") \/ Goto("server", "get_req")
        BY <2>3 DEF q_empty, compare_idx, compare_slots, compare_flags, At, shared
      <4>2. pc'["server"] \in {"recv.empty", "recv.is_ready2", "get_req"}
            /\ pc'["client"] = pc["client"] /\ k'["client"] = k["client"]
        BY <1>b, <4>1, GotoIs, AgainIs
      <4>3. r'["client"] = r["client"]
        BY <1>b, <4>1, RegIs
      <4>4. ~Detached' /\ ClearedSoFar'
        BY <4>2 DEF Detached, ClearedSoFar, At
      <4> QED
        BY <3>2, <4>1, <4>2, <4>3, <4>4, ServerQuiet DEF Stays
    <3> QED
      BY <3>1, <3>2
  <2> QED
    BY <1>6, <2>1, <2>2, <2>3 DEF server_try_recv
<1>7. CASE get_req
  <2>1. pc["server"] = "get_req" /\ idx' = idx /\ state' = state
    BY <1>7 DEF get_req, At, shared
  <2>2. pc["server"] \notin LateLabels
    BY <2>1 DEF LateLabels
  <2>3. CASE load_slot("server", "req", "c")
    <3>1. /\ pc'["server"] = "get_req" /\ Stays("client")
          /\ r'["server"] = idx_masked(idx[<<"req", "c">>])
      BY <1>b, <2>1, <2>3, LoadStep
    <3>2. state = READY => ServerRings'
      BY <1>a, <2>1, <3>1 DEF ServerRings, Producing, Consuming, At
    <3>3. ~Detached' /\ ClearedSoFar'
      BY <3>1 DEF Detached, ClearedSoFar, At
    <3> QED
      BY <1>d, <2>1, <2>2, <3>1, <3>2, <3>3, ServerQuiet
  <2>4. CASE k["server"] = 1 /\ Again("server") /\ r' = r
    <3>1. pc'["server"] = "get_req" /\ Stays("client")
      BY <1>b, <2>1, <2>4, AgainIs DEF Stays
    <3>2. state = READY => ServerRings'
      BY <1>a, <2>1, <2>4, <3>1 DEF ServerRings, Producing, Consuming, At
    <3>3. ~Detached' /\ ClearedSoFar'
      BY <3>1 DEF Detached, ClearedSoFar, At
    <3> QED
      BY <1>d, <2>1, <2>2, <3>1, <3>2, <3>3, ServerQuiet
  <2>5. CASE Goto("server", "recv.is_ready3") /\ r' = r
    <3>1. pc'["server"] = "recv.is_ready3" /\ Stays("client")
      BY <1>b, <2>1, <2>5, GotoIs DEF Stays
    <3>2. state = READY => ServerRings'
      BY <1>a, <2>1, <3>1 DEF ServerRings, Producing, Consuming, At
    <3>3. ~Detached' /\ ClearedSoFar'
      BY <3>1 DEF Detached, ClearedSoFar, At
    <3> QED
      BY <1>d, <2>1, <2>2, <3>1, <3>2, <3>3, ServerQuiet
  <2> QED
    BY <1>7, <2>3, <2>4, <2>5 DEF get_req
<1>8. CASE ack_req
  <2> DEFINE c == idx[<<"req", "c">>]
             p == idx[<<"req", "p">>]
  <2>1. advance("server", "ack_req", "req", "c", "do_cmd")
    BY <1>8 DEF ack_req
  <2>2. /\ state' = state /\ pc["server"] = "ack_req" /\ Stays("client")
        /\ \/ /\ pc'["server"] = "ack_req" /\ k'["server"] = 1 /\ k["server"] = 0
              /\ idx' = idx /\ r'["server"] = c
           \/ /\ pc'["server"] = "do_cmd" /\ k'["server"] = 0 /\ k["server"] = 1
              /\ idx'[<<"req", "c">>] = wrapping_inc(r["server"])
              /\ \A z \in {"req", "resp"}, e \in {"p", "c"} :
                    <<z, e>> # <<"req", "c">> => idx'[<<z, e>>] = idx[<<z, e>>]
    BY <1>b, <2>1, AdvanceStep
  <2>3. state = READY => ahead(c, p) > 0 /\ (k["server"] > 0 => r["server"] = c)
    BY <1>a, <2>2 DEF ServerRings, Consuming, At
  <2>4. ~Detached' /\ ClearedSoFar' /\ pc["server"] \notin LateLabels
    BY <2>2 DEF Detached, ClearedSoFar, LateLabels, At
  <2>5. CASE pc'["server"] = "ack_req" /\ idx' = idx /\ r'["server"] = c
    <3>1. state = READY => ServerRings'
      BY <2>3, <2>5 DEF ServerRings, Producing, Consuming, At
    <3> QED
      BY <1>d, <2>2, <2>4, <2>5, <3>1, ServerQuiet
  <2>6. CASE /\ pc'["server"] = "do_cmd" /\ k'["server"] = 0 /\ k["server"] = 1
             /\ idx'[<<"req", "c">>] = wrapping_inc(r["server"])
             /\ \A z \in {"req", "resp"}, e \in {"p", "c"} :
                   <<z, e>> # <<"req", "c">> => idx'[<<z, e>>] = idx[<<z, e>>]
    <3>1. ServerRings'
      BY <2>6, ServerIdles
    <3>2. LateClear'
      BY <1>d, <2>2, <2>4 DEF RingInv, LateClear, At, Stays
    <3>3. CASE state = READY
      <4>1. c \in Idx /\ p \in Idx /\ MB_MAX_ENTRIES \in Int /\ ahead(c, p) \in Int
        BY IdxTypes, Numbers
      <4>2. /\ idx'[<<"req", "c">>] = wrapping_inc(c) /\ idx'[<<"req", "p">>] = p
            /\ idx'[<<"resp", "c">>] = idx[<<"resp", "c">>] /\ idx'[<<"resp", "p">>] = idx[<<"resp", "p">>]
        BY <2>3, <2>6, <3>3
      <4>3. ahead(wrapping_inc(c), p) = ahead(c, p) - 1
        BY <2>3, <3>3, <4>1, AheadSteps
      <4>4. Bounded("req")' /\ Bounded("resp")'
        BY <1>a, <3>3, <4>1, <4>2, <4>3 DEF Bounded
      <4>5. r["client"] \in Idx /\ ahead(r["client"], p) \in Int
        BY <4>1, IdxTypes, Numbers
      <4>6. ClientRings'
        BY <2>2, <3>3, <4>1, <4>2, <4>3, <4>5 DEF RingInv, ClientRings, Producing, Consuming, At, Stays
      <4> QED
        BY <2>4, <3>1, <3>2, <4>4, <4>6 DEF RingInv
    <3>4. CASE state # READY
      <4>1. ClientRings'
        BY <1>c, <2>2, <3>4, ClientAway
      <4> QED
        BY <2>2, <2>4, <3>2, <3>4, <4>1 DEF RingInv
    <3> QED
      BY <3>3, <3>4
  <2> QED
    BY <2>2, <2>5, <2>6
<1>9. CASE do_cmd
  <2>1. /\ pc["server"] = "do_cmd" /\ state' = state /\ r' = r /\ idx' = idx
        /\ Goto("server", AfterCmd(buf["server"].kind))
    BY <1>9 DEF do_cmd, At, shared
  <2>2. AfterCmd(buf["server"].kind) \in {"resp.is_ready", "recv.is_ready", "stopped", "panic"}
    BY DEF AfterCmd
  <2>3. Stays("client") /\ pc'["server"] \in {"resp.is_ready", "recv.is_ready", "stopped", "panic"}
    BY <1>b, <2>1, <2>2, GotoIs DEF Stays
  <2>4. ServerRings' /\ ~Detached' /\ ClearedSoFar' /\ pc["server"] \notin LateLabels
    BY <2>1, <2>3, ServerIdles DEF Detached, ClearedSoFar, LateLabels, At
  <2> QED
    BY <1>d, <2>1, <2>3, <2>4, ServerQuiet
<1>10. CASE server_try_send
  <2>1. CASE is_ready("server", "resp.is_ready", "resp.full", "wait_reset")
    <3>1. /\ idx' = idx /\ state' = state /\ Stays("client") /\ k'["server"] = 0
          /\ pc["server"] = "resp.is_ready"
          /\ IF state = READY THEN pc'["server"] = "resp.full" ELSE pc'["server"] = "wait_reset"
      BY <1>b, <2>1, ReadyStep
    <3>2. ServerRings' /\ (Detached' => state = INIT) /\ ClearedSoFar' /\ pc["server"] \notin LateLabels
      BY <1>c, <3>1, ServerIdles DEF Detached, ClearedSoFar, LateLabels, At
    <3> QED
      BY <1>d, <3>1, <3>2, ServerQuiet
  <2>2. CASE q_full("server", "resp.full", "resp", "resp.is_ready", "put_resp")
    <3>1. CASE state = READY
      <4>1. Producing("server", "resp", "resp.full", "put_resp", "commit_resp") /\ Bounded("resp")
        BY <1>a, <3>1 DEF ServerRings
      <4>2. /\ Producing("server", "resp", "resp.full", "put_resp", "commit_resp")'
            /\ pc'["server"] \in {"resp.full", "resp.is_ready", "put_resp"}
            /\ \A o \in Proc \ {"server"} : Stays(o)
            /\ idx' = idx /\ state' = state
        BY <1>b, <2>2, <4>1, FullStep
      <4>3. ServerRings'
        BY <4>2 DEF ServerRings, Consuming, At
      <4>4. ~Detached' /\ ClearedSoFar' /\ pc["server"] \notin LateLabels
        BY <2>2, <4>2 DEF Detached, ClearedSoFar, LateLabels, At, q_full, compare_idx
      <4> QED
        BY <1>b, <1>d, <4>2, <4>3, <4>4, ServerQuiet
    <3>2. CASE state # READY
      <4>1. /\ idx' = idx /\ state' = state /\ pc["server"] = "resp.full"
            /\ \/ r' = [r EXCEPT !["server"] = idx[<<"resp", "c">>]]
               \/ r' = r
            /\ \/ Again("server") \/ Goto("server", "resp.is_ready") \/ Goto("server", "put_resp")
        BY <2>2 DEF q_full, compare_idx, compare_slots, compare_flags, At, shared
      <4>2. pc'["server"] \in {"resp.full", "resp.is_ready", "put_resp"}
            /\ pc'["client"] = pc["client"] /\ k'["client"] = k["client"]
        BY <1>b, <4>1, GotoIs, AgainIs
      <4>3. r'["client"] = r["client"]
        BY <1>b, <4>1, RegIs
      <4>4. ~Detached' /\ ClearedSoFar'
        BY <4>2 DEF Detached, ClearedSoFar, At
      <4> QED
        BY <3>2, <4>1, <4>2, <4>3, <4>4, ServerQuiet DEF Stays
    <3> QED
      BY <3>1, <3>2
  <2> QED
    BY <1>10, <2>1, <2>2 DEF server_try_send
<1>11. CASE put_resp
  <2>1. pc["server"] = "put_resp" /\ idx' = idx /\ state' = state
    BY <1>11 DEF put_resp, At
  <2>2. pc["server"] \notin LateLabels
    BY <2>1 DEF LateLabels
  <2>3. CASE load_slot("server", "resp", "p")
    <3>1. /\ pc'["server"] = "put_resp" /\ Stays("client")
          /\ r'["server"] = idx_masked(idx[<<"resp", "p">>])
      BY <1>b, <2>1, <2>3, LoadStep
    <3>2. state = READY => ServerRings'
      BY <1>a, <2>1, <3>1 DEF ServerRings, Producing, Consuming, At
    <3>3. ~Detached' /\ ClearedSoFar'
      BY <3>1 DEF Detached, ClearedSoFar, At
    <3> QED
      BY <1>d, <2>1, <2>2, <3>1, <3>2, <3>3, ServerQuiet
  <2>4. CASE Goto("server", "commit_resp") /\ r' = r
    <3>1. pc'["server"] = "commit_resp" /\ k'["server"] = 0 /\ Stays("client")
      BY <1>b, <2>1, <2>4, GotoIs DEF Stays
    <3>2. state = READY => ServerRings'
      BY <1>a, <2>1, <3>1 DEF ServerRings, Producing, Consuming, At
    <3>3. ~Detached' /\ ClearedSoFar'
      BY <3>1 DEF Detached, ClearedSoFar, At
    <3> QED
      BY <1>d, <2>1, <2>2, <3>1, <3>2, <3>3, ServerQuiet
  <2> QED
    BY <1>11, <2>3, <2>4 DEF put_resp
<1>12. CASE commit_resp
  <2> DEFINE c == idx[<<"resp", "c">>]
             p == idx[<<"resp", "p">>]
  <2>1. advance("server", "commit_resp", "resp", "p", "recv.is_ready")
    BY <1>12 DEF commit_resp
  <2>2. /\ state' = state /\ pc["server"] = "commit_resp" /\ Stays("client")
        /\ \/ /\ pc'["server"] = "commit_resp" /\ k'["server"] = 1 /\ k["server"] = 0
              /\ idx' = idx /\ r'["server"] = p
           \/ /\ pc'["server"] = "recv.is_ready" /\ k'["server"] = 0 /\ k["server"] = 1
              /\ idx'[<<"resp", "p">>] = wrapping_inc(r["server"])
              /\ \A z \in {"req", "resp"}, e \in {"p", "c"} :
                    <<z, e>> # <<"resp", "p">> => idx'[<<z, e>>] = idx[<<z, e>>]
    BY <1>b, <2>1, AdvanceStep
  <2>3. state = READY => ahead(c, p) < MB_MAX_ENTRIES /\ (k["server"] > 0 => r["server"] = p)
    BY <1>a, <2>2 DEF ServerRings, Producing, At
  <2>4. ~Detached' /\ ClearedSoFar' /\ pc["server"] \notin LateLabels
    BY <2>2 DEF Detached, ClearedSoFar, LateLabels, At
  <2>5. CASE pc'["server"] = "commit_resp" /\ idx' = idx /\ r'["server"] = p
    <3>1. state = READY => ServerRings'
      BY <2>3, <2>5 DEF ServerRings, Producing, Consuming, At
    <3> QED
      BY <1>d, <2>2, <2>4, <2>5, <3>1, ServerQuiet
  <2>6. CASE /\ pc'["server"] = "recv.is_ready" /\ k'["server"] = 0 /\ k["server"] = 1
             /\ idx'[<<"resp", "p">>] = wrapping_inc(r["server"])
             /\ \A z \in {"req", "resp"}, e \in {"p", "c"} :
                   <<z, e>> # <<"resp", "p">> => idx'[<<z, e>>] = idx[<<z, e>>]
    <3>1. ServerRings'
      BY <2>6, ServerIdles
    <3>2. LateClear'
      BY <1>d, <2>2, <2>4 DEF RingInv, LateClear, At, Stays
    <3>3. CASE state = READY
      <4>1. c \in Idx /\ p \in Idx /\ MB_MAX_ENTRIES \in Int /\ ahead(c, p) \in Int
        BY IdxTypes, Numbers
      <4>2. /\ idx'[<<"resp", "p">>] = wrapping_inc(p) /\ idx'[<<"resp", "c">>] = c
            /\ idx'[<<"req", "c">>] = idx[<<"req", "c">>] /\ idx'[<<"req", "p">>] = idx[<<"req", "p">>]
        BY <2>3, <2>6, <3>3
      <4>3. ahead(c, wrapping_inc(p)) = ahead(c, p) + 1
        BY <2>3, <3>3, <4>1, ProducerMoves
      <4>4. Bounded("req")' /\ Bounded("resp")'
        BY <1>a, <2>3, <3>3, <4>1, <4>2, <4>3 DEF Bounded
      <4>5. ClientRings'
        BY <2>2, <3>3, <4>1, <4>2, <4>3 DEF RingInv, ClientRings, Producing, Consuming, At, Stays
      <4> QED
        BY <2>4, <3>1, <3>2, <4>4, <4>5 DEF RingInv
    <3>4. CASE state # READY
      <4>1. ClientRings'
        BY <1>c, <2>2, <3>4, ClientAway
      <4> QED
        BY <2>2, <2>4, <3>2, <3>4, <4>1 DEF RingInv
    <3> QED
      BY <3>3, <3>4
  <2> QED
    BY <2>2, <2>5, <2>6
<1> QED
  BY <1>1, <1>2, <1>3, <1>4, <1>5, <1>6, <1>7, <1>8, <1>9, <1>10, <1>11, <1>12 DEF ServerStep

LEMMA RingNext == TypeInv /\ HandshakeInv /\ RingInv /\ [Next]_vars => RingInv'
<1> SUFFICES ASSUME TypeInv, HandshakeInv, RingInv, [Next]_vars PROVE RingInv'
  OBVIOUS
<1>1. CASE UNCHANGED vars
  BY <1>1 DEF vars, RingInv, Detached, ClearedSoFar, LateClear, AllZero, Bounded, ServerRings,
              ClientRings, Producing, Consuming, At
<1> QED
  BY <1>1, ClientRingNext, ServerRingNext DEF Next

-----------------------------------------------------------------------------
LEMMA RingsHold == Spec => [](TypeInv /\ HandshakeInv /\ RingInv)
BY TypeInit, TypeNext, HandshakeInit, HandshakeNext, RingInit, RingNext, PTL DEF Spec

\* The invariant of the rings, whatever the client and the server are in the middle
\* of, a reset and a restart included.
THEOREM RingInvariant == Spec => []RingInv
BY RingsHold, PTL

\* No producer ever laps its consumer while the channel is up.
THEOREM RingsBounded == Spec => []RingBounds
<1>1. RingInv => RingBounds
  BY DEF RingInv, RingBounds, Bounded
<1> QED
  BY <1>1, RingsHold, PTL

\* Two indices that are apart by less than the ring select different slots.
LEMMA SlotsDiffer ==
    ASSUME NEW c \in Idx, NEW p \in Idx, ahead(c, p) > 0, ahead(c, p) < MB_MAX_ENTRIES
    PROVE  idx_masked(c) # idx_masked(p)
<1>1. ahead(c, p) \in Nat /\ MB_MAX_ENTRIES \in Nat /\ idx_masked(c) \in 0 .. MB_MAX_ENTRIES - 1
  BY Numbers, IndexTypes DEF Slot
<1> QED
  BY <1>1, MaskedAhead

\* No slot is written by one side while the other side copies it.
THEOREM NoSlotTorn == Spec => []NoTornAccess
<1>1. ASSUME TypeInv, HandshakeInv, RingInv PROVE NoTornAccess
  <2>1. \A q \in {"req", "resp"} : idx[<<q, "c">>] \in Idx /\ idx[<<q, "p">>] \in Idx
    BY <1>1, IdxTypes
  <2>2. ~ /\ At("client", "put_req") /\ k["client"] > 0
          /\ At("server", "get_req") /\ k["server"] > 0
          /\ r["client"] = r["server"]
    <3>1. SUFFICES ASSUME At("client", "put_req"), k["client"] > 0, At("server", "get_req"),
                          k["server"] > 0
                   PROVE  r["client"] # r["server"]
      OBVIOUS
    <3>2. state = READY
      BY <1>1, <3>1 DEF HandshakeInv, InCall, At
    <3>3. /\ ahead(idx[<<"req", "c">>], idx[<<"req", "p">>]) < MB_MAX_ENTRIES
          /\ r["client"] = idx_masked(idx[<<"req", "p">>])
      BY <1>1, <3>1 DEF RingInv, ClientRings, Producing, At
    <3>4. /\ ahead(idx[<<"req", "c">>], idx[<<"req", "p">>]) > 0
          /\ r["server"] = idx_masked(idx[<<"req", "c">>])
      BY <1>1, <3>1, <3>2 DEF RingInv, ServerRings, Consuming, At
    <3> QED
      BY <2>1, <3>3, <3>4, SlotsDiffer
  <2>3. ~ /\ At("server", "put_resp") /\ k["server"] > 0
          /\ At("client", "get_resp") /\ k["client"] > 0
          /\ r["client"] = r["server"]
    <3>1. SUFFICES ASSUME At("server", "put_resp"), k["server"] > 0, At("client", "get_resp"),
                          k["client"] > 0
                   PROVE  r["client"] # r["server"]
      OBVIOUS
    <3>2. state = READY
      BY <1>1, <3>1 DEF HandshakeInv, InCall, At
    <3>3. /\ ahead(idx[<<"resp", "c">>], idx[<<"resp", "p">>]) < MB_MAX_ENTRIES
          /\ r["server"] = idx_masked(idx[<<"resp", "p">>])
      BY <1>1, <3>1, <3>2 DEF RingInv, ServerRings, Producing, At
    <3>4. /\ ahead(idx[<<"resp", "c">>], idx[<<"resp", "p">>]) > 0
          /\ r["client"] = idx_masked(idx[<<"resp", "c">>])
      BY <1>1, <3>1 DEF RingInv, ClientRings, Consuming, At
    <3> QED
      BY <2>1, <3>3, <3>4, SlotsDiffer
  <2> QED
    BY <2>2, <2>3 DEF NoTornAccess
<1> QED
  BY <1>1, RingsHold, PTL

==============================================================================

---------------------------- MODULE MBServerProof ----------------------------
(***************************************************************************)
(* What the handlers of MBServer take from their requests, for any number  *)
(* of slots and of arguments, any custom commands and any number of        *)
(* requests, each in a slot that other requests have used before.          *)
(***************************************************************************)
EXTENDS MBServerProps, SequenceTheorems, TLAPS

-----------------------------------------------------------------------------
(* Encodings: what put_req writes and a handler takes is what was given.    *)

LEMMA FileKindsAre ==
    /\ ToSet(FileKinds) = {"OPEN", "CLOSE", "READ", "WRITE", "SEEK"}
    /\ \A kind \in ToSet(FileKinds) :
          \E k \in 1 .. 5 : k = (CHOOSE j \in DOMAIN FileKinds : FileKinds[j] = kind) /\ FileKinds[k] = kind
<1>1. DOMAIN FileKinds = 1 .. 5
  BY DEF FileKinds
<1>2. /\ FileKinds[1] = "OPEN" /\ FileKinds[2] = "CLOSE" /\ FileKinds[3] = "READ"
      /\ FileKinds[4] = "WRITE" /\ FileKinds[5] = "SEEK"
  BY DEF FileKinds
<1>3. ToSet(FileKinds) = {"OPEN", "CLOSE", "READ", "WRITE", "SEEK"}
  <2>1. 1 .. 5 = {1, 2, 3, 4, 5}
    OBVIOUS
  <2> QED
    BY <1>1, <1>2, <2>1 DEF ToSet
<1>4. ASSUME NEW kind \in ToSet(FileKinds)
      PROVE  \E k \in 1 .. 5 : k = (CHOOSE j \in DOMAIN FileKinds : FileKinds[j] = kind) /\ FileKinds[k] = kind
  <2>1. \E j \in DOMAIN FileKinds : FileKinds[j] = kind
    BY <1>4 DEF ToSet
  <2> QED
    BY <1>1, <2>1
<1> QED
  BY <1>3, <1>4

\* What is written before the caller's arguments, and how many these are.
LEMMA LeadAndGiven ==
    ASSUME NEW kind \in Kinds, NEW id \in Nat, NEW n \in Extra, NEW x \in Nat,
           kind \in {"CALL", "CPRINT"} \/ n = 0
    PROVE  /\ Lead(kind, x) \in Seq(Value) /\ Given(kind, id, n, x) \in Seq(Value)
           /\ Len(Given(kind, id, n, x)) = Arity(kind) + n /\ Arity(kind) \in Nat /\ n \in Nat
           /\ Len(Lead(kind, x)) + Arity(kind) + n <= MB_MAX_ARGS
           /\ Len(Lead(kind, x)) = IF kind \in ToSet(FileKinds) \/ kind = "OTHER" THEN 1 ELSE 0
           /\ kind \in ToSet(FileKinds) => FileKinds[Lead(kind, x)[1][2]] = kind
<1> USE ServerAssumption
<1>1. n \in 0 .. MB_MAX_ARGS - 4
  OBVIOUS
<1>2. Arity(kind) \in 0 .. 3 /\ (kind = "CALL" => Arity(kind) = 1)
  BY DEF Arity, Kinds
<1>3. /\ Lead(kind, x) \in Seq(Value)
      /\ Len(Lead(kind, x)) = IF kind \in ToSet(FileKinds) \/ kind = "OTHER" THEN 1 ELSE 0
      /\ kind \in ToSet(FileKinds) => FileKinds[Lead(kind, x)[1][2]] = kind
  <2>1. CASE kind \in ToSet(FileKinds)
    <3>1. PICK k \in 1 .. 5 : k = (CHOOSE j \in DOMAIN FileKinds : FileKinds[j] = kind)
                              /\ FileKinds[k] = kind
      BY <2>1, FileKindsAre
    <3>2. Lead(kind, x) = << <<0, k>> >>
      BY <2>1, <3>1 DEF Lead
    <3>3. <<0, k>> \in Value /\ <<0, k>>[2] = k
      BY DEF Value
    <3>4. << <<0, k>> >> \in Seq(Value) /\ Len(<< <<0, k>> >>) = 1
      BY <3>3
    <3> QED
      BY <2>1, <3>1, <3>2, <3>3, <3>4
  <2>2. CASE kind \notin ToSet(FileKinds)
    <3>1. <<0, x>> \in Value
      BY DEF Value
    <3>2. << <<0, x>> >> \in Seq(Value) /\ Len(<< <<0, x>> >>) = 1
      BY <3>1
    <3> QED
      BY <2>2, <3>2 DEF Lead
  <2> QED
    BY <2>1, <2>2
<1>4. /\ Given(kind, id, n, x) \in Seq(Value)
      /\ Len(Given(kind, id, n, x)) = Arity(kind) + n
  <2>1. \A k \in 1 .. Arity(kind) + n : (IF k = TextAt(kind) THEN <<0, x>> ELSE <<id, k>>) \in Value
    BY <1>1, <1>2 DEF Value
  <2>2. Given(kind, id, n, x) \in [1 .. Arity(kind) + n -> Value]
    BY <2>1 DEF Given
  <2> QED
    BY <1>1, <1>2, <2>2
<1> QED
  BY <1>1, <1>2, <1>3, <1>4, SMTT(30)

\* The round trip.
LEMMA TakenIsGiven ==
    ASSUME NEW kind \in Kinds, NEW id \in Nat, NEW n \in Extra, NEW x \in Nat,
           kind \in {"CALL", "CPRINT"} \/ n = 0,
           NEW slot, slot.args \in [1 .. MB_MAX_ARGS -> Value],
           NEW e, e = put_req(slot, kind, Lead(kind, x) \o Given(kind, id, n, x))
    PROVE  /\ KindOf(e) = kind /\ Taken(e) = Given(kind, id, n, x)
           /\ e.args \in [1 .. MB_MAX_ARGS -> Value]
<1> DEFINE lead  == Lead(kind, x)
           given == Given(kind, id, n, x)
           all   == lead \o given
           L     == Len(lead)
           A     == Len(given)
<1>1. /\ lead \in Seq(Value) /\ given \in Seq(Value) /\ A = Arity(kind) + n
      /\ Arity(kind) \in Nat /\ n \in Nat
      /\ L + A <= MB_MAX_ARGS
      /\ kind \in ToSet(FileKinds) => FileKinds[lead[1][2]] = kind
      /\ L = IF kind \in ToSet(FileKinds) \/ kind = "OTHER" THEN 1 ELSE 0
  <2>1. /\ lead \in Seq(Value) /\ given \in Seq(Value) /\ A = Arity(kind) + n
        /\ Arity(kind) \in Nat /\ n \in Nat /\ L + Arity(kind) + n <= MB_MAX_ARGS
    BY LeadAndGiven
  <2>2. /\ kind \in ToSet(FileKinds) => FileKinds[lead[1][2]] = kind
        /\ L = IF kind \in ToSet(FileKinds) \/ kind = "OTHER" THEN 1 ELSE 0
    BY LeadAndGiven
  <2>3. L \in Nat
    BY <2>2
  <2> HIDE DEF L, A, lead, given
  <2> QED
    BY <2>1, <2>2, <2>3
<1> HIDE DEF lead, given
<1>2. /\ all \in Seq(Value) /\ Len(all) = L + A /\ L \in Nat /\ A \in Nat
      /\ \A k \in 1 .. L : all[k] = lead[k]
      /\ \A k \in 1 .. A : all[k + L] = given[k]
  <2>1. L \in Nat /\ A \in Nat
    BY <1>1, LenProperties
  <2>2. /\ all \in Seq(Value) /\ Len(all) = L + A
        /\ \A k \in 1 .. L + A : all[k] = IF k <= L THEN lead[k] ELSE given[k - L]
    BY <1>1, ConcatProperties
  <2>3. \A k \in 1 .. L : k \in 1 .. L + A /\ k <= L
    BY <2>1
  <2>4. \A k \in 1 .. A : k + L \in 1 .. L + A /\ ~(k + L <= L) /\ (k + L) - L = k
    BY <2>1
  <2> HIDE DEF L, A, all
  <2> QED
    BY <2>1, <2>2, <2>3, <2>4
<1>3. /\ e.action = ActionOf(kind) /\ e.words = L + A
      /\ e.args = [k \in 1 .. MB_MAX_ARGS |-> IF k <= L + A THEN all[k] ELSE slot.args[k]]
  BY <1>2 DEF put_req, words, lead, given
<1> HIDE DEF all
<1>4. \A k \in 1 .. MB_MAX_ARGS : k <= L + A => all[k] \in Value
  BY <1>2
<1>5. e.args \in [1 .. MB_MAX_ARGS -> Value]
  BY <1>3, <1>4
<1>6. KindOf(e) = kind
  <2>1. CASE kind \in ToSet(FileKinds)
    <3>1. L = 1 /\ 1 \in 1 .. L /\ 1 \in 1 .. MB_MAX_ARGS /\ 1 <= L + A
      BY <1>1, <1>2, <2>1, ServerAssumption
    <3>2. e.args[1] = lead[1]
      BY <1>2, <1>3, <3>1
    <3> QED
      BY <1>1, <1>3, <2>1, <3>2 DEF KindOf, ActionOf
  <2>2. CASE kind \notin ToSet(FileKinds)
    BY <1>3, <2>2, FileKindsAre DEF KindOf, ActionOf, Kinds
  <2> QED
    BY <2>1, <2>2
<1>7. Taken(e) = SubSeq(e.args, L + 1, L + A)
  <2> DEFINE from == IF kind = "OTHER" \/ kind \in ToSet(FileKinds) THEN 2 ELSE 1
             to   == IF kind \in {"CALL", "CPRINT"} THEN e.words ELSE from + Arity(kind) - 1
  <2> HIDE DEF L, A
  <2>1. from = L + 1
    BY <1>1
  <2>2. to = L + A
    <3>1. CASE kind \in {"CALL", "CPRINT"}
      BY <1>3, <3>1
    <3>2. CASE kind \notin {"CALL", "CPRINT"}
      <4>1. n = 0 /\ A = Arity(kind)
        BY <1>1, <3>2
      <4> HIDE DEF from
      <4> QED
        BY <1>2, <2>1, <3>2, <4>1
    <3> QED
      BY <3>1, <3>2
  <2>3. Taken(e) = SubSeq(e.args, from, to)
    BY <1>6 DEF Taken
  <2> HIDE DEF from, to
  <2> QED
    BY <2>1, <2>2, <2>3
<1>8. SubSeq(e.args, L + 1, L + A) = given
  <2>1. e.args \in Seq(Value) /\ Len(e.args) = MB_MAX_ARGS
    BY <1>5, ServerAssumption
  <2>2. L + 1 \in 1 .. Len(e.args) + 1 /\ L + A \in L .. Len(e.args)
    BY <1>1, <1>2, <2>1, ServerAssumption, SMTT(30)
  <2>3. \A k \in 1 .. A : e.args[k + L] = given[k]
    BY <1>1, <1>2, <1>3, ServerAssumption, SMTT(30)
  <2>4. /\ Len(SubSeq(e.args, L + 1, L + A)) = A
        /\ \A k \in 1 .. A : SubSeq(e.args, L + 1, L + A)[k] = e.args[k + L]
        /\ SubSeq(e.args, L + 1, L + A) \in Seq(Value)
    <3> HIDE DEF L, A
    <3>1. /\ SubSeq(e.args, L + 1, L + A) \in Seq(Value)
          /\ Len(SubSeq(e.args, L + 1, L + A)) = (L + A) - (L + 1) + 1
      BY <1>2, <2>1, <2>2, SubSeqProperties
    <3>2. \A k \in 1 .. (L + A) - (L + 1) + 1 : SubSeq(e.args, L + 1, L + A)[k] = e.args[(L + 1) + k - 1]
      BY <1>2, <2>1, <2>2, SubSeqProperties
    <3>3. (L + A) - (L + 1) + 1 = A /\ \A k \in 1 .. A : (L + 1) + k - 1 = k + L
      BY <1>2
    <3> QED
      BY <3>1, <3>2, <3>3
  <2> DEFINE part == SubSeq(e.args, L + 1, L + A)
  <2>5. part \in Seq(Value) /\ given \in Seq(Value) /\ Len(part) = Len(given)
        /\ \A k \in 1 .. Len(part) : part[k] = given[k]
    BY <1>1, <2>3, <2>4
  <2> HIDE DEF part
  <2>6. part = given
    BY <2>5, SeqEqual
  <2> QED
    BY <2>6 DEF part
<1> QED
  BY <1>5, <1>6, <1>7, <1>8 DEF given

-----------------------------------------------------------------------------
(* The slots.                                                               *)

\* Two requests that are in the ring together have different slots.
LEMMA SlotsApart ==
    ASSUME NEW a \in Nat, NEW b \in Nat, a < b, b - a < MB_MAX_ENTRIES
    PROVE  a % MB_MAX_ENTRIES # b % MB_MAX_ENTRIES
<1> DEFINE N == MB_MAX_ENTRIES
           qa == a \div N
           qb == b \div N
<1>1. N \in Nat \ {0}
  BY ServerAssumption
<1>2. /\ qa \in Int /\ qb \in Int /\ a % N \in 0 .. N - 1 /\ b % N \in 0 .. N - 1
      /\ a = N * qa + (a % N) /\ b = N * qb + (b % N)
  BY <1>1
<1>3. SUFFICES ASSUME a % N = b % N PROVE FALSE
  OBVIOUS
<1>4. b - a = N * qb - N * qa
  BY <1>1, <1>2, <1>3
<1>5. CASE qb <= qa
  <2>1. N * qb <= N * qa
    BY <1>1, <1>2, <1>5
  <2>2. N * qb \in Int /\ N * qa \in Int
    BY <1>1, <1>2
  <2> QED
    BY <1>4, <2>1, <2>2
<1>6. CASE qb >= qa + 1
  <2>1. N * qb >= N * (qa + 1)
    BY <1>1, <1>2, <1>6
  <2>2. N * (qa + 1) = N * qa + N /\ N * qb \in Int /\ N * qa \in Int
    BY <1>1, <1>2
  <2> QED
    BY <1>1, <1>4, <2>1, <2>2
<1> QED
  BY <1>2, <1>5, <1>6

Meaning == [kind : Kinds, args : Seq(Value), wants : Nat]

Index == 0 .. MB_MAX_ENTRIES - 1

\* As much of the types as the proof needs.
Counted ==
    /\ prod \in Nat /\ cons \in 0 .. prod /\ prod - cons <= MB_MAX_ENTRIES
    /\ meant \in Seq(Meaning) /\ Len(meant) = prod
    /\ ring = [s \in Index |-> ring[s]]
    /\ \A s \in Index : ring[s].args \in [1 .. MB_MAX_ARGS -> Value]
    /\ text = [b \in Bufs |-> text[b]]
    /\ pc \in {"recv", "cmd", "send", "stopped", "panic"}
    /\ wait \in Nat /\ replies \in Seq(Nat)

\* The entry means what its caller meant.
Says(e, m) == KindOf(e) = m.kind /\ Taken(e) = m.args

EntriesSay ==
    /\ \A id \in cons + 1 .. prod : Says(ring[(id - 1) % MB_MAX_ENTRIES], meant[id])
    /\ pc \in {"cmd", "send"} => cons # 0 /\ cur.id = cons /\ Says(cur.entry, meant[cons])
    /\ pc = "panic" => cur.id \in 1 .. prod /\ Hopeless(meant[cur.id])

\* The requests the server has still to do with.
Live == (cons + 1 .. prod) \cup (IF pc \in {"cmd", "send"} THEN {cons} ELSE {})

\* Nothing follows a request that waits for its answer, and nothing is left when the
\* answer is there; only what waits is answered.
WaitsLast ==
    /\ \A id \in Live : Waits(meant[id].kind) => wait = id /\ id = prod
    /\ pc = "send" => Waits(meant[cons].kind)
    /\ replies # <<>> => Len(replies) = 1 /\ cons = prod /\ pc = "recv" /\ wait # 0

\* The text of a cprint stays where it is until the server has read it.
TextsStay ==
    \A id \in Live : meant[id].kind = "CPRINT" =>
        LET x == meant[id].args[1][2] IN
        x \in busy /\ x \in Bufs /\ text[x].wants = meant[id].wants

ServerInv == Counted /\ EntriesSay /\ WaitsLast /\ TextsStay

LEMMA ServerInvInit == Init => ServerInv
<1> SUFFICES ASSUME Init PROVE ServerInv
  OBVIOUS
<1> USE ServerAssumption
<1>1. prod = 0 /\ cons = 0 /\ pc = "recv" /\ meant = <<>> /\ replies = <<>> /\ wait = 0
  BY DEF Init
<1>2. Live = {}
  BY <1>1 DEF Live
<1>3. [k \in 1 .. MB_MAX_ARGS |-> <<0, 0>>] \in [1 .. MB_MAX_ARGS -> Value]
  BY DEF Value
<1>4. Counted
  <2>1. ring = [s \in Index |-> ring[s]] /\ \A s \in Index : ring[s].args \in [1 .. MB_MAX_ARGS -> Value]
    BY <1>3 DEF Init, Index, Slot0
  <2>2. text = [b \in Bufs |-> text[b]]
    BY DEF Init
  <2> QED
    BY <1>1, <2>1, <2>2 DEF Counted
<1>5. EntriesSay /\ WaitsLast /\ TextsStay
  BY <1>1, <1>2 DEF EntriesSay, WaitsLast, TextsStay
<1> QED
  BY <1>4, <1>5 DEF ServerInv

-----------------------------------------------------------------------------
(* The client.                                                              *)

\* Where a cprint's caller gives the pointer to its text.
LEMMA GivenIs ==
    ASSUME NEW kind \in Kinds, NEW id \in Nat, NEW n \in Extra, NEW x \in Nat,
           kind \in {"CALL", "CPRINT"} \/ n = 0, kind = "CPRINT"
    PROVE  Given(kind, id, n, x)[1] = <<0, x>>
<1>1. 1 \in 1 .. Arity(kind) + n
  BY ServerAssumption DEF Arity
<1> QED
  BY <1>1 DEF Given, TextAt

LEMMA CallKeeps ==
    ASSUME ServerInv, NEW kind \in Kinds, NEW n \in Extra, NEW x \in Codes \cup Bufs,
           NEW nl \in BOOLEAN, NEW wants \in Extra, Call(kind, n, x, nl, wants)
    PROVE  ServerInv'
<1> DEFINE N     == MB_MAX_ENTRIES
           given == Given(kind, prod + 1, n, x)
           m     == [kind |-> kind, args |-> given, wants |-> wants]
<1> USE ServerAssumption
<1>1. /\ wait = 0 /\ prod' = prod + 1 /\ prod - cons < N
      /\ UNCHANGED <<env, cons, replies, pc, cur>>
      /\ kind \in {"CALL", "CPRINT"} \/ n = 0
      /\ wait' = IF Waits(kind) THEN prod + 1 ELSE 0
      /\ meant' = Append(meant, m)
  BY DEF Call, req_can_put, server
<1>2. x \in Nat /\ wants \in Nat /\ prod + 1 \in Nat /\ prod \in Nat /\ cons \in 0 .. prod
  BY SMTT(30) DEF ServerInv, Counted
<1>3. given \in Seq(Value)
  BY <1>1, <1>2, LeadAndGiven
<1>4. /\ m \in Meaning /\ m.kind = kind /\ m.args = given /\ m.wants = wants
  BY <1>2, <1>3 DEF Meaning
<1> HIDE DEF given, m
<1>5. /\ meant' \in Seq(Meaning) /\ Len(meant') = prod + 1 /\ meant'[prod + 1] = m
      /\ \A id \in 1 .. prod : meant'[id] = meant[id]
  BY <1>1, <1>4, AppendProperties, SMTT(30) DEF ServerInv, Counted
<1>6. PICK e : /\ KindOf(e) = kind /\ Taken(e) = given
               /\ e.args \in [1 .. MB_MAX_ARGS -> Value]
               /\ ring' = [ring EXCEPT ![prod % N] = e]
  <2>1. prod % N \in Index
    BY <1>2 DEF Index
  <2>2. ring[prod % N].args \in [1 .. MB_MAX_ARGS -> Value]
    BY <2>1 DEF ServerInv, Counted
  <2> DEFINE e == put_req(ring[prod % N], kind, Lead(kind, x) \o Given(kind, prod + 1, n, x))
  <2>3. ring' = [ring EXCEPT ![prod % N] = e]
    BY <2>1 DEF Call, ServerInv, Counted
  <2>4. KindOf(e) = kind /\ Taken(e) = given /\ e.args \in [1 .. MB_MAX_ARGS -> Value]
    BY <1>1, <1>2, <2>2, TakenIsGiven DEF given
  <2> HIDE DEF e
  <2> QED
    BY <2>3, <2>4
<1>7. /\ ring'[prod % N] = e /\ ring' = [s \in Index |-> ring'[s]]
      /\ \A s \in Index : s # prod % N => ring'[s] = ring[s]
      /\ prod % N \in Index
  <2>1. prod % N \in Index
    BY <1>2 DEF Index
  <2>2. ring = [s \in Index |-> ring[s]]
    BY DEF ServerInv, Counted
  <2> QED
    BY <1>6, <2>1, <2>2
<1>8. Counted'
  <2>1. text' = [b \in Bufs |-> text'[b]]
    BY DEF Call, ServerInv, Counted
  <2>2. \A s \in Index : ring'[s].args \in [1 .. MB_MAX_ARGS -> Value]
    BY <1>6, <1>7 DEF ServerInv, Counted
  <2>3. prod' \in Nat /\ cons' \in 0 .. prod' /\ prod' - cons' <= N /\ wait' \in Nat
    BY <1>1, <1>2
  <2> QED
    BY <1>1, <1>5, <1>7, <2>1, <2>2, <2>3 DEF ServerInv, Counted
<1>9. EntriesSay'
  <2>1. ASSUME NEW id \in cons + 1 .. prod + 1
        PROVE  Says(ring'[(id - 1) % N], meant'[id])
    <3>1. CASE id = prod + 1
      <4>1. ring'[(id - 1) % N] = e /\ meant'[id] = m
        BY <1>2, <1>5, <1>7, <3>1
      <4> QED
        BY <1>4, <1>6, <4>1 DEF Says
    <3>2. CASE id # prod + 1
      <4>1. id \in cons + 1 .. prod /\ id \in 1 .. prod /\ id - 1 \in Nat /\ id - 1 < prod
            /\ prod - (id - 1) < N
        BY <1>1, <1>2, <3>2
      <4>2. (id - 1) % N # prod % N
        BY <1>2, <4>1, SlotsApart
      <4>3. (id - 1) % N \in Index
        BY <4>1 DEF Index
      <4> QED
        BY <1>5, <1>7, <4>1, <4>2, <4>3 DEF ServerInv, EntriesSay
    <3> QED
      BY <3>1, <3>2
  <2>2. pc \in {"cmd", "send"} => cons # 0 /\ cur.id = cons /\ Says(cur.entry, meant'[cons])
    BY <1>2, <1>5 DEF ServerInv, EntriesSay
  <2>3. pc = "panic" => cur.id \in 1 .. prod + 1 /\ Hopeless(meant[cur.id])'
    <3>1. pc = "panic" => cur.id \in 1 .. prod /\ Hopeless(meant[cur.id])
      BY DEF ServerInv, EntriesSay
    <3> QED
      BY <1>1, <1>2, <1>5, <3>1 DEF Hopeless
  <2> QED
    BY <1>1, <2>1, <2>2, <2>3 DEF EntriesSay, Says
<1>10. /\ Live' = Live \cup {prod + 1} /\ prod + 1 \notin Live
       /\ \A id \in Live : id \in 1 .. prod /\ meant'[id] = meant[id]
       /\ \A id \in Live : ~Waits(meant[id].kind)
  <2>1. \A id \in Live : id \in 1 .. prod
    BY <1>2 DEF Live, ServerInv, EntriesSay
  <2>2. \A id \in Live : ~Waits(meant[id].kind)
    BY <1>1, <2>1 DEF ServerInv, WaitsLast
  <2>3. cons + 1 .. prod + 1 = (cons + 1 .. prod) \cup {prod + 1}
    BY <1>2
  <2> QED
    BY <1>1, <1>2, <1>5, <2>1, <2>2, <2>3 DEF Live
<1>11. WaitsLast'
  <2>1. replies = <<>>
    BY <1>1 DEF ServerInv, WaitsLast
  <2>2. pc # "send"
    <3>1. pc = "send" => cons \in Live /\ Waits(meant[cons].kind)
      BY DEF Live, ServerInv, WaitsLast
    <3> QED
      BY <1>10, <3>1
  <2> QED
    BY <1>1, <1>4, <1>5, <1>10, <2>1, <2>2 DEF WaitsLast, Waits
<1>12. TextsStay'
  <2>1. ASSUME NEW id \in Live, meant[id].kind = "CPRINT"
        PROVE  LET y == meant[id].args[1][2] IN
               y \in busy' /\ y \in Bufs /\ text'[y].wants = meant[id].wants
    <3> DEFINE y == meant[id].args[1][2]
    <3>1. y \in busy /\ y \in Bufs /\ text[y].wants = meant[id].wants
      BY <2>1 DEF ServerInv, TextsStay
    <3>2. busy \subseteq busy' /\ (kind \in Streams => x # y)
      BY <3>1 DEF Call
    <3> HIDE DEF y
    <3>3. text'[y] = text[y]
      BY <3>1, <3>2 DEF Call, ServerInv, Counted
    <3> QED
      BY <3>1, <3>2, <3>3 DEF y
  <2>2. kind = "CPRINT" => /\ m.args[1][2] = x /\ x \in busy' /\ x \in Bufs
                          /\ text'[x].wants = wants
    <3> SUFFICES ASSUME kind = "CPRINT"
                 PROVE  m.args[1][2] = x /\ x \in busy' /\ x \in Bufs /\ text'[x].wants = wants
      OBVIOUS
    <3>1. m.args[1][2] = x
      BY <1>1, <1>2, <1>4, GivenIs DEF given
    <3>2. x \in Bufs /\ x \in busy' /\ text' = [text EXCEPT ![x] = [id |-> prod + 1, nl |-> nl, wants |-> wants]]
      BY DEF Call, Streams, Waits
    <3> QED
      BY <3>1, <3>2 DEF ServerInv, Counted
  <2> QED
    BY <1>4, <1>5, <1>10, <2>1, <2>2 DEF TextsStay
<1> QED
  BY <1>8, <1>9, <1>11, <1>12 DEF ServerInv

LEMMA ReturnKeeps == ServerInv /\ Return => ServerInv'
<1> SUFFICES ASSUME ServerInv, Return PROVE ServerInv'
  OBVIOUS
<1>1. /\ replies # <<>> /\ replies' = Tail(replies) /\ wait' = 0
      /\ UNCHANGED <<env, text, meant, ring, prod, cons, pc, cur>>
  BY DEF Return, server
<1>2. Len(replies) = 1 /\ cons = prod /\ pc = "recv"
  BY <1>1 DEF ServerInv, WaitsLast
<1>3. replies' = <<>>
  <2>1. Len(Tail(replies)) = 0 /\ Tail(replies) \in Seq(Nat)
    BY <1>1, <1>2, HeadTailProperties DEF ServerInv, Counted
  <2> QED
    BY <1>1, <2>1, EmptySeq
<1>4. Live' = {}
  BY <1>1, <1>2 DEF Live, ServerInv, Counted
<1>5. Counted'
  BY <1>1, <1>3, EmptySeq DEF ServerInv, Counted
<1>6. EntriesSay'
  BY <1>1, <1>2 DEF ServerInv, EntriesSay, Says
<1>7. WaitsLast' /\ TextsStay'
  BY <1>1, <1>2, <1>3, <1>4 DEF WaitsLast, TextsStay
<1> QED
  BY <1>5, <1>6, <1>7 DEF ServerInv

-----------------------------------------------------------------------------
(* The server.                                                              *)

LEMMA RecvKeeps == ServerInv /\ recv_req => ServerInv'
<1> SUFFICES ASSUME ServerInv, recv_req PROVE ServerInv'
  OBVIOUS
<1>1. /\ pc = "recv" /\ cons < prod /\ cons' = cons + 1 /\ pc' = "cmd"
      /\ cur' = [id |-> cons + 1, entry |-> ring[cons % MB_MAX_ENTRIES]]
      /\ UNCHANGED <<env, text, busy, wait, meant, ring, prod, replies>>
  BY DEF recv_req, client
<1>2. prod \in Nat /\ cons \in 0 .. prod
  BY DEF ServerInv, Counted
<1>3. Live' = Live
  <2>1. cons' + 1 .. prod' = (cons + 1 .. prod) \ {cons + 1} /\ cons + 1 \in cons + 1 .. prod
    BY <1>1, <1>2
  <2> QED
    BY <1>1, <2>1 DEF Live
<1>4. Counted'
  <2>1. /\ ring' = [s \in Index |-> ring'[s]]
        /\ \A s \in Index : ring'[s].args \in [1 .. MB_MAX_ARGS -> Value]
        /\ text' = [b \in Bufs |-> text'[b]]
    <3>1. ring' = ring /\ text' = text
      BY <1>1
    <3> QED
      BY <3>1, Zenon DEF ServerInv, Counted
  <2>2. prod' \in Nat /\ cons' \in 0 .. prod' /\ prod' - cons' <= MB_MAX_ENTRIES
    BY <1>1, <1>2, ServerAssumption DEF ServerInv, Counted
  <2>3. /\ meant' \in Seq(Meaning) /\ Len(meant') = prod'
        /\ pc' \in {"recv", "cmd", "send", "stopped", "panic"}
        /\ wait' \in Nat /\ replies' \in Seq(Nat)
    BY <1>1 DEF ServerInv, Counted
  <2> QED
    BY <2>1, <2>2, <2>3 DEF Counted
<1>5. EntriesSay'
  <2>1. cons + 1 \in cons + 1 .. prod /\ (cons + 1) - 1 = cons
    BY <1>1, <1>2
  <2>2. Says(ring[cons % MB_MAX_ENTRIES], meant[cons + 1])
    BY <2>1 DEF ServerInv, EntriesSay
  <2>3. \A id \in cons' + 1 .. prod' : id \in cons + 1 .. prod
    BY <1>1, <1>2
  <2> QED
    BY <1>1, <1>2, <2>2, <2>3 DEF ServerInv, EntriesSay, Says
<1>6. WaitsLast' /\ TextsStay'
  BY <1>1, <1>2, <1>3 DEF ServerInv, WaitsLast, TextsStay
<1> QED
  BY <1>4, <1>5, <1>6 DEF ServerInv

\* A handler leaves the request behind, or its answer to be sent.
LEMMA HandlerKeeps ==
    ASSUME ServerInv, pc = "cmd", UNCHANGED <<client, ring, prod, cons, replies, cur>>,
           pc' \in {"cmd", "recv", "send", "stopped", "panic"},
           pc' = "send" => Waits(meant[cons].kind),
           pc' = "panic" => Hopeless(meant[cons])
    PROVE  ServerInv'
<1>1. UNCHANGED <<env, text, busy, wait, meant>>
  BY DEF client
<1>2. prod \in Nat /\ cons \in 1 .. prod /\ cur.id = cons /\ Says(cur.entry, meant[cons])
  BY DEF ServerInv, Counted, EntriesSay
<1>3. Live' \subseteq Live
  BY DEF Live
<1>4. Counted'
  BY <1>1 DEF ServerInv, Counted
<1>5. EntriesSay'
  <2>1. pc' = "panic" => cur.id \in 1 .. prod /\ Hopeless(meant[cur.id])'
    BY <1>1, <1>2 DEF Hopeless
  <2> QED
    BY <1>1, <1>2, <2>1 DEF ServerInv, EntriesSay, Says
<1>6. replies = <<>>
  BY DEF ServerInv, WaitsLast
<1>7. WaitsLast' /\ TextsStay'
  BY <1>1, <1>3, <1>6 DEF ServerInv, WaitsLast, TextsStay
<1> QED
  BY <1>4, <1>5, <1>7 DEF ServerInv

LEMMA HandleKeeps == ServerInv /\ Handle => ServerInv'
<1> SUFFICES ASSUME ServerInv, Handle PROVE ServerInv'
  OBVIOUS
<1>1. pc = "cmd" /\ UNCHANGED <<client, ring, prod, cons, replies, cur>>
  BY DEF Handle, Unserved, exit, print, cprint, others, call, Cmd, Goto
<1>2. Kind = meant[cons].kind /\ Args = meant[cons].args /\ cur.id = cons
  BY <1>1 DEF ServerInv, EntriesSay, Says, Kind, Args
<1>3. CASE Unserved
  <2>1. Hopeless(meant[cons]) /\ pc' = "panic"
    BY <1>2, <1>3 DEF Unserved, Cmd, Goto, Hopeless
  <2> QED
    BY <1>1, <2>1, HandlerKeeps
<1>4. CASE exit
  <2>1. pc' = "stopped"
    BY <1>4 DEF exit, Goto
  <2> QED
    BY <1>1, <2>1, HandlerKeeps
<1>5. CASE print
  <2>1. pc' = "send" /\ Waits(meant[cons].kind)
    BY <1>2, <1>5 DEF print, Cmd, Goto, Waits
  <2> QED
    BY <1>1, <2>1, HandlerKeeps
<1>6. CASE cprint
  <2>1. meant[cons].kind = "CPRINT"
    BY <1>2, <1>6 DEF cprint, Cmd
  <2>2. text[Args[1][2]].wants = meant[cons].wants
    <3>1. cons \in Live
      BY <1>1 DEF Live
    <3> QED
      BY <1>2, <2>1, <3>1 DEF ServerInv, TextsStay
  <2>3. pc' = "recv" \/ (pc' = "panic" /\ meant[cons].wants # Len(meant[cons].args) - 3)
    BY <1>2, <1>6, <2>2 DEF cprint, Goto
  <2>4. pc' = "panic" => Hopeless(meant[cons])
    BY <2>1, <2>3 DEF Hopeless
  <2> QED
    BY <1>1, <2>3, <2>4, HandlerKeeps
<1>7. CASE others
  <2>1. meant[cons].kind \in {"MEMMOVE", "MEMSET", "MEMCMP", "OTHER"} \cup ToSet(FileKinds)
        /\ pc' = IF meant[cons].kind = "CLOSE" THEN "recv" ELSE "send"
    BY <1>2, <1>7 DEF others, Cmd, Goto
  <2>2. pc' = "send" => Waits(meant[cons].kind)
    BY <2>1, FileKindsAre DEF Waits
  <2> QED
    BY <1>1, <2>1, <2>2, HandlerKeeps
<1>8. CASE call
  <2>1. pc' \in {"cmd", "send"} /\ Waits(meant[cons].kind)
    BY <1>1, <1>2, <1>8 DEF call, Cmd, Waits
  <2> QED
    BY <1>1, <2>1, HandlerKeeps
<1> QED
  BY <1>3, <1>4, <1>5, <1>6, <1>7, <1>8 DEF Handle

LEMMA SendKeeps == ServerInv /\ send_resp => ServerInv'
<1> SUFFICES ASSUME ServerInv, send_resp PROVE ServerInv'
  OBVIOUS
<1>1. /\ pc = "send" /\ pc' = "recv" /\ replies' = Append(replies, cur.id)
      /\ UNCHANGED <<env, text, busy, wait, meant, ring, prod, cons, cur>>
  BY DEF send_resp, client
<1>2. prod \in Nat /\ cons \in 1 .. prod /\ cur.id = cons
  BY <1>1 DEF ServerInv, Counted, EntriesSay
<1>3. wait = cons /\ cons = prod /\ replies = <<>>
  <2>1. cons \in Live /\ Waits(meant[cons].kind)
    BY <1>1 DEF Live, ServerInv, WaitsLast
  <2> QED
    BY <1>1, <2>1 DEF ServerInv, WaitsLast
<1>4. replies' \in Seq(Nat) /\ Len(replies') = 1
  BY <1>1, <1>2, <1>3
<1>5. Counted'
  BY <1>1, <1>4 DEF ServerInv, Counted
<1>6. Live' = {}
  BY <1>1, <1>2, <1>3 DEF Live
<1>7. EntriesSay'
  BY <1>1, <1>2 DEF ServerInv, EntriesSay, Says
<1>8. WaitsLast' /\ TextsStay'
  BY <1>1, <1>2, <1>3, <1>4, <1>6 DEF WaitsLast, TextsStay
<1> QED
  BY <1>5, <1>7, <1>8 DEF ServerInv

LEMMA ServerInvNext == ServerInv /\ [Next]_vars => ServerInv'
<1> SUFFICES ASSUME ServerInv, [Next]_vars PROVE ServerInv'
  OBVIOUS
<1>1. ASSUME NEW kind \in Kinds, NEW n \in Extra, NEW x \in Codes \cup Bufs, NEW nl \in BOOLEAN,
             NEW wants \in Extra, Call(kind, n, x, nl, wants)
      PROVE  ServerInv'
  BY <1>1, CallKeeps
<1>2. CASE Return \/ Server
  BY <1>2, ReturnKeeps, RecvKeeps, HandleKeeps, SendKeeps DEF Server
<1>3. CASE CallDone \/ Repoll \/ UNCHANGED vars
  <2>1. UNCHANGED <<env, text, busy, wait, meant, ring, prod, cons, replies, pc, cur>>
    BY <1>3 DEF CallDone, Repoll, vars, client, server
  <2>2. Counted' /\ Live' = Live
    BY <2>1 DEF ServerInv, Counted, Live
  <2>3. EntriesSay'
    BY <2>1 DEF ServerInv, EntriesSay, Says, Hopeless
  <2>4. WaitsLast' /\ TextsStay'
    BY <2>1, <2>2 DEF ServerInv, WaitsLast, TextsStay
  <2> QED
    BY <2>2, <2>3, <2>4 DEF ServerInv
<1> QED
  BY <1>1, <1>2, <1>3 DEF Next

LEMMA ServerInvAlways == RpcSpec => []ServerInv
  BY ServerInvInit, ServerInvNext, PTL DEF RpcSpec

\* Every handler takes what the caller gave, whatever was in the slot before, and a
\* server goes down over a request only that nobody could have served.
THEOREM EveryRequestServedAsSent == RpcSpec => []ServedAsSent
<1>1. ServerInv => ServedAsSent
  BY DEF ServerInv, EntriesSay, Says, ServedAsSent, Kind, Args
<1> QED
  BY <1>1, ServerInvAlways, PTL

\* There is one answer at most on its way, and then its caller waits for it and all
\* that was sent before has been served.
THEOREM OneAnswer ==
    RpcSpec => [](replies # <<>> => Len(replies) = 1 /\ wait # 0 /\ cons = prod)
<1>1. ServerInv => (replies # <<>> => Len(replies) = 1 /\ wait # 0 /\ cons = prod)
  BY DEF ServerInv, WaitsLast
<1> QED
  BY <1>1, ServerInvAlways, PTL

-----------------------------------------------------------------------------
(* Types.                                                                   *)

\* What is in the ring and in the hands of the server, the texts wherever they are,
\* and what comes out.
Requests ==
    /\ env \in Envs /\ prod <= MaxReq /\ wait <= prod
    /\ ring \in [Index -> Entry] /\ cur.id \in 0 .. cons /\ cur.entry \in Entry
    /\ parked \in BOOLEAN /\ ready \in BOOLEAN

Texts ==
    /\ text \in [Bufs -> TextT] /\ busy \subseteq Bufs
    /\ passed \in [Streams -> Seq(TextT)] /\ buf \in [Streams -> Seq(TextT)]

Results == replies \in Seq(1 .. prod) /\ out \in [Streams -> Seq(TextT)]

\* A printer is given a buffer of the firmware.
TextsGiven ==
    \A id \in 1 .. prod : meant[id].kind \in Streams =>
        meant[id].args[TextAt(meant[id].kind)][2] \in Bufs

RpcTypes == Requests /\ Texts /\ Results /\ TextsGiven

LEMMA RpcTypesInit == Init => RpcTypes
<1> SUFFICES ASSUME Init PROVE RpcTypes
  OBVIOUS
<1> USE ServerAssumption
<1>1. Slot0 \in Entry
  <2>1. [k \in 1 .. MB_MAX_ARGS |-> <<0, 0>>] \in [1 .. MB_MAX_ARGS -> Value]
    BY DEF Value
  <2>2. "IDLE" \in Kinds \ ToSet(FileKinds) /\ 0 \in 0 .. MB_MAX_ARGS
    BY FileKindsAre DEF Kinds
  <2> QED
    BY <2>1, <2>2 DEF Slot0, Entry
<1>2. Requests
  <2>1. ring \in [Index -> Entry]
    BY <1>1 DEF Init, Index
  <2>2. cur.id = 0 /\ cur.entry = Slot0 /\ prod = 0 /\ cons = 0 /\ wait = 0
    BY DEF Init, NoEntry
  <2>3. env \in Envs /\ parked \in BOOLEAN /\ ready \in BOOLEAN
    BY DEF Init
  <2> QED
    BY <1>1, <2>1, <2>2, <2>3 DEF Requests
<1>3. NoText \in TextT
  BY DEF NoText, TextT
<1>4. Texts
  BY <1>3 DEF Init, Texts
<1>5. Results /\ TextsGiven
  BY DEF Init, Results, TextsGiven
<1> QED
  BY <1>2, <1>4, <1>5 DEF RpcTypes

LEMMA RpcTypesSuffice == ServerInv /\ RpcTypes => RpcTypeOK
<1> SUFFICES ASSUME ServerInv, RpcTypes PROVE RpcTypeOK
  OBVIOUS
<1> USE ServerAssumption
<1>1. /\ prod \in 0 .. MaxReq /\ cons \in 0 .. prod /\ prod - cons <= MB_MAX_ENTRIES
      /\ wait \in 0 .. prod /\ Len(meant) = prod
      /\ pc \in {"recv", "cmd", "send", "stopped", "panic"}
  BY DEF ServerInv, Counted, RpcTypes, Requests
<1>2. \A s \in DOMAIN ring : ring[s] \in Entry
  BY DEF RpcTypes, Requests
<1>3. \A s \in Streams : buf[s] \in Seq(TextT) /\ out[s] \in Seq(TextT) /\ passed[s] \in Seq(TextT)
  BY DEF RpcTypes, Texts, Results
<1>4. \A k \in DOMAIN replies : replies[k] \in 1 .. prod
  <2>1. replies \in Seq(1 .. prod)
    BY DEF RpcTypes, Results
  <2> QED
    BY <2>1, LenProperties, ElementOfSeq
<1> QED
  BY <1>1, <1>2, <1>3, <1>4 DEF RpcTypeOK, RpcTypes, Requests, Texts

LEMMA CallTypes ==
    ASSUME ServerInv, RpcTypes,
           NEW kind \in Kinds, NEW n \in Extra, NEW x \in Codes \cup Bufs,
           NEW nl \in BOOLEAN, NEW wants \in Extra \cup {0}, Call(kind, n, x, nl, wants)
    PROVE  RpcTypes'
<1> DEFINE id    == prod + 1
           given == Given(kind, id, n, x)
           m     == [kind |-> kind, args |-> given, wants |-> wants]
           t     == [id |-> id, nl |-> nl, wants |-> wants]
           old   == ring[prod % MB_MAX_ENTRIES]
           e     == put_req(old, kind, Lead(kind, x) \o given)
<1> USE ServerAssumption
<1>1. /\ wait = 0 /\ id <= MaxReq /\ prod' = id /\ wait' \in {0, id}
      /\ UNCHANGED <<env, cons, replies, pc, cur, parked, ready, buf, out>>
      /\ kind \in {"CALL", "CPRINT"} \/ n = 0
      /\ kind \in Streams => x \in Bufs
  BY DEF Call, server
<1>2. x \in Nat /\ prod \in Nat /\ cons \in 0 .. prod /\ id \in 0 .. MaxReq
  BY <1>1 DEF ServerInv, Counted
<1>3. prod % MB_MAX_ENTRIES \in Index
  BY <1>2 DEF Index
<1>4. old \in Entry /\ old.args \in [1 .. MB_MAX_ARGS -> Value]
  BY <1>3 DEF RpcTypes, Requests, Entry
<1>5. e \in Entry
  <2>1. e.args \in [1 .. MB_MAX_ARGS -> Value]
    BY <1>1, <1>2, <1>4, TakenIsGiven
  <2>2. ActionOf(kind) \in (Kinds \ ToSet(FileKinds)) \cup {"FILEACCESS"}
    BY DEF ActionOf
  <2>3. Len(Lead(kind, x) \o given) \in 0 .. MB_MAX_ARGS
    <3>1. /\ Lead(kind, x) \in Seq(Value) /\ given \in Seq(Value)
          /\ Len(given) = Arity(kind) + n /\ Arity(kind) \in Nat /\ n \in Nat
          /\ Len(Lead(kind, x)) + Arity(kind) + n <= MB_MAX_ARGS
      <4>1. id \in Nat /\ x \in Nat /\ (kind \in {"CALL", "CPRINT"} \/ n = 0)
        BY <1>1, <1>2
      <4> HIDE DEF id
      <4> QED
        BY <4>1, LeadAndGiven, SMTT(30)
    <3> HIDE DEF given
    <3>2. Len(Lead(kind, x)) \in Nat
      BY <3>1, LenProperties
    <3>3. Len(Lead(kind, x) \o given) = Len(Lead(kind, x)) + Len(given)
      BY <3>1, ConcatProperties
    <3> QED
      BY <3>1, <3>2, <3>3
  <2> HIDE DEF given
  <2> QED
    BY <2>1, <2>2, <2>3 DEF put_req, words, Entry
<1>6. Requests'
  <2>1. ring' = [ring EXCEPT ![prod % MB_MAX_ENTRIES] = e]
    BY <1>3 DEF Call, RpcTypes, Requests
  <2> HIDE DEF e
  <2>2. ring' \in [Index -> Entry]
    BY <1>3, <1>5, <2>1 DEF RpcTypes, Requests
  <2> QED
    BY <1>1, <1>2, <2>2 DEF RpcTypes, Requests
<1>7. Texts'
  <2>1. t \in TextT
    BY <1>2 DEF TextT
  <2>2. text' = text \/ (x \in Bufs /\ text' = [text EXCEPT ![x] = t])
    BY <1>1 DEF Call
  <2>3. busy' \subseteq Bufs
    BY <1>1 DEF Call, RpcTypes, Texts
  <2> HIDE DEF t
  <2>4. text' \in [Bufs -> TextT]
    BY <2>1, <2>2 DEF RpcTypes, Texts
  <2>5. passed' = passed \/ \E u \in TextT : kind \in Streams /\ passed' = [passed EXCEPT ![kind] = Append(@, u)]
    BY <1>1, <2>4 DEF Call
  <2>6. passed' \in [Streams -> Seq(TextT)]
    <3>1. passed \in [Streams -> Seq(TextT)]
      BY DEF RpcTypes, Texts
    <3>2. \A u \in TextT : kind \in Streams => Append(passed[kind], u) \in Seq(TextT)
      BY <3>1, AppendProperties
    <3> QED
      BY <2>5, <3>1, <3>2
  <2> QED
    BY <1>1, <2>3, <2>4, <2>6 DEF RpcTypes, Texts
<1>8. Results'
  <2>1. replies = <<>>
    BY <1>1 DEF ServerInv, WaitsLast
  <2> QED
    BY <1>1, <2>1 DEF RpcTypes, Results
<1>9. TextsGiven'
  <2>1. given \in Seq(Value)
    BY <1>1, <1>2, LeadAndGiven
  <2>2. m \in Meaning
    BY <2>1 DEF Meaning
  <2>3. kind \in Streams => given[TextAt(kind)] = <<0, x>>
    <3>1. kind \in Streams => TextAt(kind) \in 1 .. Arity(kind) + n
      BY <1>2 DEF TextAt, Arity, Streams
    <3> QED
      BY <3>1 DEF Given
  <2>4. meant' = Append(meant, m)
    BY DEF Call
  <2> HIDE DEF m
  <2>5. meant'[prod + 1] = m /\ \A i \in 1 .. prod : meant'[i] = meant[i]
    BY <2>2, <2>4, AppendProperties, SMTT(30) DEF ServerInv, Counted
  <2>6. m.kind = kind /\ m.args = given
    BY DEF m
  <2>7. \A i \in 1 .. prod + 1 : i = prod + 1 \/ i \in 1 .. prod
    BY <1>2
  <2> HIDE DEF given
  <2> QED
    BY <1>1, <2>3, <2>5, <2>6, <2>7 DEF RpcTypes, TextsGiven
<1> QED
  BY <1>6, <1>7, <1>8, <1>9 DEF RpcTypes

\* A line that is printed, or kept.
LEMMA LineTypes ==
    ASSUME RpcTypes, NEW s \in Streams, NEW t \in TextT, print_line(s, t)
    PROVE  buf' \in [Streams -> Seq(TextT)] /\ out' \in [Streams -> Seq(TextT)]
<1> DEFINE line == Append(buf[s], t)
<1>1. line \in Seq(TextT) /\ <<>> \in Seq(TextT)
  BY DEF RpcTypes, Texts
<1>2. PICK l \in {<<>>, line} : buf' = [buf EXCEPT ![s] = l]
  BY DEF print_line
<1> HIDE DEF line
<1>3. buf' \in [Streams -> Seq(TextT)]
  BY <1>1, <1>2 DEF RpcTypes, Texts
<1>4. PICK o \in {out[s], out[s] \o line} : out' = [out EXCEPT ![s] = o]
  BY DEF print_line, line
<1>5. out' \in [Streams -> Seq(TextT)]
  <2>1. out \in [Streams -> Seq(TextT)]
    BY DEF RpcTypes, Results
  <2>2. out[s] \o line \in Seq(TextT)
    BY <1>1, <2>1, ConcatProperties
  <2> QED
    BY <1>4, <2>1, <2>2
<1> QED
  BY <1>3, <1>5

LEMMA ServerTypes ==
    ASSUME ServerInv, RpcTypes, Return \/ Server \/ CallDone \/ Repoll
    PROVE  RpcTypes'
<1> USE ServerAssumption
<1>1. UNCHANGED <<env, text, meant, passed, ring, prod>>
  BY DEF Return, Server, recv_req, Handle, Unserved, exit, print, cprint, others, call, send_resp,
         CallDone, Repoll, Goto, client, server
<1>2. prod \in Nat /\ cons \in 0 .. prod
  BY DEF ServerInv, Counted
<1>3. TextsGiven'
  BY <1>1 DEF RpcTypes, TextsGiven
<1>4. CASE Return
  <2>1. replies' = Tail(replies) /\ replies # <<>> /\ wait' = 0 /\ busy' = {}
        /\ UNCHANGED <<cons, cur, parked, ready, buf, out>>
    BY <1>4 DEF Return, server
  <2>2. replies' \in Seq(1 .. prod)
    BY <2>1, HeadTailProperties DEF RpcTypes, Results
  <2> QED
    BY <1>1, <1>2, <1>3, <2>1, <2>2 DEF RpcTypes, Requests, Texts, Results
<1>5. CASE recv_req
  <2>1. /\ cons' = cons + 1 /\ ready' = FALSE
        /\ cur' = [id |-> cons + 1, entry |-> ring[cons % MB_MAX_ENTRIES]]
        /\ UNCHANGED <<busy, wait, replies, parked, buf, out>>
    BY <1>5 DEF recv_req, client
  <2>2. cons % MB_MAX_ENTRIES \in Index
    BY <1>2 DEF Index
  <2>3. cur'.id \in 0 .. cons' /\ cur'.entry \in Entry
    BY <1>2, <2>1, <2>2 DEF RpcTypes, Requests
  <2> QED
    BY <1>1, <1>3, <2>1, <2>3 DEF RpcTypes, Requests, Texts, Results
<1>6. CASE send_resp
  <2>1. /\ pc = "send" /\ replies' = Append(replies, cur.id)
        /\ UNCHANGED <<busy, wait, cons, cur, parked, ready, buf, out>>
    BY <1>6 DEF send_resp, client
  <2>2. cur.id \in 1 .. prod
    BY <1>2, <2>1 DEF ServerInv, EntriesSay
  <2>3. replies' \in Seq(1 .. prod)
    BY <2>1, <2>2, AppendProperties DEF RpcTypes, Results
  <2> QED
    BY <1>1, <1>3, <2>1, <2>3 DEF RpcTypes, Requests, Texts, Results
<1>7. CASE Unserved \/ exit \/ others \/ call \/ CallDone \/ Repoll
  <2>1. /\ UNCHANGED <<busy, wait, cons, replies, cur, buf, out>>
        /\ parked' \in BOOLEAN /\ ready' \in BOOLEAN
    BY <1>7 DEF Unserved, exit, others, call, CallDone, Repoll, Goto, client, RpcTypes, Requests
  <2> QED
    BY <1>1, <1>3, <2>1 DEF RpcTypes, Requests, Texts, Results
<1>8. CASE print \/ cprint
  <2>1. pc = "cmd" /\ UNCHANGED <<busy, wait, cons, replies, cur, parked, ready>>
    BY <1>8 DEF print, cprint, Cmd, Goto, client
  <2>2. /\ Kind = meant[cons].kind /\ Args = meant[cons].args /\ cons \in 1 .. prod
    BY <1>2, <2>1 DEF ServerInv, EntriesSay, Says, Kind, Args
  <2>3. Kind \in Streams => text[Args[TextAt(Kind)][2]] \in TextT
    BY <2>2 DEF RpcTypes, TextsGiven, Texts
  <2>4. buf' \in [Streams -> Seq(TextT)] /\ out' \in [Streams -> Seq(TextT)]
    <3>1. CASE print
      <4>1. Kind = "PRINT" /\ TextAt(Kind) = 2
        BY <3>1 DEF print, Cmd, TextAt
      <4>2. "PRINT" \in Streams /\ text[Args[2][2]] \in TextT
        BY <2>3, <4>1 DEF Streams
      <4>3. print_line("PRINT", text[Args[2][2]])
        BY <3>1 DEF print
      <4> QED
        BY <4>2, <4>3, LineTypes
    <3>2. CASE cprint /\ print_line("CPRINT", text[Args[1][2]])
      <4>1. Kind = "CPRINT" /\ TextAt(Kind) = 1
        BY <3>2 DEF cprint, Cmd, TextAt
      <4>2. "CPRINT" \in Streams /\ text[Args[1][2]] \in TextT
        BY <2>3, <4>1 DEF Streams
      <4> QED
        BY <3>2, <4>2, LineTypes
    <3>3. CASE UNCHANGED <<buf, out>>
      BY <3>3 DEF RpcTypes, Texts, Results
    <3> QED
      BY <1>8, <3>1, <3>2, <3>3 DEF cprint
  <2> QED
    BY <1>1, <1>3, <2>1, <2>4 DEF RpcTypes, Requests, Texts, Results
<1> QED
  BY <1>4, <1>5, <1>6, <1>7, <1>8 DEF Server, Handle

LEMMA RpcTypesNext == ServerInv /\ RpcTypes /\ [Next]_vars => RpcTypes'
<1> SUFFICES ASSUME ServerInv, RpcTypes, [Next]_vars PROVE RpcTypes'
  OBVIOUS
<1>1. ASSUME NEW kind \in Kinds, NEW n \in Extra, NEW x \in Codes \cup Bufs, NEW nl \in BOOLEAN,
             NEW wants \in Extra, Call(kind, n, x, nl, wants)
      PROVE  RpcTypes'
  BY <1>1, CallTypes
<1>2. CASE Return \/ Server \/ CallDone \/ Repoll
  BY <1>2, ServerTypes
<1>3. CASE UNCHANGED vars
  BY <1>3 DEF vars, client, server, RpcTypes, Requests, Texts, Results, TextsGiven
<1> QED
  BY <1>1, <1>2, <1>3 DEF Next

\* Entries, texts and answers keep their types: in particular a printer is never
\* pointed at anything but a buffer of the firmware.
THEOREM RpcTypeCorrect == RpcSpec => []RpcTypeOK
  BY RpcTypesInit, RpcTypesNext, RpcTypesSuffice, ServerInvAlways, PTL DEF RpcSpec

-----------------------------------------------------------------------------
(* Texts: each is printed as it was passed.                                 *)

\* The first request whose text, if it has one, is still to be printed.
todo == IF pc \in {"recv", "send"} THEN cons + 1 ELSE cons

\* Of the texts passed to a printer by the first p calls, in their order, those of the
\* calls before the q-th are shown, as they were.
Told(sh, pa, p, q, mt, s) ==
    /\ Len(sh) <= Len(pa) /\ \A k \in 1 .. Len(sh) : sh[k] = pa[k]
    /\ \A k \in 1 .. Len(pa) : pa[k].id \in 1 .. p /\ (k <= Len(sh) <=> pa[k].id < q)
    /\ \A j, k \in 1 .. Len(pa) : j < k => pa[j].id < pa[k].id
    /\ \A id \in 1 .. p : mt[id].kind = s <=> \E k \in 1 .. Len(pa) : pa[k].id = id

\* The others are still in the buffers they were passed in.
Kept(pa, q, mt, tx, s) ==
    \A k \in 1 .. Len(pa) : pa[k].id >= q =>
        tx[mt[pa[k].id].args[TextAt(s)][2]] = pa[k]

Printed ==
    \A s \in Streams :
        /\ Told(Shown(s), passed[s], prod, todo, meant, s)
        /\ pc \in {"recv", "cmd", "send"} => Kept(passed[s], todo, meant, text, s)

LEMMA PrintedInit == Init => Printed
<1> SUFFICES ASSUME Init, NEW s \in Streams
             PROVE  /\ Told(Shown(s), passed[s], prod, todo, meant, s)
                    /\ Kept(passed[s], todo, meant, text, s)
  BY DEF Printed
<1>1. Shown(s) = <<>> /\ passed[s] = <<>> /\ prod = 0
  BY DEF Init, Shown
<1>2. Len(<<>>) = 0 /\ 1 .. 0 = {}
  OBVIOUS
<1> QED
  BY <1>1, <1>2 DEF Told, Kept

LEMMA PrintedSuffices ==
    ASSUME RpcTypes, Printed
    PROVE  PrintedAsPassed
<1> SUFFICES ASSUME NEW s \in Streams PROVE IsPrefix(Shown(s), passed[s])
  BY DEF PrintedAsPassed
<1> DEFINE sh == Shown(s)
           pa == passed[s]
<1>1. sh \in Seq(TextT) /\ pa \in Seq(TextT)
  <2>1. out[s] \in Seq(TextT) /\ buf[s] \in Seq(TextT) /\ pa \in Seq(TextT)
    BY DEF RpcTypes, Results, Texts
  <2> QED
    BY <2>1, ConcatProperties DEF Shown
<1>2. Len(sh) <= Len(pa) /\ \A k \in 1 .. Len(sh) : sh[k] = pa[k]
  BY DEF Printed, Told
<1> HIDE DEF sh, pa
<1>3. Len(sh) \in Nat /\ Len(pa) \in Nat
  BY <1>1, LenProperties
<1>4. SubSeq(sh, 1, Len(sh)) = SubSeq(pa, 1, Len(sh))
  <2>1. \A k \in 1 .. Len(sh) : sh[1 + k - 1] = pa[1 + k - 1]
    BY <1>2, <1>3
  <2> QED
    BY <1>1, <1>2, <1>3, <2>1
<1> QED
  BY <1>2, <1>4 DEF IsPrefix, sh, pa

\* A call passes a text on, or none to this printer.
LEMMA ToldOfMore ==
    ASSUME NEW s, NEW p \in Nat, NEW q \in Nat, q <= p + 1,
           NEW sh \in Seq(TextT), NEW pa \in Seq(TextT), NEW mt, NEW mu,
           Told(sh, pa, p, q, mt, s), \A id \in 1 .. p : mu[id] = mt[id],
           NEW pb \in Seq(TextT), NEW t \in TextT,
           IF mu[p + 1].kind = s THEN t.id = p + 1 /\ pb = Append(pa, t) ELSE pb = pa
    PROVE  Told(sh, pb, p + 1, q, mu, s)
<1>1. PICK n \in Nat : n = Len(pa)
  OBVIOUS
<1>2. PICK h \in Nat : h = Len(sh)
  OBVIOUS
<1>3. /\ h <= n /\ \A k \in 1 .. h : sh[k] = pa[k]
      /\ \A k \in 1 .. n : pa[k].id \in 1 .. p /\ (k <= h <=> pa[k].id < q)
      /\ \A j, k \in 1 .. n : j < k => pa[j].id < pa[k].id
      /\ \A id \in 1 .. p : mt[id].kind = s <=> \E k \in 1 .. n : pa[k].id = id
  BY <1>1, <1>2 DEF Told
<1>4. 1 .. p + 1 = (1 .. p) \cup {p + 1} /\ 1 .. n + 1 = (1 .. n) \cup {n + 1}
  OBVIOUS
<1>5. CASE mu[p + 1].kind = s
  <2>1. /\ Len(pb) = n + 1 /\ pb[n + 1] = t /\ t.id = p + 1
        /\ \A k \in 1 .. n : pb[k] = pa[k]
    BY <1>1, <1>5, AppendProperties
  <2>2. h <= n + 1 /\ \A k \in 1 .. h : sh[k] = pb[k]
    <3>1. \A k \in 1 .. h : k \in 1 .. n
      BY <1>3
    <3> QED
      BY <1>3, <2>1, <3>1
  <2>3. \A k \in 1 .. n + 1 : pb[k].id \in 1 .. p + 1 /\ (k <= h <=> pb[k].id < q)
    <3>1. ASSUME NEW k \in 1 .. n
          PROVE  pb[k].id \in 1 .. p + 1 /\ (k <= h <=> pb[k].id < q)
      <4>1. pa[k].id \in 1 .. p /\ (k <= h <=> pa[k].id < q) /\ pb[k] = pa[k]
        BY <1>3, <2>1
      <4> QED
        BY <4>1, SMTT(30)
    <3>2. pb[n + 1].id \in 1 .. p + 1 /\ ~(n + 1 <= h) /\ ~(pb[n + 1].id < q)
      BY <1>3, <2>1
    <3> QED
      BY <1>4, <3>1, <3>2
  <2>4. ASSUME NEW j \in 1 .. n + 1, NEW k \in 1 .. n + 1, j < k
        PROVE  pb[j].id < pb[k].id
    <3>1. j \in 1 .. n
      BY <2>4
    <3>2. CASE k \in 1 .. n
      BY <1>3, <2>1, <2>4, <3>1, <3>2
    <3>3. CASE k = n + 1
      <4>1. pb[j].id \in 1 .. p /\ pb[k].id = p + 1
        BY <1>3, <2>1, <3>1, <3>3
      <4> QED
        BY <4>1, SMTT(30)
    <3> QED
      BY <1>4, <3>2, <3>3
  <2>5. \A id \in 1 .. p + 1 : mu[id].kind = s <=> \E k \in 1 .. n + 1 : pb[k].id = id
    <3>1. ASSUME NEW id \in 1 .. p
          PROVE  mu[id].kind = s <=> \E k \in 1 .. n + 1 : pb[k].id = id
      <4>1. mu[id].kind = s <=> \E k \in 1 .. n : pb[k].id = id
        BY <1>3, <2>1, ZenonT(30)
      <4>2. pb[n + 1].id # id
        BY <2>1
      <4> QED
        BY <1>4, <4>1, <4>2
    <3>2. n + 1 \in 1 .. n + 1
      OBVIOUS
    <3> QED
      BY <1>4, <1>5, <2>1, <3>1, <3>2
  <2> QED
    BY <1>2, <2>1, <2>2, <2>3, <2>4, <2>5 DEF Told
<1>6. CASE mu[p + 1].kind # s
  <2>1. \A k \in 1 .. n : pa[k].id \in 1 .. p + 1 /\ (k <= h <=> pa[k].id < q)
    BY <1>3, SMTT(30)
  <2>2. \A id \in 1 .. p + 1 : mu[id].kind = s <=> \E k \in 1 .. n : pa[k].id = id
    <3>1. \A id \in 1 .. p : mu[id].kind = s <=> \E k \in 1 .. n : pa[k].id = id
      BY <1>3
    <3>2. \A k \in 1 .. n : pa[k].id # p + 1
      BY <1>3
    <3> QED
      BY <1>4, <1>6, <3>1, <3>2
  <2> QED
    BY <1>1, <1>2, <1>3, <1>6, <2>1, <2>2 DEF Told
<1> QED
  BY <1>5, <1>6

\* The request is done, and was of another kind.
LEMMA ToldPassesOver ==
    ASSUME NEW s, NEW p \in Nat, NEW q \in 1 .. p,
           NEW sh \in Seq(TextT), NEW pa \in Seq(TextT), NEW mt,
           Told(sh, pa, p, q, mt, s), mt[q].kind # s
    PROVE  Told(sh, pa, p, q + 1, mt, s)
<1>1. \A k \in 1 .. Len(pa) : pa[k].id # q
  BY DEF Told
<1>2. ASSUME NEW k \in 1 .. Len(pa)
      PROVE  k <= Len(sh) <=> pa[k].id < q + 1
  <2>1. pa[k].id \in 1 .. p /\ (k <= Len(sh) <=> pa[k].id < q) /\ pa[k].id # q
    BY <1>1 DEF Told
  <2> QED
    BY <2>1
<1> QED
  BY <1>2 DEF Told

\* The text of the request is the next one to be shown.
LEMMA NextText ==
    ASSUME NEW s, NEW p \in Nat, NEW q \in 1 .. p,
           NEW sh \in Seq(TextT), NEW pa \in Seq(TextT), NEW mt,
           Told(sh, pa, p, q, mt, s), mt[q].kind = s
    PROVE  Len(sh) + 1 \in 1 .. Len(pa) /\ pa[Len(sh) + 1].id = q
<1>1. PICK n \in Nat : n = Len(pa)
  OBVIOUS
<1>2. PICK h \in Nat : h = Len(sh)
  OBVIOUS
<1>3. PICK k \in 1 .. n : pa[k].id = q
  BY <1>1 DEF Told
<1>4. h < k
  BY <1>1, <1>2, <1>3 DEF Told
<1>5. h + 1 \in 1 .. n
  BY <1>3, <1>4
<1>6. pa[h + 1].id \in 1 .. p /\ ~(pa[h + 1].id < q)
  <2>1. ~(h + 1 <= h)
    OBVIOUS
  <2> QED
    BY <1>1, <1>2, <1>5, <2>1 DEF Told
<1>7. ~(h + 1 < k)
  <2>1. h + 1 < k => pa[h + 1].id < pa[k].id
    BY <1>1, <1>3, <1>5 DEF Told
  <2> QED
    BY <1>3, <1>6, <2>1
<1>8. k = h + 1
  BY <1>4, <1>7
<1> QED
  BY <1>1, <1>2, <1>3, <1>8

LEMMA ToldShown ==
    ASSUME NEW s, NEW p \in Nat, NEW q \in 1 .. p,
           NEW sh \in Seq(TextT), NEW pa \in Seq(TextT), NEW mt,
           Told(sh, pa, p, q, mt, s), mt[q].kind = s,
           NEW t \in TextT, t = pa[Len(sh) + 1]
    PROVE  Told(Append(sh, t), pa, p, q + 1, mt, s)
<1>1. PICK n \in Nat : n = Len(pa)
  OBVIOUS
<1>2. PICK h \in Nat : h = Len(sh)
  OBVIOUS
<1>3. PICK sg \in Seq(TextT) : sg = Append(sh, t)
  BY AppendProperties
<1>4. h + 1 \in 1 .. n /\ pa[h + 1].id = q
  BY <1>1, <1>2, NextText
<1>5. Len(sg) = h + 1 /\ sg[h + 1] = pa[h + 1] /\ \A k \in 1 .. h : sg[k] = sh[k]
  BY <1>2, <1>3, AppendProperties
<1>6. /\ h <= n /\ \A k \in 1 .. h : sh[k] = pa[k]
      /\ \A k \in 1 .. n : pa[k].id \in 1 .. p /\ (k <= h <=> pa[k].id < q)
      /\ \A j, k \in 1 .. n : j < k => pa[j].id < pa[k].id
      /\ \A id \in 1 .. p : mt[id].kind = s <=> \E k \in 1 .. n : pa[k].id = id
  BY <1>1, <1>2 DEF Told
<1>7. h + 1 <= n /\ \A k \in 1 .. h + 1 : sg[k] = pa[k]
  <2>1. \A k \in 1 .. h + 1 : k \in 1 .. h \/ k = h + 1
    OBVIOUS
  <2> QED
    BY <1>4, <1>5, <1>6, <2>1
<1>8. ASSUME NEW k \in 1 .. n
      PROVE  k <= h + 1 <=> pa[k].id < q + 1
  <2>1. pa[k].id \in 1 .. p /\ (k <= h <=> pa[k].id < q)
    BY <1>6
  <2>2. CASE k <= h
    BY <2>1, <2>2
  <2>3. CASE k = h + 1
    BY <1>4, <2>3
  <2>4. CASE h + 1 < k
    <3>1. q < pa[k].id
      BY <1>4, <1>6, <2>4
    <3> QED
      BY <2>1, <2>4, <3>1
  <2> QED
    BY <2>2, <2>3, <2>4
<1>9. Told(sg, pa, p, q + 1, mt, s)
  BY <1>1, <1>5, <1>6, <1>7, <1>8 DEF Told
<1> QED
  BY <1>3, <1>9

\* What is still to be printed is of requests the server has still to do with.
LEMMA TodoIs ==
    ASSUME ServerInv
    PROVE  /\ todo \in Nat /\ todo <= prod + 1 /\ prod \in Nat
           /\ pc \in {"recv", "cmd", "send"} => \A id \in 1 .. prod : id >= todo => id \in Live
<1>1. prod \in Nat /\ cons \in 0 .. prod
  BY DEF ServerInv, Counted
<1>2. todo \in Nat /\ todo <= prod + 1
  BY <1>1 DEF todo
<1>3. ASSUME pc \in {"recv", "cmd", "send"}, NEW id \in 1 .. prod, id >= todo
      PROVE  id \in Live
  <2>1. CASE id >= cons + 1
    BY <1>1, <2>1 DEF Live
  <2>2. CASE id < cons + 1
    <3>1. pc = "cmd" /\ id = cons
      BY <1>1, <1>3, <2>2 DEF todo
    <3> QED
      BY <3>1 DEF Live
  <2> QED
    BY <1>1, <2>1, <2>2
<1> QED
  BY <1>1, <1>2, <1>3

LEMMA StreamTypes ==
    ASSUME RpcTypes, NEW s \in Streams
    PROVE  Shown(s) \in Seq(TextT) /\ passed[s] \in Seq(TextT)
<1>1. out[s] \in Seq(TextT) /\ buf[s] \in Seq(TextT) /\ passed[s] \in Seq(TextT)
  BY DEF RpcTypes, Results, Texts
<1> QED
  BY <1>1, ConcatProperties DEF Shown

LEMMA PrintedCall ==
    ASSUME ServerInv, RpcTypes, Printed,
           NEW kind \in Kinds, NEW n \in Extra, NEW x \in Codes \cup Bufs,
           NEW nl \in BOOLEAN, NEW wants \in Extra \cup {0}, Call(kind, n, x, nl, wants)
    PROVE  Printed'
<1> DEFINE given == Given(kind, prod + 1, n, x)
           m     == [kind |-> kind, args |-> given, wants |-> wants]
<1>1. PICK t : t = [id |-> prod + 1, nl |-> nl, wants |-> wants]
  OBVIOUS
<1>2. /\ wait = 0 /\ prod' = prod + 1 /\ prod + 1 <= MaxReq
      /\ UNCHANGED <<cons, pc, buf, out>>
      /\ kind \in {"CALL", "CPRINT"} \/ n = 0
      /\ kind \in Streams => x \in Bufs \ busy
      /\ meant' = Append(meant, m)
      /\ text' = IF kind \in Streams THEN [text EXCEPT ![x] = t] ELSE text
      /\ passed' = IF kind \in Streams THEN [passed EXCEPT ![kind] = Append(@, text'[x])] ELSE passed
  BY <1>1 DEF Call, server
<1>3. prod \in Nat /\ prod + 1 \in Nat /\ x \in Nat /\ wants \in Nat /\ MaxReq \in Nat /\ n \in Nat
  BY ServerAssumption, SMTT(30) DEF ServerInv, Counted
<1>4. given \in Seq(Value)
  BY <1>2, <1>3, LeadAndGiven
<1>5. kind \in Streams => given[TextAt(kind)] = <<0, x>>
  <2>1. kind \in Streams => TextAt(kind) \in 1 .. Arity(kind) + n
    BY <1>3 DEF TextAt, Arity, Streams
  <2> QED
    BY <2>1 DEF Given
<1> HIDE DEF given
<1>6. m \in Meaning /\ m.kind = kind /\ m.args = given
  BY <1>3, <1>4 DEF Meaning
<1> HIDE DEF m
<1>7. meant'[prod + 1] = m /\ \A id \in 1 .. prod : meant'[id] = meant[id]
  BY <1>2, <1>6, AppendProperties DEF ServerInv, Counted
<1>8. t \in TextT /\ t.id = prod + 1
  BY <1>1, <1>2, <1>3 DEF TextT
<1>9. kind \in Streams => text'[x] = t
  BY <1>2 DEF RpcTypes, Texts
<1>10. \A s \in Streams : passed'[s] = IF kind = s THEN Append(passed[s], t) ELSE passed[s]
  BY <1>2, <1>9 DEF RpcTypes, Texts
<1>11. todo' = todo /\ \A s : Shown(s)' = Shown(s)
  BY <1>2 DEF todo, Shown
<1> SUFFICES ASSUME NEW s \in Streams
             PROVE  /\ Told(Shown(s)', passed'[s], prod', todo', meant', s)
                    /\ pc' \in {"recv", "cmd", "send"} => Kept(passed'[s], todo', meant', text', s)
  BY DEF Printed
<1>12. PICK pa \in Seq(TextT) : pa = passed[s]
  BY StreamTypes
<1>13. PICK pb \in Seq(TextT) : pb = passed'[s] /\ pb = IF kind = s THEN Append(pa, t) ELSE pa
  BY <1>8, <1>10, <1>12, AppendProperties
<1>14. Told(Shown(s), pa, prod, todo, meant, s)
  BY <1>12 DEF Printed
<1>15. Told(Shown(s), pb, prod + 1, todo, meant', s)
  <2>1. IF meant'[prod + 1].kind = s THEN t.id = prod + 1 /\ pb = Append(pa, t) ELSE pb = pa
    BY <1>6, <1>7, <1>8, <1>13
  <2>2. /\ todo \in Nat /\ todo <= prod + 1 /\ Shown(s) \in Seq(TextT)
        /\ \A id \in 1 .. prod : meant'[id] = meant[id]
    BY <1>7, TodoIs, StreamTypes
  <2> QED
    BY <1>3, <1>8, <1>14, <2>1, <2>2, ToldOfMore
<1>16. ASSUME pc \in {"recv", "cmd", "send"}, NEW k \in 1 .. Len(pb), pb[k].id >= todo
       PROVE  text'[meant'[pb[k].id].args[TextAt(s)][2]] = pb[k]
  <2>1. CASE k \in 1 .. Len(pa) /\ pb[k] = pa[k]
    <3>1. PICK id \in 1 .. prod : id = pa[k].id
      BY <1>14, <2>1 DEF Told
    <3>2. meant[id].kind = s
      BY <1>14, <2>1, <3>1 DEF Told
    <3>3. PICK b : b = meant[id].args[TextAt(s)][2]
      OBVIOUS
    <3>4. text[b] = pa[k]
      BY <1>12, <1>16, <2>1, <3>1, <3>3 DEF Printed, Kept
    <3>5. id \in Live
      BY <1>16, <2>1, <3>1, TodoIs
    <3>6. ~Waits(s)
      <4>1. Waits(s) => wait = id
        BY <3>2, <3>5 DEF ServerInv, WaitsLast
      <4> QED
        BY <1>2, <3>1, <4>1
    <3>7. s = "CPRINT" /\ TextAt(s) = 1
      BY <3>6 DEF Waits, Streams, TextAt
    <3>8. b \in busy
      BY <3>2, <3>3, <3>5, <3>7 DEF ServerInv, TextsStay
    <3>9. text'[b] = text[b]
      BY <1>2, <3>8 DEF RpcTypes, Texts
    <3> QED
      BY <1>7, <2>1, <3>1, <3>3, <3>4, <3>9
  <2>2. CASE kind = s /\ pb[k] = t
    <3>1. meant'[pb[k].id] = m /\ m.args[TextAt(s)] = <<0, x>>
      BY <1>5, <1>6, <1>7, <1>8, <2>2
    <3> QED
      BY <1>9, <2>2, <3>1
  <2>3. \/ k \in 1 .. Len(pa) /\ pb[k] = pa[k]
        \/ kind = s /\ pb[k] = t
    <3>1. CASE kind = s
      <4>1. pb = Append(pa, t)
        BY <1>13, <3>1
      <4>2. /\ Len(pb) = Len(pa) + 1 /\ pb[Len(pa) + 1] = t
            /\ \A i \in 1 .. Len(pa) : pb[i] = pa[i]
        BY <1>8, <4>1, AppendProperties
      <4>3. PICK h \in Nat : h = Len(pa)
        OBVIOUS
      <4>4. k \in 1 .. h \/ k = h + 1
        BY <4>2, <4>3
      <4> QED
        BY <3>1, <4>2, <4>3, <4>4
    <3>2. CASE kind # s
      BY <1>13, <3>2
    <3> QED
      BY <3>1, <3>2
  <2> QED
    BY <2>1, <2>2, <2>3
<1> QED
  BY <1>2, <1>11, <1>13, <1>15, <1>16 DEF Kept

LEMMA PrintedSame ==
    ASSUME Printed, UNCHANGED <<text, meant, passed, prod, buf, out>>, todo' = todo,
           pc' \in {"recv", "cmd", "send"} => pc \in {"recv", "cmd", "send"}
    PROVE  Printed'
<1>1. \A s : Shown(s)' = Shown(s)
  BY DEF Shown
<1> QED
  BY <1>1 DEF Printed

\* The server leaves a request behind; its text, if it has one, has been added to what
\* its printer shows.
LEMMA PrintedPast ==
    ASSUME ServerInv, RpcTypes, Printed, UNCHANGED <<text, meant, passed, prod>>,
           pc = "cmd", todo' = cons + 1,
           \A s \in Streams : Shown(s)' =
               IF meant[cons].kind = s THEN Append(Shown(s), text[meant[cons].args[TextAt(s)][2]])
               ELSE Shown(s)
    PROVE  Printed'
<1>1. todo = cons /\ cons \in 1 .. prod /\ prod \in Nat
  BY DEF todo, ServerInv, Counted, EntriesSay
<1> SUFFICES ASSUME NEW s \in Streams
             PROVE  /\ Told(Shown(s)', passed[s], prod, cons + 1, meant, s)
                    /\ Kept(passed[s], cons + 1, meant, text, s)
  BY DEF Printed
<1>2. PICK pa \in Seq(TextT) : pa = passed[s]
  BY StreamTypes
<1>3. PICK sh \in Seq(TextT) : sh = Shown(s)
  BY StreamTypes
<1>4. Told(sh, pa, prod, cons, meant, s) /\ Kept(pa, cons, meant, text, s)
  BY <1>1, <1>2, <1>3 DEF Printed
<1>5. Kept(pa, cons + 1, meant, text, s)
  <2>1. \A k \in 1 .. Len(pa) : pa[k].id \in 1 .. prod
    BY <1>4 DEF Told
  <2>2. \A k \in 1 .. Len(pa) : pa[k].id >= cons + 1 => pa[k].id >= cons
    BY <1>1, <2>1
  <2> QED
    BY <1>4, <2>2 DEF Kept
<1>6. CASE meant[cons].kind # s
  BY <1>1, <1>2, <1>3, <1>4, <1>5, <1>6, ToldPassesOver
<1>7. CASE meant[cons].kind = s
  <2>1. Len(sh) + 1 \in 1 .. Len(pa) /\ pa[Len(sh) + 1].id = cons
    BY <1>1, <1>4, <1>7, NextText
  <2>2. PICK t \in TextT : t = pa[Len(sh) + 1]
    BY <2>1
  <2>3. text[meant[cons].args[TextAt(s)][2]] = t
    BY <1>1, <1>4, <2>1, <2>2 DEF Kept
  <2>4. Told(Append(sh, t), pa, prod, cons + 1, meant, s)
    BY <1>1, <1>4, <1>7, <2>2, ToldShown
  <2> QED
    BY <1>2, <1>3, <1>5, <1>7, <2>3, <2>4
<1> QED
  BY <1>6, <1>7

\* A text goes through the line buffer in its order, whether it ends a line or not.
LEMMA LineShown ==
    ASSUME RpcTypes, NEW s \in Streams, NEW t \in TextT, print_line(s, t)
    PROVE  \A r \in Streams : Shown(r)' = IF r = s THEN Append(Shown(s), t) ELSE Shown(r)
<1>1. /\ out \in [Streams -> Seq(TextT)] /\ buf \in [Streams -> Seq(TextT)]
      /\ out[s] \in Seq(TextT) /\ buf[s] \in Seq(TextT)
  BY DEF RpcTypes, Results, Texts
<1> DEFINE line == Append(buf[s], t)
<1>2. line \in Seq(TextT) /\ line = buf[s] \o <<t>> /\ <<t>> \in Seq(TextT)
  BY <1>1, AppendProperties, AppendIsConcat
<1>3. /\ buf' = [buf EXCEPT ![s] = IF t.nl THEN <<>> ELSE line]
      /\ out' = [out EXCEPT ![s] = IF t.nl THEN out[s] \o line ELSE out[s]]
  BY DEF print_line
<1> HIDE DEF line
<1>4. \A r \in Streams : r # s => Shown(r)' = Shown(r)
  BY <1>1, <1>3 DEF Shown
<1>5. out[s] \o line = Append(out[s] \o buf[s], t)
  <2>1. out[s] \o line = (out[s] \o buf[s]) \o <<t>>
    BY <1>1, <1>2, ConcatAssociative
  <2>2. out[s] \o buf[s] \in Seq(TextT)
    BY <1>1, ConcatProperties
  <2> QED
    BY <2>1, <2>2, AppendIsConcat
<1>6. out'[s] \o buf'[s] = out[s] \o line
  <2>1. CASE t.nl
    <3>1. out'[s] = out[s] \o line /\ buf'[s] = <<>>
      BY <1>1, <1>3, <2>1
    <3>2. out[s] \o line \in Seq(TextT)
      BY <1>1, <1>2, ConcatProperties
    <3> QED
      BY <3>1, <3>2, ConcatEmptySeq
  <2>2. CASE ~t.nl
    BY <1>1, <1>3, <2>2
  <2> QED
    BY <2>1, <2>2
<1> QED
  BY <1>4, <1>5, <1>6 DEF Shown

LEMMA PrintedServer ==
    ASSUME ServerInv, RpcTypes, Printed, Return \/ Server \/ CallDone \/ Repoll
    PROVE  Printed'
<1>1. UNCHANGED <<text, meant, passed, prod>>
  BY DEF Return, Server, recv_req, Handle, Unserved, exit, print, cprint, others, call, send_resp,
         CallDone, Repoll, Goto, client, server
<1>2. prod \in Nat /\ cons \in 0 .. prod
  BY DEF ServerInv, Counted
<1>3. CASE Return \/ CallDone \/ Repoll
  <2>1. UNCHANGED <<pc, cons, buf, out>>
    BY <1>3 DEF Return, CallDone, Repoll, server
  <2> QED
    BY <1>1, <2>1, PrintedSame DEF todo
<1>4. CASE recv_req
  <2>1. pc = "recv" /\ pc' = "cmd" /\ cons' = cons + 1 /\ UNCHANGED <<buf, out>>
    BY <1>4 DEF recv_req
  <2> QED
    BY <1>1, <2>1, PrintedSame DEF todo
<1>5. CASE send_resp
  <2>1. pc = "send" /\ pc' = "recv" /\ cons' = cons /\ UNCHANGED <<buf, out>>
    BY <1>5 DEF send_resp
  <2> QED
    BY <1>1, <2>1, PrintedSame DEF todo
<1>6. CASE Handle
  <2>1. pc = "cmd" /\ cons' = cons /\ cons \in 1 .. prod
        /\ Kind = meant[cons].kind /\ Args = meant[cons].args
    <3>1. pc = "cmd" /\ cons' = cons
      BY <1>6 DEF Handle, Unserved, exit, print, cprint, others, call, Cmd, Goto
    <3> QED
      BY <1>2, <3>1 DEF ServerInv, EntriesSay, Says, Kind, Args
  <2>2. CASE UNCHANGED <<buf, out>> /\ pc' \in {"cmd", "stopped", "panic"}
    BY <1>1, <2>1, <2>2, PrintedSame DEF todo
  <2>3. CASE UNCHANGED <<buf, out>> /\ pc' \in {"recv", "send"} /\ Kind \notin Streams
    <3>1. todo' = cons + 1 /\ \A s \in Streams : Shown(s)' = Shown(s) /\ meant[cons].kind # s
      BY <2>1, <2>3 DEF todo, Shown
    <3> QED
      BY <1>1, <2>1, <3>1, PrintedPast
  <2>4. ASSUME NEW s \in Streams, Kind = s, print_line(s, text[Args[TextAt(s)][2]]),
               pc' \in {"recv", "send"}
        PROVE  Printed'
    <3>1. text[Args[TextAt(s)][2]] \in TextT
      BY <2>1, <2>4 DEF RpcTypes, TextsGiven, Texts
    <3>2. \A r \in Streams : Shown(r)' =
              IF r = s THEN Append(Shown(s), text[Args[TextAt(s)][2]]) ELSE Shown(r)
      BY <2>4, <3>1, LineShown
    <3>3. todo' = cons + 1
      BY <2>1, <2>4 DEF todo
    <3>4. \A r \in Streams : Shown(r)' =
              IF meant[cons].kind = r THEN Append(Shown(r), text[meant[cons].args[TextAt(r)][2]])
              ELSE Shown(r)
      BY <2>1, <2>4, <3>2
    <3> QED
      BY <1>1, <2>1, <3>3, <3>4, PrintedPast
  <2>5. CASE Unserved \/ exit
    BY <2>2, <2>5 DEF Unserved, exit, Goto
  <2>6. CASE print
    <3>1. Kind = "PRINT" /\ TextAt("PRINT") = 2 /\ "PRINT" \in Streams /\ pc' = "send"
          /\ print_line("PRINT", text[Args[2][2]])
      BY <2>6 DEF print, Cmd, Goto, TextAt, Streams
    <3> QED
      BY <2>4, <3>1
  <2>7. CASE cprint
    <3>1. Kind = "CPRINT" /\ TextAt("CPRINT") = 1 /\ "CPRINT" \in Streams
      BY <2>7 DEF cprint, Cmd, TextAt, Streams
    <3>2. \/ print_line("CPRINT", text[Args[1][2]]) /\ pc' = "recv"
          \/ UNCHANGED <<buf, out>> /\ pc' = "panic"
      BY <2>7 DEF cprint, Goto
    <3> QED
      BY <2>2, <2>4, <3>1, <3>2
  <2>8. CASE others
    <3>1. Kind \in {"MEMMOVE", "MEMSET", "MEMCMP", "OTHER"} \cup ToSet(FileKinds)
          /\ pc' \in {"recv", "send"} /\ UNCHANGED <<buf, out>>
      BY <2>8 DEF others, Cmd, Goto
    <3>2. Kind \notin Streams
      BY <3>1, FileKindsAre DEF Streams
    <3> QED
      BY <2>3, <3>1, <3>2
  <2>9. CASE call
    <3>1. Kind = "CALL" /\ pc' \in {"cmd", "send"} /\ UNCHANGED <<buf, out>>
      BY <2>1, <2>9 DEF call, Cmd
    <3>2. Kind \notin Streams
      BY <3>1 DEF Streams
    <3> QED
      BY <2>2, <2>3, <3>1, <3>2
  <2> QED
    BY <1>6, <2>5, <2>6, <2>7, <2>8, <2>9 DEF Handle
<1> QED
  BY <1>3, <1>4, <1>5, <1>6 DEF Server

LEMMA PrintedAlways == RpcSpec => [](ServerInv /\ RpcTypes /\ Printed)
<1>1. ServerInv /\ RpcTypes /\ Printed /\ [Next]_vars => Printed'
  <2> SUFFICES ASSUME ServerInv, RpcTypes, Printed, [Next]_vars PROVE Printed'
    OBVIOUS
  <2>1. ASSUME NEW kind \in Kinds, NEW n \in Extra, NEW x \in Codes \cup Bufs, NEW nl \in BOOLEAN,
               NEW wants \in Extra, Call(kind, n, x, nl, wants)
        PROVE  Printed'
    BY <2>1, PrintedCall
  <2>2. CASE Return \/ Server \/ CallDone \/ Repoll
    BY <2>2, PrintedServer
  <2>3. CASE UNCHANGED vars
    <3>1. UNCHANGED <<text, meant, passed, prod, buf, out, pc, cons>>
      BY <2>3 DEF vars, client, server
    <3> QED
      BY <3>1, PrintedSame DEF todo
  <2> QED
    BY <2>1, <2>2, <2>3 DEF Next
<1> QED
  BY <1>1, PrintedInit, ServerInvInit, ServerInvNext, RpcTypesInit, RpcTypesNext, PTL DEF RpcSpec

\* Both printers print the texts they were passed, in the order of the calls, each once
\* and as it was at the call, however many cprints are under way and whatever buffers
\* the firmware uses for them.
THEOREM PrintsHold == RpcSpec => []PrintedAsPassed
<1>1. RpcTypes /\ Printed => PrintedAsPassed
  BY PrintedSuffices
<1> QED
  BY <1>1, PrintedAlways, PTL

===============================================================================

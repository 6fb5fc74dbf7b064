--------------------------- MODULE MBShareMemProof ---------------------------
(***************************************************************************)
(* Theorems about the memory space of MBShareMem, for any blocks, any      *)
(* number of servers and any commands.                                     *)
(***************************************************************************)
EXTENDS MBShareMemProps, WellFoundedInduction, TLAPS

-----------------------------------------------------------------------------
(* Numbers.                                                                 *)

\* A set of numbers that is not empty has a least element.
LEMMA LeastNat ==
    ASSUME NEW S \in SUBSET Nat, S # {}
    PROVE  \E m \in S : \A k \in S : m <= k
<1> DEFINE R == OpToRel(<, Nat)
<1>1. IsWellFoundedOn(R, Nat)
  BY NatLessThanWellFounded
<1>2. PICK m \in S : \A k \in S : <<k, m>> \notin R
  <2> HIDE DEF R
  <2> QED BY <1>1, WFMin
<1>3. ASSUME NEW k \in S PROVE m <= k
  <2>1. <<k, m>> \notin OpToRel(<, Nat)  BY <1>2
  <2>2. <<k, m>> \in Nat \X Nat /\ <<k, m>>[1] = k /\ <<k, m>>[2] = m
    OBVIOUS
  <2>3. ~(k < m)  BY <2>1, <2>2 DEF OpToRel
  <2> QED BY <2>3
<1> QED BY <1>3

\* Induction over the numbers, for the set of those that have a property.
LEMMA SetInduction ==
    ASSUME NEW S \in SUBSET Nat, 0 \in S, \A n \in S : n + 1 \in S
    PROVE  S = Nat
<1> SUFFICES ASSUME Nat \ S # {} PROVE FALSE
  OBVIOUS
<1>1. PICK m \in Nat \ S : \A k \in Nat \ S : m <= k
  BY LeastNat
<1>2. m # 0 /\ m - 1 \in Nat /\ m - 1 + 1 = m  OBVIOUS
<1>3. m - 1 \in S  BY <1>1, <1>2
<1> QED BY <1>2, <1>3

\* What Min of a set of numbers is.
LEMMA MinNat ==
    ASSUME NEW S \in SUBSET Nat, S # {}
    PROVE  Min(S) \in S /\ \A k \in S : Min(S) <= k
BY LeastNat DEF Min

\* The lesser of two numbers.
LEMMA MinPair ==
    ASSUME NEW x \in Int, NEW y \in Int
    PROVE  Min({x, y}) = IF x <= y THEN x ELSE y
<1>1. \E m \in {x, y} : \A k \in {x, y} : m =< k  OBVIOUS
<1>2. Min({x, y}) \in {x, y} /\ \A k \in {x, y} : Min({x, y}) =< k
  BY <1>1 DEF Min
<1> QED BY <1>2

-----------------------------------------------------------------------------
(* The blocks.                                                              *)

\* find returns the first block that has the address, or 0.
LEMMA FindFirst ==
    ASSUME mems \in Seq(Block), NEW a \in Int
    PROVE  /\ find(a) \in 0 .. Len(mems)
           /\ find(a) = 0 <=> \A j \in DOMAIN mems : ~in_range(mems[j], a)
           /\ find(a) # 0 => find(a) \in DOMAIN mems /\ in_range(mems[find(a)], a)
<1> DEFINE I == {j \in 1 .. Len(mems) : in_range(mems[j], a)}
<1>1. find(a) = IF I # {} THEN Min(I) ELSE 0
  BY DEF find, SelectInSeq
<1>2. I \in SUBSET Nat /\ DOMAIN mems = 1 .. Len(mems) /\ Len(mems) \in Nat  OBVIOUS
<1>3. I # {} => Min(I) \in I
  <2> HIDE DEF I
  <2> QED BY <1>2, MinNat
<1> QED BY <1>1, <1>2, <1>3

\* The owner of byte j of a write, given those of the bytes before it.
NextOwner(a, o, j) ==
    IF j > 0 /\ (o[j - 1] = 0 \/ in_range(mems[o[j - 1]], a + j))
    THEN o[j - 1] ELSE find(a + j)

Owning(a, n, o) == o = [j \in 0 .. n - 1 |-> NextOwner(a, o, j)]

\* The owners of a write of any length are defined: from those of n bytes, those of
\* one more.
LEMMA OwnersExist ==
    ASSUME NEW a \in Int, NEW n \in Nat
    PROVE  \E o : Owning(a, n, o)
<1> DEFINE S == {k \in Nat : \E o : Owning(a, k, o)}
<1>1. 0 \in S
  <2>1. Owning(a, 0, [j \in 0 .. 0 - 1 |-> 0])
    BY DEF Owning
  <2> QED BY <2>1
<1>2. ASSUME NEW k \in S PROVE k + 1 \in S
  <2>1. PICK o : Owning(a, k, o)  OBVIOUS
  <2> DEFINE p == [j \in 0 .. k + 1 - 1 |-> IF j < k THEN o[j] ELSE NextOwner(a, o, k)]
  <2>2. ASSUME NEW j \in 0 .. k + 1 - 1 PROVE p[j] = NextOwner(a, p, j)
    <3>1. NextOwner(a, p, j) = NextOwner(a, o, j)
      BY DEF NextOwner
    <3>2. j < k => o[j] = NextOwner(a, o, j)
      BY <2>1 DEF Owning
    <3> QED BY <3>1, <3>2
  <2>3. Owning(a, k + 1, p)
    <3> DEFINE q == [j \in 0 .. k + 1 - 1 |-> NextOwner(a, p, j)]
    <3>1. \A j \in 0 .. k + 1 - 1 : p[j] = q[j]
      <4> HIDE DEF p
      <4> QED BY <2>2
    <3>2. p = q  BY <3>1
    <3> QED BY <3>2 DEF Owning
  <2> HIDE DEF p
  <2> QED BY <2>3
<1>3. S = Nat
  <2> HIDE DEF S
  <2>1. S \in SUBSET Nat  BY DEF S
  <2> QED BY <1>1, <1>2, <2>1, SetInduction
<1> QED BY <1>3

LEMMA OwnersAre ==
    ASSUME NEW a \in Int, NEW n \in Nat
    PROVE  Owning(a, n, Owners(a, n))
<1>1. Owners(a, n) = CHOOSE o : Owning(a, n, o)
  BY DEF Owners, Owning, NextOwner
<1> QED BY <1>1, OwnersExist

\* Every byte of a write goes to a block that has its address, or nowhere; nowhere
\* only where no block has an address of the write.
LEMMA OwnersHave ==
    ASSUME mems \in Seq(Block), NEW a \in Int, NEW n \in Nat
    PROVE  /\ DOMAIN Owners(a, n) = 0 .. n - 1
           /\ \A j \in 0 .. n - 1 : LET k == Owners(a, n)[j] IN
                 /\ k \in 0 .. Len(mems)
                 /\ k # 0 => k \in DOMAIN mems /\ in_range(mems[k], a + j)
           /\ (\A x \in Span(a, n) : find(x) # 0) => \A j \in 0 .. n - 1 : Owners(a, n)[j] # 0
<1> DEFINE o == Owners(a, n)
           Good(j) == /\ o[j] \in 0 .. Len(mems)
                      /\ o[j] # 0 => o[j] \in DOMAIN mems /\ in_range(mems[o[j]], a + j)
                      /\ (\A x \in Span(a, n) : find(x) # 0) => o[j] # 0
           S == {j \in Nat : j < n => Good(j)}
<1>1. o = [j \in 0 .. n - 1 |-> NextOwner(a, o, j)]
  BY OwnersAre DEF Owning
<1> HIDE DEF o
<1>2. \A j \in 0 .. n - 1 : o[j] = NextOwner(a, o, j)
  BY <1>1
<1>3. \A j \in 0 .. n - 1 : a + j \in Int /\ a + j \in Span(a, n)
  BY DEF Span
<1>4. 0 \in S
  <2> SUFFICES ASSUME 0 < n PROVE Good(0)
    OBVIOUS
  <2>1. 0 \in 0 .. n - 1  OBVIOUS
  <2>2. o[0] = find(a + 0)
    BY <1>2, <2>1 DEF NextOwner
  <2> QED BY <1>3, <2>1, <2>2, FindFirst
<1>5. ASSUME NEW j \in S PROVE j + 1 \in S
  <2> SUFFICES ASSUME j + 1 < n PROVE Good(j + 1)
    OBVIOUS
  <2>1. Good(j) /\ j + 1 \in 0 .. n - 1 /\ j + 1 > 0 /\ j + 1 - 1 = j
    OBVIOUS
  <2>2. o[j + 1] = IF o[j] = 0 \/ in_range(mems[o[j]], a + (j + 1)) THEN o[j] ELSE find(a + (j + 1))
    BY <1>2, <2>1 DEF NextOwner
  <2>3. CASE o[j] = 0 \/ in_range(mems[o[j]], a + (j + 1))
    BY <2>1, <2>2, <2>3
  <2>4. CASE ~(o[j] = 0 \/ in_range(mems[o[j]], a + (j + 1)))
    <3>1. o[j + 1] = find(a + (j + 1))  BY <2>2, <2>4
    <3> QED BY <3>1, <1>3, <2>1, FindFirst
  <2> QED BY <2>3, <2>4
<1>6. S = Nat
  <2> HIDE DEF S
  <2>1. S \in SUBSET Nat  BY DEF S
  <2> QED BY <1>4, <1>5, <2>1, SetInduction
<1>7. \A j \in 0 .. n - 1 : Good(j)
  BY <1>6
<1>8. DOMAIN o = 0 .. n - 1
  BY <1>1
<1> QED BY <1>7, <1>8 DEF o
-----------------------------------------------------------------------------
(* The inductive invariant.                                                 *)

\* How far a handler may be, and what it has in its buffer by then.
Within(c) ==
    LET r == cmd[c] IN
    /\ i[c] \in Nat
    /\ r.op = "memmove" => i[c] \in {0, 1} /\ (i[c] = 1 => Len(tmp[c]) = r.n)
    /\ r.op \in {"memset", "memcmp"} => i[c] <= r.n
    /\ r.op = "str" => i[c] = 0
    /\ r.op = "c_str" => i[c] <= MaxRep /\ (pc[c] = "run" => i[c] < MaxRep)

\* No address has two blocks, unless the configuration lists one that encloses another.
Apart ==
    NoneEncloses => \A j, k \in DOMAIN mems : \A a \in Int :
        in_range(mems[j], a) /\ in_range(mems[k], a) => j = k

\* The servers work when the space is complete; it stays one array.
Whole ==
    /\ phase # "run" => ~poisoned /\ \A c \in Chan : pc[c] = "idle"
    /\ phase = "run" => flat = [a \in Mapped |-> flat[a]]
    /\ \A c \in Chan : pc[c] \in {"run", "done"} => DOMAIN was[c] = DOMAIN flat

\* What a command is about is as it was when the command began.
Same(c) == \A a \in Footprint(c) : a \in DOMAIN flat => flat[a] = was[c][a]

MoveSoFar(c) ==
    LET r == cmd[c] IN
    /\ pc[c] = "run" => Same(c)
    /\ pc[c] = "run" /\ i[c] = 1 => \A k \in 0 .. r.n - 1 : tmp[c][k + 1] = was[c][r.s + k]
    /\ pc[c] = "done" => \A k \in 0 .. r.n - 1 : r.d + k \in DOMAIN flat /\ flat[r.d + k] = was[c][r.s + k]

SetSoFar(c) ==
    LET r == cmd[c] IN
    /\ \A a \in Span(r.d, i[c]) : a \in DOMAIN flat /\ flat[a] = r.s % 256
    /\ pc[c] = "done" => i[c] = r.n

\* The strings are equal up to the index, and if there is a result they differ there.
CmpSoFar(c) ==
    LET r == cmd[c] IN
    /\ Same(c)
    /\ \A k \in 0 .. i[c] - 1 : {r.d + k, r.s + k} \subseteq DOMAIN flat /\ was[c][r.d + k] = was[c][r.s + k]
    /\ tmp[c] # <<>> => /\ i[c] < r.n /\ rets[c] = 0 /\ r.d + i[c] \in DOMAIN flat
                        /\ tmp[c] = <<was[c][r.d + i[c]]>>
    /\ rets[c] # 0 => /\ i[c] < r.n /\ {r.d + i[c], r.s + i[c]} \subseteq DOMAIN flat
                      /\ rets[c] = was[c][r.d + i[c]] - was[c][r.s + i[c]]
    /\ pc[c] = "done" => i[c] = r.n \/ rets[c] # 0

StrSoFar(c) ==
    LET r == cmd[c] IN
    /\ Same(c)
    /\ pc[c] = "done" /\ InOneBlock(r.s, r.n) => tmp[c] = [k \in 1 .. r.n |-> was[c][r.s + k - 1]]

\* A string that fits is read up to the end of a batch before its end, or all of it.
Fits(c) == StrLen(was[c], cmd[c].s) >= 0 /\ BatchesFit(cmd[c].s, StrLen(was[c], cmd[c].s))

CStrSoFar(c) ==
    LET r   == cmd[c]
        len == StrLen(was[c], r.s)
        has == IF pc[c] = "done" THEN len ELSE i[c] * Batch
    IN
    /\ Same(c)
    /\ Fits(c) => has <= len /\ tmp[c] = [k \in 1 .. has |-> was[c][r.s + k - 1]]

\* What a handler has done so far, if nobody has disturbed it.
SoFar(c) ==
    NoneEncloses /\ ~disturbed[c] /\ pc[c] \in {"run", "done"} =>
        /\ cmd[c].op = "memmove" => MoveSoFar(c)
        /\ cmd[c].op = "memset" => SetSoFar(c)
        /\ cmd[c].op = "memcmp" => CmpSoFar(c)
        /\ cmd[c].op = "str" => StrSoFar(c)
        /\ cmd[c].op = "c_str" => CStrSoFar(c)

\* The Mutex is poisoned by the backdoor or by a command with a bad range.
Blame ==
    /\ \A c \in Chan : pc[c] = "panic" => poisoned
    /\ NoneEncloses /\ poisoned => blind \/ \E c \in Chan : pc[c] = "panic" /\ Bad(c)

MemInv ==
    /\ MemTypeOK /\ Apart /\ Whole /\ Coherent /\ Blame
    /\ \A c \in Chan : Within(c) /\ SoFar(c)

LEMMA BlockFacts ==
    ASSUME NEW b \in Block
    PROVE  /\ base[b] \in Nat /\ size[b] \in Nat \ {0} /\ end_addr(b) \in Nat
           /\ base[b] <= end_addr(b) /\ end_addr(b) + 1 = base[b] + size[b]
BY MemAssumption DEF end_addr

\* The addresses that have a block, in the three ways the model says it.
LEMMA MappedIs ==
    ASSUME mems \in Seq(Block), NEW a \in Int
    PROVE  /\ a \in Mapped <=> find(a) # 0
           /\ a \in Covered <=> find(a) # 0
<1>1. DOMAIN mems = 1 .. Len(mems) /\ \A j \in DOMAIN mems : mems[j] \in Block  OBVIOUS
<1>2. find(a) # 0 <=> \E j \in DOMAIN mems : in_range(mems[j], a)
  BY FindFirst
<1>3. a \in Covered <=> \E j \in DOMAIN mems : in_range(mems[j], a)
  <2>1. ASSUME NEW b \in Block
        PROVE  a \in Span(base[b], size[b]) <=> in_range(b, a)
    BY BlockFacts DEF Span, in_range
  <2>2. a \in Covered <=> \E j \in DOMAIN mems : a \in Span(base[mems[j]], size[mems[j]])
    BY DEF Covered
  <2> QED BY <1>1, <2>1, <2>2
<1>4. find(a) # 0 => \E b \in Block : a \in base[b] .. end_addr(b)
  BY <1>1, <1>2, BlockFacts DEF in_range
<1>5. a \in Mapped <=> find(a) # 0
  BY <1>4 DEF Mapped
<1> QED BY <1>2, <1>3, <1>5

LEMMA MappedInt ==
    Mapped \subseteq Int
BY BlockFacts DEF Mapped

\* The block that an address has, and where in it the address is.
LEMMA BlockIs ==
    ASSUME mems \in Seq(Block), NEW a \in Int, find(a) # 0
    PROVE  /\ find(a) \in DOMAIN mems /\ BlockOf(a) \in Block
           /\ base[BlockOf(a)] <= a /\ a <= end_addr(BlockOf(a))
           /\ a - base[BlockOf(a)] \in 0 .. size[BlockOf(a)] - 1
<1>1. find(a) \in DOMAIN mems /\ in_range(mems[find(a)], a)
  BY FindFirst
<1>2. BlockOf(a) = mems[find(a)] /\ BlockOf(a) \in Block
  BY <1>1 DEF BlockOf
<1>3. base[BlockOf(a)] <= a /\ a <= end_addr(BlockOf(a))
  BY <1>1, <1>2 DEF in_range
<1>4. a - base[BlockOf(a)] \in 0 .. size[BlockOf(a)] - 1
  BY <1>2, <1>3, BlockFacts, SMTT(30)
<1> QED BY <1>1, <1>2, <1>3, <1>4

\* A read gives what the first block has from the address on.
LEMMA ReadIs ==
    ASSUME MemTypeOK, NEW a \in Nat, NEW n \in Nat
    PROVE  /\ read(a, n) \in Seq(Byte) /\ Len(read(a, n)) \in 0 .. n
           /\ n = 0 \/ find(a) = 0 => read(a, n) = <<>>
           /\ n # 0 /\ find(a) # 0 =>
                /\ Len(read(a, n)) > 0
                /\ Len(read(a, n)) = n \/ Len(read(a, n)) = end_addr(BlockOf(a)) + 1 - a
                /\ Len(read(a, n)) <= end_addr(BlockOf(a)) + 1 - a
                /\ \A j \in 1 .. Len(read(a, n)) :
                      /\ in_range(BlockOf(a), a + j - 1)
                      /\ read(a, n)[j] = data[BlockOf(a)][a + j - 1 - base[BlockOf(a)]]
<1>1. CASE n = 0 \/ find(a) = 0
  BY <1>1 DEF read
<1>2. CASE n # 0 /\ find(a) # 0
  <2> DEFINE b == BlockOf(a)
             m == Min({n, end_addr(b) + 1 - a})
  <2>1. /\ b \in Block /\ base[b] <= a /\ a <= end_addr(b) /\ base[b] \in Nat
        /\ size[b] \in Nat /\ end_addr(b) + 1 = base[b] + size[b] /\ end_addr(b) \in Nat
    BY <1>2, BlockIs, BlockFacts, SMTT(30) DEF MemTypeOK
  <2> HIDE DEF b
  <2>2. m = IF n <= end_addr(b) + 1 - a THEN n ELSE end_addr(b) + 1 - a
    BY <2>1, MinPair
  <2>3. m \in 1 .. n /\ m <= end_addr(b) + 1 - a /\ (m = n \/ m = end_addr(b) + 1 - a)
    BY <1>2, <2>1, <2>2
  <2>4. read(a, n) = [j \in 1 .. m |-> data[b][a + j - 1 - base[b]]]
    BY <1>2 DEF read, b
  <2> HIDE DEF m
  <2>5. \A j \in 1 .. m : a + j - 1 - base[b] \in 0 .. size[b] - 1 /\ in_range(b, a + j - 1)
    BY <2>1, <2>3 DEF in_range
  <2>6. \A j \in 1 .. m : data[b][a + j - 1 - base[b]] \in Byte
    BY <2>1, <2>5 DEF MemTypeOK
  <2>7. read(a, n) \in Seq(Byte) /\ Len(read(a, n)) = m
    BY <2>3, <2>4, <2>6
  <2> QED BY <1>2, <2>3, <2>4, <2>5, <2>7 DEF b
<1> QED BY <1>1, <1>2

\* The remainder of a division lies below the divisor, and a number below it is its own.
LEMMA Remainder ==
    ASSUME NEW x \in Nat, NEW y \in Nat \ {0}
    PROVE  x % y \in 0 .. y - 1 /\ (x < y => x % y = x)
OBVIOUS

LEMMA StreamIs ==
    ASSUME MemTypeOK, NEW a \in Nat, NEW n \in Nat, n = 0 \/ find(a) # 0
    PROVE  /\ stream(a, n) \in Seq(Byte) /\ Len(stream(a, n)) = n
           /\ Len(read(a, n)) = n => stream(a, n) = read(a, n)
<1> DEFINE r == read(a, n)
<1>1. r \in Seq(Byte) /\ Len(r) \in Nat /\ (n # 0 => Len(r) # 0)
  <2>1. n # 0 => Len(r) > 0  BY ReadIs
  <2> QED BY <2>1, ReadIs
<1>2. stream(a, n) = [j \in 1 .. n |-> r[((j - 1) % Len(r)) + 1]]
  BY DEF stream
<1> HIDE DEF r
<1>3. \A j \in 1 .. n : ((j - 1) % Len(r)) \in 0 .. Len(r) - 1
                       /\ (Len(r) = n => (j - 1) % Len(r) = j - 1)
  <2> SUFFICES ASSUME NEW j \in 1 .. n
               PROVE  /\ ((j - 1) % Len(r)) \in 0 .. Len(r) - 1
                      /\ (Len(r) = n => (j - 1) % Len(r) = j - 1)
    OBVIOUS
  <2>1. j - 1 \in Nat /\ Len(r) \in Nat \ {0} /\ j - 1 < n
    BY <1>1
  <2> QED BY <2>1, Remainder
<1>4. \A j \in 1 .. n : ((j - 1) % Len(r)) + 1 \in 1 .. Len(r)
  BY <1>1, <1>3
<1>5. \A j \in 1 .. n : r[((j - 1) % Len(r)) + 1] \in Byte
  BY <1>1, <1>4
<1>6. stream(a, n) \in Seq(Byte) /\ Len(stream(a, n)) = n
  BY <1>2, <1>5
<1>7. ASSUME Len(r) = n PROVE stream(a, n) = r
  <2>1. \A j \in 1 .. n : r[((j - 1) % Len(r)) + 1] = r[j]
    BY <1>3, <1>7
  <2>2. stream(a, n) = [j \in 1 .. n |-> r[j]]
    BY <1>2, <2>1
  <2> QED BY <2>2, <1>1, <1>7
<1> QED BY <1>6, <1>7 DEF r

\* While the list of blocks stays, so do the addresses.
LEMMA SameBlocks ==
    ASSUME mems' = mems
    PROVE  /\ \A a : find(a)' = find(a) /\ BlockOf(a)' = BlockOf(a)
           /\ Mapped' = Mapped /\ Covered' = Covered
           /\ \A a, n : InOneBlock(a, n)' = InOneBlock(a, n) /\ BatchesFit(a, n)' = BatchesFit(a, n)
<1>1. \A a : find(a)' = find(a)
  BY DEF find, SelectInSeq
<1>2. \A a : BlockOf(a)' = BlockOf(a)
  BY <1>1 DEF BlockOf
<1>3. Mapped' = Mapped
  BY <1>1 DEF Mapped
<1>4. Covered' = Covered
  BY DEF Covered
<1>5. \A a, n : InOneBlock(a, n)' = InOneBlock(a, n)
  BY DEF InOneBlock
<1>6. \A a, n : BatchesFit(a, n)' = BatchesFit(a, n)
  BY DEF BatchesFit, InOneBlock
<1> QED BY <1>1, <1>2, <1>3, <1>4, <1>5, <1>6

\* Where no address has two blocks, the block that has an address is found.
LEMMA OnlyBlock ==
    ASSUME mems \in Seq(Block), Apart, NoneEncloses, NEW a \in Int,
           NEW j \in DOMAIN mems, in_range(mems[j], a)
    PROVE  find(a) = j
<1>1. find(a) # 0 /\ find(a) \in DOMAIN mems /\ in_range(mems[find(a)], a)
  BY FindFirst
<1> QED BY <1>1 DEF Apart

\* A range within one block is read whole.
LEMMA InOneRead ==
    ASSUME MemTypeOK, Apart, NoneEncloses, NEW a \in Nat, NEW n \in Nat, InOneBlock(a, n)
    PROVE  Len(read(a, n)) = n /\ (n # 0 => find(a) # 0)
<1>1. CASE n = 0
  BY <1>1, ReadIs
<1>2. CASE n # 0
  <2>1. PICK j \in DOMAIN mems : Span(a, n) \subseteq Span(base[mems[j]], size[mems[j]])
    BY DEF InOneBlock
  <2>2. mems[j] \in Block /\ mems \in Seq(Block)
    BY DEF MemTypeOK
  <2>3. {a, a + n - 1} \subseteq Span(base[mems[j]], size[mems[j]])
    BY <1>2, <2>1 DEF Span
  <2>4. in_range(mems[j], a) /\ a + n - 1 <= end_addr(mems[j])
    <3>1. base[mems[j]] \in Nat /\ size[mems[j]] \in Nat
      BY <2>2, BlockFacts
    <3>2. end_addr(mems[j]) = base[mems[j]] + size[mems[j]] - 1
      BY <2>2, BlockFacts, SMTT(30)
    <3> QED BY <2>3, <3>1, <3>2 DEF Span, in_range
  <2>5. find(a) = j /\ find(a) # 0 /\ BlockOf(a) = mems[j]
    BY <2>2, <2>4, OnlyBlock DEF BlockOf
  <2>6. Len(read(a, n)) = n \/ Len(read(a, n)) = end_addr(mems[j]) + 1 - a
    BY <1>2, <2>5, ReadIs
  <2>7. Len(read(a, n)) \in 0 .. n /\ end_addr(mems[j]) \in Nat
    BY <2>2, ReadIs, BlockFacts
  <2> QED BY <2>4, <2>5, <2>6, <2>7
<1> QED BY <1>1, <1>2

\* What is read is what the array holds.
LEMMA ReadFlat ==
    ASSUME MemTypeOK, Apart, Whole, Coherent, NoneEncloses, phase = "run",
           NEW a \in Nat, NEW n \in Nat, NEW j \in 1 .. Len(read(a, n))
    PROVE  a + j - 1 \in DOMAIN flat /\ read(a, n)[j] = flat[a + j - 1]
<1>1. mems \in Seq(Block)
  BY DEF MemTypeOK
<1>2. n # 0 /\ find(a) # 0
  BY ReadIs
<1>3. /\ in_range(BlockOf(a), a + j - 1) /\ a + j - 1 \in Int
      /\ read(a, n)[j] = data[BlockOf(a)][a + j - 1 - base[BlockOf(a)]]
  BY <1>2, ReadIs
<1>4. find(a) \in DOMAIN mems /\ find(a + j - 1) = find(a)
  BY <1>1, <1>2, <1>3, OnlyBlock, FindFirst DEF BlockOf
<1>5. read(a, n)[j] = Reading(a + j - 1)
  <2>1. PICK x \in Int : x = a + j - 1  BY <1>3
  <2>2. find(x) = find(a)  BY <1>4, <2>1
  <2>3. read(a, n)[j] = data[BlockOf(a)][x - base[BlockOf(a)]]
    <3>1. read(a, n)[j] = data[BlockOf(a)][a + j - 1 - base[BlockOf(a)]]
      BY <1>3
    <3>2. base[BlockOf(a)] \in Int  BY <1>1, <1>2, BlockIs, BlockFacts
    <3>3. a + j - 1 - base[BlockOf(a)] = x - base[BlockOf(a)]  BY <2>1, <3>2
    <3> QED BY <3>1, <3>3
  <2>4. read(a, n)[j] = Reading(x)  BY <2>2, <2>3 DEF Reading, BlockOf
  <2> QED BY <2>1, <2>4
<1>6. a + j - 1 \in DOMAIN flat
  BY <1>1, <1>2, <1>3, <1>4, MappedIs DEF Whole
<1> QED BY <1>5, <1>6 DEF Coherent

\* The bytes of a write that find a block.
Put(a, n) == {j \in 0 .. n - 1 : Owners(a, n)[j] # 0}

LEMMA PutIs ==
    ASSUME mems \in Seq(Block), NEW a \in Nat, NEW n \in Nat
    PROVE  /\ DOMAIN Owners(a, n) = 0 .. n - 1
           /\ \A j \in Put(a, n) : /\ j \in 0 .. n - 1 /\ a + j \in Mapped
                                   /\ Owners(a, n)[j] \in DOMAIN mems
                                   /\ in_range(mems[Owners(a, n)[j]], a + j)
           /\ Span(a, n) \subseteq Covered => Put(a, n) = 0 .. n - 1
<1>1. \A j \in Put(a, n) : /\ j \in 0 .. n - 1 /\ Owners(a, n)[j] \in DOMAIN mems
                           /\ in_range(mems[Owners(a, n)[j]], a + j)
  BY OwnersHave, SMTT(30) DEF Put
<1>2. \A j \in Put(a, n) : a + j \in Mapped
  <2> SUFFICES ASSUME NEW j \in Put(a, n) PROVE a + j \in Mapped
    OBVIOUS
  <2> DEFINE x == a + j
             k == Owners(a, n)[j]
  <2>1. x \in Int /\ k \in DOMAIN mems /\ in_range(mems[k], x)  BY <1>1
  <2> HIDE DEF x, k
  <2>2. find(x) # 0  BY <2>1, FindFirst
  <2>3. x \in Mapped  BY <2>1, <2>2, MappedIs
  <2> QED BY <2>3 DEF x
<1>3. ASSUME Span(a, n) \subseteq Covered PROVE Put(a, n) = 0 .. n - 1
  <2>1. \A x \in Span(a, n) : x \in Int /\ find(x) # 0
    <3> TAKE x \in Span(a, n)
    <3>1. x \in Int  BY DEF Span
    <3>2. x \in Covered  BY <1>3
    <3> QED BY <3>1, <3>2, MappedIs
  <2>2. \A j \in 0 .. n - 1 : Owners(a, n)[j] # 0
    <3>1. \A x \in Span(a, n) : find(x) # 0  BY <2>1
    <3>2. a \in Int  OBVIOUS
    <3> QED BY <3>1, <3>2, OwnersHave
  <2> QED BY <2>2 DEF Put
<1> QED BY <1>1, <1>2, <1>3, OwnersHave

\* What a write does to the array.
LEMMA WriteFlat ==
    ASSUME MemTypeOK, Whole, phase = "run",
           NEW who, NEW a \in Nat, NEW bytes \in Seq(Byte), write(who, a, bytes)
    PROVE  /\ flat' = [x \in Mapped |-> flat'[x]]
           /\ \A x \in Mapped : flat'[x] =
                 IF x - a \in Put(a, Len(bytes)) THEN bytes[x - a + 1] ELSE flat[x]
<1> DEFINE o == Owners(a, Len(bytes))
           p == Put(a, Len(bytes))
<1>1. mems \in Seq(Block) /\ Len(bytes) \in Nat
  BY DEF MemTypeOK
<1>2. p = {j \in DOMAIN o : o[j] # 0}
  BY <1>1, PutIs DEF Put
<1>3. DOMAIN flat = Mapped
  BY DEF Whole
<1> HIDE DEF p, o
<1>4. flat' = [x \in Mapped |-> IF x - a \in p THEN bytes[x - a + 1] ELSE flat[x]]
  BY <1>2, <1>3 DEF write, o
<1> QED BY <1>4 DEF p

\* What it does to the blocks.
LEMMA WriteData ==
    ASSUME MemTypeOK, NEW who, NEW a \in Nat, NEW bytes \in Seq(Byte), write(who, a, bytes)
    PROVE  \A b \in Block : data'[b] \in [0 .. size[b] - 1 -> Byte]
<1> DEFINE o == Owners(a, Len(bytes))
           p == Put(a, Len(bytes))
<1>1. mems \in Seq(Block) /\ Len(bytes) \in Nat
  BY DEF MemTypeOK
<1>2. p = {j \in DOMAIN o : o[j] # 0}
  BY <1>1, PutIs DEF Put
<1>3. \A j \in p : bytes[j + 1] \in Byte
  <2>1. p \subseteq 0 .. Len(bytes) - 1  BY DEF Put
  <2> QED BY <2>1, <1>1
<1> HIDE DEF p, o
<1>4. data' = [b \in Block |-> [k \in DOMAIN data[b] |->
         IF base[b] + k - a \in p /\ mems[o[base[b] + k - a]] = b
         THEN bytes[base[b] + k - a + 1] ELSE data[b][k]]]
  BY <1>2 DEF write, o
<1> TAKE b \in Block
<1>5. data[b] \in [0 .. size[b] - 1 -> Byte]
  BY DEF MemTypeOK
<1> QED BY <1>3, <1>4, <1>5

\* What it does to the Mutex, and whom it disturbs.
LEMMA WriteRest ==
    ASSUME MemTypeOK, NEW who, NEW a \in Nat, NEW bytes \in Seq(Byte), write(who, a, bytes)
    PROVE  /\ poisoned' \in BOOLEAN
           /\ poisoned' <=> Put(a, Len(bytes)) # 0 .. Len(bytes) - 1
           /\ disturbed' \in [Chan -> BOOLEAN]
           /\ \A c \in Chan : disturbed[c] => disturbed'[c]
           /\ \A c \in Chan : c # who /\ pc[c] # "idle" /\ ~disturbed'[c] =>
                 \A j \in Put(a, Len(bytes)) : a + j \notin Footprint(c)
           /\ \A c \in Chan : c = who => disturbed'[c] = disturbed[c]
<1> DEFINE o == Owners(a, Len(bytes))
           p == Put(a, Len(bytes))
<1>1. mems \in Seq(Block) /\ Len(bytes) \in Nat
  BY DEF MemTypeOK
<1>2. p = {j \in DOMAIN o : o[j] # 0} /\ DOMAIN o = 0 .. Len(bytes) - 1
  BY <1>1, PutIs DEF Put
<1> HIDE DEF p, o
<1>3. poisoned' = (p # 0 .. Len(bytes) - 1)
  BY <1>2 DEF write, o
<1>4. disturbed' = [c \in Chan |-> disturbed[c] \/
         (c # who /\ pc[c] # "idle" /\ \E j \in p : a + j \in Footprint(c))]
  BY <1>2 DEF write, o
<1>5. disturbed \in [Chan -> BOOLEAN]
  BY DEF MemTypeOK
<1>6. disturbed' \in [Chan -> BOOLEAN]
  BY <1>4, <1>5
<1>7. \A c \in Chan : disturbed'[c] <=> disturbed[c] \/
         (c # who /\ pc[c] # "idle" /\ \E j \in p : a + j \in Footprint(c))
  BY <1>4, <1>5
<1> QED BY <1>3, <1>5, <1>6, <1>7 DEF p

\* A write, whole or in part, leaves the space one array.
LEMMA WriteCoherent ==
    ASSUME MemTypeOK, Whole, Apart, Coherent, NoneEncloses, phase = "run", mems' = mems,
           NEW who, NEW a \in Nat, NEW bytes \in Seq(Byte), write(who, a, bytes),
           NEW x \in Mapped
    PROVE  Reading(x)' = flat'[x]
<1> DEFINE n == Len(bytes)
           o == Owners(a, n)
           p == Put(a, n)
           b == BlockOf(x)
           k == x - base[b]
<1>1. mems \in Seq(Block) /\ n \in Nat /\ x \in Int /\ find(x) # 0
  BY MappedInt, MappedIs DEF MemTypeOK
<1>2. /\ b \in Block /\ k \in 0 .. size[b] - 1 /\ base[b] \in Int /\ k \in Int
      /\ x = base[b] + k
  <2>1. b \in Block /\ k \in 0 .. size[b] - 1  BY <1>1, BlockIs
  <2>2. base[b] \in Nat /\ size[b] \in Nat  BY <2>1, BlockFacts
  <2> HIDE DEF b
  <2> QED BY <1>1, <2>1, <2>2
<1>3. Reading(x)' = data'[b][k] /\ Reading(x) = data[b][k]
  BY SameBlocks DEF Reading
<1>4. data[b] \in [0 .. size[b] - 1 -> Byte]
  BY <1>2 DEF MemTypeOK
<1>5. p = {j \in DOMAIN o : o[j] # 0}
  BY <1>1, PutIs DEF Put
<1>6. data'[b][k] = IF x - a \in p /\ mems[o[x - a]] = b THEN bytes[x - a + 1] ELSE data[b][k]
  <2> HIDE DEF p, o, b, k
  <2>1. data' = [d \in Block |-> [h \in DOMAIN data[d] |->
           IF base[d] + h - a \in p /\ mems[o[base[d] + h - a]] = d
           THEN bytes[base[d] + h - a + 1] ELSE data[d][h]]]
    BY <1>5 DEF write, o
  <2>2. b \in Block /\ k \in DOMAIN data[b] /\ base[b] + k - a = x - a
    <3>1. b \in Block /\ k \in DOMAIN data[b]  BY <1>2, <1>4
    <3>2. base[b] + k - a = x - a  BY <1>2
    <3> QED BY <3>1, <3>2
  <2>3. data'[b][k] = IF base[b] + k - a \in p /\ mems[o[base[b] + k - a]] = b
                      THEN bytes[base[b] + k - a + 1] ELSE data[b][k]
    BY <2>1, <2>2
  <2> QED BY <2>2, <2>3
<1>7. ASSUME x - a \in p PROVE mems[o[x - a]] = b
  <2>1. o[x - a] \in DOMAIN mems /\ in_range(mems[o[x - a]], a + (x - a))
    BY <1>1, <1>7, PutIs
  <2>2. a + (x - a) = x  BY <1>1
  <2>3. find(x) = o[x - a]
    BY <1>1, <2>1, <2>2, OnlyBlock
  <2> QED BY <2>3 DEF BlockOf
<1>8. flat'[x] = IF x - a \in p THEN bytes[x - a + 1] ELSE flat[x]
  BY WriteFlat
<1>9. flat[x] = Reading(x)
  BY DEF Coherent, Whole
<1> QED BY <1>3, <1>6, <1>7, <1>8, <1>9

LEMMA CmdIs ==
    ASSUME MemTypeOK, NEW c \in Chan
    PROVE  /\ cmd[c] \in Cmd /\ cmd[c].d \in Nat /\ cmd[c].s \in Nat /\ cmd[c].n \in Nat
           /\ cmd[c].op \in {"memmove", "memset", "memcmp", "c_str", "str"}
           /\ cmd[c].op \in {"memmove", "memcmp"} =>
                Footprint(c) = Span(cmd[c].d, cmd[c].n) \cup Span(cmd[c].s, cmd[c].n)
           /\ cmd[c].op = "memset" => Footprint(c) = Span(cmd[c].d, cmd[c].n)
           /\ cmd[c].op = "str" => Footprint(c) = Span(cmd[c].s, cmd[c].n)
           /\ cmd[c].op = "c_str" => Footprint(c) = Span(cmd[c].s, MaxRep * Batch)
<1>1. NoCmd \in Cmd  BY DEF NoCmd, Cmd
<1>2. cmd[c] \in Cmd
  BY <1>1, MemAssumption DEF MemTypeOK
<1>3. /\ cmd[c].d \in Nat /\ cmd[c].s \in Nat /\ cmd[c].n \in Nat
      /\ cmd[c].op \in {"memmove", "memset", "memcmp", "c_str", "str"}
  BY <1>2 DEF Cmd
<1> QED BY <1>2, <1>3 DEF Footprint

\* A step that leaves a handler, its command and what the command is about alone
\* leaves what it has done so far.
LEMMA SoFarStays ==
    ASSUME MemTypeOK, NEW c \in Chan, Within(c), SoFar(c), mems' = mems,
           pc'[c] = pc[c], cmd'[c] = cmd[c], i'[c] = i[c], tmp'[c] = tmp[c],
           rets'[c] = rets[c], was'[c] = was[c], disturbed[c] => disturbed'[c],
           DOMAIN flat' = DOMAIN flat,
           pc[c] # "idle" /\ ~disturbed'[c] => \A a \in Footprint(c) : a \in DOMAIN flat => flat'[a] = flat[a]
    PROVE  SoFar(c)'
<1> SUFFICES ASSUME NoneEncloses, ~disturbed'[c], pc[c] \in {"run", "done"}
             PROVE  SoFar(c)'
  BY DEF SoFar
<1>1. \A a \in Footprint(c) : a \in DOMAIN flat => flat'[a] = flat[a]
  OBVIOUS
<1>2. Footprint(c)' = Footprint(c)
  BY DEF Footprint
<1>3. Same(c) => Same(c)'
  BY <1>1, <1>2 DEF Same
<1>4. \A a, n : InOneBlock(a, n)' = InOneBlock(a, n) /\ BatchesFit(a, n)' = BatchesFit(a, n)
  BY SameBlocks
<1>5. MoveSoFar(c) /\ cmd[c].op = "memmove" => MoveSoFar(c)'
  <2>1. cmd[c].op = "memmove" => \A k \in 0 .. cmd[c].n - 1 : cmd[c].d + k \in Footprint(c)
    <3>1. cmd[c].d \in Nat /\ cmd[c].n \in Nat  BY CmdIs
    <3>2. \A k \in 0 .. cmd[c].n - 1 : cmd[c].d + k \in Span(cmd[c].d, cmd[c].n)
      BY <3>1 DEF Span
    <3> QED BY <3>2, CmdIs
  <2> QED BY <1>1, <1>3, <2>1 DEF MoveSoFar
<1>6. SetSoFar(c) /\ cmd[c].op = "memset" => SetSoFar(c)'
  <2>1. cmd[c].op = "memset" => \A a \in Span(cmd[c].d, i[c]) : a \in Footprint(c)
    BY CmdIs DEF Span, Within
  <2> QED BY <1>1, <2>1 DEF SetSoFar
<1>7. CmpSoFar(c) => CmpSoFar(c)'
  BY <1>3 DEF CmpSoFar
<1>8. StrSoFar(c) => StrSoFar(c)'
  BY <1>3, <1>4 DEF StrSoFar
<1>9. CStrSoFar(c) => CStrSoFar(c)'
  <2>1. StrLen(was[c], cmd[c].s)' = StrLen(was[c], cmd[c].s)
    OBVIOUS
  <2>2. Fits(c)' <=> Fits(c)
    BY <1>4, <2>1 DEF Fits
  <2> QED BY <1>3, <2>1, <2>2 DEF CStrSoFar
<1> QED BY <1>5, <1>6, <1>7, <1>8, <1>9 DEF SoFar

-----------------------------------------------------------------------------
(* What one access of who does to the memory and to the other handlers.     *)

Sound(who) ==
    /\ \A b \in Block : data'[b] \in [0 .. size[b] - 1 -> Byte]
    /\ poisoned' \in BOOLEAN /\ disturbed' \in [Chan -> BOOLEAN]
    /\ flat' = [x \in Mapped |-> flat'[x]]
    /\ NoneEncloses => \A x \in Mapped : Reading(x)' = flat'[x]
    /\ \A c \in Chan : disturbed[c] => disturbed'[c]
    /\ \A c \in Chan : c # who /\ pc[c] # "idle" /\ ~disturbed'[c] =>
          \A x \in Footprint(c) : x \in DOMAIN flat => flat'[x] = flat[x]

LEMMA WriteSound ==
    ASSUME MemInv, phase = "run", mems' = mems,
           NEW who, NEW a \in Nat, NEW bytes \in Seq(Byte), write(who, a, bytes)
    PROVE  Sound(who)
<1> USE DEF MemInv
<1>1. flat' = [x \in Mapped |-> flat'[x]]
  BY WriteFlat
<1>2. ASSUME NoneEncloses PROVE \A x \in Mapped : Reading(x)' = flat'[x]
  BY <1>2, WriteCoherent
<1>3. ASSUME NEW c \in Chan, c # who, pc[c] # "idle", ~disturbed'[c],
             NEW x \in Footprint(c), x \in DOMAIN flat
      PROVE  flat'[x] = flat[x]
  <2>1. x \in Mapped /\ x \in Int
    BY <1>3, MappedInt DEF Whole
  <2>2. \A j \in Put(a, Len(bytes)) : a + j \notin Footprint(c)
    BY <1>3, WriteRest
  <2>3. x - a \notin Put(a, Len(bytes))
    <3>1. a + (x - a) = x  BY <2>1
    <3> QED BY <1>3, <2>2, <3>1
  <2> QED BY <2>1, <2>3, WriteFlat
<1>4. \A b \in Block : data'[b] \in [0 .. size[b] - 1 -> Byte]
  BY WriteData
<1>5. /\ poisoned' \in BOOLEAN /\ disturbed' \in [Chan -> BOOLEAN]
      /\ \A c \in Chan : disturbed[c] => disturbed'[c]
  BY WriteRest
<1> QED BY <1>1, <1>2, <1>3, <1>4, <1>5 DEF Sound

LEMMA QuietSound ==
    ASSUME MemInv, phase = "run", mems' = mems, UNCHANGED <<data, flat, disturbed>>,
           poisoned' \in BOOLEAN, NEW who
    PROVE  Sound(who)
<1>1. flat' = [x \in Mapped |-> flat'[x]]
  BY DEF MemInv, Whole
<1>2. \A x \in Mapped : Reading(x)' = Reading(x)
  BY SameBlocks DEF Reading
<1>3. NoneEncloses => \A x \in Mapped : Reading(x)' = flat'[x]
  BY <1>2 DEF MemInv, Whole, Coherent
<1> QED BY <1>1, <1>3 DEF Sound, MemInv, MemTypeOK

\* A bad range stays one.
LEMMA BadStays ==
    ASSUME NEW c \in Chan, mems' = mems, cmd'[c] = cmd[c], was'[c] = was[c],
           disturbed[c] => disturbed'[c], Bad(c)
    PROVE  Bad(c)'
<1>1. Covered' = Covered /\ \A a, n : InOneBlock(a, n)' = InOneBlock(a, n) /\ BatchesFit(a, n)' = BatchesFit(a, n)
  BY SameBlocks
<1>2. StrLen(was[c], cmd[c].s)' = StrLen(was[c], cmd[c].s)
  BY DEF StrLen
<1> QED BY <1>1, <1>2 DEF Bad

\* The bound of the type invariant on the index.
LEMMA MaxBound ==
    ASSUME NEW x \in Nat, NEW y \in Nat
    PROVE  /\ Max({x, y, 1}) \in Nat
           /\ x <= Max({x, y, 1}) /\ y <= Max({x, y, 1}) /\ 1 <= Max({x, y, 1})
<1>1. \E m \in {x, y, 1} : \A k \in {x, y, 1} : m >= k  OBVIOUS
<1>2. Max({x, y, 1}) \in {x, y, 1} /\ \A k \in {x, y, 1} : Max({x, y, 1}) >= k
  BY <1>1 DEF Max
<1> QED BY <1>2

LEMMA IndexBound ==
    ASSUME NEW r \in Cmd, NEW x \in Nat, x <= r.n \/ x <= MaxRep \/ x <= 1
    PROVE  x \in 0 .. Max({r.n, MaxRep, 1})
<1>1. r.n \in Nat /\ MaxRep \in Nat
  BY MemAssumption DEF Cmd
<1> QED BY <1>1, MaxBound

\* The invariant after a step of the handler of c, from what the step does to c.
HandlerStep(c) ==
    /\ UNCHANGED <<phase, mems, cmd, nops, was, blind>>
    /\ pc[c] = "run" /\ ~poisoned
    /\ \E l \in {"run", "done", "panic"} : pc' = [pc EXCEPT ![c] = l]
    /\ \E x : i' = [i EXCEPT ![c] = x]
    /\ \E x \in Seq(Byte) : tmp' = [tmp EXCEPT ![c] = x]
    /\ \E x \in -255 .. 255 : rets' = [rets EXCEPT ![c] = x]
    /\ pc'[c] = "panic" <=> poisoned'

\* The functions the type invariant does not say the domain of.
Domains ==
    /\ i = [c \in Chan |-> i[c]] /\ tmp = [c \in Chan |-> tmp[c]]
    /\ rets = [c \in Chan |-> rets[c]] /\ was = [c \in Chan |-> was[c]]

LEMMA HandlerKeeps ==
    ASSUME MemInv, Domains, NEW c \in Chan, HandlerStep(c), Sound(c),
           poisoned' /\ NoneEncloses => Bad(c), Within(c)', SoFar(c)'
    PROVE  MemInv' /\ Domains'
<1> USE DEF MemInv
<1>1. phase = "run" /\ phase' = "run" /\ mems' = mems
  BY DEF HandlerStep, Whole, MemTypeOK
<1>2. /\ \A d \in Chan : d # c => /\ pc'[d] = pc[d] /\ i'[d] = i[d] /\ tmp'[d] = tmp[d]
                                  /\ rets'[d] = rets[d]
      /\ \A d \in Chan : cmd'[d] = cmd[d] /\ was'[d] = was[d]
  BY DEF HandlerStep, Domains, MemTypeOK
<1>3. Domains'
  BY DEF HandlerStep, Domains
<1>4. \A d \in Chan : Within(d)'
  BY <1>2 DEF Within
<1>5. Mapped' = Mapped
  BY <1>1, SameBlocks
<1>6. ASSUME NEW d \in Chan PROVE SoFar(d)'
  <2>1. CASE d = c
    BY <2>1
  <2>2. CASE d # c
    BY <1>1, <1>2, <2>2, SoFarStays DEF Sound, Whole
  <2> QED BY <2>1, <2>2
<1>7. MemTypeOK'
  <2>1. ASSUME NEW d \in Chan PROVE i'[d] \in 0 .. Max({cmd'[d].n, MaxRep, 1})
    <3>1. cmd[d] \in Cmd /\ cmd'[d] = cmd[d]
      BY <1>2, CmdIs
    <3>2. i'[d] \in Nat /\ (i'[d] <= cmd'[d].n \/ i'[d] <= MaxRep \/ i'[d] <= 1)
      BY <3>1, <1>4 DEF Within, Cmd
    <3> QED BY <3>1, <3>2, IndexBound
  <2>2. \A d \in Chan : tmp'[d] \in Seq(Byte) /\ rets'[d] \in -255 .. 255
    BY ZenonT(30) DEF HandlerStep, Domains, MemTypeOK
  <2>3. pc' \in [Chan -> {"idle", "run", "done", "panic"}]
    BY DEF HandlerStep, MemTypeOK
  <2> QED BY <1>1, <2>1, <2>2, <2>3 DEF MemTypeOK, HandlerStep, Sound
<1>8. Apart'
  BY <1>1 DEF Apart
<1>9. Whole'
  <2>1. \A d \in Chan : pc'[d] \in {"run", "done"} => pc[d] \in {"run", "done"}
    BY <1>2 DEF HandlerStep
  <2> QED BY <1>1, <1>2, <1>5, <2>1 DEF Whole, Sound
<1>10. Coherent'
  BY <1>1, <1>5 DEF Coherent, Sound
<1>11. Blame'
  <2>1. \A d \in Chan : pc'[d] = "panic" => poisoned'
    BY <1>2 DEF HandlerStep, Blame
  <2>2. poisoned' /\ NoneEncloses => pc'[c] = "panic" /\ Bad(c)'
    BY <1>1, <1>2, BadStays DEF Sound, HandlerStep
  <2> QED BY <2>1, <2>2 DEF Blame
<1> QED BY <1>3, <1>4, <1>6, <1>7, <1>8, <1>9, <1>10, <1>11

-----------------------------------------------------------------------------
(* The handlers.                                                            *)

LEMMA Running ==
    ASSUME MemInv, NEW c \in Chan, pc[c] = "run"
    PROVE  /\ phase = "run" /\ mems \in Seq(Block) /\ cmd[c] \in Cmd /\ Within(c) /\ SoFar(c)
           /\ cmd[c].d \in Nat /\ cmd[c].s \in Nat /\ cmd[c].n \in Nat
           /\ DOMAIN flat = Mapped /\ DOMAIN was[c] = Mapped
           /\ i[c] \in Nat /\ tmp[c] \in Seq(Byte) /\ rets[c] \in -255 .. 255
<1>1. phase = "run"
  BY DEF MemInv, Whole
<1>2. i[c] \in Nat
  BY DEF MemInv, Within
<1> QED BY <1>1, <1>2, CmdIs, ZenonT(30) DEF MemInv, MemTypeOK, Whole

\* A read that fails stops the handler, over a range it may not be given.
LEMMA FailsKeep ==
    ASSUME MemInv, Domains, NEW c \in Chan, pc[c] = "run", ~poisoned, Fails(c),
           UNCHANGED <<space, cmd, nops, was, blind>>, NoneEncloses => Bad(c)
    PROVE  MemInv' /\ Domains'
<1>1. phase = "run" /\ phase' = phase /\ mems' = mems
  BY Running DEF space
<1>2. HandlerStep(c)
  <2>1. \E x : i' = [i EXCEPT ![c] = x]
    BY DEF Fails, Domains
  <2>2. tmp' = [tmp EXCEPT ![c] = tmp[c]] /\ rets' = [rets EXCEPT ![c] = rets[c]]
    BY DEF Fails, Domains
  <2>3. pc' = [pc EXCEPT ![c] = "panic"] /\ pc'[c] = "panic" /\ poisoned'
    BY DEF Fails, MemInv, MemTypeOK
  <2> QED BY <1>1, <2>1, <2>2, <2>3, Running DEF HandlerStep
<1>3. Sound(c)
  BY <1>1, QuietSound DEF Fails
<1>4. Within(c)'
  BY Running DEF Within, Fails
<1>5. SoFar(c)'
  BY DEF SoFar, Fails, MemInv, MemTypeOK
<1> QED BY <1>2, <1>3, <1>4, <1>5, HandlerKeeps

LEMMA MemmoveKeeps ==
    ASSUME MemInv, Domains, NEW c \in Chan, memmove(c)
    PROVE  MemInv' /\ Domains'
<1> DEFINE r == cmd[c]
           got == read(r.s, r.n)
<1>1. /\ pc[c] = "run" /\ ~poisoned /\ r.op = "memmove" /\ phase = "run"
      /\ UNCHANGED <<space, cmd, nops, was, blind>>
      /\ mems' = mems /\ phase' = phase
  <2>1. pc[c] = "run" /\ ~poisoned /\ r.op = "memmove" /\ UNCHANGED <<space, cmd, nops, was, blind>>
    BY DEF memmove, Working
  <2> QED BY <2>1, Running DEF space
<1>2. CASE i[c] = 0 /\ Len(got) # r.n /\ Fails(c)
  <2>1. NoneEncloses => ~InOneBlock(r.s, r.n)
    BY <1>1, <1>2, InOneRead, Running DEF MemInv
  <2> QED BY <1>1, <1>2, <2>1, FailsKeep DEF Bad
<1>3. CASE /\ i[c] = 0 /\ Len(got) = r.n
           /\ tmp' = [tmp EXCEPT ![c] = got] /\ i' = [i EXCEPT ![c] = 1]
           /\ UNCHANGED <<pc, data, poisoned, rets, flat, disturbed>>
  <2>1. got \in Seq(Byte)
    BY <1>1, Running, ReadIs DEF MemInv
  <2>2. HandlerStep(c)
    <3>1. pc' = [pc EXCEPT ![c] = "run"] /\ rets' = [rets EXCEPT ![c] = rets[c]]
      BY <1>1, <1>3 DEF Domains, MemInv, MemTypeOK
    <3> QED BY <1>1, <1>3, <2>1, <3>1, Running, ZenonT(30) DEF HandlerStep
  <2>3. Sound(c)
    BY <1>1, <1>3, QuietSound DEF MemInv, MemTypeOK
  <2>4. i'[c] = 1 /\ tmp'[c] = got /\ cmd'[c] = r /\ pc'[c] = "run" /\ was'[c] = was[c]
    BY <1>1, <1>3 DEF Domains
  <2>5. Within(c)'
    BY <1>1, <1>3, <2>4 DEF Within
  <2>6. SoFar(c)'
    <3> SUFFICES ASSUME NoneEncloses, ~disturbed[c] PROVE MoveSoFar(c)'
      BY <1>1, <1>3, <2>4 DEF SoFar
    <3>1. Same(c)
      BY <1>1, Running DEF SoFar, MoveSoFar
    <3>2. Same(c)'
      BY <1>3, <2>4, <3>1 DEF Same, Footprint
    <3>3. ASSUME NEW k \in 0 .. r.n - 1 PROVE got[k + 1] = was[c][r.s + k]
      <4>1. r.s \in Nat /\ r.n \in Nat /\ k + 1 \in 1 .. Len(got) /\ r.s + (k + 1) - 1 = r.s + k
        <5>1. r.s \in Nat /\ r.n \in Nat
          BY <1>1, Running
        <5>2. Len(got) = r.n
          BY <1>3
        <5> HIDE DEF got, r
        <5>3. PICK s \in Nat, m \in Nat : s = r.s /\ m = r.n
          BY <5>1
        <5>4. k \in 0 .. m - 1 /\ Len(got) = m
          BY <5>2, <5>3
        <5>5. k + 1 \in 1 .. m /\ s + (k + 1) - 1 = s + k
          BY <5>3, <5>4
        <5> QED
          BY <5>1, <5>3, <5>4, <5>5
      <4>2. r.s + k \in DOMAIN flat /\ got[k + 1] = flat[r.s + k]
        BY <1>1, <4>1, ReadFlat DEF MemInv
      <4>3. r.s + k \in Footprint(c)
        <5>1. r.s + k \in Span(r.s, r.n)  BY <4>1, SMTT(30) DEF Span
        <5> QED BY <1>1, <5>1, CmdIs DEF MemInv
      <4> QED BY <3>1, <4>2, <4>3 DEF Same
    <3>4. \A k \in 0 .. r.n - 1 : tmp'[c][k + 1] = was'[c][r.s + k]
      BY <2>4, <3>3
    <3>5. pc'[c] = "run" /\ cmd'[c].n = r.n /\ cmd'[c].s = r.s
      BY <2>4
    <3> HIDE DEF got, r
    <3> QED BY <3>2, <3>4, <3>5 DEF MoveSoFar
  <2>7. ~poisoned'
    BY <1>1, <1>3
  <2> QED BY <2>2, <2>3, <2>5, <2>6, <2>7, HandlerKeeps
<1>4. CASE /\ i[c] = 1 /\ write(c, r.d, tmp[c]) /\ Goes(c, TRUE) /\ UNCHANGED <<i, tmp, rets>>
  <2>1. tmp[c] \in Seq(Byte) /\ Len(tmp[c]) = r.n /\ r.d \in Nat /\ r.n \in Nat
    BY <1>1, <1>4, Running DEF Within
  <2>2. Sound(c)
    BY <1>1, <1>4, <2>1, WriteSound
  <2>3. /\ poisoned' \in BOOLEAN /\ (poisoned' <=> Put(r.d, r.n) # 0 .. r.n - 1)
        /\ disturbed'[c] = disturbed[c]
    BY <1>1, <1>4, <2>1, WriteRest DEF MemInv
  <2>4. pc' = [pc EXCEPT ![c] = IF poisoned' THEN "panic" ELSE "done"]
    BY <1>4 DEF Goes
  <2>5. pc'[c] = (IF poisoned' THEN "panic" ELSE "done") /\ cmd'[c] = r /\ was'[c] = was[c]
    BY <1>1, <2>4 DEF MemInv, MemTypeOK
  <2>6. HandlerStep(c)
    <3>1. i' = [i EXCEPT ![c] = i[c]] /\ rets' = [rets EXCEPT ![c] = rets[c]] /\ tmp' = [tmp EXCEPT ![c] = tmp[c]]
      BY <1>4 DEF Domains
    <3>2. \E l \in {"run", "done", "panic"} : pc' = [pc EXCEPT ![c] = l]
      BY <2>4
    <3>3. pc'[c] = "panic" <=> poisoned'
      BY <2>5
    <3>4. tmp[c] \in Seq(Byte) /\ rets[c] \in -255 .. 255
      BY <1>1, Running
    <3> QED BY <1>1, <3>1, <3>2, <3>3, <3>4 DEF HandlerStep
  <2>7. poisoned' => Bad(c)
    BY <1>1, <2>1, <2>3, PutIs, Running DEF Bad
  <2>8. Within(c)'
    BY <1>1, <1>4, <2>1, <2>5 DEF Within
  <2>9. SoFar(c)'
    <3> SUFFICES ASSUME NoneEncloses, ~disturbed[c], ~poisoned' PROVE MoveSoFar(c)'
      BY <1>1, <2>3, <2>5 DEF SoFar
    <3>1. ASSUME NEW k \in 0 .. r.n - 1
          PROVE  r.d + k \in DOMAIN flat' /\ flat'[r.d + k] = was[c][r.s + k]
      <4>1. k \in Put(r.d, r.n) /\ r.d + k \in Int /\ r.d + k - r.d = k
        BY <2>1, <2>3
      <4>2. r.d + k \in Mapped
        BY <1>1, <2>1, <4>1, PutIs, Running
      <4>3. flat'[r.d + k] = tmp[c][k + 1]
        <5>1. \A x \in Mapped : flat'[x] =
                IF x - r.d \in Put(r.d, Len(tmp[c])) THEN tmp[c][x - r.d + 1] ELSE flat[x]
          BY <1>1, <1>4, <2>1, WriteFlat DEF MemInv
        <5> QED BY <2>1, <4>1, <4>2, <5>1, SMTT(30)
      <4>4. tmp[c][k + 1] = was[c][r.s + k]
        BY <1>1, <1>4, Running DEF SoFar, MoveSoFar
      <4> QED BY <2>2, <4>2, <4>3, <4>4 DEF Sound
    <3> QED BY <2>3, <2>5, <3>1 DEF MoveSoFar
  <2> QED BY <1>1, <2>2, <2>6, <2>7, <2>8, <2>9, HandlerKeeps
<1> QED
  BY <1>1, <1>2, <1>3, <1>4 DEF memmove

\* A step of a handler that only reads.
LEMMA QuietKeeps ==
    ASSUME MemInv, Domains, NEW c \in Chan, pc[c] = "run", ~poisoned,
           UNCHANGED <<space, cmd, nops, was, blind, data, poisoned, flat, disturbed>>,
           \E l \in {"run", "done"} : pc' = [pc EXCEPT ![c] = l],
           \E x : i' = [i EXCEPT ![c] = x],
           \E x \in Seq(Byte) : tmp' = [tmp EXCEPT ![c] = x],
           \E x \in -255 .. 255 : rets' = [rets EXCEPT ![c] = x],
           Within(c)', SoFar(c)'
    PROVE  MemInv' /\ Domains'
<1>1. phase = "run" /\ phase' = phase /\ mems' = mems /\ ~poisoned'
  BY Running DEF space
<1>2. pc'[c] # "panic"
  BY DEF MemInv, MemTypeOK
<1>3. \E l \in {"run", "done", "panic"} : pc' = [pc EXCEPT ![c] = l]
  OBVIOUS
<1>4. HandlerStep(c)
  BY <1>1, <1>2, <1>3 DEF HandlerStep
<1>5. Sound(c)
  BY <1>1, QuietSound DEF MemInv, MemTypeOK
<1> QED BY <1>1, <1>4, <1>5, HandlerKeeps

LEMMA MemsetKeeps ==
    ASSUME MemInv, Domains, NEW c \in Chan, memset(c)
    PROVE  MemInv' /\ Domains'
<1> DEFINE r == cmd[c]
           v == r.s % 256
           a == r.d + i[c]
<1>1. /\ pc[c] = "run" /\ ~poisoned /\ r.op = "memset" /\ phase = "run"
      /\ UNCHANGED <<space, cmd, tmp, rets, nops, was, blind>>
      /\ mems' = mems /\ phase' = phase
  <2>1. pc[c] = "run" /\ ~poisoned /\ r.op = "memset" /\ UNCHANGED <<space, cmd, tmp, rets, nops, was, blind>>
    BY DEF memset, Working
  <2> QED BY <2>1, Running DEF space
<1>2. r.d \in Nat /\ r.n \in Nat /\ r.s \in Nat /\ i[c] \in 0 .. r.n /\ a \in Nat
  BY <1>1, Running DEF Within
<1>3. i' = [i EXCEPT ![c] = i'[c]] /\ rets' = [rets EXCEPT ![c] = rets[c]] /\ tmp' = [tmp EXCEPT ![c] = tmp[c]]
  BY <1>1 DEF Domains, memset, write
<1>4. CASE i[c] < r.n /\ write(c, a, <<v>>) /\ Goes(c, FALSE) /\ i' = [i EXCEPT ![c] = i[c] + 1]
  <2>1. v \in Byte
    <3>1. cmd[c] \in Cmds \/ cmd[c] = NoCmd
      BY DEF MemInv, MemTypeOK
    <3>2. cmd[c] = NoCmd => v = 0
      BY DEF NoCmd
    <3> QED BY <1>1, <3>1, <3>2, MemAssumption
  <2> DEFINE bytes == <<v>>
  <2> HIDE DEF v, a
  <2>2. bytes \in Seq(Byte) /\ Len(bytes) = 1 /\ bytes[1] = v /\ write(c, a, bytes)
    BY <1>4, <2>1
  <2> HIDE DEF bytes
  <2>3. Sound(c)
    BY <1>1, <1>2, <1>4, <2>2, WriteSound
  <2>4. /\ poisoned' \in BOOLEAN /\ (poisoned' <=> Put(a, 1) # 0 .. 1 - 1)
        /\ disturbed'[c] = disturbed[c]
    <3>1. /\ poisoned' \in BOOLEAN /\ disturbed'[c] = disturbed[c]
          /\ poisoned' <=> Put(a, Len(bytes)) # 0 .. Len(bytes) - 1
      BY <1>1, <1>2, <2>2, WriteRest DEF MemInv
    <3> QED BY <2>2, <3>1
  <2>5. pc' = [pc EXCEPT ![c] = IF poisoned' THEN "panic" ELSE "run"]
    BY <1>4 DEF Goes
  <2>6. pc'[c] = (IF poisoned' THEN "panic" ELSE "run") /\ cmd'[c] = r /\ i'[c] = i[c] + 1 /\ tmp'[c] = tmp[c]
    BY <1>1, <1>4, <2>5 DEF MemInv, MemTypeOK, Domains
  <2>7. HandlerStep(c)
    <3>1. \E l \in {"run", "done", "panic"} : pc' = [pc EXCEPT ![c] = l]
      BY <2>5
    <3>2. pc'[c] = "panic" <=> poisoned'
      BY <2>6
    <3>3. tmp[c] \in Seq(Byte) /\ rets[c] \in -255 .. 255
      BY <1>1, Running
    <3> QED BY <1>1, <1>3, <3>1, <3>2, <3>3 DEF HandlerStep
  <2>8. poisoned' => Bad(c)
    <3> SUFFICES ASSUME Span(r.d, r.n) \subseteq Covered PROVE ~poisoned'
      BY <1>1 DEF Bad
    <3>1. Span(a, 1) \subseteq Span(r.d, r.n)
      BY <1>2, <1>4 DEF Span, a
    <3>2. Put(a, 1) = 0 .. 1 - 1
      BY <1>1, <1>2, <3>1, PutIs, Running
    <3> QED BY <2>4, <3>2
  <2>9. Within(c)'
    BY <1>1, <1>2, <1>4, <2>6 DEF Within
  <2>10. SoFar(c)'
    <3> SUFFICES ASSUME NoneEncloses, ~disturbed[c], ~poisoned' PROVE SetSoFar(c)'
      BY <1>1, <2>4, <2>6 DEF SoFar
    <3>1. \A x \in Mapped : flat'[x] = IF x - a \in Put(a, Len(bytes)) THEN bytes[x - a + 1] ELSE flat[x]
      BY <1>1, <1>2, <1>4, <2>2, WriteFlat, ZenonT(30) DEF MemInv
    <3>2. Put(a, 1) = {0}
      BY <2>4
    <3>3. a \in Mapped
      <4>1. 0 \in Put(a, 1)  BY <3>2
      <4>2. a \in Nat /\ a + 0 = a  BY <1>2
      <4>3. \A k \in Put(a, 1) : a + k \in Mapped
        <5>1. mems \in Seq(Block)  BY <1>1, Running
        <5> QED BY <4>2, <5>1, PutIs
      <4>4. a + 0 \in Mapped  BY <4>1, <4>3
      <4> QED BY <4>2, <4>4
    <3>4. ASSUME NEW x \in Span(r.d, i[c] + 1)
          PROVE  x \in DOMAIN flat' /\ flat'[x] = v
      <4>1. x \in Int /\ (x = a \/ x \in Span(r.d, i[c]))
        BY <1>2 DEF Span, a
      <4>2. CASE x = a
        <5>1. x - a = 0 /\ x - a + 1 = 1  BY <4>1, <4>2
        <5> QED BY <2>2, <2>3, <3>1, <3>2, <3>3, <4>2, <5>1 DEF Sound
      <4>3. CASE x \in Span(r.d, i[c])
        <5>1. x - a # 0  BY <1>2, <4>1, <4>3 DEF Span, a
        <5>2. x \in Mapped /\ flat[x] = v
          BY <1>1, <4>3, Running DEF SoFar, SetSoFar, v
        <5> QED BY <2>2, <2>3, <3>1, <3>2, <5>1, <5>2 DEF Sound
      <4> QED BY <4>1, <4>2, <4>3
    <3>5. pc'[c] = "run" /\ cmd'[c].d = r.d /\ cmd'[c].s = r.s
      BY <2>6
    <3> QED BY <2>6, <3>4, <3>5 DEF SetSoFar, v
  <2> QED BY <1>1, <2>3, <2>7, <2>8, <2>9, <2>10, HandlerKeeps
<1>5. CASE i[c] >= r.n /\ UNCHANGED <<data, poisoned, flat, disturbed, i>> /\ Goes(c, TRUE)
  <2>1. i[c] = r.n /\ i'[c] = i[c] /\ tmp'[c] = tmp[c]
    BY <1>1, <1>2, <1>5
  <2>2. pc' = [pc EXCEPT ![c] = "done"] /\ pc'[c] = "done" /\ cmd'[c] = r
    BY <1>1, <1>5 DEF Goes, MemInv, MemTypeOK
  <2>3. Within(c)'
    BY <1>1, <1>2, <2>1, <2>2 DEF Within
  <2>4. SoFar(c)'
    <3> SUFFICES ASSUME NoneEncloses, ~disturbed[c] PROVE SetSoFar(c)'
      BY <1>1, <1>5, <2>2 DEF SoFar
    <3>1. SetSoFar(c)
      BY <1>1, Running DEF SoFar
    <3> QED BY <1>5, <2>1, <2>2, <3>1 DEF SetSoFar
  <2>5. tmp[c] \in Seq(Byte) /\ rets[c] \in -255 .. 255
    BY <1>1, Running
  <2>6. \E l \in {"run", "done"} : pc' = [pc EXCEPT ![c] = l]
    BY <2>2
  <2> QED BY <1>1, <1>3, <1>5, <2>3, <2>4, <2>5, <2>6, QuietKeeps
<1>6. IF i[c] < r.n
      THEN write(c, a, <<v>>) /\ Goes(c, FALSE) /\ i' = [i EXCEPT ![c] = i[c] + 1]
      ELSE UNCHANGED <<data, poisoned, flat, disturbed, i>> /\ Goes(c, TRUE)
  BY DEF memset, as_u8
<1>7. i[c] < r.n \/ i[c] >= r.n
  BY <1>2
<1> QED
  BY <1>2, <1>4, <1>5, <1>6, <1>7

\* A read of one byte.
LEMMA ByteRead ==
    ASSUME MemInv, phase = "run", NEW x \in Nat
    PROVE  /\ read(x, 1) = <<>> => x \notin Covered
           /\ read(x, 1) # <<>> => /\ read(x, 1) = <<read(x, 1)[1]>> /\ read(x, 1)[1] \in Byte
                                   /\ NoneEncloses => x \in DOMAIN flat /\ read(x, 1)[1] = flat[x]
<1> DEFINE b == read(x, 1)
<1>1. b \in Seq(Byte) /\ Len(b) \in 0 .. 1 /\ mems \in Seq(Block)
  BY ReadIs DEF MemInv, MemTypeOK
<1>2. ASSUME b = <<>> PROVE x \notin Covered
  <2>1. Len(b) = 0  BY <1>2
  <2>2. find(x) = 0
    <3>1. 1 # 0 /\ 1 \in Nat /\ MemTypeOK  BY DEF MemInv
    <3> QED BY <2>1, <3>1, ReadIs
  <2> QED BY <1>1, <2>2, MappedIs
<1>3. ASSUME b # <<>> PROVE b = <<b[1]>> /\ b[1] \in Byte /\ Len(b) = 1
  <2> HIDE DEF b
  <2> QED BY <1>1, <1>3
<1>4. ASSUME b # <<>>, NoneEncloses PROVE x \in DOMAIN flat /\ b[1] = flat[x]
  <2>1. 1 \in 1 .. Len(b) /\ x + 1 - 1 = x  BY <1>3, <1>4
  <2>2. x + 1 - 1 \in DOMAIN flat /\ b[1] = flat[x + 1 - 1]
    BY <1>4, <2>1, ReadFlat DEF MemInv
  <2> QED BY <2>1, <2>2
<1> QED BY <1>2, <1>3, <1>4

LEMMA MemcmpKeeps ==
    ASSUME MemInv, Domains, NEW c \in Chan, memcmp(c)
    PROVE  MemInv' /\ Domains'
<1> DEFINE r == cmd[c]
           x == (IF tmp[c] = <<>> THEN r.d ELSE r.s) + i[c]
           here == read(x, 1)
<1>1. /\ pc[c] = "run" /\ ~poisoned /\ r.op = "memcmp" /\ phase = "run"
      /\ UNCHANGED <<space, cmd, nops, was, blind>>
      /\ mems' = mems /\ phase' = phase
  <2>1. pc[c] = "run" /\ ~poisoned /\ r.op = "memcmp" /\ UNCHANGED <<space, cmd, nops, was, blind>>
    BY DEF memcmp, Working
  <2> QED BY <2>1, Running DEF space
<1>2. /\ r.d \in Nat /\ r.n \in Nat /\ r.s \in Nat /\ i[c] \in 0 .. r.n
      /\ tmp[c] \in Seq(Byte) /\ rets[c] \in -255 .. 255 /\ DOMAIN flat = Mapped
  BY <1>1, Running DEF Within
<1>3. x \in Nat /\ (i[c] < r.n => x \in Span(r.d, r.n) \cup Span(r.s, r.n))
  <2>1. x = r.d + i[c] \/ x = r.s + i[c]  OBVIOUS
  <2> HIDE DEF x
  <2> QED BY <1>2, <2>1, SMTT(30) DEF Span
<1>4. /\ i[c] < r.n /\ here = <<>> => Fails(c)
      /\ ~(i[c] < r.n /\ here = <<>>) =>
            /\ UNCHANGED <<data, poisoned, flat, disturbed>>
            /\ i[c] = r.n \/ rets[c] # 0 => Goes(c, TRUE) /\ UNCHANGED <<i, tmp, rets>>
            /\ i[c] # r.n /\ rets[c] = 0 /\ tmp[c] = <<>> =>
                  tmp' = [tmp EXCEPT ![c] = here] /\ UNCHANGED <<pc, i, rets>>
            /\ i[c] # r.n /\ rets[c] = 0 /\ tmp[c] # <<>> =>
                  /\ rets' = [rets EXCEPT ![c] = tmp[c][1] - here[1]]
                  /\ tmp' = [tmp EXCEPT ![c] = <<>>]
                  /\ i' = [i EXCEPT ![c] = IF rets'[c] = 0 THEN i[c] + 1 ELSE i[c]]
                  /\ UNCHANGED pc
  BY DEF memcmp
<1>5. here = <<>> => x \notin Covered
  BY <1>1, <1>3, ByteRead
<1>6. here # <<>> => /\ here = <<here[1]>> /\ here[1] \in Byte
                     /\ NoneEncloses => x \in DOMAIN flat /\ here[1] = flat[x]
  BY <1>1, <1>3, ByteRead
<1>7. Byte \subseteq 0 .. 255
  BY MemAssumption
<1>8. NoneEncloses /\ ~disturbed[c] => CmpSoFar(c)
  BY <1>1, Running DEF SoFar
<1>9. \A y \in Span(r.d, r.n) \cup Span(r.s, r.n) : y \in Footprint(c)
  BY <1>1, CmdIs DEF MemInv
<1>10. Footprint(c)' = Footprint(c) /\ cmd'[c] = r /\ was'[c] = was[c]
  BY <1>1 DEF Footprint
<1> HIDE DEF here
<1>11. CASE i[c] < r.n /\ here = <<>>
  <2>1. Bad(c)
    BY <1>1, <1>3, <1>5, <1>11 DEF Bad
  <2> QED BY <1>1, <1>4, <1>11, <2>1, FailsKeep
<1>12. CASE ~(i[c] < r.n /\ here = <<>>) /\ (i[c] = r.n \/ rets[c] # 0)
  <2>1. Goes(c, TRUE) /\ UNCHANGED <<i, tmp, rets, data, poisoned, flat, disturbed>>
    BY <1>4, <1>12
  <2>2. pc' = [pc EXCEPT ![c] = "done"] /\ pc'[c] = "done"
    BY <1>1, <2>1 DEF Goes, MemInv, MemTypeOK
  <2>3. Within(c)'
    BY <1>1, <1>2, <1>10, <2>1 DEF Within
  <2>4. SoFar(c)'
    <3> SUFFICES ASSUME NoneEncloses, ~disturbed[c] PROVE CmpSoFar(c)'
      BY <1>1, <1>10, <2>1 DEF SoFar
    <3>1. Same(c)'
      BY <1>8, <1>10, <2>1 DEF Same, CmpSoFar
    <3> QED BY <1>8, <1>10, <1>12, <2>1, <3>1 DEF CmpSoFar
  <2>5. /\ i' = [i EXCEPT ![c] = i[c]] /\ tmp' = [tmp EXCEPT ![c] = tmp[c]]
        /\ rets' = [rets EXCEPT ![c] = rets[c]]
    BY <2>1 DEF Domains
  <2>6. \E l \in {"run", "done"} : pc' = [pc EXCEPT ![c] = l]
    BY <2>2
  <2> QED BY <1>1, <1>2, <2>1, <2>3, <2>4, <2>5, <2>6, QuietKeeps
<1>13. CASE here # <<>> /\ i[c] < r.n /\ rets[c] = 0 /\ tmp[c] = <<>>
  <2>1. tmp' = [tmp EXCEPT ![c] = here] /\ UNCHANGED <<pc, i, rets, data, poisoned, flat, disturbed>>
    <3>1. i[c] # r.n  BY <1>2, <1>13
    <3> HIDE DEF r
    <3> QED BY <1>4, <1>13, <3>1
  <2>2. tmp'[c] = here /\ pc'[c] = "run" /\ here \in Seq(Byte)
    <3>1. here \in Seq(Byte)  BY <1>3, ReadIs DEF here, MemInv
    <3>2. pc'[c] = "run"  BY <1>1, <2>1
    <3>3. tmp'[c] = here  BY <2>1 DEF Domains
    <3> QED BY <3>1, <3>2, <3>3
  <2>3. Within(c)'
    BY <1>1, <1>2, <1>10, <2>1 DEF Within
  <2>4. SoFar(c)'
    <3> SUFFICES ASSUME NoneEncloses, ~disturbed[c] PROVE CmpSoFar(c)'
      BY <1>1, <1>10, <2>1 DEF SoFar
    <3>1. Same(c)'
      BY <1>8, <1>10, <2>1 DEF Same, CmpSoFar
    <3>2. x = r.d + i[c] /\ x \in DOMAIN flat /\ here = <<was[c][x]>>
      <4>1. x = r.d + i[c] /\ x \in Span(r.d, r.n)
        BY <1>2, <1>13 DEF Span
      <4> HIDE DEF x
      <4>2. x \in DOMAIN flat /\ here = <<flat[x]>>
        BY <1>6, <1>13
      <4>3. flat[x] = was[c][x]
        BY <1>8, <1>9, <4>1, <4>2 DEF CmpSoFar, Same
      <4> QED BY <4>1, <4>2, <4>3
    <3> HIDE DEF x
    <3> QED BY <1>8, <1>10, <1>13, <2>1, <2>2, <3>1, <3>2 DEF CmpSoFar
  <2>5. /\ i' = [i EXCEPT ![c] = i[c]] /\ pc' = [pc EXCEPT ![c] = "run"]
        /\ rets' = [rets EXCEPT ![c] = rets[c]]
    BY <1>1, <2>1, ZenonT(30) DEF Domains, MemInv, MemTypeOK
  <2>6. \E l \in {"run", "done"} : pc' = [pc EXCEPT ![c] = l]
    BY <2>5
  <2> QED BY <1>1, <1>2, <2>1, <2>2, <2>3, <2>4, <2>5, <2>6, QuietKeeps
<1>14. CASE here # <<>> /\ i[c] < r.n /\ rets[c] = 0 /\ tmp[c] # <<>>
  <2> DEFINE v == tmp[c][1] - here[1]
  <2>1. /\ rets' = [rets EXCEPT ![c] = v] /\ tmp' = [tmp EXCEPT ![c] = <<>>]
        /\ i' = [i EXCEPT ![c] = IF rets'[c] = 0 THEN i[c] + 1 ELSE i[c]]
        /\ UNCHANGED <<pc, data, poisoned, flat, disturbed>>
    <3>1. i[c] # r.n  BY <1>2, <1>14
    <3> HIDE DEF r
    <3> QED BY <1>4, <1>14, <3>1
  <2>2. tmp[c][1] \in Byte /\ here[1] \in Byte
    <3>1. Len(tmp[c]) # 0 /\ 1 \in 1 .. Len(tmp[c])
      BY <1>2, <1>14
    <3> QED BY <1>2, <1>6, <1>14, <3>1
  <2>3. v \in -255 .. 255 /\ (v = 0 <=> tmp[c][1] = here[1])
    <3>1. tmp[c][1] \in 0 .. 255 /\ here[1] \in 0 .. 255  BY <1>7, <2>2
    <3>2. PICK u \in 0 .. 255 : u = tmp[c][1]  BY <3>1
    <3>3. PICK w \in 0 .. 255 : w = here[1]  BY <3>1
    <3>4. v = u - w  BY <3>2, <3>3
    <3>5. u - w \in -255 .. 255 /\ (u - w = 0 <=> u = w)  OBVIOUS
    <3> QED BY <3>2, <3>3, <3>4, <3>5
  <2> HIDE DEF v
  <2>4. rets'[c] = v /\ tmp'[c] = <<>> /\ pc'[c] = "run" /\ i'[c] = IF v = 0 THEN i[c] + 1 ELSE i[c]
    BY <1>1, <2>1 DEF Domains
  <2>5. Within(c)'
    BY <1>1, <1>2, <1>10, <1>14, <2>4 DEF Within
  <2>6. SoFar(c)'
    <3> SUFFICES ASSUME NoneEncloses, ~disturbed[c] PROVE CmpSoFar(c)'
      BY <1>1, <1>10, <2>1 DEF SoFar
    <3> DEFINE y == r.d + i[c]
    <3>1. Same(c)'
      BY <1>8, <1>10, <2>1 DEF Same, CmpSoFar
    <3>2. x = r.s + i[c] /\ x \in DOMAIN flat /\ here[1] = was[c][x]
      <4>1. x = r.s + i[c] /\ x \in Span(r.s, r.n)
        BY <1>2, <1>14 DEF Span
      <4> HIDE DEF x
      <4>2. x \in DOMAIN flat /\ here[1] = flat[x]
        BY <1>6, <1>14
      <4>3. flat[x] = was[c][x]
        BY <1>8, <1>9, <4>1, <4>2 DEF CmpSoFar, Same
      <4> QED BY <4>1, <4>2, <4>3
    <3>3. y \in DOMAIN flat /\ tmp[c][1] = was[c][y]
      BY <1>8, <1>14 DEF CmpSoFar
    <3>4. \A k \in 0 .. i[c] - 1 : {r.d + k, r.s + k} \subseteq DOMAIN flat /\ was[c][r.d + k] = was[c][r.s + k]
      BY <1>8 DEF CmpSoFar
    <3> HIDE DEF x, y
    <3>5. CASE v = 0
      <4>1. was[c][y] = was[c][x]
        BY <2>3, <3>2, <3>3, <3>5
      <4>2. \A k \in 0 .. (i[c] + 1) - 1 : {r.d + k, r.s + k} \subseteq DOMAIN flat /\ was[c][r.d + k] = was[c][r.s + k]
        <5> TAKE k \in 0 .. (i[c] + 1) - 1
        <5>1. k = i[c] \/ k \in 0 .. i[c] - 1
          BY <1>2
        <5> QED BY <3>2, <3>3, <3>4, <4>1, <5>1 DEF y
      <4> QED BY <1>10, <2>1, <2>4, <3>1, <3>5, <4>2 DEF CmpSoFar
    <3>6. CASE v # 0
      <4>1. v = was[c][r.d + i[c]] - was[c][r.s + i[c]] /\ {r.d + i[c], r.s + i[c]} \subseteq DOMAIN flat
        BY <3>2, <3>3 DEF y, v
      <4> QED BY <1>10, <1>14, <2>1, <2>4, <3>1, <3>4, <3>6, <4>1, ZenonT(30) DEF CmpSoFar
    <3> QED BY <3>5, <3>6
  <2>7. pc' = [pc EXCEPT ![c] = "run"]
    BY <1>1, <2>1 DEF MemInv, MemTypeOK
  <2>8. \E l \in {"run", "done"} : pc' = [pc EXCEPT ![c] = l]
    BY <2>7
  <2>9. <<>> \in Seq(Byte) /\ \E z : i' = [i EXCEPT ![c] = z]
    <3>1. i' = [i EXCEPT ![c] = i'[c]]  BY <2>1 DEF Domains
    <3> QED BY <3>1
  <2> QED BY <1>1, <2>1, <2>3, <2>5, <2>6, <2>8, <2>9, QuietKeeps
<1> QED
  BY <1>2, <1>11, <1>12, <1>13, <1>14

LEMMA ReadStrKeeps ==
    ASSUME MemInv, Domains, NEW c \in Chan, read_str(c)
    PROVE  MemInv' /\ Domains'
<1> DEFINE r == cmd[c]
           b == stream(r.s, r.n)
<1>1. /\ pc[c] = "run" /\ ~poisoned /\ r.op = "str" /\ phase = "run"
      /\ UNCHANGED <<space, cmd, nops, was, blind>>
      /\ mems' = mems /\ phase' = phase
  <2>1. pc[c] = "run" /\ ~poisoned /\ r.op = "str" /\ UNCHANGED <<space, cmd, nops, was, blind>>
    BY DEF read_str, Working
  <2> QED BY <2>1, Running DEF space
<1>2. r.n \in Nat /\ r.s \in Nat /\ mems \in Seq(Block) /\ DOMAIN flat = Mapped
  BY <1>1, Running
<1>3. CASE r.n > 0 /\ find(r.s) = 0 /\ Fails(c)
  <2>1. r.s \notin Covered
    BY <1>2, <1>3, MappedIs
  <2>2. Bad(c)
    BY <1>1, <2>1 DEF Bad
  <2> QED BY <1>1, <1>3, <2>2, FailsKeep
<1>4. CASE /\ ~(r.n > 0 /\ find(r.s) = 0)
           /\ tmp' = [tmp EXCEPT ![c] = b] /\ pc' = [pc EXCEPT ![c] = "done"]
           /\ UNCHANGED <<data, poisoned, i, rets, flat, disturbed>>
  <2>1. b \in Seq(Byte) /\ Len(b) = r.n /\ (Len(read(r.s, r.n)) = r.n => b = read(r.s, r.n))
    BY <1>2, <1>4, StreamIs DEF MemInv
  <2> HIDE DEF b
  <2>2. tmp'[c] = b /\ pc'[c] = "done" /\ cmd'[c] = r /\ was'[c] = was[c] /\ i'[c] = i[c]
    BY <1>1, <1>4 DEF Domains, MemInv, MemTypeOK
  <2>3. Within(c)'
    BY <1>1, <2>2, Running DEF Within
  <2>4. SoFar(c)'
    <3> SUFFICES ASSUME NoneEncloses, ~disturbed[c] PROVE StrSoFar(c)'
      BY <1>1, <1>4, <2>2 DEF SoFar
    <3>1. Same(c)
      BY <1>1, Running DEF SoFar, StrSoFar
    <3>2. Same(c)'
      BY <1>4, <2>2, <3>1 DEF Same, Footprint
    <3>3. ASSUME InOneBlock(r.s, r.n) PROVE b = [k \in 1 .. r.n |-> was[c][r.s + k - 1]]
      <4>1. Len(read(r.s, r.n)) = r.n /\ b = read(r.s, r.n)
        BY <1>2, <2>1, <3>3, InOneRead DEF MemInv
      <4>2. ASSUME NEW k \in 1 .. r.n PROVE b[k] = was[c][r.s + k - 1]
        <5>1. r.s + k - 1 \in DOMAIN flat /\ b[k] = flat[r.s + k - 1]
          BY <1>1, <1>2, <4>1, <4>2, ReadFlat DEF MemInv
        <5>2. r.s + k - 1 \in Footprint(c)
          <6>1. r.s + k - 1 \in Span(r.s, r.n)  BY <1>2 DEF Span
          <6> QED BY <1>1, <6>1, CmdIs DEF MemInv
        <5> QED BY <3>1, <5>1, <5>2 DEF Same
      <4> QED BY <2>1, <4>2
    <3>4. \A a, n : InOneBlock(a, n)' = InOneBlock(a, n)
      BY <1>1, SameBlocks
    <3>5. cmd'[c].s = r.s /\ cmd'[c].n = r.n
      BY <2>2
    <3> HIDE DEF r
    <3> QED BY <2>2, <3>2, <3>3, <3>4, <3>5 DEF StrSoFar
  <2>5. i' = [i EXCEPT ![c] = i[c]] /\ rets' = [rets EXCEPT ![c] = rets[c]] /\ rets[c] \in -255 .. 255
    BY <1>1, <1>4, Running DEF Domains
  <2>6. \E l \in {"run", "done"} : pc' = [pc EXCEPT ![c] = l]
    BY <1>4
  <2> QED BY <1>1, <1>4, <2>1, <2>3, <2>4, <2>5, <2>6, QuietKeeps
<1> QED
  BY <1>3, <1>4 DEF read_str

-----------------------------------------------------------------------------
(* Strings read in batches.                                                 *)

LEMMA NulIs ==
    ASSUME NEW b \in Seq(Byte)
    PROVE  /\ nul(b) \in 0 .. Len(b)
           /\ nul(b) = 0 => \A k \in 1 .. Len(b) : b[k] # 0
           /\ nul(b) # 0 => b[nul(b)] = 0 /\ \A k \in 1 .. nul(b) - 1 : b[k] # 0
<1> DEFINE I == {k \in 1 .. Len(b) : b[k] = 0}
<1>1. nul(b) = IF I # {} THEN Min(I) ELSE 0
  BY DEF nul, SelectInSeq
<1>2. I \in SUBSET Nat  OBVIOUS
<1>3. I # {} => Min(I) \in I /\ \A k \in I : Min(I) <= k
  <2> HIDE DEF I
  <2> QED BY <1>2, MinNat
<1>4. CASE I = {}
  BY <1>1, <1>4
<1>5. CASE I # {}
  <2>1. nul(b) \in I /\ \A k \in I : nul(b) <= k
    BY <1>1, <1>3, <1>5
  <2> QED BY <2>1
<1> QED BY <1>4, <1>5

\* The length of a string, in bytes.
LEMMA StrLenIs ==
    ASSUME NEW m, NEW a \in Nat
    PROVE  /\ StrLen(m, a) \in -1 .. MaxRep * Batch - 1
           /\ StrLen(m, a) # -1 =>
                 /\ a + StrLen(m, a) \in DOMAIN m /\ m[a + StrLen(m, a)] = 0
                 /\ Span(a, StrLen(m, a)) \subseteq DOMAIN m
           /\ \A k \in 0 .. MaxRep * Batch - 1 :
                 a + k \in DOMAIN m /\ m[a + k] = 0 /\ Span(a, k) \subseteq DOMAIN m =>
                    StrLen(m, a) # -1 /\ StrLen(m, a) <= k
<1> DEFINE Z == {k \in 0 .. MaxRep * Batch - 1 : a + k \in DOMAIN m /\ m[a + k] = 0
                                               /\ Span(a, k) \subseteq DOMAIN m}
<1>1. MaxRep * Batch \in Nat
  BY MemAssumption
<1>2. StrLen(m, a) = IF Z = {} THEN -1 ELSE Min(Z)
  BY DEF StrLen
<1>3. Z \in SUBSET Nat  BY <1>1
<1>4. Z # {} => Min(Z) \in Z /\ \A k \in Z : Min(Z) <= k
  <2> HIDE DEF Z
  <2> QED BY <1>3, MinNat
<1>5. CASE Z = {}
  BY <1>1, <1>2, <1>5
<1>6. CASE Z # {}
  <2>1. StrLen(m, a) \in Z /\ \A k \in Z : StrLen(m, a) <= k
    BY <1>2, <1>4, <1>6
  <2> QED BY <1>1, <2>1
<1> QED BY <1>5, <1>6

\* Where the next batch starts.
LEMMA NextBatch ==
    ASSUME NEW k \in 0 .. MaxRep - 1
    PROVE  /\ k * Batch \in Nat /\ (k + 1) * Batch = k * Batch + Batch
           /\ k * Batch + Batch <= MaxRep * Batch /\ MaxRep * Batch \in Nat
           /\ Batch \in Nat \ {0}
<1>1. Batch \in Nat \ {0} /\ MaxRep \in Nat \ {0}
  BY MemAssumption
<1>2. PICK d \in Nat : MaxRep = (k + 1) + d
  BY <1>1
<1>3. d * Batch \in Nat /\ k * Batch \in Nat
  BY <1>1
<1>4. (k + 1) * Batch = k * Batch + Batch
  BY <1>1
<1>5. MaxRep * Batch = (k + 1) * Batch + d * Batch
  BY <1>1, <1>2
<1> QED BY <1>1, <1>3, <1>4, <1>5

\* A batch within one block is what the array has there.
LEMMA BatchIs ==
    ASSUME MemInv, phase = "run", NoneEncloses, NEW a \in Nat, InOneBlock(a, Batch)
    PROVE  /\ stream(a, Batch) \in Seq(Byte) /\ Len(stream(a, Batch)) = Batch
           /\ \A j \in 1 .. Batch : /\ a + j - 1 \in DOMAIN flat
                                    /\ stream(a, Batch)[j] = flat[a + j - 1]
<1>1. Batch \in Nat /\ Batch # 0
  BY MemAssumption
<1>2. Len(read(a, Batch)) = Batch /\ find(a) # 0
  BY <1>1, InOneRead DEF MemInv
<1>3. stream(a, Batch) = read(a, Batch) /\ stream(a, Batch) \in Seq(Byte)
  BY <1>1, <1>2, StreamIs DEF MemInv
<1>4. \A j \in 1 .. Batch : a + j - 1 \in DOMAIN flat /\ read(a, Batch)[j] = flat[a + j - 1]
  BY <1>1, <1>2, ReadFlat DEF MemInv
<1> QED BY <1>2, <1>3, <1>4

\* One more batch b of a string in m of which h bytes are read: it has the end of the
\* string at its first NUL, or the string goes on after it.
LEMMA StringGoesOn ==
    ASSUME NEW m, NEW a \in Nat, NEW h \in Nat, h + Batch <= MaxRep * Batch,
           StrLen(m, a) # -1, h <= StrLen(m, a),
           NEW b \in Seq(Byte), Len(b) = Batch,
           \A j \in 1 .. Batch : a + h + j - 1 \in DOMAIN m /\ b[j] = m[a + h + j - 1]
    PROVE  /\ nul(b) = 0 => h + Batch <= StrLen(m, a)
           /\ nul(b) # 0 => h + nul(b) - 1 = StrLen(m, a)
<1> DEFINE len == StrLen(m, a)
<1>1. /\ len \in Nat /\ a + len \in DOMAIN m /\ m[a + len] = 0 /\ Span(a, len) \subseteq DOMAIN m
      /\ Batch \in Nat \ {0} /\ MaxRep * Batch \in Nat
  BY StrLenIs, MemAssumption
<1> HIDE DEF len
<1>2. ASSUME len < h + Batch
      PROVE  len - h + 1 \in 1 .. Batch /\ b[len - h + 1] = 0
  <2>1. len - h + 1 \in 1 .. Batch /\ a + h + (len - h + 1) - 1 = a + len
    BY <1>1, <1>2 DEF len
  <2> QED BY <1>1, <2>1
<1>3. CASE nul(b) = 0
  <2>1. \A k \in 1 .. Batch : b[k] # 0
    BY <1>3, NulIs
  <2>2. ~(len < h + Batch)
    BY <1>2, <2>1
  <2> QED BY <1>1, <1>3, <2>2 DEF len
<1>4. CASE nul(b) # 0
  <2>1. nul(b) \in 1 .. Batch /\ b[nul(b)] = 0 /\ \A k \in 1 .. nul(b) - 1 : b[k] # 0
    BY <1>4, NulIs
  <2> DEFINE k == h + nul(b) - 1
  <2>2. k \in 0 .. MaxRep * Batch - 1 /\ a + k = a + h + nul(b) - 1
    BY <1>1, <2>1
  <2>3. a + k \in DOMAIN m /\ m[a + k] = 0
    BY <2>1, <2>2
  <2>4. Span(a, k) \subseteq DOMAIN m
    <3> SUFFICES ASSUME NEW x \in Span(a, k) PROVE x \in DOMAIN m
      OBVIOUS
    <3>1. x \in a .. a + k - 1 /\ x \in Int
      BY DEF Span
    <3>2. CASE x < a + h
      <4>1. x \in Span(a, len)
        BY <1>1, <3>1, <3>2 DEF Span, len
      <4> QED BY <1>1, <4>1
    <3>3. CASE x >= a + h
      <4>1. x - a - h + 1 \in 1 .. Batch /\ a + h + (x - a - h + 1) - 1 = x
        BY <2>1, <2>2, <3>1, <3>3, SMTT(30)
      <4> QED BY <4>1
    <3> QED BY <3>1, <3>2, <3>3
  <2>5. len <= k
    <3> HIDE DEF k
    <3> QED BY <2>2, <2>3, <2>4, StrLenIs DEF len
  <2>6. len < h + Batch
    BY <1>1, <2>1, <2>5
  <2>7. len - h + 1 \in 1 .. Batch /\ b[len - h + 1] = 0
    BY <1>2, <2>6
  <2>8. ~(len - h + 1 \in 1 .. nul(b) - 1)
    BY <2>1, <2>7
  <2>9. len - h + 1 >= nul(b)
    BY <1>1, <2>1, <2>7, <2>8
  <2>10. len = k
    BY <1>1, <2>1, <2>5, <2>9, SMTT(30)
  <2> QED BY <1>4, <2>10 DEF len
<1> QED BY <1>3, <1>4

LEMMA ConcatIs ==
    ASSUME NEW t \in Seq(Byte), NEW q \in Seq(Byte)
    PROVE  /\ t \o q \in Seq(Byte) /\ Len(t \o q) = Len(t) + Len(q)
           /\ \A j \in 1 .. Len(t) : (t \o q)[j] = t[j]
           /\ \A j \in 1 .. Len(q) : (t \o q)[Len(t) + j] = q[j]
OBVIOUS

LEMMA SubSeqIs ==
    ASSUME NEW b \in Seq(Byte), NEW n \in 0 .. Len(b)
    PROVE  /\ SubSeq(b, 1, n) \in Seq(Byte) /\ Len(SubSeq(b, 1, n)) = n
           /\ \A j \in 1 .. n : SubSeq(b, 1, n)[j] = b[j]
OBVIOUS

\* t is the n bytes of m from x on.
Copies(t, n, m, x) == Len(t) = n /\ \A j \in 1 .. n : t[j] = m[x + j - 1]

\* All the bytes of b are in m from x on.
Stored(b, m, x) == \A j \in 1 .. Len(b) : x + j - 1 \in DOMAIN m /\ b[j] = m[x + j - 1]

\* What is read so far, and the next bytes.
LEMMA Longer ==
    ASSUME NEW m, NEW s \in Nat, NEW h \in Nat, NEW t \in Seq(Byte), NEW q \in Seq(Byte),
           NEW n \in Nat, Copies(t, h, m, s), Copies(q, n, m, s + h)
    PROVE  Copies(t \o q, h + n, m, s)
<1>1. Len(t) = h /\ Len(q) = n
  BY DEF Copies
<1>2. Len(t \o q) = h + n
  BY <1>1, ConcatIs
<1>3. ASSUME NEW j \in 1 .. h + n PROVE (t \o q)[j] = m[s + j - 1]
  <2>1. CASE j <= h
    <3>1. j \in 1 .. Len(t)  BY <1>1, <2>1
    <3>2. (t \o q)[j] = t[j]  BY <3>1, ConcatIs
    <3> QED BY <1>1, <3>1, <3>2 DEF Copies
  <2>2. CASE j > h
    <3>1. PICK k \in 1 .. n : j = h + k
      <4>1. j - h \in 1 .. n /\ j = h + (j - h)  BY <2>2
      <4> QED BY <4>1
    <3>2. (t \o q)[h + k] = q[k]
      BY <1>1, ConcatIs
    <3>3. q[k] = m[s + h + k - 1] /\ s + h + k - 1 = s + j - 1
      BY <3>1 DEF Copies
    <3> QED BY <3>1, <3>2, <3>3
  <2>3. j <= h \/ j > h  OBVIOUS
  <2> QED BY <2>1, <2>2, <2>3
<1> QED BY <1>2, <1>3 DEF Copies

LEMMA CopyIs ==
    ASSUME NEW m, NEW x \in Nat, NEW n, NEW t \in Seq(Byte), Copies(t, n, m, x)
    PROVE  t = [j \in 1 .. n |-> m[x + j - 1]]
<1>1. t = [j \in 1 .. n |-> t[j]]
  BY DEF Copies
<1>2. \A j \in 1 .. n : t[j] = m[x + j - 1]
  BY DEF Copies
<1> QED BY <1>1, <1>2

\* One more batch of the string at s, of which h bytes are read into t: all of the
\* string if there is a NUL in it, and there is one in the last.
LEMMA BatchTaken ==
    ASSUME NEW m, NEW s \in Nat, NEW h \in Nat, h + Batch <= MaxRep * Batch,
           NEW last \in BOOLEAN, last => h + Batch = MaxRep * Batch,
           NEW t \in Seq(Byte), Copies(t, h, m, s),
           StrLen(m, s) # -1, h <= StrLen(m, s),
           NEW b \in Seq(Byte), Len(b) = Batch, Stored(b, m, s + h),
           NEW more, more = IF nul(b) = 0 THEN b ELSE SubSeq(b, 1, nul(b) - 1),
           NEW has, has = IF nul(b) # 0 \/ last THEN StrLen(m, s) ELSE h + Batch
    PROVE  has <= StrLen(m, s) /\ Copies(t \o more, has, m, s)
<1>1. PICK len \in Nat : len = StrLen(m, s) /\ len < MaxRep * Batch /\ h <= len
  <2>1. MaxRep * Batch \in Nat  BY MemAssumption
  <2>2. StrLen(m, s) \in -1 .. MaxRep * Batch - 1  BY StrLenIs
  <2> QED BY <2>1, <2>2
<1>2. PICK z \in 0 .. Batch : /\ z = nul(b)
                              /\ z = 0 => h + Batch <= len
                              /\ z # 0 => h + z - 1 = len
  <2>1. nul(b) \in 0 .. Batch  BY NulIs
  <2>2. /\ nul(b) = 0 => h + Batch <= len
        /\ nul(b) # 0 => h + nul(b) - 1 = len
    BY <1>1, StringGoesOn DEF Stored
  <2> QED BY <2>1, <2>2
<1>3. Batch \in Nat \ {0}
  BY MemAssumption
<1>4. last => z # 0
  <2>1. PICK most \in Nat : most = MaxRep * Batch  BY MemAssumption
  <2> QED BY <1>1, <1>2, <1>3, <2>1
<1>5. PICK n \in 0 .. Batch : /\ more \in Seq(Byte) /\ Len(more) = n
                              /\ h + n = has /\ has <= len
                              /\ \A j \in 1 .. n : more[j] = b[j]
  <2>1. CASE z = 0
    <3>1. more = b /\ has = h + Batch
      BY <1>2, <1>4, <2>1
    <3>2. Batch \in 0 .. Batch  BY <1>3
    <3>3. Len(more) = Batch /\ has <= len /\ h + Batch = has
      BY <1>2, <2>1, <3>1
    <3>4. more \in Seq(Byte) /\ \A j \in 1 .. Batch : more[j] = b[j]
      BY <3>1
    <3> QED BY <3>2, <3>3, <3>4
  <2>2. CASE z # 0
    <3>1. /\ more = SubSeq(b, 1, z - 1) /\ has = len /\ z - 1 \in 0 .. Batch
          /\ z - 1 \in 0 .. Len(b) /\ h + (z - 1) = len
      BY <1>1, <1>2, <1>3, <2>2, SMTT(30)
    <3>2. PICK n \in 0 .. Batch : n = z - 1 /\ n \in 0 .. Len(b)
      BY <3>1
    <3>3. more \in Seq(Byte) /\ Len(more) = n /\ \A j \in 1 .. n : more[j] = b[j]
      BY <3>1, <3>2, SubSeqIs
    <3>4. h + n = has /\ has <= len
      BY <1>1, <3>1, <3>2
    <3> QED BY <3>3, <3>4
  <2> QED BY <2>1, <2>2
<1>6. Copies(more, n, m, s + h)
  <2>1. \A j \in 1 .. n : j \in 1 .. Len(b)  BY <1>3
  <2> QED BY <1>5, <2>1 DEF Copies, Stored
<1>7. n \in Nat
  BY <1>3
<1>8. Copies(t \o more, h + n, m, s)
  BY <1>5, <1>6, <1>7, Longer
<1> QED BY <1>1, <1>5, <1>8

LEMMA ReadCStrKeeps ==
    ASSUME MemInv, Domains, NEW c \in Chan, read_c_str(c)
    PROVE  MemInv' /\ Domains'
<1> DEFINE r == cmd[c]
           h == i[c] * Batch
           a == r.s + h
           b == stream(a, Batch)
           z == nul(b)
           more == IF z = 0 THEN b ELSE SubSeq(b, 1, z - 1)
           m == was[c]
           len == StrLen(m, r.s)
           most == MaxRep * Batch
<1>1. /\ pc[c] = "run" /\ ~poisoned /\ r.op = "c_str" /\ phase = "run"
      /\ UNCHANGED <<space, cmd, nops, was, blind>>
      /\ mems' = mems /\ phase' = phase
  <2>1. pc[c] = "run" /\ ~poisoned /\ r.op = "c_str" /\ UNCHANGED <<space, cmd, nops, was, blind>>
    BY DEF read_c_str, Working
  <2> QED BY <2>1, Running DEF space
<1>2. /\ r.s \in Nat /\ mems \in Seq(Block) /\ DOMAIN flat = Mapped /\ DOMAIN m = Mapped
      /\ i[c] \in 0 .. MaxRep - 1 /\ tmp[c] \in Seq(Byte) /\ rets[c] \in -255 .. 255
  BY <1>1, Running, MemAssumption DEF Within
<1>3. /\ h \in Nat /\ (i[c] + 1) * Batch = h + Batch /\ h + Batch <= most
      /\ most \in Nat /\ Batch \in Nat \ {0} /\ a \in Nat
  <2>1. /\ h \in Nat /\ (i[c] + 1) * Batch = h + Batch /\ h + Batch <= most
        /\ most \in Nat /\ Batch \in Nat \ {0}
    BY <1>2, NextBatch
  <2> HIDE DEF h, most
  <2> QED BY <1>2, <2>1, SMTT(30)
<1>4. len \in -1 .. most - 1
  BY <1>2, StrLenIs
<1> HIDE DEF h, a, b, z, more, m, len, most
<1>5. NoneEncloses /\ ~disturbed[c] => Same(c) /\ (Fits(c) => h <= len /\ tmp[c] = [k \in 1 .. h |-> m[r.s + k - 1]])
  <2>1. NoneEncloses /\ ~disturbed[c] => CStrSoFar(c)
    BY <1>1, Running DEF SoFar
  <2> QED BY <1>1, <2>1 DEF CStrSoFar, h, m, len
<1>6. ASSUME NoneEncloses, ~disturbed[c], Fits(c)
      PROVE  InOneBlock(a, Batch)
  <2>1. i[c] * Batch <= len /\ i[c] \in 0 .. MaxRep - 1
    BY <1>2, <1>5, <1>6 DEF h
  <2> QED BY <1>6, <2>1 DEF Fits, BatchesFit, len, m, a, h
<1>7. CASE find(a) = 0 /\ Fails(c)
  <2>1. ASSUME NoneEncloses PROVE Bad(c)
    <3> SUFFICES ASSUME len # -1, ~disturbed[c], BatchesFit(r.s, len) PROVE FALSE
      BY <1>1 DEF Bad, len, m
    <3>1. Fits(c)
      BY <1>4 DEF Fits, len, m
    <3>2. Batch \in Nat /\ Batch # 0 /\ InOneBlock(a, Batch)
      BY <1>3, <1>6, <2>1, <3>1
    <3>3. find(a) # 0
      BY <1>3, <2>1, <3>2, InOneRead DEF MemInv
    <3> QED BY <1>7, <3>3
  <2> QED BY <1>1, <1>7, <2>1, FailsKeep
<1>8. CASE /\ find(a) # 0
           /\ tmp' = [tmp EXCEPT ![c] = tmp[c] \o more]
           /\ i' = [i EXCEPT ![c] = i[c] + 1]
           /\ pc' = [pc EXCEPT ![c] = IF z # 0 \/ i'[c] = MaxRep THEN "done" ELSE "run"]
           /\ UNCHANGED <<data, poisoned, rets, flat, disturbed>>
  <2>1. b \in Seq(Byte) /\ Len(b) = Batch /\ z \in 0 .. Batch
    <3>1. b \in Seq(Byte) /\ Len(b) = Batch
      BY <1>3, <1>8, StreamIs DEF MemInv, b
    <3> QED BY <3>1, NulIs DEF z
  <2>2. more \in Seq(Byte) /\ Len(more) = (IF z = 0 THEN Batch ELSE z - 1)
        /\ \A j \in 1 .. Len(more) : more[j] = b[j]
    <3>1. CASE z = 0
      BY <2>1, <3>1 DEF more
    <3>2. CASE z # 0
      <4>1. more = SubSeq(b, 1, z - 1) /\ z - 1 \in 0 .. Len(b)
        BY <1>3, <2>1, <3>2 DEF more
      <4> QED BY <2>1, <3>2, <4>1
    <3> QED BY <3>1, <3>2
  <2>3. tmp[c] \o more \in Seq(Byte)
    BY <1>2, <2>2
  <2>4. /\ tmp'[c] = tmp[c] \o more /\ i'[c] = i[c] + 1 /\ cmd'[c] = r /\ was'[c] = m
        /\ pc'[c] = (IF z # 0 \/ i[c] + 1 = MaxRep THEN "done" ELSE "run")
    BY <1>1, <1>8 DEF Domains, MemInv, MemTypeOK, m
  <2>5. Within(c)'
    <3>1. MaxRep \in Nat  BY MemAssumption
    <3> QED BY <1>1, <1>2, <2>4, <3>1 DEF Within
  <2>6. SoFar(c)'
    <3> SUFFICES ASSUME NoneEncloses, ~disturbed[c] PROVE CStrSoFar(c)'
      BY <1>1, <1>8, <2>4 DEF SoFar
    <3>1. Same(c)'
      BY <1>5, <1>8, <2>4 DEF Same, Footprint, m
    <3>2. Fits(c)' = Fits(c)
      <4>1. \A x, n : BatchesFit(x, n)' = BatchesFit(x, n)
        BY <1>1, SameBlocks
      <4>2. StrLen(was[c], cmd[c].s)' = StrLen(was[c], cmd[c].s)
        BY <1>1 DEF StrLen
      <4> QED BY <1>1, <4>1, <4>2 DEF Fits
    <3>3. StrLen(was[c], cmd[c].s)' = len
      BY <1>1, <2>4 DEF StrLen, len, m
    <3>4. ASSUME Fits(c)
          PROVE  /\ a = r.s + h /\ len # -1 /\ h <= len
                 /\ tmp[c] = [k \in 1 .. h |-> m[r.s + k - 1]]
                 /\ \A j \in 1 .. Batch : r.s + h + j - 1 \in DOMAIN m /\ b[j] = m[r.s + h + j - 1]
      <4>1. h <= len /\ len # -1 /\ tmp[c] = [k \in 1 .. h |-> m[r.s + k - 1]] /\ a = r.s + h
        BY <1>3, <1>4, <1>5, <3>4 DEF a
      <4>2. ASSUME NEW j \in 1 .. Batch
            PROVE  r.s + h + j - 1 \in DOMAIN m /\ b[j] = m[r.s + h + j - 1]
        <5>1. PICK y \in Int : y = a + j - 1 /\ y = r.s + h + j - 1
          BY <1>2, <1>3, <4>1
        <5>2. y \in DOMAIN flat /\ b[j] = flat[y]
          BY <1>1, <1>3, <1>6, <3>4, <5>1, BatchIs DEF b
        <5>3. y \in Footprint(c)
          <6>1. PICK x \in Nat : x = r.s  BY <1>2
          <6>2. x <= y /\ y <= x + most - 1
            BY <1>3, <5>1, <6>1
          <6>3. y \in Span(x, most)
            BY <1>3, <6>1, <6>2 DEF Span
          <6> QED BY <1>1, <6>1, <6>3, CmdIs DEF MemInv, most
        <5>4. flat[y] = m[y]
          BY <1>5, <5>2, <5>3 DEF Same, m
        <5> QED BY <1>2, <5>1, <5>2, <5>4
      <4> QED BY <4>1, <4>2
    <3>5. ASSUME Fits(c)
          PROVE  LET has == IF pc'[c] = "done" THEN len ELSE i'[c] * Batch IN
                 has <= len /\ tmp'[c] = [k \in 1 .. has |-> m[r.s + k - 1]]
      <4> DEFINE has == IF pc'[c] = "done" THEN len ELSE i'[c] * Batch
      <4>1. has = IF z # 0 \/ i[c] + 1 = MaxRep THEN len ELSE (i[c] + 1) * Batch
        BY <2>4
      <4>2. tmp'[c] = tmp[c] \o more
        BY <2>4
      <4> HIDE DEF has
      <4>3. has <= len /\ tmp[c] \o more = [k \in 1 .. has |-> m[r.s + k - 1]]
        <5>1. /\ Copies(tmp[c], h, m, r.s) /\ Stored(b, m, r.s + h)
              /\ h <= StrLen(m, r.s) /\ StrLen(m, r.s) # -1
          <6>1. Copies(tmp[c], h, m, r.s)
            <7>1. tmp[c] = [k \in 1 .. h |-> m[r.s + k - 1]]  BY <3>4, <3>5
            <7> HIDE DEF r
            <7> QED BY <1>3, <7>1 DEF Copies
          <6>2. Stored(b, m, r.s + h)
            BY <2>1, <3>4, <3>5 DEF Stored
          <6> QED BY <3>4, <3>5, <6>1, <6>2 DEF len
        <5>2. more = IF nul(b) = 0 THEN b ELSE SubSeq(b, 1, nul(b) - 1)
          BY DEF more, z
        <5> DEFINE last == i[c] + 1 = MaxRep
        <5>3. has = IF nul(b) # 0 \/ last THEN StrLen(m, r.s) ELSE h + Batch
          BY <1>3, <4>1 DEF z, len
        <5>4. b \in Seq(Byte) /\ Len(b) = Batch
          BY <2>1
        <5>5. h + Batch <= MaxRep * Batch /\ (last => h + Batch = MaxRep * Batch)
          BY <1>3 DEF most
        <5>6. last \in BOOLEAN /\ r.s \in Nat /\ h \in Nat /\ tmp[c] \in Seq(Byte)
          BY <1>2, <1>3
        <5> HIDE DEF last, r
        <5>7. has <= StrLen(m, r.s) /\ Copies(tmp[c] \o more, has, m, r.s)
          BY <5>1, <5>2, <5>3, <5>4, <5>5, <5>6, BatchTaken
        <5>8. tmp[c] \o more = [k \in 1 .. has |-> m[r.s + k - 1]]
          BY <2>3, <5>6, <5>7, CopyIs
        <5> QED BY <5>7, <5>8 DEF len, r
      <4> QED BY <4>2, <4>3 DEF has
    <3> HIDE DEF r
    <3> QED BY <2>4, <3>1, <3>2, <3>3, <3>5 DEF CStrSoFar, r
  <2>7. rets' = [rets EXCEPT ![c] = rets[c]]
    BY <1>8 DEF Domains
  <2>8. \E l \in {"run", "done"} : pc' = [pc EXCEPT ![c] = l]
    BY <1>8
  <2> QED BY <1>1, <1>2, <1>8, <2>3, <2>5, <2>6, <2>7, <2>8, QuietKeeps
<1> QED
  BY <1>7, <1>8 DEF read_c_str, h, a, b, z, more
-----------------------------------------------------------------------------
(* The other steps.                                                         *)

LEMMA InitKeeps ==
    Init => MemInv /\ Domains
<1> SUFFICES ASSUME Init PROVE MemInv /\ Domains
  OBVIOUS
<1> USE DEF Init
<1>1. Domains
  BY DEF Domains
<1>2. MemTypeOK
  <2>1. \A c \in Chan : i[c] \in 0 .. Max({cmd[c].n, MaxRep, 1})
    <3> TAKE c \in Chan
    <3>1. NoCmd \in Cmd /\ 0 \in Nat /\ 0 <= NoCmd.n  BY DEF NoCmd, Cmd
    <3>2. 0 \in 0 .. Max({NoCmd.n, MaxRep, 1})  BY <3>1, IndexBound
    <3> QED BY <3>2
  <2>2. nops \in 0 .. MaxOps  BY MemAssumption
  <2>3. \A b \in Block : data[b] \in [0 .. size[b] - 1 -> Byte]  BY MemAssumption
  <2>4. mems \in Seq(Block)
    OBVIOUS
  <2>9. poisoned \in BOOLEAN /\ blind \in BOOLEAN
    OBVIOUS
  <2>5. pc \in [Chan -> {"idle", "run", "done", "panic"}]
    OBVIOUS
  <2>6. cmd \in [Chan -> Cmds \cup {NoCmd}] /\ disturbed \in [Chan -> BOOLEAN]
    OBVIOUS
  <2>7. \A c \in Chan : tmp[c] \in Seq(Byte) /\ rets[c] \in -255 .. 255
    OBVIOUS
  <2>8. phase \in {"build", "run", "error", "hung"}
    OBVIOUS
  <2> QED BY <2>1, <2>2, <2>3, <2>4, <2>5, <2>6, <2>7, <2>8, <2>9 DEF MemTypeOK
<1>3. Apart
  BY DEF Apart
<1>4. Whole /\ Coherent /\ Blame
  BY DEF Whole, Coherent, Blame
<1>5. ASSUME NEW c \in Chan PROVE Within(c) /\ SoFar(c)
  BY DEF Within, SoFar, NoCmd
<1> QED BY <1>1, <1>2, <1>3, <1>4, <1>5 DEF MemInv

\* A block that is accepted shares no address with an old one, unless it encloses it.
LEMMA AcceptsApart ==
    ASSUME mems \in Seq(Block), NEW b \in Block, accepts(b), NoneEncloses,
           NEW k \in DOMAIN mems, NEW a \in Int, in_range(b, a), in_range(mems[k], a)
    PROVE  FALSE
<1> DEFINE d == mems[k]
<1>1. d \in Block /\ base[b] \in Nat /\ base[d] \in Nat /\ end_addr(b) \in Nat /\ end_addr(d) \in Nat
      /\ base[b] <= end_addr(b)
  BY BlockFacts
<1>2. ~in_range(d, base[b]) /\ ~in_range(d, end_addr(b))
  <2>1. base[b] \in Int /\ end_addr(b) \in Int  BY <1>1
  <2> QED BY <2>1, FindFirst DEF accepts
<1>3. in_range(d, a)
  OBVIOUS
<1> HIDE DEF d
<1>4. base[b] < base[d] /\ end_addr(b) > end_addr(d)
  BY <1>1, <1>2, <1>3 DEF in_range
<1>5. b # d
  BY <1>1, <1>4
<1> QED BY <1>1, <1>4, <1>5 DEF NoneEncloses

LEMMA AddSpaceKeeps ==
    ASSUME MemInv, Domains, NEW b \in Block, add_space(b)
    PROVE  MemInv' /\ Domains'
<1>1. /\ phase = "build" /\ UNCHANGED <<data, poisoned, pc, cmd, i, tmp, rets, nops, flat, disturbed, blind, was>>
      /\ mems' = (IF accepts(b) THEN Append(mems, b) ELSE mems)
      /\ mems \in Seq(Block) /\ mems' \in Seq(Block)
      /\ phase' \in {"build", "error", "hung"}
  BY DEF add_space, handlers, history, MemInv, MemTypeOK
<1>2. MemTypeOK' /\ Domains'
  BY <1>1 DEF MemInv, MemTypeOK, Domains
<1>3. Apart'
  <2>1. CASE ~accepts(b)
    BY <1>1, <2>1 DEF MemInv, Apart
  <2>2. CASE accepts(b)
    <3> SUFFICES ASSUME NoneEncloses, NEW j \in DOMAIN mems', NEW k \in DOMAIN mems', NEW a \in Int,
                        in_range(mems'[j], a), in_range(mems'[k], a), j # k
                 PROVE  FALSE
      BY DEF Apart
    <3> DEFINE n == Len(mems)
    <3>1. /\ n \in Nat /\ DOMAIN mems' = 1 .. n + 1 /\ DOMAIN mems = 1 .. n
          /\ mems'[n + 1] = b /\ \A h \in 1 .. n : mems'[h] = mems[h]
      BY <1>1, <2>2
    <3> HIDE DEF n
    <3>2. CASE j = n + 1
      <4>1. k \in 1 .. n  BY <3>1, <3>2
      <4> QED BY <1>1, <2>2, <3>1, <3>2, <4>1, AcceptsApart
    <3>3. CASE k = n + 1
      <4>1. j \in 1 .. n  BY <3>1, <3>3
      <4> QED BY <1>1, <2>2, <3>1, <3>3, <4>1, AcceptsApart
    <3>4. CASE j # n + 1 /\ k # n + 1
      <4>1. j \in 1 .. n /\ k \in 1 .. n  BY <3>1, <3>4
      <4> QED BY <3>1, <4>1 DEF MemInv, Apart
    <3> QED BY <3>2, <3>3, <3>4
  <2> QED BY <2>1, <2>2
<1>4. Whole' /\ Coherent' /\ Blame'
  BY <1>1 DEF MemInv, Whole, Coherent, Blame
<1>5. ASSUME NEW c \in Chan PROVE Within(c)' /\ SoFar(c)'
  <2>1. pc[c] = "idle"  BY <1>1 DEF MemInv, Whole
  <2>2. Within(c)  BY DEF MemInv
  <2> QED BY <1>1, <2>1, <2>2 DEF Within, SoFar
<1> QED BY <1>2, <1>3, <1>4, <1>5 DEF MemInv

LEMMA BuildSpacesKeeps ==
    ASSUME MemInv, Domains, build_spaces
    PROVE  MemInv' /\ Domains'
<1>1. /\ phase = "build" /\ phase' = "run" /\ flat' = [a \in Mapped |-> Reading(a)]
      /\ UNCHANGED <<mems, data, poisoned, pc, cmd, i, tmp, rets, nops, disturbed, blind, was>>
  BY DEF build_spaces, handlers
<1>2. MemTypeOK' /\ Domains' /\ Apart'
  BY <1>1 DEF MemInv, MemTypeOK, Domains, Apart
<1>3. \A c \in Chan : pc'[c] = "idle"
  BY <1>1 DEF MemInv, Whole
<1>4. Mapped' = Mapped
  BY <1>1, SameBlocks
<1>5. flat' = [a \in Mapped' |-> flat'[a]]
  BY <1>1, <1>4
<1>6. Whole'
  BY <1>1, <1>3, <1>5 DEF Whole
<1>7. \A a \in DOMAIN flat' : Reading(a)' = flat'[a]
  <2>1. \A a : Reading(a)' = Reading(a)
    BY <1>1, SameBlocks DEF Reading
  <2> QED BY <1>1, <2>1
<1>8. Coherent' /\ Blame'
  BY <1>1, <1>3, <1>7 DEF Coherent, Blame, MemInv, Whole
<1>9. ASSUME NEW c \in Chan PROVE Within(c)' /\ SoFar(c)'
  <2>1. Within(c)  BY DEF MemInv
  <2> QED BY <1>1, <1>3, <2>1 DEF Within, SoFar
<1> QED BY <1>2, <1>6, <1>8, <1>9 DEF MemInv

\* A step that concerns c alone, or nobody, and leaves the memory as it is.
LEMMA OthersStay ==
    ASSUME MemInv, NEW d \in Chan, mems' = mems, flat' = flat, disturbed'[d] = disturbed[d],
           pc'[d] = pc[d], cmd'[d] = cmd[d], i'[d] = i[d], tmp'[d] = tmp[d],
           rets'[d] = rets[d], was'[d] = was[d]
    PROVE  Within(d)' /\ SoFar(d)'
<1>1. Within(d) /\ SoFar(d) /\ MemTypeOK
  BY DEF MemInv
<1>2. Within(d)'
  BY <1>1 DEF Within
<1>3. SoFar(d)'
  BY <1>1, SoFarStays
<1> QED BY <1>2, <1>3

LEMMA RecvReqKeeps ==
    ASSUME MemInv, Domains, NEW c \in Chan, NEW r \in Cmds, recv_req(c, r)
    PROVE  MemInv' /\ Domains'
<1>1. /\ phase = "run" /\ phase' = "run" /\ mems' = mems /\ ~poisoned /\ pc[c] = "idle" /\ nops < MaxOps
      /\ nops' = nops + 1 /\ UNCHANGED <<data, poisoned, flat, blind>>
  BY DEF recv_req, space
<1>2. /\ pc' = [pc EXCEPT ![c] = "run"] /\ cmd' = [cmd EXCEPT ![c] = r]
      /\ i' = [i EXCEPT ![c] = 0] /\ tmp' = [tmp EXCEPT ![c] = <<>>]
      /\ rets' = [rets EXCEPT ![c] = 0] /\ was' = [was EXCEPT ![c] = flat]
      /\ disturbed' = [disturbed EXCEPT ![c] = FALSE]
  BY DEF recv_req
<1>3. /\ pc'[c] = "run" /\ cmd'[c] = r /\ i'[c] = 0 /\ tmp'[c] = <<>> /\ rets'[c] = 0
      /\ was'[c] = flat /\ ~disturbed'[c]
  BY <1>2 DEF Domains, MemInv, MemTypeOK
<1>4. \A d \in Chan : d # c =>
         /\ pc'[d] = pc[d] /\ cmd'[d] = cmd[d] /\ i'[d] = i[d] /\ tmp'[d] = tmp[d]
         /\ rets'[d] = rets[d] /\ was'[d] = was[d] /\ disturbed'[d] = disturbed[d]
  BY <1>2 DEF Domains, MemInv, MemTypeOK
<1>5. /\ r \in Cmd /\ r.d \in Nat /\ r.s \in Nat /\ r.n \in Nat
      /\ MaxRep \in Nat \ {0} /\ Batch \in Nat /\ MaxOps \in Nat
  <2>1. r \in Cmd /\ MaxRep \in Nat \ {0} /\ Batch \in Nat /\ MaxOps \in Nat
    BY MemAssumption
  <2> QED BY <2>1 DEF Cmd
<1>6. Domains'
  BY <1>2 DEF Domains
<1>7. MemTypeOK'
  <2>1. ASSUME NEW d \in Chan PROVE i'[d] \in 0 .. Max({cmd'[d].n, MaxRep, 1})
    <3>1. CASE d = c
      BY <1>3, <1>5, <3>1, IndexBound
    <3>2. CASE d # c
      BY <1>4, <3>2, ZenonT(30) DEF MemInv, MemTypeOK
    <3> QED BY <3>1, <3>2
  <2>2. pc' \in [Chan -> {"idle", "run", "done", "panic"}] /\ cmd' \in [Chan -> Cmds \cup {NoCmd}]
    BY <1>2 DEF MemInv, MemTypeOK
  <2>3. disturbed' \in [Chan -> BOOLEAN]
    BY <1>2 DEF MemInv, MemTypeOK
  <2>4. ASSUME NEW d \in Chan PROVE tmp'[d] \in Seq(Byte) /\ rets'[d] \in -255 .. 255
    <3>1. CASE d = c
      <4>1. <<>> \in Seq(Byte) /\ 0 \in -255 .. 255  OBVIOUS
      <4> QED BY <1>3, <3>1, <4>1
    <3>2. CASE d # c
      BY <1>4, <3>2 DEF MemInv, MemTypeOK
    <3> QED BY <3>1, <3>2
  <2>5. nops' \in 0 .. MaxOps
    BY <1>1, <1>5 DEF MemInv, MemTypeOK
  <2> QED BY <1>1, <2>1, <2>2, <2>3, <2>4, <2>5 DEF MemInv, MemTypeOK
<1>8. Apart'
  BY <1>1 DEF MemInv, Apart
<1>9. Mapped' = Mapped /\ \A a : Reading(a)' = Reading(a)
  BY <1>1, SameBlocks DEF Reading
<1>10. Whole'
  <2>1. \A d \in Chan : pc'[d] \in {"run", "done"} => DOMAIN was'[d] = DOMAIN flat
    BY <1>3, <1>4 DEF MemInv, Whole
  <2> QED BY <1>1, <1>9, <2>1 DEF MemInv, Whole
<1>11. Coherent'
  BY <1>1, <1>9 DEF MemInv, Coherent
<1>12. Blame'
  BY <1>1, <1>3, <1>4 DEF MemInv, Blame
<1>13. ASSUME NEW d \in Chan PROVE Within(d)' /\ SoFar(d)'
  <2>1. CASE d # c
    BY <1>1, <1>4, <2>1, OthersStay
  <2>2. CASE d = c
    <3>1. Within(c)'
      BY <1>3, <1>5 DEF Within
    <3>2. Same(c)'
      BY <1>1, <1>3 DEF Same
    <3>3. MoveSoFar(c)'
      BY <1>3, <3>2 DEF MoveSoFar
    <3>4. SetSoFar(c)'
      <4>1. Span(r.d, 0) = {}  BY <1>5 DEF Span
      <4> QED BY <1>3, <4>1 DEF SetSoFar
    <3>5. CmpSoFar(c)'
      BY <1>3, <3>2 DEF CmpSoFar
    <3>6. StrSoFar(c)'
      BY <1>3, <3>2 DEF StrSoFar
    <3>7. CStrSoFar(c)'
      <4>1. 0 * Batch = 0  BY <1>5
      <4>2. <<>> = [k \in 1 .. 0 |-> flat[r.s + k - 1]]  OBVIOUS
      <4>3. Fits(c)' => StrLen(was[c], cmd[c].s)' >= 0
        BY DEF Fits
      <4>4. Fits(c)' => LET has == i'[c] * Batch IN
               /\ has <= StrLen(was[c], cmd[c].s)'
               /\ tmp'[c] = [k \in 1 .. has |-> was'[c][cmd'[c].s + k - 1]]
        BY <1>3, <4>1, <4>2, <4>3
      <4> QED BY <1>3, <3>2, <4>4 DEF CStrSoFar
    <3>8. SoFar(c)'
      BY <3>3, <3>4, <3>5, <3>6, <3>7 DEF SoFar
    <3> QED BY <2>2, <3>1, <3>8
  <2> QED BY <2>1, <2>2
<1> QED BY <1>6, <1>7, <1>8, <1>10, <1>11, <1>12, <1>13 DEF MemInv

LEMMA SendRespKeeps ==
    ASSUME MemInv, Domains, NEW c \in Chan, send_resp(c)
    PROVE  MemInv' /\ Domains'
<1>1. /\ phase' = phase /\ mems' = mems /\ ~poisoned /\ pc[c] = "done"
      /\ UNCHANGED <<data, poisoned, flat, blind, nops>>
  BY DEF send_resp, space
<1>2. /\ pc' = [pc EXCEPT ![c] = "idle"] /\ cmd' = [cmd EXCEPT ![c] = NoCmd]
      /\ i' = [i EXCEPT ![c] = 0] /\ tmp' = [tmp EXCEPT ![c] = <<>>]
      /\ rets' = [rets EXCEPT ![c] = 0] /\ was' = [was EXCEPT ![c] = <<>>]
      /\ disturbed' = [disturbed EXCEPT ![c] = FALSE]
  BY DEF send_resp
<1>3. pc'[c] = "idle" /\ cmd'[c] = NoCmd /\ i'[c] = 0 /\ tmp'[c] = <<>> /\ rets'[c] = 0
  BY <1>2 DEF Domains, MemInv, MemTypeOK
<1>4. \A d \in Chan : d # c =>
         /\ pc'[d] = pc[d] /\ cmd'[d] = cmd[d] /\ i'[d] = i[d] /\ tmp'[d] = tmp[d]
         /\ rets'[d] = rets[d] /\ was'[d] = was[d] /\ disturbed'[d] = disturbed[d]
  BY <1>2 DEF Domains, MemInv, MemTypeOK
<1>5. NoCmd \in Cmd /\ NoCmd.op = "memset" /\ NoCmd.n = 0
  BY DEF NoCmd, Cmd
<1>6. Domains'
  BY <1>2 DEF Domains
<1>7. MemTypeOK'
  <2>1. ASSUME NEW d \in Chan PROVE i'[d] \in 0 .. Max({cmd'[d].n, MaxRep, 1})
    <3>1. CASE d = c
      BY <1>3, <1>5, <3>1, IndexBound
    <3>2. CASE d # c
      BY <1>4, <3>2, ZenonT(30) DEF MemInv, MemTypeOK
    <3> QED BY <3>1, <3>2
  <2>2. pc' \in [Chan -> {"idle", "run", "done", "panic"}] /\ cmd' \in [Chan -> Cmds \cup {NoCmd}]
    BY <1>2 DEF MemInv, MemTypeOK
  <2>3. disturbed' \in [Chan -> BOOLEAN]
    BY <1>2 DEF MemInv, MemTypeOK
  <2>4. ASSUME NEW d \in Chan PROVE tmp'[d] \in Seq(Byte) /\ rets'[d] \in -255 .. 255
    <3>1. CASE d = c
      <4>1. <<>> \in Seq(Byte) /\ 0 \in -255 .. 255  OBVIOUS
      <4> QED BY <1>3, <3>1, <4>1
    <3>2. CASE d # c
      BY <1>4, <3>2, ZenonT(30) DEF MemInv, MemTypeOK
    <3> QED BY <3>1, <3>2
  <2> QED BY <1>1, <2>1, <2>2, <2>3, <2>4 DEF MemInv, MemTypeOK
<1>8. Apart'
  BY <1>1 DEF MemInv, Apart
<1>9. Mapped' = Mapped /\ \A a : Reading(a)' = Reading(a)
  BY <1>1, SameBlocks DEF Reading
<1>10. Whole'
  <2>1. \A d \in Chan : pc'[d] \in {"run", "done"} => DOMAIN was'[d] = DOMAIN flat
    BY <1>3, <1>4 DEF MemInv, Whole
  <2>2. \A d \in Chan : pc[d] = "idle" => pc'[d] = "idle"
    BY <1>3, <1>4
  <2> QED BY <1>1, <1>9, <2>1, <2>2 DEF MemInv, Whole
<1>11. Coherent'
  BY <1>1, <1>9 DEF MemInv, Coherent
<1>12. Blame'
  BY <1>1, <1>3, <1>4 DEF MemInv, Blame
<1>13. ASSUME NEW d \in Chan PROVE Within(d)' /\ SoFar(d)'
  <2>1. CASE d # c
    BY <1>1, <1>4, <2>1, OthersStay
  <2>2. CASE d = c
    BY <1>3, <1>5, <2>2 DEF Within, SoFar
  <2> QED BY <2>1, <2>2
<1> QED BY <1>6, <1>7, <1>8, <1>10, <1>11, <1>12, <1>13 DEF MemInv

LEMMA UnwrapKeeps ==
    ASSUME MemInv, Domains, NEW c \in Chan, unwrap(c)
    PROVE  MemInv' /\ Domains'
<1>1. /\ phase = "run" /\ poisoned /\ pc[c] # "panic" /\ pc' = [pc EXCEPT ![c] = "panic"]
      /\ UNCHANGED <<phase, mems, data, poisoned, cmd, i, tmp, rets, nops, flat, disturbed, blind, was>>
  BY DEF unwrap, space, history
<1>2. pc'[c] = "panic" /\ \A d \in Chan : d # c => pc'[d] = pc[d]
  BY <1>1 DEF MemInv, MemTypeOK
<1>3. MemTypeOK' /\ Domains' /\ Apart'
  BY <1>1 DEF MemInv, MemTypeOK, Domains, Apart
<1>4. Mapped' = Mapped /\ \A a : Reading(a)' = Reading(a)
  BY <1>1, SameBlocks DEF Reading
<1>5. Whole' /\ Coherent'
  BY <1>1, <1>2, <1>4 DEF MemInv, Whole, Coherent
<1>6. Blame'
  <2>1. \A d \in Chan : Bad(d) => Bad(d)'
    BY <1>1, BadStays
  <2>2. \A d \in Chan : pc[d] = "panic" => pc'[d] = "panic"
    BY <1>2
  <2> QED BY <1>1, <2>1, <2>2 DEF MemInv, Blame
<1>7. ASSUME NEW d \in Chan PROVE Within(d)' /\ SoFar(d)'
  <2>1. CASE d # c
    BY <1>1, <1>2, <2>1, OthersStay
  <2>2. CASE d = c
    <3>1. Within(c)  BY DEF MemInv
    <3> QED BY <1>1, <1>2, <2>2, <3>1 DEF Within, SoFar
  <2> QED BY <2>1, <2>2
<1> QED BY <1>3, <1>5, <1>6, <1>7 DEF MemInv

LEMMA BackdoorKeeps ==
    ASSUME MemInv, Domains, NEW a \in Pokes, NEW v \in Byte, backdoor_write(a, v)
    PROVE  MemInv' /\ Domains'
<1>1. /\ phase = "run" /\ ~poisoned /\ nops < MaxOps /\ nops' = nops + 1
      /\ blind' = (blind \/ poisoned')
      /\ UNCHANGED <<phase, mems, pc, cmd, i, tmp, rets, was>>
  BY DEF backdoor_write, space, handlers
<1>2. a \in Nat /\ <<v, v>> \in Seq(Byte) /\ write("backdoor", a, <<v, v>>)
  BY MemAssumption DEF backdoor_write
<1>3. Sound("backdoor")
  BY <1>1, <1>2, WriteSound
<1>4. \A c \in Chan : c # "backdoor"
  BY MemAssumption
<1>5. MaxOps \in Nat
  BY MemAssumption
<1>6. MemTypeOK' /\ Domains' /\ Apart'
  <2>1. nops' \in 0 .. MaxOps  BY <1>1, <1>5 DEF MemInv, MemTypeOK
  <2>2. blind' \in BOOLEAN  BY <1>1, <1>3 DEF MemInv, MemTypeOK, Sound
  <2> QED BY <1>1, <1>3, <2>1, <2>2 DEF MemInv, MemTypeOK, Domains, Apart, Sound
<1>7. Mapped' = Mapped
  BY <1>1, SameBlocks
<1>8. Whole'
  BY <1>1, <1>3, <1>7 DEF MemInv, Whole, Sound
<1>9. Coherent'
  BY <1>1, <1>3, <1>7 DEF Coherent, Sound
<1>10. Blame'
  BY <1>1 DEF MemInv, Blame
<1>11. ASSUME NEW d \in Chan PROVE Within(d)' /\ SoFar(d)'
  <2>1. Within(d) /\ SoFar(d)  BY DEF MemInv
  <2>2. Within(d)'  BY <1>1, <2>1 DEF Within
  <2>3. /\ DOMAIN flat' = DOMAIN flat
        /\ disturbed[d] => disturbed'[d]
        /\ pc[d] # "idle" /\ ~disturbed'[d] => \A x \in Footprint(d) : x \in DOMAIN flat => flat'[x] = flat[x]
    BY <1>1, <1>3, <1>4 DEF Sound, MemInv, Whole
  <2>4. SoFar(d)'
    BY <1>1, <2>1, <2>3, SoFarStays DEF MemInv
  <2> QED BY <2>2, <2>4
<1> QED BY <1>6, <1>8, <1>9, <1>10, <1>11 DEF MemInv

LEMMA NextKeeps ==
    ASSUME MemInv, Domains, [Next]_vars
    PROVE  MemInv' /\ Domains'
<1>1. CASE UNCHANGED vars
  <2>1. UNCHANGED <<phase, mems, data, poisoned, pc, cmd, i, tmp, rets, nops, flat, disturbed, blind, was>>
    BY <1>1 DEF vars, space, handlers, history
  <2>2. MemTypeOK' /\ Domains' /\ Apart'
    BY <2>1 DEF MemInv, MemTypeOK, Domains, Apart
  <2>3. Mapped' = Mapped /\ \A a : Reading(a)' = Reading(a)
    BY <2>1, SameBlocks DEF Reading
  <2>4. Whole' /\ Coherent'
    BY <2>1, <2>3 DEF MemInv, Whole, Coherent
  <2>5. Blame'
    <3>1. \A d \in Chan : Bad(d) => Bad(d)'
      BY <2>1, BadStays
    <3> QED BY <2>1, <3>1 DEF MemInv, Blame
  <2>6. \A d \in Chan : Within(d)' /\ SoFar(d)'
    BY <2>1, OthersStay
  <2> QED BY <2>2, <2>4, <2>5, <2>6 DEF MemInv
<1>2. ASSUME NEW b \in Block, add_space(b) PROVE MemInv' /\ Domains'
  BY <1>2, AddSpaceKeeps
<1>3. CASE build_spaces
  BY <1>3, BuildSpacesKeeps
<1>4. ASSUME NEW c \in Chan, NEW r \in Cmds, recv_req(c, r) PROVE MemInv' /\ Domains'
  BY <1>4, RecvReqKeeps
<1>5. ASSUME NEW c \in Chan, Handle(c) PROVE MemInv' /\ Domains'
  BY <1>5, MemmoveKeeps, MemsetKeeps, MemcmpKeeps, ReadCStrKeeps, ReadStrKeeps, SendRespKeeps,
     UnwrapKeeps DEF Handle
<1>6. ASSUME NEW a \in Pokes, NEW v \in Byte, backdoor_write(a, v) PROVE MemInv' /\ Domains'
  BY <1>6, BackdoorKeeps
<1> QED BY <1>1, <1>2, <1>3, <1>4, <1>5, <1>6 DEF Next

\* The invariant of the space and of the handlers on it, for any list of blocks, any
\* contents, any number of servers and any commands: the blocks of the space are one
\* array, however a write is cut between them, and every handler that nobody disturbs
\* is a known part of the way through it.
THEOREM MemInvariant == MemSpec => [](MemInv /\ Domains)
<1>1. Init => MemInv /\ Domains
  BY InitKeeps
<1>2. MemInv /\ Domains /\ [Next]_vars => (MemInv /\ Domains)'
  BY NextKeeps
<1> QED BY <1>1, <1>2, PTL DEF MemSpec

\* A handler that is done has done what its command says.
LEMMA ExactIs ==
    MemInv => HandlersExact
<1> SUFFICES ASSUME MemInv, NoneEncloses, NEW c \in Chan, pc[c] = "done", ~disturbed[c]
             PROVE  LET r == cmd[c]  m == was[c] IN
        /\ r.op = "memmove" => \A k \in 0 .. r.n - 1 : Reading(r.d + k) = m[r.s + k]
        /\ r.op = "memset" => \A a \in Span(r.d, r.n) : Reading(a) = r.s % 256
        /\ r.op = "memcmp" =>
              LET diff == {k \in 0 .. r.n - 1 : /\ {r.d + k, r.s + k} \subseteq Mapped
                                               /\ m[r.d + k] # m[r.s + k]} IN
              rets[c] = IF diff = {} THEN 0 ELSE m[r.d + Min(diff)] - m[r.s + Min(diff)]
        /\ r.op = "str" /\ InOneBlock(r.s, r.n) =>
              tmp[c] = [k \in 1 .. r.n |-> m[r.s + k - 1]]
        /\ r.op = "c_str" /\ StrLen(m, r.s) >= 0 /\ BatchesFit(r.s, StrLen(m, r.s)) =>
              tmp[c] = [k \in 1 .. StrLen(m, r.s) |-> m[r.s + k - 1]]
  BY DEF HandlersExact
<1> DEFINE r == cmd[c]
           m == was[c]
<1>1. /\ phase = "run" /\ DOMAIN flat = Mapped /\ SoFar(c) /\ Within(c) /\ mems \in Seq(Block)
      /\ \A a \in DOMAIN flat : Reading(a) = flat[a]
  BY DEF MemInv, Whole, Coherent, MemTypeOK
<1>2. r.d \in Nat /\ r.s \in Nat /\ r.n \in Nat
  BY CmdIs DEF MemInv
<1>3. r.op = "memmove" => \A k \in 0 .. r.n - 1 : Reading(r.d + k) = m[r.s + k]
  BY <1>1 DEF SoFar, MoveSoFar
<1>4. r.op = "memset" => \A a \in Span(r.d, r.n) : Reading(a) = r.s % 256
  <2> SUFFICES ASSUME r.op = "memset" PROVE \A a \in Span(r.d, r.n) : Reading(a) = r.s % 256
    OBVIOUS
  <2>1. i[c] = r.n /\ \A a \in Span(r.d, i[c]) : a \in DOMAIN flat /\ flat[a] = r.s % 256
    BY <1>1 DEF SoFar, SetSoFar
  <2> HIDE DEF r
  <2> QED BY <1>1, <2>1
<1>5. ASSUME r.op = "memcmp"
      PROVE  LET diff == {k \in 0 .. r.n - 1 : /\ {r.d + k, r.s + k} \subseteq Mapped
                                              /\ m[r.d + k] # m[r.s + k]} IN
             rets[c] = IF diff = {} THEN 0 ELSE m[r.d + Min(diff)] - m[r.s + Min(diff)]
  <2> DEFINE diff == {k \in 0 .. r.n - 1 : /\ {r.d + k, r.s + k} \subseteq Mapped
                                           /\ m[r.d + k] # m[r.s + k]}
  <2>1. CmpSoFar(c) /\ Same(c)
    BY <1>1, <1>5 DEF SoFar, CmpSoFar
  <2>2. \A k \in 0 .. i[c] - 1 : m[r.d + k] = m[r.s + k]
    BY <2>1 DEF CmpSoFar
  <2>3. i[c] \in Nat /\ i[c] <= r.n
    BY <1>1, <1>5 DEF Within
  <2>4. rets[c] = IF diff = {} THEN 0 ELSE m[r.d + Min(diff)] - m[r.s + Min(diff)]
    <3>1. CASE rets[c] = 0
      <4>1. i[c] = r.n
        BY <2>1, <3>1 DEF CmpSoFar
      <4>2. diff = {}
        BY <2>2, <4>1
      <4> QED BY <3>1, <4>2
    <3>2. CASE rets[c] # 0
      <4> DEFINE n == i[c]
      <4>1. /\ n < r.n /\ {r.d + n, r.s + n} \subseteq DOMAIN flat
            /\ rets[c] = m[r.d + n] - m[r.s + n]
        BY <2>1, <3>2 DEF CmpSoFar
      <4>2. \A a \in {r.d + n, r.s + n} : m[a] \in Int
        <5> TAKE a \in {r.d + n, r.s + n}
        <5>1. a \in Int /\ a \in Span(r.d, r.n) \cup Span(r.s, r.n)
          BY <1>2, <2>3, <4>1 DEF Span
        <5>2. a \in Footprint(c)
          BY <1>5, <5>1, CmdIs DEF MemInv
        <5>3. a \in DOMAIN flat /\ m[a] = flat[a]
          BY <2>1, <4>1, <5>2 DEF Same
        <5>4. find(a) # 0
          BY <1>1, <5>1, <5>3, MappedIs
        <5>5. data[BlockOf(a)][a - base[BlockOf(a)]] \in Byte
          BY <1>1, <5>1, <5>4, BlockIs DEF MemInv, MemTypeOK
        <5>6. flat[a] \in Byte
          BY <1>1, <5>3, <5>5 DEF Reading
        <5>7. \A x \in Byte : x \in Int  BY MemAssumption
        <5> QED BY <5>3, <5>6, <5>7
      <4>3. m[r.d + n] # m[r.s + n]
        <5>1. PICK x \in Int : x = m[r.d + n]  BY <4>2
        <5>2. PICK y \in Int : y = m[r.s + n]  BY <4>2
        <5>3. rets[c] = x - y  BY <4>1, <5>1, <5>2
        <5> QED BY <3>2, <5>1, <5>2, <5>3
      <4>4. n \in diff
        <5>1. n \in 0 .. r.n - 1  BY <1>2, <2>3, <4>1
        <5> QED BY <1>1, <4>1, <4>3, <5>1
      <4>5. \A k \in diff : k \in Nat /\ ~(k < n)
        <5> TAKE k \in diff
        <5>1. k \in 0 .. r.n - 1 /\ m[r.d + k] # m[r.s + k]  OBVIOUS
        <5> QED BY <1>2, <2>2, <2>3, <5>1
      <4> HIDE DEF diff, n
      <4>6. Min(diff) \in diff /\ \A k \in diff : Min(diff) <= k
        <5>1. diff \in SUBSET Nat  BY <4>5
        <5> QED BY <4>4, <5>1, MinNat
      <4>7. Min(diff) = n
        BY <4>4, <4>5, <4>6
      <4> QED BY <4>1, <4>4, <4>7
    <3> HIDE DEF diff
    <3> QED BY <3>1, <3>2
  <2> HIDE DEF diff
  <2> QED BY <2>4 DEF diff
<1>6. r.op = "str" /\ InOneBlock(r.s, r.n) =>
         tmp[c] = [k \in 1 .. r.n |-> m[r.s + k - 1]]
  BY <1>1 DEF SoFar, StrSoFar
<1>7. r.op = "c_str" /\ StrLen(m, r.s) >= 0 /\ BatchesFit(r.s, StrLen(m, r.s)) =>
         tmp[c] = [k \in 1 .. StrLen(m, r.s) |-> m[r.s + k - 1]]
  BY <1>1 DEF SoFar, CStrSoFar, Fits
<1> QED BY <1>3, <1>4, <1>5, <1>6, <1>7

\* The type invariant of the memory space holds in every reachable state.
THEOREM MemTypeCorrect == MemSpec => []MemTypeOK
<1>1. MemInv => MemTypeOK
  BY DEF MemInv
<1> QED BY <1>1, MemInvariant, PTL

\* The space reads like one array at every step of every handler, unless a listed
\* block encloses another: no list of blocks that add_mem accepts, no cut of a write
\* between blocks and no panic in the middle of one makes a byte read differ from the
\* byte last written at its address.
THEOREM CoherentHolds == MemSpec => []Coherent
<1>1. MemInv => Coherent
  BY DEF MemInv
<1> QED BY <1>1, MemInvariant, PTL

\* memmove, memset, memcmp and the two string reads answer what C says of the memory
\* as it was when they began, whatever the other servers do meanwhile elsewhere, for
\* ranges, batches and contents of any size.
THEOREM HandlersExactHold == MemSpec => []HandlersExact
BY MemInvariant, ExactIs, PTL

\* The servers of a space go down only after a command with a range that it may not be
\* given, or a backdoor write outside every block.
THEOREM PanicsHold == MemSpec => []PanicsJustified
<1>1. MemInv => PanicsJustified
  BY DEF MemInv, Blame, PanicsJustified
<1> QED BY <1>1, MemInvariant, PTL

===============================================================================

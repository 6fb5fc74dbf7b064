---------------------------- MODULE MBQueueProof ----------------------------
(***************************************************************************)
(* The ring arithmetic of MBQueue, for every number of slots and every     *)
(* width of the index word that QueueAssumption admits, and a ring as the  *)
(* sequence of what lies between its indices.                              *)
(***************************************************************************)
EXTENDS MBQueue, SequenceTheorems, TLAPS

\* What division leaves, in the form the provers use it.
LEMMA DivMod ==
    ASSUME NEW a \in Int, NEW b \in Nat \ {0}
    PROVE  /\ a % b \in 0 .. b - 1
           /\ a \div b \in Int
           /\ a = b * (a \div b) + (a % b)
OBVIOUS

\* ... and that nothing else is left.
LEMMA DivModUnique ==
    ASSUME NEW b \in Nat \ {0}, NEW q \in Int, NEW m \in 0 .. b - 1
    PROVE  (b * q + m) % b = m /\ (b * q + m) \div b = q
<1> DEFINE a == b * q + m
<1>1. a \in Int /\ b * q \in Int
  OBVIOUS
<1>2. a % b \in 0 .. b - 1 /\ a \div b \in Int /\ a = b * (a \div b) + (a % b)
  BY <1>1, DivMod
<1>3. a \div b = q
  <2>1. CASE a \div b >= q + 1
    <3>1. b * (a \div b) >= b * (q + 1)
      BY <1>2, <2>1
    <3>2. b * (q + 1) = b * q + b
      OBVIOUS
    <3> QED
      BY <1>1, <1>2, <3>1, <3>2
  <2>2. CASE a \div b <= q - 1
    <3>1. b * (a \div b) <= b * (q - 1)
      BY <1>2, <2>2
    <3>2. b * (q - 1) = b * q - b
      OBVIOUS
    <3> QED
      BY <1>1, <1>2, <3>1, <3>2
  <2> QED
    BY <1>2, <2>1, <2>2
<1> QED
  BY <1>1, <1>2, <1>3

\* The two cases in which a quotient is known without dividing.
LEMMA ModSmall ==
    ASSUME NEW b \in Nat \ {0}, NEW m \in 0 .. b - 1
    PROVE  m % b = m
<1>1. b * 0 + m = m
  OBVIOUS
<1> QED
  BY <1>1, DivModUnique, 0 \in Int

LEMMA ModMinus ==
    ASSUME NEW b \in Nat \ {0}, NEW m \in 0 .. b - 1
    PROVE  (m - b) % b = m
<1>1. b * (-1) + m = m - b
  OBVIOUS
<1>2. (b * (-1) + m) % b = m
  BY DivModUnique, -1 \in Int
<1> QED
  BY <1>1, <1>2

\* An index word is wide enough for two laps, so every slot number is an index.
LEMMA SlotsAreIndices == 2 * MB_MAX_ENTRIES <= IDX_MOD /\ Slot \subseteq Idx
<1> DEFINE L == 2 * MB_MAX_ENTRIES
<1>1. L \in Nat \ {0} /\ IDX_MOD \in Nat \ {0} /\ IDX_MOD % L = 0
  BY QueueAssumption
<1> HIDE DEF L
<1>2. IDX_MOD >= L
  BY <1>1, \A a, b \in Nat \ {0} : a < b => a % b = a
<1>3. L = 2 * MB_MAX_ENTRIES
  BY DEF L
<1> QED
  BY <1>1, <1>2, <1>3, QueueAssumption DEF Slot, Idx

\* What the operations on index words return.
LEMMA IndexTypes ==
    ASSUME NEW i \in Idx
    PROVE  idx_masked(i) \in Slot /\ wrapping_inc(i) \in Idx
<1>1. i \in Nat /\ IDX_MOD \in Nat \ {0} /\ MB_MAX_ENTRIES \in Nat \ {0}
  BY QueueAssumption DEF Idx
<1>2. \A a \in Nat, b \in Nat \ {0} : a % b \in 0 .. b - 1
  OBVIOUS
<1> QED
  BY <1>1, <1>2 DEF Idx, Slot, idx_masked, wrapping_inc

LEMMA ZeroIsIndex == 0 \in Idx /\ 0 \in Slot
BY QueueAssumption DEF Idx, Slot

-----------------------------------------------------------------------------
(* The distance between two indices.                                        *)

LEMMA IncIs ==
    ASSUME NEW i \in Idx
    PROVE  wrapping_inc(i) = IF i + 1 = IDX_MOD THEN 0 ELSE i + 1
<1>1. i \in Int /\ i + 1 \in 0 .. IDX_MOD /\ IDX_MOD \in Nat \ {0}
  BY QueueAssumption DEF Idx
<1>2. CASE i + 1 = IDX_MOD
  <2>1. (IDX_MOD * 1 + 0) % IDX_MOD = 0
    BY <1>1, DivModUnique
  <2> QED
    BY <1>1, <1>2, <2>1 DEF wrapping_inc
<1>3. CASE i + 1 # IDX_MOD
  <2>1. i + 1 \in 0 .. IDX_MOD - 1
    BY <1>1, <1>3
  <2> QED
    BY <1>1, <1>3, <2>1, ModSmall DEF wrapping_inc
<1> QED
  BY <1>2, <1>3

LEMMA AheadIs ==
    ASSUME NEW c \in Idx, NEW p \in Idx
    PROVE  ahead(c, p) = IF c <= p THEN p - c ELSE p - c + IDX_MOD
<1>1. c \in Int /\ p \in Int /\ IDX_MOD \in Nat \ {0} /\ c < IDX_MOD /\ p < IDX_MOD
      /\ c >= 0 /\ p >= 0
  BY QueueAssumption DEF Idx
<1>2. CASE c <= p
  <2>1. p - c \in 0 .. IDX_MOD - 1
    BY <1>1, <1>2
  <2> QED
    BY <1>1, <1>2, <2>1, ModSmall DEF ahead
<1>3. CASE ~(c <= p)
  <2> DEFINE m == p - c + IDX_MOD
  <2>1. m \in 0 .. IDX_MOD - 1 /\ m - IDX_MOD = p - c
    BY <1>1, <1>3
  <2>2. (m - IDX_MOD) % IDX_MOD = m
    BY <1>1, <2>1, ModMinus
  <2> QED
    BY <1>3, <2>1, <2>2 DEF ahead
<1> QED
  BY <1>2, <1>3

\* The distance is that of two counters that run without wrapping, as long as
\* it does not reach the number of values of the word.
LEMMA AheadSteps ==
    ASSUME NEW c \in Idx, NEW p \in Idx
    PROVE  /\ ahead(c, p) \in Idx
           /\ ahead(c, p) = 0 <=> c = p
           /\ ahead(c, p) + 1 < IDX_MOD => ahead(c, wrapping_inc(p)) = ahead(c, p) + 1
           /\ ahead(c, p) > 0 => ahead(wrapping_inc(c), p) = ahead(c, p) - 1
<1>1. c \in Nat /\ p \in Nat /\ IDX_MOD \in Nat \ {0} /\ c < IDX_MOD /\ p < IDX_MOD
  BY QueueAssumption DEF Idx
<1>2. wrapping_inc(c) \in Idx /\ wrapping_inc(p) \in Idx
  BY IndexTypes
<1>3. ahead(c, p) = IF c <= p THEN p - c ELSE p - c + IDX_MOD
  BY AheadIs
<1>4. ahead(c, p) \in Idx /\ (ahead(c, p) = 0 <=> c = p)
  BY <1>1, <1>3 DEF Idx
<1>5. ASSUME ahead(c, p) + 1 < IDX_MOD
      PROVE  ahead(c, wrapping_inc(p)) = ahead(c, p) + 1
  <2>1. wrapping_inc(p) = IF p + 1 = IDX_MOD THEN 0 ELSE p + 1
    BY IncIs
  <2>2. ahead(c, wrapping_inc(p))
          = IF c <= wrapping_inc(p) THEN wrapping_inc(p) - c ELSE wrapping_inc(p) - c + IDX_MOD
    BY <1>2, AheadIs
  <2> QED
    BY <1>1, <1>3, <1>5, <2>1, <2>2
<1>6. ASSUME ahead(c, p) > 0
      PROVE  ahead(wrapping_inc(c), p) = ahead(c, p) - 1
  <2>1. wrapping_inc(c) = IF c + 1 = IDX_MOD THEN 0 ELSE c + 1
    BY IncIs
  <2>2. ahead(wrapping_inc(c), p)
          = IF wrapping_inc(c) <= p THEN p - wrapping_inc(c) ELSE p - wrapping_inc(c) + IDX_MOD
    BY <1>2, AheadIs
  <2> QED
    BY <1>1, <1>3, <1>6, <2>1, <2>2
<1> QED
  BY <1>4, <1>5, <1>6

-----------------------------------------------------------------------------
(* What slot numbers and lap flags tell of the distance.                    *)

\* The word holds a whole number of double laps.
LEMMA WholeLaps == \E laps \in Nat \ {0} : IDX_MOD = MB_MAX_ENTRIES * (2 * laps)
<1>1. 2 * MB_MAX_ENTRIES \in Nat \ {0} /\ IDX_MOD \in Nat \ {0} /\ MB_MAX_ENTRIES \in Nat \ {0}
  BY QueueAssumption
<1> DEFINE L == 2 * MB_MAX_ENTRIES
           laps == IDX_MOD \div L
<1>2. laps \in Int /\ IDX_MOD = L * laps + 0
  <2>1. IDX_MOD \in Int /\ IDX_MOD % L = 0
    BY QueueAssumption
  <2> HIDE DEF L
  <2> QED
    BY <1>1, <2>1, DivMod DEF L
<1>3. laps > 0
  BY <1>1, <1>2
<1>4. L * laps = MB_MAX_ENTRIES * (2 * laps)
  BY <1>1, <1>2
<1> QED
  BY <1>1, <1>2, <1>3, <1>4

\* The slot number and the lap of an index that is d slots further on.
LEMMA Further ==
    ASSUME NEW c \in Idx, NEW p \in Idx
    PROVE  \E q \in Int : p = c + ahead(c, p) + MB_MAX_ENTRIES * (2 * q)
<1>1. PICK laps \in Nat \ {0} : IDX_MOD = MB_MAX_ENTRIES * (2 * laps)
  BY WholeLaps
<1>2. c \in Int /\ p \in Int /\ MB_MAX_ENTRIES \in Nat \ {0}
  BY QueueAssumption DEF Idx
<1>3. CASE c <= p
  <2>1. p = c + ahead(c, p) + MB_MAX_ENTRIES * (2 * 0)
    BY <1>2, <1>3, AheadIs
  <2> QED
    BY <2>1
<1>4. CASE ~(c <= p)
  <2>1. MB_MAX_ENTRIES * (2 * (-laps)) = - IDX_MOD
    BY <1>1, <1>2
  <2>2. p = c + ahead(c, p) + MB_MAX_ENTRIES * (2 * (-laps))
    BY <1>2, <1>4, <2>1, AheadIs, QueueAssumption
  <2>3. -laps \in Int
    OBVIOUS
  <2> QED
    BY <2>2, <2>3
<1> QED
  BY <1>3, <1>4

\* Up to one ring ahead, the slot number advances with the distance and starts
\* over at most once; a whole ring ahead it is back with the lap flag turned.
LEMMA MaskedAhead ==
    ASSUME NEW c \in Idx, NEW p \in Idx, ahead(c, p) <= MB_MAX_ENTRIES
    PROVE  /\ idx_masked(p) = IF idx_masked(c) + ahead(c, p) < MB_MAX_ENTRIES
                              THEN idx_masked(c) + ahead(c, p)
                              ELSE idx_masked(c) + ahead(c, p) - MB_MAX_ENTRIES
           /\ ahead(c, p) = MB_MAX_ENTRIES => idx_flag(c) # idx_flag(p)
<1> DEFINE N == MB_MAX_ENTRIES
           A == ahead(c, p)
           m == c % N
           d == c \div N
<1>1. N \in Nat \ {0} /\ c \in Int /\ p \in Int /\ A \in 0 .. N
  <2>1. A \in Nat
    BY AheadSteps, QueueAssumption DEF Idx
  <2> QED
    BY <2>1, QueueAssumption DEF Idx
<1>2. PICK q \in Int : p = c + A + N * (2 * q)
  BY Further
<1> HIDE DEF A, N
<1>3. m \in 0 .. N - 1 /\ d \in Int /\ c = N * d + m
  BY <1>1, DivMod
<1> HIDE DEF m, d
<1>4. CASE m + A < N
  <2>1. p = N * (d + 2 * q) + (m + A)
    BY <1>1, <1>2, <1>3
  <2>2. m + A \in 0 .. N - 1 /\ d + 2 * q \in Int
    BY <1>1, <1>2, <1>3, <1>4
  <2>3. p % N = m + A
    BY <1>1, <2>1, <2>2, DivModUnique
  <2>4. A # N
    BY <1>1, <1>3, <1>4
  <2> QED
    BY <1>4, <2>3, <2>4 DEF idx_masked, m, A, N
<1>5. CASE ~(m + A < N)
  <2>1. p = N * (d + 1 + 2 * q) + (m + A - N)
    BY <1>1, <1>2, <1>3
  <2>2. m + A - N \in 0 .. N - 1 /\ d + 1 + 2 * q \in Int
    BY <1>1, <1>2, <1>3, <1>5
  <2>3. p % N = m + A - N /\ p \div N = d + 1 + 2 * q
    BY <1>1, <2>1, <2>2, DivModUnique
  <2>4. (d + 1 + 2 * q) % 2 = 0 <=> ~(d % 2 = 0)
    BY <1>2, <1>3
  <2> QED
    BY <1>5, <2>3, <2>4 DEF idx_masked, idx_flag, m, d, A, N
<1> QED
  BY <1>4, <1>5

\* full() and empty() mean what their names say while no index has been lapped.
THEOREM FullAndEmpty ==
    ASSUME NEW c \in Idx, NEW p \in Idx, ahead(c, p) <= MB_MAX_ENTRIES
    PROVE  /\ full(c, p)  <=> ahead(c, p) = MB_MAX_ENTRIES
           /\ empty(c, p) <=> ahead(c, p) = 0
<1>1. ahead(c, p) \in Nat /\ MB_MAX_ENTRIES \in Nat \ {0} /\ idx_masked(c) \in 0 .. MB_MAX_ENTRIES - 1
  BY AheadSteps, IndexTypes, QueueAssumption DEF Idx, Slot
<1>2. idx_masked(c) = idx_masked(p) => ahead(c, p) \in {0, MB_MAX_ENTRIES}
  BY <1>1, MaskedAhead
<1>3. ahead(c, p) = MB_MAX_ENTRIES => idx_masked(c) = idx_masked(p) /\ idx_flag(c) # idx_flag(p)
  BY <1>1, MaskedAhead
<1>4. ahead(c, p) = 0 <=> c = p
  BY AheadSteps
<1> QED
  BY <1>1, <1>2, <1>3, <1>4 DEF full, empty

-----------------------------------------------------------------------------
(* A ring as a sequence.                                                    *)

Ring(f, c, p) == [i \in 1 .. ahead(c, p) |-> f[idx_masked(c + i - 1)]]

\* Two indices that are apart by less than the ring select different slots ...
LEMMA SlotsApart ==
    ASSUME NEW a \in Int, NEW n \in 1 .. MB_MAX_ENTRIES - 1
    PROVE  idx_masked(a + n) # idx_masked(a)
<1> DEFINE N == MB_MAX_ENTRIES
           m == a % N
           d == a \div N
<1>1. N \in Nat \ {0}
  BY QueueAssumption
<1>0. idx_masked(a) = m /\ idx_masked(a + n) = (a + n) % N
  BY DEF idx_masked
<1> HIDE DEF N
<1>2. m \in 0 .. N - 1 /\ d \in Int /\ a = N * d + m
  BY <1>1, DivMod
<1> HIDE DEF m, d
<1>3. n \in 1 .. N - 1
  BY DEF N
<1>4. CASE m + n < N
  <2>1. a + n = N * d + (m + n) /\ m + n \in 0 .. N - 1
    BY <1>1, <1>2, <1>3, <1>4
  <2>2. (N * d + (m + n)) % N = m + n
    BY <1>1, <1>2, <2>1, DivModUnique
  <2> QED
    BY <1>0, <1>1, <1>2, <1>3, <2>1, <2>2
<1>5. CASE ~(m + n < N)
  <2>1. a + n = N * (d + 1) + (m + n - N) /\ m + n - N \in 0 .. N - 1 /\ d + 1 \in Int
    BY <1>1, <1>2, <1>3, <1>5
  <2>2. (N * (d + 1) + (m + n - N)) % N = m + n - N
    BY <1>1, <2>1, DivModUnique
  <2> QED
    BY <1>0, <1>1, <1>2, <1>3, <2>1, <2>2
<1> QED
  BY <1>4, <1>5

\* ... and indices that differ by whole laps select the same one.
LEMMA SlotsMeet ==
    ASSUME NEW a \in Int, NEW q \in Int
    PROVE  idx_masked(a + MB_MAX_ENTRIES * q) = idx_masked(a) /\ idx_masked(a) \in Slot
<1> DEFINE N == MB_MAX_ENTRIES
           m == a % N
           d == a \div N
<1>1. N \in Nat \ {0}
  BY QueueAssumption
<1> HIDE DEF N
<1>2. m \in 0 .. N - 1 /\ d \in Int /\ a = N * d + m
  BY <1>1, DivMod
<1> HIDE DEF m, d
<1>3. a + N * q = N * (d + q) + m /\ d + q \in Int
  BY <1>1, <1>2
<1>4. (a + N * q) % N = m
  BY <1>1, <1>2, <1>3, DivModUnique
<1> QED
  BY <1>2, <1>4 DEF idx_masked, Slot, m, N

\* The word wraps between two laps, so the slots go on as if it did not.
LEMMA SlotsGoOn ==
    ASSUME NEW c \in Idx, NEW n \in Nat
    PROVE  idx_masked(wrapping_inc(c) + n) = idx_masked(c + n + 1)
<1>1. c \in Int /\ IDX_MOD \in Nat
  BY QueueAssumption DEF Idx
<1>2. PICK laps \in Nat \ {0} : IDX_MOD = MB_MAX_ENTRIES * (2 * laps)
  BY WholeLaps
<1>3. CASE c + 1 = IDX_MOD
  <2>1. wrapping_inc(c) + n = n /\ c + n + 1 = n + MB_MAX_ENTRIES * (2 * laps)
    BY <1>1, <1>2, <1>3, IncIs
  <2>2. idx_masked(n + MB_MAX_ENTRIES * (2 * laps)) = idx_masked(n)
    BY SlotsMeet, n \in Int, 2 * laps \in Int
  <2> QED
    BY <2>1, <2>2
<1>4. CASE c + 1 # IDX_MOD
  <2>1. wrapping_inc(c) + n = c + n + 1
    BY <1>1, <1>4, IncIs
  <2> QED
    BY <2>1
<1> QED
  BY <1>3, <1>4

\* The producer's slot is the one behind the last entry.
LEMMA SlotBehind ==
    ASSUME NEW c \in Idx, NEW p \in Idx
    PROVE  idx_masked(p) = idx_masked(c + ahead(c, p))
<1>1. PICK q \in Int : p = c + ahead(c, p) + MB_MAX_ENTRIES * (2 * q)
  BY Further
<1>2. c + ahead(c, p) \in Int
  BY AheadSteps, QueueAssumption DEF Idx
<1> QED
  BY <1>1, <1>2, SlotsMeet, 2 * q \in Int

LEMMA RingIsSeq ==
    ASSUME NEW S, NEW f \in [Slot -> S], NEW c \in Idx, NEW p \in Idx
    PROVE  Ring(f, c, p) \in Seq(S) /\ Len(Ring(f, c, p)) = ahead(c, p)
<1>1. ahead(c, p) \in Nat /\ c \in Int
  BY AheadSteps, QueueAssumption DEF Idx
<1>2. \A i \in 1 .. ahead(c, p) : f[idx_masked(c + i - 1)] \in S
  <2> TAKE i \in 1 .. ahead(c, p)
  <2>1. c + i - 1 \in Int
    BY <1>1
  <2> QED
    BY <2>1, SlotsMeet, 0 \in Int
<1> QED
  BY <1>1, <1>2 DEF Ring

\* While there is room, no entry is in the producer's slot: what is written there
\* is not part of the ring.
LEMMA RingKept ==
    ASSUME NEW f, NEW g, NEW c \in Idx, NEW p \in Idx, ahead(c, p) < MB_MAX_ENTRIES,
           \A i \in Slot \ {idx_masked(p)} : g[i] = f[i]
    PROVE  Ring(g, c, p) = Ring(f, c, p)
<1> DEFINE A == ahead(c, p)
<1>1. A \in Nat /\ c \in Int /\ MB_MAX_ENTRIES \in Nat \ {0}
  BY AheadSteps, QueueAssumption DEF Idx
<1>2. idx_masked(p) = idx_masked(c + A)
  BY SlotBehind
<1>3. ASSUME NEW i \in 1 .. A PROVE g[idx_masked(c + i - 1)] = f[idx_masked(c + i - 1)]
  <2>1. c + i - 1 \in Int /\ A - (i - 1) \in 1 .. MB_MAX_ENTRIES - 1
        /\ (c + i - 1) + (A - (i - 1)) = c + A
    BY <1>1
  <2>2. idx_masked(c + i - 1) # idx_masked(c + A)
    BY <2>1, SlotsApart
  <2>3. idx_masked(c + i - 1) \in Slot
    BY <2>1, SlotsMeet, 0 \in Int
  <2> QED
    BY <1>2, <2>2, <2>3
<1> QED
  BY <1>3 DEF Ring

\* An entry is put at the end.
LEMMA RingPut ==
    ASSUME NEW S, NEW f \in [Slot -> S], NEW c \in Idx, NEW p \in Idx, NEW m \in S,
           ahead(c, p) < MB_MAX_ENTRIES
    PROVE  /\ Ring([f EXCEPT ![idx_masked(p)] = m], c, wrapping_inc(p)) = Append(Ring(f, c, p), m)
           /\ ahead(c, wrapping_inc(p)) = ahead(c, p) + 1
<1> DEFINE A == ahead(c, p)
           g == [f EXCEPT ![idx_masked(p)] = m]
           new == Ring(g, c, wrapping_inc(p))
<1>1. A \in Nat /\ c \in Int /\ MB_MAX_ENTRIES \in Nat \ {0} /\ IDX_MOD \in Nat
      /\ 2 * MB_MAX_ENTRIES <= IDX_MOD
  BY AheadSteps, SlotsAreIndices, QueueAssumption DEF Idx
<1>2. ahead(c, wrapping_inc(p)) = A + 1
  BY <1>1, AheadSteps
<1>3. wrapping_inc(p) \in Idx /\ idx_masked(p) \in Slot
  BY IndexTypes
<1>4. g \in [Slot -> S]
  BY <1>3
<1>5. \A i \in 1 .. A : g[idx_masked(c + i - 1)] = f[idx_masked(c + i - 1)]
  <2>0. \A i \in Slot \ {idx_masked(p)} : g[i] = f[i]
    OBVIOUS
  <2>1. Ring(g, c, p) = Ring(f, c, p)
    <3> HIDE DEF g
    <3> QED
      BY <2>0, RingKept
  <2>2. \A i \in 1 .. A : Ring(g, c, p)[i] = g[idx_masked(c + i - 1)]
                         /\ Ring(f, c, p)[i] = f[idx_masked(c + i - 1)]
    BY DEF Ring
  <2> QED
    BY <2>1, <2>2
<1>6. g[idx_masked(c + (A + 1) - 1)] = m
  <2>1. c + (A + 1) - 1 = c + A
    BY <1>1
  <2> QED
    BY <1>3, <2>1, SlotBehind
<1>7. Ring(f, c, p) \in Seq(S) /\ Len(Ring(f, c, p)) = A
  BY RingIsSeq, ZenonT(30)
<1>8. new \in Seq(S) /\ Len(new) = A + 1
  <2> HIDE DEF g
  <2> QED
    BY <1>2, <1>3, <1>4, RingIsSeq, ZenonT(30)
<1>9. \A i \in 1 .. A + 1 : new[i] = Append(Ring(f, c, p), m)[i]
  <2> TAKE i \in 1 .. A + 1
  <2>1. new[i] = g[idx_masked(c + i - 1)]
    BY <1>2 DEF Ring
  <2>2. CASE i \in 1 .. A
    <3>1. Append(Ring(f, c, p), m)[i] = Ring(f, c, p)[i] /\ Ring(f, c, p)[i] = f[idx_masked(c + i - 1)]
      BY <1>1, <1>7, <2>2 DEF Ring
    <3> QED
      BY <1>5, <2>1, <2>2, <3>1
  <2>3. CASE i = A + 1
    <3>1. Append(Ring(f, c, p), m)[Len(Ring(f, c, p)) + 1] = m
      BY <1>7, AppendProperties, Zenon
    <3> QED
      BY <1>6, <1>7, <2>1, <2>3, <3>1
  <2>4. i \in 1 .. A \/ i = A + 1
    BY <1>1
  <2> QED
    BY <2>2, <2>3, <2>4
<1>10. Append(Ring(f, c, p), m) \in Seq(S) /\ Len(Append(Ring(f, c, p), m)) = A + 1
  BY <1>7, AppendProperties
<1> HIDE DEF new, A
<1>11. new = Append(Ring(f, c, p), m)
  BY <1>1, <1>8, <1>9, <1>10, SeqEqual
<1> QED
  BY <1>2, <1>11 DEF new, A

\* An entry is taken from the front.
LEMMA RingTake ==
    ASSUME NEW S, NEW f \in [Slot -> S], NEW c \in Idx, NEW p \in Idx, ahead(c, p) > 0
    PROVE  /\ Ring(f, c, p) # <<>> /\ Head(Ring(f, c, p)) = f[idx_masked(c)]
           /\ Ring(f, wrapping_inc(c), p) = Tail(Ring(f, c, p))
           /\ ahead(wrapping_inc(c), p) = ahead(c, p) - 1
<1> DEFINE A == ahead(c, p)
           old == Ring(f, c, p)
           new == Ring(f, wrapping_inc(c), p)
<1>1. A \in Nat /\ c \in Int /\ ahead(wrapping_inc(c), p) = A - 1 /\ wrapping_inc(c) \in Idx
  BY AheadSteps, IndexTypes, QueueAssumption DEF Idx
<1>2. old \in Seq(S) /\ Len(old) = A /\ new \in Seq(S) /\ Len(new) = A - 1
  BY <1>1, RingIsSeq, ZenonT(30)
<1>3. old # <<>> /\ Head(old) = old[1]
  BY <1>1, <1>2, EmptySeq
<1>4. old[1] = f[idx_masked(c)]
  <2>1. c + 1 - 1 = c /\ 1 \in 1 .. A
    BY <1>1
  <2> QED
    BY <2>1 DEF Ring
<1>5. \A i \in 1 .. A - 1 : new[i] = Tail(old)[i]
  <2> TAKE i \in 1 .. A - 1
  <2>1. new[i] = f[idx_masked(wrapping_inc(c) + i - 1)]
    BY <1>1 DEF Ring
  <2>2. i - 1 \in Nat /\ wrapping_inc(c) + i - 1 = wrapping_inc(c) + (i - 1)
        /\ c + (i - 1) + 1 = c + (i + 1) - 1 /\ i + 1 \in 1 .. A
    BY <1>1, QueueAssumption DEF Idx
  <2>3. idx_masked(wrapping_inc(c) + (i - 1)) = idx_masked(c + (i - 1) + 1)
    BY <2>2, SlotsGoOn
  <2>4. old[i + 1] = f[idx_masked(c + (i + 1) - 1)]
    BY <2>2 DEF Ring
  <2>5. Tail(old)[i] = old[i + 1]
    BY <1>1, <1>2, <1>3, HeadTailProperties
  <2> QED
    BY <2>1, <2>2, <2>3, <2>4, <2>5
<1>6. Tail(old) \in Seq(S) /\ Len(Tail(old)) = A - 1
  BY <1>2, <1>3, HeadTailProperties
<1> HIDE DEF old, new, A
<1>7. new = Tail(old)
  BY <1>1, <1>2, <1>5, <1>6, SeqEqual
<1> QED
  BY <1>1, <1>3, <1>4, <1>7 DEF old, new, A

==============================================================================

-------------------------- MODULE MBShareMemProps --------------------------
(***************************************************************************)
(* What a space and the handlers on it must guarantee.                     *)
(***************************************************************************)
EXTENDS MBShareMem

\* The type invariant.
MemTypeOK ==
    /\ phase \in {"build", "run", "error", "hung"}
    /\ mems \in Seq(Block)
    /\ \A b \in Block : data[b] \in [0 .. size[b] - 1 -> Byte]
    /\ poisoned \in BOOLEAN /\ blind \in BOOLEAN
    /\ pc \in [Chan -> {"idle", "run", "done", "panic"}]
    /\ cmd \in [Chan -> Cmds \cup {NoCmd}]
    /\ \A c \in Chan : i[c] \in 0 .. Max({cmd[c].n, MaxRep, 1})
    /\ \A c \in Chan : tmp[c] \in Seq(Byte) /\ rets[c] \in -255 .. 255
    /\ disturbed \in [Chan -> BOOLEAN] /\ nops \in 0 .. MaxOps

\* add_mem says "Overlapped!" (share_mem.rs:22) and the builder "is overlapped with
\* other memory!" (mb_builder.rs:71): no address has two blocks in a space.
NoOverlap ==
    \A j, k \in DOMAIN mems : j # k =>
        \A a \in base[mems[j]] .. end_addr(mems[j]) : ~in_range(mems[k], a)

NoneEncloses ==
    \A b, d \in Block : b # d => ~(base[b] < base[d] /\ end_addr(b) > end_addr(d))

\* Unless a configuration lists a block that encloses another (the case add_mem
\* misses), what is read at an address is what was last written there, whichever
\* blocks the write went through.
Coherent ==
    phase = "run" /\ NoneEncloses => \A a \in DOMAIN flat : Reading(a) = flat[a]

InOneBlock(a, n) == \E j \in DOMAIN mems : Span(a, n) \subseteq Span(base[mems[j]], size[mems[j]])

\* The length of the string at a in the array m, -1 if it is not terminated in time.
StrLen(m, a) ==
    LET z == {k \in 0 .. MaxRep * Batch - 1 : a + k \in DOMAIN m /\ m[a + k] = 0
                                            /\ Span(a, k) \subseteq DOMAIN m}
    IN IF z = {} THEN -1 ELSE Min(z)

\* Every batch up to the one that has the end of the string is within a block.
BatchesFit(a, n) ==
    \A k \in 0 .. MaxRep - 1 : k * Batch <= n => InOneBlock(a + k * Batch, Batch)

\* A handler whose memory nobody else wrote meanwhile has done what C says, in the
\* memory as it was when it began, whatever the other servers were at: memmove with
\* overlapping ranges, memset, memcmp, and the strings that fit.
HandlersExact ==
    NoneEncloses => \A c \in Chan : pc[c] = "done" /\ ~disturbed[c] =>
        LET r == cmd[c]  m == was[c] IN
        /\ r.op = "memmove" => \A k \in 0 .. r.n - 1 : Reading(r.d + k) = m[r.s + k]
        /\ r.op = "memset" => \A a \in Span(r.d, r.n) : Reading(a) = r.s % 256
        /\ r.op = "memcmp" =>
              LET diff == {k \in 0 .. r.n - 1 : /\ {r.d + k, r.s + k} \subseteq Mapped
                                               /\ m[r.d + k] # m[r.s + k]} IN
              rets[c] = IF diff = {} THEN 0 ELSE m[r.d + Min(diff)] - m[r.s + Min(diff)]
        /\ r.op = "str" /\ InOneBlock(r.s, r.n) =>
              tmp[c] = [k \in 1 .. r.n |-> m[r.s + k - 1]]
        /\ r.op = "c_str" /\ StrLen(m, r.s) >= 0 /\ BatchesFit(r.s, StrLen(m, r.s)) =>
              tmp[c] = [k \in 1 .. StrLen(m, r.s) |-> m[r.s + k - 1]]

Covered == UNION {Span(base[mems[j]], size[mems[j]]) : j \in DOMAIN mems}

\* A range that a handler may not be given.
Bad(c) ==
    LET r == cmd[c] IN
    \/ r.op = "memmove" /\ (~InOneBlock(r.s, r.n) \/ ~(Span(r.d, r.n) \subseteq Covered))
    \/ r.op = "memset"  /\ ~(Span(r.d, r.n) \subseteq Covered)
    \/ r.op = "memcmp"  /\ ~(Span(r.d, r.n) \cup Span(r.s, r.n) \subseteq Covered)
    \/ r.op = "str"     /\ r.s \notin Covered
    \/ r.op = "c_str"   /\ \/ StrLen(was[c], r.s) = -1 \/ disturbed[c]
                           \/ ~BatchesFit(r.s, StrLen(was[c], r.s))

\* One command with a bad range takes the servers of all channels of the space down,
\* through the poisoned Mutex; nothing else does.
PanicsJustified ==
    NoneEncloses /\ (\E c \in Chan : pc[c] = "panic") =>
        poisoned /\ (blind \/ \E c \in Chan : pc[c] = "panic" /\ Bad(c))
===============================================================================

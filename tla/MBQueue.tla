------------------------------- MODULE MBQueue -------------------------------
(***************************************************************************)
(* The index arithmetic of the two ring buffers of a mailbox channel       *)
(* (mb_channel.rs).  An index is a free-running u32 word; its low bits     *)
(* select a slot and the next bit is the lap flag that tells a full ring   *)
(* from an empty one.                                                      *)
(***************************************************************************)
EXTENDS Integers

CONSTANTS MB_MAX_ENTRIES,  \* slots of a ring (8 in the code)
          IDX_MOD          \* number of values of an index word (2^32)

\* The ring has slots, and the word holds a whole number of double laps:
\* 2^32 is a multiple of 2*8.
ASSUME QueueAssumption ==
    /\ MB_MAX_ENTRIES \in Nat \ {0}
    /\ IDX_MOD \in Nat \ {0}
    /\ IDX_MOD % (2 * MB_MAX_ENTRIES) = 0

Idx  == 0 .. IDX_MOD - 1
Slot == 0 .. MB_MAX_ENTRIES - 1

idx_masked(i) == i % MB_MAX_ENTRIES

idx_flag(i) == (i \div MB_MAX_ENTRIES) % 2 = 0

\* Bug: the index is not kept in its word.
wrapping_inc_Wide(i) == i + 1

wrapping_inc(i) == (i + 1) % IDX_MOD

full(c, p) == idx_masked(c) = idx_masked(p) /\ idx_flag(c) # idx_flag(p)

empty(c, p) == idx_masked(c) = idx_masked(p) /\ idx_flag(c) = idx_flag(p)

\* How far the producer index p is ahead of the consumer index c.
ahead(c, p) == (p - c) % IDX_MOD

==============================================================================

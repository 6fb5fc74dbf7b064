------------------------------ MODULE MBShareMem ------------------------------
(***************************************************************************)
(* The memory the host sees (share_mem.rs): a space is a list of blocks,   *)
(* built by add_mem, read and written through the first block that has the *)
(* address.  On it work the memory handlers of the servers of several      *)
(* channels (memmove.rs, memset.rs, memcmp.rs), the strings of the pointer *)
(* resolver, and the backdoor of a simulation (macros.rs).  The Mutex of   *)
(* the space is held for one access; a panic under it poisons it.          *)
(***************************************************************************)
EXTENDS Integers, Sequences, SequencesExt, FiniteSetsExt

CONSTANTS Block,          \* the blocks a configuration may list
          Shared,         \* those that are listed by name and may come again
          base, size,     \* of each block
          Byte,           \* what a byte may be; 0 is NUL
          content,        \* what its owner has put into each block
          Chan,           \* the channels, each with its server
          Cmds,           \* the commands firmware may send
          Pokes,          \* the addresses the backdoor writes
          Batch, MaxRep,  \* read_c_str: bytes of a batch, batches at most
          MaxOps          \* bound: commands and backdoor writes

Cmd == [op : {"memmove", "memset", "memcmp", "c_str", "str"}, d : Nat, s : Nat, n : Nat]

ASSUME MemAssumption ==
    /\ Shared \subseteq Block
    /\ base \in [Block -> Nat] /\ size \in [Block -> Nat \ {0}]
    /\ 0 \in Byte /\ Byte \subseteq 0 .. 255
    /\ \A b \in Block : content[b] \in [0 .. size[b] - 1 -> Byte]
    /\ Cmds \subseteq Cmd /\ Pokes \subseteq Nat
    /\ \A r \in Cmds : r.op = "memset" => r.s % 256 \in Byte
    /\ "backdoor" \notin Chan
    /\ Batch \in Nat \ {0} /\ MaxRep \in Nat \ {0} /\ MaxOps \in Nat

VARIABLES
    phase,          \* of the configuration: build, run, error or hung
    mems,           \* the blocks of the space, in the order they were added
    data,           \* the contents of every block
    poisoned,       \* the Mutex of the space is poisoned
    pc, cmd,        \* of each server: where its handler is, and the command
    i, tmp, rets,   \* of each server: loop index, buffer, answer
    nops,           \* commands so far (bounded)
    flat,           \* history: what an array in place of the space would hold
    was,            \* history: of each server, flat when its command began
    disturbed,      \* history: others have written to what its command is about
    blind           \* history: the backdoor has written where no block is

space    == <<phase, mems>>
handlers == <<pc, cmd, i, tmp, rets>>
history  == <<flat, disturbed, blind>>
vars     == <<space, data, poisoned, handlers, nops, history, was>>

end_addr(b)    == size[b] - 1 + base[b]

\* Bug: the last byte is not in the block.
in_range_Open(b, a) == a >= base[b] /\ a < end_addr(b)

in_range(b, a) == a >= base[b] /\ a <= end_addr(b)

\* The index of the first block that has the address, 0 if none does.
find(a)     == SelectInSeq(mems, LAMBDA b : in_range(b, a))
BlockOf(a)  == mems[find(a)]
Reading(a)  == data[BlockOf(a)][a - base[BlockOf(a)]]

Span(a, n) == a .. a + n - 1
Mapped     == {a \in UNION {base[b] .. end_addr(b) : b \in Block} : find(a) # 0}

NoCmd == [op |-> "memset", d |-> 0, s |-> 0, n |-> 0]

Init ==
    /\ phase = "build" /\ mems = <<>>
    /\ data = content
    /\ poisoned = FALSE
    /\ pc = [c \in Chan |-> "idle"] /\ cmd = [c \in Chan |-> NoCmd]
    /\ i = [c \in Chan |-> 0] /\ tmp = [c \in Chan |-> <<>>] /\ rets = [c \in Chan |-> 0]
    /\ nops = 0
    /\ flat = <<>> /\ was = [c \in Chan |-> <<>>]
    /\ disturbed = [c \in Chan |-> FALSE] /\ blind = FALSE

-----------------------------------------------------------------------------
(* Configuration.                                                           *)

\* Bug: tests the first address only.
accepts_Base(b) == find(base[b]) = 0

\* add_mem looks whether an old block has either end of the new one.
accepts(b) == find(base[b]) = 0 /\ find(end_addr(b)) = 0

\* add_mem holds the Mutex of the block and locks every block of the list in turn:
\* a shared block that is listed again waits for itself.
Hangs(b) == find(base[b]) # 0 /\ BlockOf(base[b]) = b /\ b \in Shared

\* add_space takes the next block of the configuration, or gives up.
add_space(b) ==
    /\ phase = "build"
    /\ mems' = IF accepts(b) THEN Append(mems, b) ELSE mems
    /\ phase' = CASE Hangs(b) -> "hung" [] accepts(b) -> "build" [] OTHER -> "error"
    /\ UNCHANGED <<data, poisoned, handlers, nops, history, was>>

\* The space is complete and the servers start.
build_spaces ==
    /\ phase = "build" /\ mems # <<>>
    /\ phase' = "run"
    /\ flat' = [a \in Mapped |-> Reading(a)]
    /\ UNCHANGED <<mems, data, poisoned, handlers, nops, disturbed, blind, was>>

-----------------------------------------------------------------------------
(* Accesses.                                                                *)

\* The block each byte of a write goes to, 0 from the first that has none: a block
\* takes all it can, and the rest goes to the first block that has its address.
Owners(a, n) ==
    LET o[j \in 0 .. n - 1] ==
            IF j > 0 /\ (o[j - 1] = 0 \/ in_range(mems[o[j - 1]], a + j))
            THEN o[j - 1] ELSE find(a + j)
    IN o

\* What the command of a server reads or writes.
Footprint(c) ==
    LET r == cmd[c] IN
    CASE r.op \in {"memmove", "memcmp"} -> Span(r.d, r.n) \cup Span(r.s, r.n)
      [] r.op = "memset" -> Span(r.d, r.n)
      [] r.op = "str"    -> Span(r.s, r.n)
      [] r.op = "c_str"  -> Span(r.s, MaxRep * Batch)

\* write: where no block is, it panics under the Mutex with the first part written.
write(who, a, bytes) ==
    LET o   == Owners(a, Len(bytes))
        put == {j \in DOMAIN o : o[j] # 0}
    IN
    /\ data' = [b \in Block |-> [k \in DOMAIN data[b] |->
           LET j == base[b] + k - a IN
           IF j \in put /\ mems[o[j]] = b THEN bytes[j + 1] ELSE data[b][k]]]
    /\ flat' = [x \in DOMAIN flat |-> IF x - a \in put THEN bytes[x - a + 1] ELSE flat[x]]
    /\ disturbed' = [c \in Chan |-> disturbed[c] \/
           (c # who /\ pc[c] # "idle" /\ \E j \in put : a + j \in Footprint(c))]
    /\ poisoned' = (put # DOMAIN o)

\* read: what the first block has of it, nothing where no block is.
read(a, n) ==
    IF n = 0 \/ find(a) = 0 THEN <<>>
    ELSE [j \in 1 .. Min({n, end_addr(BlockOf(a)) + 1 - a}) |-> data[BlockOf(a)][a + j - 1 - base[BlockOf(a)]]]

\* A BufReader on a reader of the space, which never advances: once it has used up
\* what one read gave, it reads the same again.
stream(a, n) ==
    LET r == read(a, n) IN [j \in 1 .. n |-> r[((j - 1) % Len(r)) + 1]]

-----------------------------------------------------------------------------
(* The handlers.  Each of their accesses locks the space anew.              *)

Working(c, op) == pc[c] = "run" /\ cmd[c].op = op /\ ~poisoned

\* A server that runs has just read its request out of the space.
recv_req(c, r) ==
    /\ phase = "run" /\ ~poisoned /\ pc[c] = "idle"
    /\ nops < MaxOps /\ nops' = nops + 1
    /\ pc' = [pc EXCEPT ![c] = "run"] /\ cmd' = [cmd EXCEPT ![c] = r]
    /\ i' = [i EXCEPT ![c] = 0] /\ tmp' = [tmp EXCEPT ![c] = <<>>]
    /\ rets' = [rets EXCEPT ![c] = 0]
    /\ was' = [was EXCEPT ![c] = flat] /\ disturbed' = [disturbed EXCEPT ![c] = FALSE]
    /\ UNCHANGED <<space, data, poisoned, flat, blind>>

\* The answer is sent and the handler forgotten.
send_resp(c) ==
    /\ pc[c] = "done" /\ ~poisoned
    /\ pc' = [pc EXCEPT ![c] = "idle"] /\ cmd' = [cmd EXCEPT ![c] = NoCmd]
    /\ i' = [i EXCEPT ![c] = 0] /\ tmp' = [tmp EXCEPT ![c] = <<>>]
    /\ rets' = [rets EXCEPT ![c] = 0]
    /\ was' = [was EXCEPT ![c] = <<>>] /\ disturbed' = [disturbed EXCEPT ![c] = FALSE]
    /\ UNCHANGED <<space, data, poisoned, nops, flat, blind>>

\* A read that is short, or of no block, panics in the space and poisons it.
Fails(c) ==
    /\ poisoned' = TRUE /\ pc' = [pc EXCEPT ![c] = "panic"]
    /\ UNCHANGED <<data, i, tmp, rets, flat, disturbed>>

Goes(c, last) == pc' = [pc EXCEPT ![c] = IF poisoned' THEN "panic" ELSE IF last THEN "done" ELSE "run"]

memmove(c) ==
    LET r == cmd[c] IN
    /\ Working(c, "memmove")
    /\ \/ /\ i[c] = 0
          /\ IF Len(read(r.s, r.n)) = r.n
             THEN /\ tmp' = [tmp EXCEPT ![c] = read(r.s, r.n)] /\ i' = [i EXCEPT ![c] = 1]
                  /\ UNCHANGED <<pc, data, poisoned, rets, flat, disturbed>>
             ELSE Fails(c)
       \/ /\ i[c] = 1
          /\ write(c, r.d, tmp[c]) /\ Goes(c, TRUE)
          /\ UNCHANGED <<i, tmp, rets>>
    /\ UNCHANGED <<space, cmd, nops, was, blind>>

\* Bug: keeps the whole word.
as_u8_Wide(v) == v

as_u8(v) == v % 256

memset(c) ==
    LET r == cmd[c] IN
    /\ Working(c, "memset")
    /\ IF i[c] < r.n
       THEN /\ write(c, r.d + i[c], <<as_u8(r.s)>>) /\ Goes(c, FALSE)
            /\ i' = [i EXCEPT ![c] = @ + 1]
       ELSE UNCHANGED <<data, poisoned, flat, disturbed, i>> /\ Goes(c, TRUE)
    /\ UNCHANGED <<space, cmd, tmp, rets, nops, was, blind>>

\* One byte of one string, then the same byte of the other.
memcmp(c) ==
    LET r    == cmd[c]
        here == read((IF tmp[c] = <<>> THEN r.d ELSE r.s) + i[c], 1)
    IN
    /\ Working(c, "memcmp")
    /\ IF i[c] < r.n /\ here = <<>> THEN Fails(c)
       ELSE /\ UNCHANGED <<data, poisoned, flat, disturbed>>
            /\ IF i[c] = r.n \/ rets[c] # 0
               THEN Goes(c, TRUE) /\ UNCHANGED <<i, tmp, rets>>
               ELSE IF tmp[c] = <<>>
               THEN tmp' = [tmp EXCEPT ![c] = here] /\ UNCHANGED <<pc, i, rets>>
               ELSE /\ rets' = [rets EXCEPT ![c] = tmp[c][1] - here[1]]
                    /\ tmp' = [tmp EXCEPT ![c] = <<>>]
                    /\ i' = [i EXCEPT ![c] = IF rets'[c] = 0 THEN @ + 1 ELSE @]
                    /\ UNCHANGED pc
    /\ UNCHANGED <<space, cmd, nops, was, blind>>

\* Where the first NUL of a batch is, 0 if it has none.
nul(b) == SelectInSeq(b, LAMBDA x : x = 0)

\* Bug: the next batch starts one byte early.
read_c_str_Early(c) ==
    LET r == cmd[c]
        a == r.s + i[c] * (Batch - 1)
        b == stream(a, Batch)
        z == nul(b)
    IN
    /\ Working(c, "c_str")
    /\ IF find(a) = 0 THEN Fails(c)
       ELSE /\ tmp' = [tmp EXCEPT ![c] = @ \o IF z = 0 THEN b ELSE SubSeq(b, 1, z - 1)]
            /\ i' = [i EXCEPT ![c] = @ + 1]
            /\ pc' = [pc EXCEPT ![c] = IF z # 0 \/ i'[c] = MaxRep THEN "done" ELSE "run"]
            /\ UNCHANGED <<data, poisoned, rets, flat, disturbed>>
    /\ UNCHANGED <<space, cmd, nops, was, blind>>

\* Batch after batch until one ends in NUL; after the last, whatever there is.
read_c_str(c) ==
    LET r == cmd[c]
        a == r.s + i[c] * Batch
        b == stream(a, Batch)
        z == nul(b)
    IN
    /\ Working(c, "c_str")
    /\ IF find(a) = 0 THEN Fails(c)
       ELSE /\ tmp' = [tmp EXCEPT ![c] = @ \o IF z = 0 THEN b ELSE SubSeq(b, 1, z - 1)]
            /\ i' = [i EXCEPT ![c] = @ + 1]
            /\ pc' = [pc EXCEPT ![c] = IF z # 0 \/ i'[c] = MaxRep THEN "done" ELSE "run"]
            /\ UNCHANGED <<data, poisoned, rets, flat, disturbed>>
    /\ UNCHANGED <<space, cmd, nops, was, blind>>

read_str(c) ==
    LET r == cmd[c] IN
    /\ Working(c, "str")
    /\ IF r.n > 0 /\ find(r.s) = 0 THEN Fails(c)
       ELSE /\ tmp' = [tmp EXCEPT ![c] = stream(r.s, r.n)]
            /\ pc' = [pc EXCEPT ![c] = "done"]
            /\ UNCHANGED <<data, poisoned, i, rets, flat, disturbed>>
    /\ UNCHANGED <<space, cmd, nops, was, blind>>

\* lock().unwrap() on a poisoned Mutex, of the handler or of the channel itself.
unwrap(c) ==
    /\ phase = "run" /\ poisoned /\ pc[c] # "panic"
    /\ pc' = [pc EXCEPT ![c] = "panic"]
    /\ UNCHANGED <<space, data, poisoned, cmd, i, tmp, rets, nops, history, was>>

\* mb_backdoor_write_*: a word from outside at any time.
backdoor_write(a, v) ==
    /\ phase = "run" /\ ~poisoned
    /\ nops < MaxOps /\ nops' = nops + 1
    /\ write("backdoor", a, <<v, v>>)
    /\ blind' = (blind \/ poisoned')
    /\ UNCHANGED <<space, handlers, was>>

Handle(c) ==
    \/ memmove(c) \/ memset(c) \/ memcmp(c) \/ read_c_str(c) \/ read_str(c)
    \/ send_resp(c) \/ unwrap(c)

Next ==
    \/ \E b \in Block : add_space(b)
    \/ build_spaces
    \/ \E c \in Chan, r \in Cmds : recv_req(c, r)
    \/ \E c \in Chan : Handle(c)
    \/ \E a \in Pokes, v \in Byte : backdoor_write(a, v)

MemSpec == Init /\ [][Next]_vars
===============================================================================

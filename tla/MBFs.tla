--------------------------------- MODULE MBFs ---------------------------------
(***************************************************************************)
(* The files of the host (mb_fs.rs, file_access.rs): one MBFs for the      *)
(* servers of all channels, a table of open files under a Mutex and a      *)
(* counter that gives the next descriptor and wraps.  A client that does   *)
(* what is refused takes its server down: every error is unwrapped, and a  *)
(* client that restarts leaves its descriptors open.                       *)
(*                                                                         *)
(* A command is answered in the step that ends it.  A client waits for the *)
(* answer of all but fclose, so the bytes of a write are still there when  *)
(* the server reads them; they are numbered here, not spelled.             *)
(***************************************************************************)
EXTENDS Naturals, Sequences, SequencesExt, FiniteSetsExt

CONSTANTS Chan,            \* the channels, each with its server and its client
          Path, Kind,      \* what files there are, and which opener they have
          Present,         \* the normal and special files there at first
          Opens,           \* the paths and flags clients open with
          Lens, Offsets,   \* lengths of reads and writes, targets of seeks
          FD_FIRST,        \* the first descriptor
          FD_MOD,          \* where the counter wraps; 2^32 in the code
          Vec,             \* bytes of a word of a special file; 4 in the tests
          MaxOps           \* bound: commands and restarts

Kinds == {"normal", "special", "virtual", "unknown", "outside"}
Flags == {"READ", "WRITE", "APPEND", "TRUNC"}

ASSUME FsAssumption ==
    /\ Kind \in [Path -> Kinds] /\ Present \subseteq Path
    /\ Opens \subseteq [path : Path, flags : SUBSET Flags]
    /\ Lens \subseteq Nat /\ Offsets \subseteq Nat
    /\ FD_MOD \in Nat \ {0} /\ FD_FIRST \in 0 .. FD_MOD - 1
    /\ Vec \in Nat \ {0} /\ MaxOps \in Nat

VARIABLES
    disk, made,       \* what every file holds, and whether it exists
    opened, cnt,      \* MBFsInner: the open files by descriptor, the counter
    pc, cmd,          \* of each server: the step it is at, and the command
    fresh,            \* of each server: the file it has opened and not inserted
    held,             \* of each client: the descriptors it was given, with their serial
    got,              \* of each client: what its last read returned
    nopen, nops,      \* files inserted, commands and restarts so far (bounded)
    told              \* history: of each file, the bytes clients were told are written

table   == <<opened, cnt, nopen>>
clients == <<held, got, told>>
vars    == <<disk, made, table, pc, cmd, fresh, clients, nops>>

NoCmd  == [op |-> "none"]
NoFile == [serial |-> 0]

Init ==
    /\ disk = [p \in Path |-> <<>>] /\ made = Present
    /\ opened = <<>> /\ cnt = FD_FIRST
    /\ pc = [c \in Chan |-> "idle"] /\ cmd = [c \in Chan |-> NoCmd]
    /\ fresh = [c \in Chan |-> NoFile]
    /\ held = [c \in Chan |-> {}] /\ got = [c \in Chan |-> <<>>]
    /\ told = [p \in Path |-> <<>>]
    /\ nopen = 0 /\ nops = 0

-----------------------------------------------------------------------------
(* What an open file does.                                                  *)

\* The special opener of the tests reads, or writes anew.
ModeOf(p, flags) ==
    IF Kind[p] # "special" THEN flags
    ELSE IF "READ" \in flags THEN {"READ"} ELSE {"WRITE", "TRUNC"}

\* Opening for writing makes the file.
Writes(mode) == mode \cap {"WRITE", "APPEND", "TRUNC"} # {}

\* open_file and File::options: outside the root, no such virtual file, flags that
\* do not go together, nothing there to read.
Refuses(p, mode) ==
    \/ Kind[p] \in {"outside", "unknown"}
    \/ Kind[p] # "virtual" /\ (mode = {} \/ {"APPEND", "TRUNC"} \subseteq mode)
    \/ Kind[p] # "virtual" /\ p \notin made /\ ~Writes(mode)

Content(f) == IF f.kind = "virtual" THEN f.buf ELSE disk[f.path]

Whole(n) == n - (n % Vec)

\* How many bytes a read returns.  One that finds too few words returns none.
ReadLen(f, n) ==
    LET left == IF Len(Content(f)) > f.pos THEN Len(Content(f)) - f.pos ELSE 0 IN
    IF n = 0 THEN left
    ELSE IF f.kind = "special" THEN IF Whole(n) <= left THEN Whole(n) ELSE 0
    ELSE Min({n, left})

\* Where the next read begins: words that were too few are consumed.
AfterRead(f, n) ==
    IF f.kind = "special" /\ Whole(n) > 0 /\ ReadLen(f, n) = 0
    THEN Max({f.pos, Len(Content(f))}) ELSE f.pos + ReadLen(f, n)

\* Bug: appends at the handle's own position.
WriteAt_Pos(f) == f.pos

\* Where a write goes: an appending file's to the end.
WriteAt(f) == IF "APPEND" \in f.mode /\ f.kind = "normal" THEN Len(Content(f)) ELSE f.pos

\* The content after bytes are written at a position: a gap is filled with zeros,
\* and a virtual file of the tests ends where the write does.
Written(f, at, bytes) ==
    LET old == Content(f)
        end == at + Len(bytes)
        to  == IF f.kind = "virtual" THEN end ELSE Max({end, Len(old)})
    IN [k \in 1 .. to |-> IF k > at /\ k <= end THEN bytes[k - at]
                         ELSE IF k <= Len(old) THEN old[k] ELSE <<"zero", 0>>]

-----------------------------------------------------------------------------
(* Commands.                                                                *)

Start(c, r) ==
    /\ pc[c] = "idle" /\ nops < MaxOps /\ nops' = nops + 1
    /\ pc' = [pc EXCEPT ![c] = r.op] /\ cmd' = [cmd EXCEPT ![c] = r]
    /\ UNCHANGED <<disk, made, table, fresh, got, told>>

\* A client opens a file, or works on one it holds; a descriptor it closes it
\* forgets at once, for fclose is not answered.
fopen(c) == \E o \in Opens : Start(c, [op |-> "open", path |-> o.path, flags |-> o.flags]) /\ UNCHANGED held
fread(c) == \E h \in held[c], n \in Lens : Start(c, [op |-> "read", fd |-> h.fd, n |-> n]) /\ UNCHANGED held
fwrite(c) == \E h \in held[c], n \in Lens : Start(c, [op |-> "write", fd |-> h.fd, n |-> n]) /\ UNCHANGED held
fseek(c) == \E h \in held[c], p \in Offsets : Start(c, [op |-> "seek", fd |-> h.fd, n |-> p]) /\ UNCHANGED held
fclose(c) ==
    \E h \in held[c] :
        /\ Start(c, [op |-> "close", fd |-> h.fd, n |-> h.serial])
        /\ held' = [held EXCEPT ![c] = @ \ {h}]

\* The firmware restarts and knows nothing of its descriptors.
Restart(c) ==
    /\ pc[c] = "idle" /\ held[c] # {} /\ nops < MaxOps /\ nops' = nops + 1
    /\ held' = [held EXCEPT ![c] = {}]
    /\ UNCHANGED <<disk, made, table, pc, cmd, fresh, got, told>>

Goto(c, label) ==
    /\ pc' = [pc EXCEPT ![c] = label]
    /\ cmd' = [cmd EXCEPT ![c] = IF label = "idle" THEN NoCmd ELSE @]

\* poll_open, outside the lock: the file is made, or emptied.
open_file(c) ==
    LET p    == cmd[c].path
        mode == ModeOf(p, cmd[c].flags)
    IN
    /\ pc[c] = "open"
    /\ IF Refuses(p, mode)
       THEN Goto(c, "panic") /\ UNCHANGED <<disk, made, fresh>>
       ELSE /\ Goto(c, "insert")
            /\ fresh' = [fresh EXCEPT ![c] = [serial |-> 0, path |-> p, kind |-> Kind[p],
                                              mode |-> mode, pos |-> 0, buf |-> <<>>]]
            /\ made' = IF Writes(mode) /\ Kind[p] # "virtual" THEN made \cup {p} ELSE made
            /\ disk' = [disk EXCEPT ![p] = IF "TRUNC" \in mode THEN <<>> ELSE @]
    /\ UNCHANGED <<table, clients, nops>>

\* Bug: saturates.
wrapping_add_Stays(n) == IF n = FD_MOD - 1 THEN n ELSE n + 1

\* Bug: does not wrap.
wrapping_add_Wide(n) == n + 1

wrapping_add(n) == IF n = FD_MOD - 1 THEN 0 ELSE n + 1

\* Bug: the error is dropped, and the client gets the descriptor.
insert_Ignored(c) ==
    /\ pc[c] = "insert"
    /\ opened' = [fd \in DOMAIN opened \cup {cnt} |->
                     IF fd = cnt THEN [fresh[c] EXCEPT !.serial = nopen + 1] ELSE opened[fd]]
    /\ nopen' = nopen + 1
    /\ cnt' = wrapping_add(cnt)
    /\ held' = [held EXCEPT ![c] = @ \cup {[fd |-> cnt, serial |-> nopen + 1]}]
    /\ Goto(c, "idle")
    /\ fresh' = [fresh EXCEPT ![c] = NoFile]
    /\ UNCHANGED <<disk, made, got, told, nops>>

\* insert: the file that had the descriptor is replaced before the error is seen.
insert(c) ==
    LET full == cnt \in DOMAIN opened
        file == [fresh[c] EXCEPT !.serial = nopen + 1]
    IN
    /\ pc[c] = "insert"
    /\ opened' = [fd \in DOMAIN opened \cup {cnt} |-> IF fd = cnt THEN file ELSE opened[fd]]
    /\ nopen' = nopen + 1
    /\ cnt' = IF full THEN cnt ELSE wrapping_add(cnt)
    /\ held' = [held EXCEPT ![c] = IF full THEN @ ELSE @ \cup {[fd |-> cnt, serial |-> nopen + 1]}]
    /\ Goto(c, IF full THEN "panic" ELSE "idle")
    /\ fresh' = [fresh EXCEPT ![c] = NoFile]
    /\ UNCHANGED <<disk, made, got, told, nops>>

\* The others, under the lock.
At(c, op) == pc[c] = op
Valid(c)  == cmd[c].fd \in DOMAIN opened
File(c)   == opened[cmd[c].fd]

Panics(c) == Goto(c, "panic") /\ UNCHANGED <<opened, disk, got, told>>

poll_close(c) ==
    /\ At(c, "close")
    /\ IF Valid(c)
       THEN /\ opened' = [fd \in DOMAIN opened \ {cmd[c].fd} |-> opened[fd]]
            /\ Goto(c, "idle") /\ UNCHANGED <<disk, got, told>>
       ELSE Panics(c)
    /\ UNCHANGED <<made, cnt, nopen, fresh, held, nops>>

poll_read(c) ==
    LET n == cmd[c].n  f == File(c) IN
    /\ At(c, "read")
    /\ IF Valid(c) /\ (f.kind = "virtual" \/ "READ" \in f.mode)
       THEN /\ got' = [got EXCEPT ![c] = SubSeq(Content(f), f.pos + 1, f.pos + ReadLen(f, n))]
            /\ opened' = [opened EXCEPT ![cmd[c].fd].pos = AfterRead(f, n)]
            /\ Goto(c, "idle") /\ UNCHANGED <<disk, told>>
       ELSE Panics(c)
    /\ UNCHANGED <<made, cnt, nopen, fresh, held, nops>>

\* A special file takes whole words only, and the client is told how many bytes.
poll_write(c) ==
    LET f     == File(c)
        n     == IF f.kind = "special" THEN Whole(cmd[c].n) ELSE cmd[c].n
        bytes == [k \in 1 .. n |-> <<c, nops>>]
        new   == Written(f, WriteAt(f), bytes)
    IN
    /\ At(c, "write")
    /\ IF Valid(c) /\ (f.kind = "virtual" \/ Writes(f.mode))
       THEN /\ opened' = IF n = 0 THEN opened
                         ELSE [opened EXCEPT ![cmd[c].fd].pos = WriteAt(f) + n,
                                             ![cmd[c].fd].buf = IF f.kind = "virtual" THEN new ELSE @]
            /\ disk' = IF n = 0 \/ f.kind = "virtual" THEN disk ELSE [disk EXCEPT ![f.path] = new]
            /\ told' = [told EXCEPT ![f.path] = @ \o bytes]
            /\ Goto(c, "idle") /\ UNCHANGED got
       ELSE Panics(c)
    /\ UNCHANGED <<made, cnt, nopen, fresh, held, nops>>

poll_seek(c) ==
    LET p == cmd[c].n  f == File(c) IN
    /\ At(c, "seek")
    /\ IF Valid(c) /\ f.kind # "special"
       THEN /\ opened' = [opened EXCEPT ![cmd[c].fd].pos =
                             IF f.kind = "virtual" THEN Min({p, Len(f.buf)}) ELSE p]
            /\ Goto(c, "idle") /\ UNCHANGED <<disk, got, told>>
       ELSE Panics(c)
    /\ UNCHANGED <<made, cnt, nopen, fresh, held, nops>>

Client(c) == fopen(c) \/ fread(c) \/ fwrite(c) \/ fseek(c) \/ fclose(c) \/ Restart(c)
Server(c) ==
    \/ open_file(c) \/ insert(c)
    \/ poll_close(c) \/ poll_read(c) \/ poll_write(c) \/ poll_seek(c)

Next == \E c \in Chan : Client(c) \/ Server(c)

FsSpec == Init /\ [][Next]_vars
===============================================================================

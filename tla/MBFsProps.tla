------------------------------ MODULE MBFsProps ------------------------------
(***************************************************************************)
(* What the files of the host must guarantee to their clients.             *)
(***************************************************************************)
EXTENDS MBFs

Bytes == ((Chan \cup {"zero"}) \X (0 .. MaxOps))
FileT == [serial : Nat, path : Path, kind : Kinds, mode : SUBSET Flags, pos : Nat, buf : Seq(Bytes)]
CmdT  == [op : {"open"}, path : Path, flags : SUBSET Flags]
         \cup [op : {"read", "write", "seek", "close"}, fd : Nat, n : Nat]

\* The type invariant.
FsTypeOK ==
    /\ made \subseteq Path /\ \A p \in Path : disk[p] \in Seq(Bytes) /\ told[p] \in Seq(Bytes)
    /\ DOMAIN opened \subseteq 0 .. FD_MOD - 1 /\ cnt \in 0 .. FD_MOD - 1
    /\ \A fd \in DOMAIN opened : opened[fd] \in FileT
    /\ pc \in [Chan -> {"idle", "open", "insert", "close", "read", "write", "seek", "panic"}]
    /\ \A c \in Chan : cmd[c] \in CmdT \cup {NoCmd} /\ fresh[c] \in FileT \cup {NoFile}
    /\ \A c \in Chan : held[c] \subseteq [fd : 0 .. FD_MOD - 1, serial : 1 .. nopen]
    /\ \A c \in Chan : got[c] \in Seq(Bytes)
    /\ nopen \in 0 .. MaxOps /\ nops \in 0 .. MaxOps

\* A descriptor a client holds is open, and names the file it was given for, whatever
\* the others open, close, or leave behind when they restart, until the counter has
\* come round to it.
HeldHandle ==
    \A c \in Chan : \A h \in held[c] :
        /\ h.fd \in DOMAIN opened
        /\ nopen < h.serial + FD_MOD => opened[h.fd].serial = h.serial

\* Two clients never hold the same descriptor, before or after the counter wraps.
OneHolder ==
    \A c, d \in Chan : c # d => {h.fd : h \in held[c]} \cap {h.fd : h \in held[d]} = {}

\* The command asks what its own file does not do.
Unfit(c) ==
    LET r == cmd[c] IN
    IF r.op = "open" THEN Refuses(r.path, ModeOf(r.path, r.flags))
    ELSE /\ r.fd \in DOMAIN opened
         /\ LET f == opened[r.fd] IN
            \/ r.op = "read" /\ "READ" \notin f.mode
            \/ r.op = "write" /\ ~Writes(f.mode)
            \/ r.op = "seek" /\ f.kind = "special"

\* A server goes down over a command that its own client's path or file does not
\* allow, never over what other clients do, until the counter may have come round.
FsPanicsExplained ==
    [][\A c \in Chan : pc[c] # "panic" /\ pc'[c] = "panic" => nopen >= FD_MOD \/ Unfit(c)]_vars

\* The files that are never opened otherwise than to append or to read.
Logs == {p \in Path : Kind[p] = "normal" /\ \A o \in Opens : o.path = p =>
            o.flags = {"READ"} \/ ("APPEND" \in o.flags /\ "TRUNC" \notin o.flags)}

\* A log holds exactly what its clients were told is written, once and in the order of
\* their answers, with several of them appending, and reading, through descriptors that
\* each have a position of their own.
AppendsKept == \A p \in Logs : disk[p] = told[p]
===============================================================================

--------------------------------- MODULE MCFs ---------------------------------
(***************************************************************************)
(* Instances of MBFs.                                                      *)
(***************************************************************************)
EXTENDS MBFsProps, TLC
CONSTANTS c0, c1

Chans == {c0, c1}
Both  == Permutations(Chans)
KindOf == [log |-> "normal", data |-> "normal", tg |-> "special",
           virt |-> "virtual", gone |-> "unknown", up |-> "outside"]
Paths == DOMAIN KindOf
There == {"log"}
O(p, f) == [path |-> p, flags |-> f]
SomeOpens == {
    O("log", {"APPEND"}), O("log", {"READ"}), O("data", {"READ", "WRITE", "TRUNC"}),
    O("data", {"APPEND", "TRUNC"}), O("tg", {"WRITE"}), O("tg", {"READ"}),
    O("virt", {"READ", "WRITE"}), O("gone", {"READ"})}
Lengths == {0, 3}
Zero    == {0}
===============================================================================

-------------------------------- MODULE MCMem --------------------------------
(***************************************************************************)
(* Instances of MBShareMem: four or five addresses, blocks of two or more. *)
(***************************************************************************)
EXTENDS MBShareMemProps

\* A is [0,2), B is [2,4), S is [1,3); E, in the second instance, is [0,5).
Base == [b \in {"A", "B", "S", "E"} |-> CASE b = "A" -> 0 [] b = "B" -> 2 [] b = "S" -> 1 [] b = "E" -> 0]
Size == [b \in {"A", "B", "S", "E"} |-> IF b = "E" THEN 5 ELSE 2]
Blocks   == {"A", "B", "S"}
BaseOf   == [b \in Blocks |-> Base[b]]
SizeOf   == [b \in Blocks |-> Size[b]]
BlocksE  == {"S", "E"}
BaseOfE  == [b \in BlocksE |-> Base[b]]
SizeOfE  == [b \in BlocksE |-> Size[b]]
\* Each byte is the parity of its address.
Parity(b)  == [o \in 0 .. Size[b] - 1 |-> (Base[b] + o) % 2]
ContentOf  == [b \in Blocks |-> Parity(b)]
ContentOfE == [b \in BlocksE |-> Parity(b)]
OneName  == {"S"}

Bits   == {0, 1}
Chans  == {"c0", "c1"}
Places == {0, 3}

C(o, x, y, k) == [op |-> o, d |-> x, s |-> y, n |-> k]
Commands == {
    C("memmove", 1, 0, 2), C("memmove", 0, 1, 2), C("memmove", 3, 2, 2),
    C("memset", 0, 1, 2), C("memset", 2, 257, 2), C("memset", 3, 0, 2),
    C("memcmp", 0, 2, 2), C("memcmp", 2, 3, 2),
    C("c_str", 0, 0, 0), C("c_str", 0, 1, 0), C("str", 0, 1, 2), C("str", 0, 2, 2)}
Few == {C("memset", 0, 1, 3)}
===============================================================================

-------------------------------- MODULE MCLock --------------------------------
(***************************************************************************)
(* Instances of MBNbLock small enough for TLC.                             *)
(***************************************************************************)
EXTENDS MBNbLockProps

TwoHarts == {"h0", "h1"}
OneOfThem == {"h0"}
===============================================================================

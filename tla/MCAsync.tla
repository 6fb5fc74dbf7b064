------------------------------- MODULE MCAsync -------------------------------
(***************************************************************************)
(* Instances of MBAsyncChannel small enough for TLC.                       *)
(***************************************************************************)
EXTENDS MBAsyncProps

\* The smallest ring that can be partly full, and the shortest index word.
TwoSlots == 2
TwoLaps  == 2 * TwoSlots

Unstopped  == {"Ok", "NoResp"}
Everything == AllKinds

==============================================================================

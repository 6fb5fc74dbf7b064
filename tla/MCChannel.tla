------------------------------ MODULE MCChannel ------------------------------
(***************************************************************************)
(* Instances of MBChannel small enough for TLC.                            *)
(***************************************************************************)
EXTENDS MBChannelProps

\* Two slots are the fewest with which producer and consumer can work on
\* different slots of a ring that is neither full nor empty; an index word of
\* two laps is the shortest that QueueAssumption allows.
TwoSlots == 2
TwoLaps  == 2 * TwoSlots

Answered   == {"Ok"}
Unstopped  == {"Ok", "NoResp"}
Everything == AllKinds

MyVersion   == 1
SameVersion == {MyVersion}

==============================================================================

------------------------- MODULE RevertibleOverride -------------------------
(***************************************************************************)
(* What the adapter DNS override promises, without files, processes or     *)
(* commands: a setting of some items is overridden only while a durable    *)
(* undo record names the overridden item, and the record is dropped only   *)
(* once the item has its own setting back.                                 *)
(***************************************************************************)

CONSTANTS Items,   \* the things whose setting can be overridden
          NoItem   \* "the undo record names nothing"

VARIABLES overridden,  \* the items that do not have their own setting
          undo         \* the item the durable undo record can revert

avars == <<overridden, undo>>

AInit == overridden = {} /\ undo = NoItem

\* The undo record is written while every item still has its own setting.
Record(i) ==
  /\ overridden = {}
  /\ undo' = i
  /\ UNCHANGED overridden

\* Only the recorded item may be overridden.
Override(i) ==
  /\ undo = i
  /\ overridden' = {i}
  /\ UNCHANGED undo

Revert ==
  /\ overridden' = {}
  /\ UNCHANGED undo

Discard ==
  /\ overridden = {}
  /\ undo' = NoItem
  /\ UNCHANGED overridden

ANext == Revert \/ Discard \/ \E i \in Items : Record(i) \/ Override(i)

ASpec == AInit /\ [][ANext]_avars

=============================================================================

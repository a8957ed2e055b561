-------------------------------- MODULE Lists --------------------------------
(***************************************************************************)
(* Erasing from the lists that QueueManager, CategoryEngine and            *)
(* ScheduleEngine keep.  A recursive function in place of SelectSeq, which *)
(* a proof cannot look into.                                               *)
(***************************************************************************)
EXTENDS Integers, Sequences

\* erase(remove_if(...)): the items with another id, in their order.
Without(list, id) ==
  LET kept[n \in 0..Len(list)] ==
        IF n = 0 THEN <<>>
        ELSE IF list[n].id = id THEN kept[n - 1] ELSE Append(kept[n - 1], list[n])
  IN kept[Len(list)]
=============================================================================

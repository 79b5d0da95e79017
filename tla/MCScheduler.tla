---------------------------- MODULE MCScheduler ----------------------------
(* Two schedules, so that one is edited or deleted while the other is      *)
(* executed.  Writes of the file fail as long as there is nothing but a    *)
(* certain one of them, in memory, in the tick and in the file.            *)
EXTENDS Scheduler

Only == CHOOSE i \in Slots : TRUE

FaultsOfOne ==
  unsaved' => items' \cup Pointed' \cup {i \in Slots : file'[i] # None} \subseteq {Only}

MCSpec == Init /\ [][Next /\ FaultsOfOne]_vars /\ Fairness
=============================================================================

---------------------------- MODULE MCMcManager ----------------------------
(***************************************************************************)
(* One server and two saves, the new one taking the lowest free number:    *)
(* they are alike.                                                         *)
(***************************************************************************)
EXTENDS McManager, Naturals

SomeSaveFails == \E k \in Savers : WriteFails(k) \/ RenameFails(k)

MCNext ==
  /\ Next
  /\ \A j, k \in Savers :
       j < k /\ save[k] = NoSave /\ save'[k] # NoSave => save[j] # NoSave

MCSpec == Init /\ [][MCNext]_vars /\ Fairness

(* Nothing goes wrong: no save fails, no write blocks, every shutdown is   *)
(* in time, and then no server goes down but those it stops.               *)
FaultlessNext ==
  /\ Next
  /\ ~SomeSaveFails /\ stuck' = {} /\ panel' # "late"
  /\ panel # "serving" => \A s \in Servers : ~Change(s)

FaultlessSpec == Init /\ [][FaultlessNext]_vars
=============================================================================

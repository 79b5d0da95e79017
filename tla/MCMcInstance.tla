---------------------------- MODULE MCMcInstance ----------------------------
(***************************************************************************)
(* One server, two launches in memory, two operators.  The launches of s1  *)
(* may go through run.sh, those of s2 run java: every order of the two     *)
(* kinds is there, two games left behind at once are not.  A shell ends    *)
(* with an error (as one that is signalled does), java with either status. *)
(* One operator stops and restarts, the other stops and kills.  Crash      *)
(* recovery is switched off only about the moment when waitForExit looks   *)
(* at the switch, which nobody else reads.                                 *)
(***************************************************************************)
EXTENDS McInstance

CONSTANTS s1, s2, c1, c2

MCInit == Init /\ autoRestart

MCNext ==
  /\ Next
  /\ shell'[s1] # "exit0" /\ shell'[s2] = "none"
  /\ call'[c1].at # "killing" /\ ~call'[c2].restart
  /\ autoRestart \/ autoRestart' \/ \E g \in Slots : waiter[g] = "reaped"
  /\ ~autoRestart' => \E g \in Slots : waiter[g] = "reaped"

MCSpec == MCInit /\ [][MCNext]_vars /\ Fairness
=============================================================================

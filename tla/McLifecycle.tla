---------------------------- MODULE McLifecycle ----------------------------
(***************************************************************************)
(* What the panel promises about one Minecraft server: the states an       *)
(* operator sees (mc.State) and the process behind them, with no           *)
(* goroutines, pipes or channels.  The process is the one the panel        *)
(* started, game or shell: a server is launched only while none lives, and *)
(* it is shown as ended only once its process is gone.  McInstance         *)
(* implements this specification.                                          *)
(***************************************************************************)

VARIABLES
  state,  \* the state the panel shows
  live    \* the process the panel started exists

vars == <<state, live>>

Idle == {"stopped", "crashed"}
Active == {"starting", "running", "stopping"}

Init == state = "stopped" /\ live = FALSE

(* A launch needs a server at rest with no process left over. *)
Launch ==
  /\ state \in Idle /\ ~live
  /\ state' = "starting" /\ live' = TRUE

(* The console announced that the world is up. *)
Ready == state = "starting" /\ state' = "running" /\ UNCHANGED live

(* The console announced a shutdown, or the operator asked for one. *)
Wind ==
  /\ state \in {"starting", "running"}
  /\ state' = "stopping"
  /\ UNCHANGED live

(* The process ends, by itself or killed; the panel does not know yet. *)
Die == live /\ live' = FALSE /\ UNCHANGED state

(* The panel records the end of a process that is gone. *)
Ended == state \in Active /\ ~live /\ state' \in Idle /\ UNCHANGED live

Next == Launch \/ Ready \/ Wind \/ Die \/ Ended

Spec == Init /\ [][Next]_vars

=============================================================================

---------------------------- MODULE MCDownloads ----------------------------
(***************************************************************************)
(* The downloads page with two browsers, beside an old qBittorrent whose   *)
(* password changes and that is asked to pause, with apps that answer at   *)
(* once, or beside a new one that asks for no password, is asked once to   *)
(* toggle its speed limits, and whose torrent comes and goes in an app's   *)
(* queue.                                                                  *)
(***************************************************************************)
EXTENDS Downloads, TLC

Symmetric == Permutations(Handlers)

Old ==
  /\ user /\ ~modern /\ ~listed
  /\ \A h \in Handlers : task[h] # "altspeed" /\ got[h].since = 0

New ==
  /\ ~user /\ modern /\ up /\ cookie /\ right /\ rev + late <= 1
  /\ \A h \in Handlers : task[h] # "pause"

MCInit == DownloadsInit /\ (Old \/ New)

MCNext == DownloadsNext /\ (Old' \/ New')

MCSpec == MCInit /\ [][MCNext]_downloadsVars

=============================================================================

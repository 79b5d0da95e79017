---------------------------- MODULE MCServerDir ----------------------------
(* Requests are alike, and so are the archives of the server. *)
EXTENDS ServerDir, TLC

Alike == Permutations(Requests) \cup Permutations(Archives)
=============================================================================

----------------------------- MODULE MCJobFeed -----------------------------
(* Three jobs and a history of two.  Jobs and notices are compared with    *)
(* others of their kind only.                                              *)
EXTENDS JobFeed, TLC

Alike == Permutations(Jobs) \cup Permutations(Notices)
=============================================================================

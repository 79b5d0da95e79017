------------------------------ MODULE MCPanel ------------------------------
(* Configuration files: one with every default to fill in, one open on the *)
(* loopback with every number too large, one open to the network, which    *)
(* is refused.  Two releases, so that a second update can meet the restart *)
(* after the first.                                                        *)
EXTENDS Panel

Plain == [parses |-> TRUE, mode |-> "", hash |-> TRUE, loopback |-> FALSE, remote |-> FALSE,
          cert |-> FALSE, key |-> FALSE, hours |-> 0, sample |-> 0, history |-> 0,
          fanTick |-> 0, idle |-> 0, sessions |-> 0]
Local == [Plain EXCEPT !.mode = "none", !.hash = FALSE, !.loopback = TRUE, !.history = 9999,
                       !.fanTick = -1, !.sessions = 99]
Open == [Plain EXCEPT !.mode = "none"]
Locked == [Plain EXCEPT !.hash = FALSE]
Files == {Plain, Local, Open, Locked}
=============================================================================

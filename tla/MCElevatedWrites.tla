-------------------------- MODULE MCElevatedWrites --------------------------
(* Values for TLC: every loop on a file and on /dev/null, on either kernel;   *)
(* the loops of write_loop.c also timed.  Four writes of two bytes overflow    *)
(* an int of INT_SIZE 8.                                                       *)
EXTENDS ElevatedWrites

Paths == {<<"file", FALSE>>, <<"file", TRUE>>, <<"/dev/null", TRUE>>}
Tests ==
  {[loop |-> run_selected_test(id), path |-> p[1], exists |-> p[2], iter |-> n, size |-> 2,
    preemptible |-> k, latency |-> FALSE] :
    id \in 0 .. 8, p \in Paths, n \in {3, 4}, k \in BOOLEAN}
Timed ==
  {[loop |-> l, path |-> "file", exists |-> TRUE, iter |-> 2, size |-> 1,
    preemptible |-> FALSE, latency |-> TRUE] : l \in WriteLoop}
Untimed ==
  {[loop |-> l, path |-> p, exists |-> TRUE, iter |-> 4, size |-> 1,
    preemptible |-> TRUE, latency |-> FALSE] : l \in WriteLoop, p \in {"file", "/dev/null"}}
CommandLines == Tests \cup Timed \cup Untimed
=============================================================================

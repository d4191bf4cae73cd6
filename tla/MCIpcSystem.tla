---------------------------- MODULE MCIpcSystem ----------------------------
(* Values for TLC: the instances of IpcSystem that the configurations check. *)
EXTENDS IpcSystem, TLC

\* The model values of a configuration are interchangeable within a set.
Interchangeable == Permutations(Threads) \cup Permutations(Clients)
=============================================================================

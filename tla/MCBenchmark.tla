------------------------------ MODULE MCBenchmark ------------------------------
(* Benchmark for TLC: graphs of up to two nodes, lists of up to three pairs. *)
EXTENDS Benchmark

MCValues == {-1, 0, 2}
=============================================================================

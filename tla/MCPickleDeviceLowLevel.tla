------------------------ MODULE MCPickleDeviceLowLevel ------------------------
(* PickleDeviceLowLevel for TLC: commands that differ in type, in length   *)
(* and in body, so that a header joined to another call's body is seen.    *)
EXTENDS PickleDeviceLowLevel, TLC

MCCommand ==
    {[type |-> "ADD_WATCH_RANGE", length |-> 16, body |-> "range"],
     [type |-> "SEND_JOB_DESCRIPTOR", length |-> 57, body |-> "job1"]}

Symmetry == Permutations(Clients)
=============================================================================

------------------------- MODULE MCPickleDeviceManager -------------------------
(* PickleDeviceManager for TLC. *)
EXTENDS PickleDeviceManager, TLC

CONSTANTS c1, m1, m2, job1

MCProcessOf == [m \in Managers |-> c1]

MCJobLength == job1 :> 57

MCCommand == {WatchCommand(p) : p \in Page} \cup {JobCommand(j) : j \in JobDescriptors}
=============================================================================

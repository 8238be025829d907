---------------------------- MODULE PrefetchClient ----------------------------
(***************************************************************************)
(* An application end to end: it builds jobs from its graphs (GraphJob)    *)
(* and sends them (PickleDeviceManager::sendJob) through the driver calls  *)
(* of PickleDeviceLowLevel, while other processes send their commands.     *)
(* A job's description is read when sendJob is called, out of descriptors  *)
(* that other jobs share, and reaches the device steps later.              *)
(***************************************************************************)
EXTENDS GraphJob

CONSTANTS
    App,            \* the application
    Used,           \* bound: the directions it builds jobs in
    Others,         \* other processes that use the device
    OtherCommand,   \* the commands they send
    NameLength,     \* the bytes of the kernel's name
    NoCommand, NoPage, Device,
    MaxFds,         \* bound: file descriptors of a process
    MaxLog          \* bound: commands the device takes

ASSUME ClientAssumption ==
    App \notin Others /\ Used \subseteq Direction /\ NameLength \in Nat /\ NoCommand \notin OtherCommand
(* The application sets no relation but through the wrapper and the graphs *)
(* it constructs.                                                          *)
ASSUME UnrelatedAssumption == Relatable = {}
ASSUME OtherCommandAssumption ==
    \A m \in OtherCommand : m = [type |-> m.type, length |-> m.length, body |-> m.body]

VARIABLES pc, call, verdict, out, fds, mapped, at, nextPage, leaked, header, log

Low == INSTANCE PickleDeviceLowLevel WITH
    Clients <- {App} \cup Others, HeaderPerOpen <- TRUE, Command <- OtherCommand, MaxPages <- 0

lowvars == <<pc, call, verdict, out, fds, mapped, at, nextPage, leaked, header, log>>

(* Mutant of JobCommand: room for the name is forgotten.                   *)
JobCommandUnnamed(w) ==
    [type |-> "SEND_JOB_DESCRIPTOR", length |-> 1 + 56 * Len(w.rows), body |-> w.rows]

(* A byte for the count, seven words a row, and the name, whose length is  *)
(* only in the header.                                                     *)
JobCommand(w) ==
    [type |-> "SEND_JOB_DESCRIPTOR", length |-> 1 + 56 * Len(w.rows) + NameLength, body |-> w.rows]

CInit == GInit /\ Low!LInit

Running == pc[App] = "idle"

(* The application builds graphs, and jobs from them and its vectors.      *)
Prepare ==
    /\ Running
    /\ \E g \in Graphs :
          \/ ConstructGraph(g)
          \/ \E j \in Jobs, d \in Used, sel, cons \in Optional : CreateGraphJob(j, g, d, sel, cons)
    /\ UNCHANGED lowvars

(* If getJobDescriptor throws, sendJob ends with the exception and nothing *)
(* has changed.                                                            *)
SendJob(j) ==
    /\ Running
    /\ Wire(j).ok
    /\ Low!Enter(App, "write_command_to_device", 0, JobCommand(Wire(j)))
    /\ UNCHANGED gvars

OtherSends(c, m) ==
    /\ pc[c] = "idle"
    /\ Low!Enter(c, "write_command_to_device", 0, m)
    /\ UNCHANGED gvars

(* A system call of a call in progress, or the return to its caller.       *)
LowLevelStep(c) ==
    /\ Low!Syscall(c) \/ Low!Resume(c)
    /\ UNCHANGED gvars

CNext ==
    \/ Prepare
    \/ \E j \in Jobs : SendJob(j)
    \/ \E c \in Others, m \in OtherCommand : OtherSends(c, m)
    \/ \E c \in {App} \cup Others : LowLevelStep(c)

CSpec == CInit /\ [][CNext]_<<gvars, lowvars>>

-----------------------------------------------------------------------------
(* Properties. *)

JobsHeld == {k \in DOMAIN log : log[k].type = "SEND_JOB_DESCRIPTOR"}

(* Whatever was rewritten before and after a job was sent: in every job    *)
(* the device has taken, a row that describes an index array leads to the  *)
(* row of its neighbors array, and what a row leads to is a row of the     *)
(* same job; so no job walks into the arrays of another                    *)
(* (wrapper.h:13-75, pickle_job.h:200-219, manager.cpp:32-36).             *)
HeldJobsWalkEdges ==
    \A n \in JobsHeld : LET rows == log[n].body IN
        \A k \in DOMAIN rows :
            /\ rows[k].dst \in {NoArray} \cup 0 .. Len(rows) - 1
            /\ \A g \in Graphs, d \in Direction : rows[k].region = IndexOf[g][d] =>
                  /\ rows[k].dst # NoArray
                  /\ rows[rows[k].dst + 1].region = NeighborsOf[g][d]

InWrite(c) == pc[c] \in {"open", "header", "body", "returned"}

ServiceState ==
    [c \in {App} \cup Others |->
        IF ~ InWrite(c) THEN "idle"
        ELSE IF pc[c] # "returned" THEN "pending"
        ELSE IF verdict[c] THEN "true" ELSE "false"]

ServiceWants ==
    [c \in {App} \cup Others |-> IF InWrite(c) THEN call[c].command ELSE NoCommand]

Service == INSTANCE PrefetchService WITH
    Clients <- {App} \cup Others,
    Command <- OtherCommand,
    target <- Target,
    members <- Members,
    access <- heap.access,
    addressing <- heap.addressing,
    view <- View,
    state <- ServiceState,
    wants <- ServiceWants

(* From graphs to the device: a call of sendJob either throws because a    *)
(* relation leads out of the job, or hands the device, whole and once if   *)
(* it answers true and not at all if it answers false, the chain that the  *)
(* job had at that moment.  Ids, rename maps, the two writes and the other *)
(* processes do not show.                                                  *)
ImplementsService == Service!SSpec
=============================================================================

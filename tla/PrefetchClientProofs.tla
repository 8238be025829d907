-------------------------- MODULE PrefetchClientProofs --------------------------
(***************************************************************************)
(* Theorems about PrefetchClient: what JobProofs knows of the jobs there   *)
(* are, carried through the call that sends one to the device, for any     *)
(* graphs, jobs and other processes.                                       *)
(***************************************************************************)
EXTENDS PrefetchClient, JobProofs

Callers == {App} \cup Others

-----------------------------------------------------------------------------
(* The calls in progress.  Everyone is in write_command_to_device or       *)
(* nowhere, with a command that has a header and a body; and the header    *)
(* the driver holds for an open file is of the call that opened it.        *)

Whole(m) == m = [type |-> m.type, length |-> m.length, body |-> m.body]

Writing == {"open", "header", "body", "returned"}

CallInv ==
    /\ pc \in [Callers -> {"idle"} \cup Writing]
    /\ DOMAIN call = Callers /\ DOMAIN verdict = Callers /\ Callers \subseteq DOMAIN header
    /\ \A c \in Callers : pc[c] # "idle" =>
          call[c].fn = "write_command_to_device" /\ Whole(call[c].command)
    /\ \A c \in Callers : pc[c] = "body" => header[c] = Low!HeaderOf(call[c].command)

(* What a step of a call in progress comes to.                             *)
Proceeds(c) ==
    /\ \/ /\ pc[c] = "open"
          /\ pc' = [pc EXCEPT ![c] = "header"]
          /\ header' = [header EXCEPT ![c] = NoCommand]
       \/ /\ pc[c] = "header"
          /\ pc' = [pc EXCEPT ![c] = "body"]
          /\ header' = [header EXCEPT ![c] = Low!HeaderOf(call[c].command)]
    /\ UNCHANGED <<call, verdict, log>>

Refused(c) ==
    /\ pc[c] \in {"open", "header", "body"}
    /\ pc' = [pc EXCEPT ![c] = "returned"]
    /\ verdict' = [verdict EXCEPT ![c] = FALSE]
    /\ UNCHANGED <<call, header, log>>

Taken(c) ==
    /\ pc[c] = "body"
    /\ pc' = [pc EXCEPT ![c] = "returned"]
    /\ verdict' = [verdict EXCEPT ![c] = TRUE]
    /\ log' = Append(log, call[c].command)
    /\ UNCHANGED <<call, header>>

Resumed(c) ==
    /\ pc[c] = "returned"
    /\ pc' = [pc EXCEPT ![c] = "idle"]
    /\ verdict' = [verdict EXCEPT ![c] = FALSE]
    /\ call' = [call EXCEPT ![c] = Low!NoCall]
    /\ UNCHANGED <<header, log>>

Begun(c, m) ==
    /\ pc[c] = "idle"
    /\ pc' = [pc EXCEPT ![c] = "open"]
    /\ verdict' = [verdict EXCEPT ![c] = FALSE]
    /\ call' = [call EXCEPT ![c] = [fn |-> "write_command_to_device", id |-> 0, command |-> m]]
    /\ UNCHANGED <<header, log>>

(* Each system call is one of these (low_level.cpp:157-180).               *)
LEMMA StepIs ==
    ASSUME CallInv, NEW c \in Callers, Low!Syscall(c) \/ Low!Resume(c)
    PROVE  Proceeds(c) \/ Refused(c) \/ Taken(c) \/ Resumed(c)
<1>1. pc[c] \in {"idle"} \cup Writing
  BY DEF CallInv
<1>2. pc[c] # "idle" => call[c].fn = "write_command_to_device" /\ Whole(call[c].command)
  BY DEF CallInv
<1>3. pc[c] = "body" => header[c] = Low!HeaderOf(call[c].command)
  BY DEF CallInv
<1>4. CASE Low!Open(c)
  <2>1. pc[c] = "open" /\ call[c].fn = "write_command_to_device"
    BY <1>2, <1>4 DEF Low!Open
  <2>2. Low!AfterOpen(call[c].fn) = "header"
    BY <2>1 DEF Low!AfterOpen, Low!AddressFunction
  <2> QED BY <1>4, <2>1, <2>2 DEF Low!Open, Proceeds
<1>5. CASE Low!OpenFails(c)
  BY <1>5 DEF Low!OpenFails, Low!Return, Low!driver, Refused
<1>6. CASE Low!WriteHeader(c)
  BY <1>6 DEF Low!WriteHeader, Low!Slot, Proceeds
<1>7. CASE Low!WriteBody(c)
  <2>1. /\ pc[c] = "body" /\ header[c] = Low!HeaderOf(call[c].command)
        /\ Whole(call[c].command)
    BY <1>2, <1>3, <1>7 DEF Low!WriteBody
  <2>2. log' = Append(log, [type |-> header[c].type, length |-> header[c].length,
                            body |-> call[c].command.body])
    BY <1>7 DEF Low!WriteBody, Low!Slot
  <2>3. log' = Append(log, call[c].command)
    BY <2>1, <2>2 DEF Low!HeaderOf, Whole
  <2> QED BY <1>7, <2>1, <2>3 DEF Low!WriteBody, Low!Return, Taken
<1>8. CASE Low!SyscallFails(c)
  BY <1>1, <1>8 DEF Low!SyscallFails, Low!Fail, Low!Return, Low!driver, Refused, Writing
<1>9. CASE Low!Resume(c)
  BY <1>9 DEF Low!Resume, Low!driver, Resumed
<1>10. ~ (Low!Mmap(c) \/ Low!IoctlPaddr(c) \/ Low!IoctlSpecs(c) \/ Low!SpecsFails(c))
  BY <1>1, <1>2 DEF Low!Mmap, Low!IoctlPaddr, Low!IoctlSpecs, Low!SpecsFails, Writing
<1> QED BY <1>4, <1>5, <1>6, <1>7, <1>8, <1>9, <1>10 DEF Low!Syscall

(* What the application and the others pass.                               *)
LEMMA BeginIs ==
    ASSUME NEW c \in Callers, NEW m, pc[c] = "idle",
           Low!Enter(c, "write_command_to_device", 0, m)
    PROVE  Begun(c, m)
BY DEF Low!Enter, Low!driver, Begun

(* A step of the client is one of the application's own or one of these.   *)
LEMMA ClientStepIs ==
    ASSUME CallInv, CNext
    PROVE  \/ Prepare
           \/ /\ UNCHANGED gvars
              /\ \/ \E j \in Jobs : Wire(j).ok /\ Begun(App, JobCommand(Wire(j)))
                 \/ \E c \in Others, m \in OtherCommand : Begun(c, m)
                 \/ \E c \in Callers : Proceeds(c) \/ Refused(c) \/ Taken(c) \/ Resumed(c)
<1>1. ASSUME NEW j \in Jobs, SendJob(j)
      PROVE  UNCHANGED gvars /\ Wire(j).ok /\ Begun(App, JobCommand(Wire(j)))
  BY <1>1, BeginIs DEF SendJob, Running, Callers
<1>2. ASSUME NEW c \in Others, NEW m \in OtherCommand, OtherSends(c, m)
      PROVE  UNCHANGED gvars /\ Begun(c, m)
  BY <1>2, BeginIs DEF OtherSends, Callers
<1>3. ASSUME NEW c \in Callers, LowLevelStep(c)
      PROVE  UNCHANGED gvars /\ (Proceeds(c) \/ Refused(c) \/ Taken(c) \/ Resumed(c))
  BY <1>3, StepIs DEF LowLevelStep
<1> QED BY <1>1, <1>2, <1>3 DEF CNext, Callers

LEMMA InitCallInv == Low!LInit => CallInv
<1> SUFFICES ASSUME Low!LInit PROVE CallInv
  OBVIOUS
<1>1. /\ pc = [c \in Callers |-> "idle"] /\ call = [c \in Callers |-> Low!NoCall]
      /\ verdict = [c \in Callers |-> FALSE]
      /\ header = [s \in Callers \cup {Device} |-> NoCommand]
  BY DEF Low!LInit, Callers
<1> QED BY <1>1 DEF CallInv

(* A job's command has a header and a body, and so do those of the others. *)
LEMMA CommandsWhole ==
    /\ \A w : Whole(JobCommand(w))
    /\ \A m \in OtherCommand : Whole(m)
BY OtherCommandAssumption DEF Whole, JobCommand

LEMMA BegunCallInv ==
    ASSUME CallInv, NEW c \in Callers, NEW m, Whole(m), Begun(c, m)
    PROVE  CallInv'
BY DEF CallInv, Begun, Writing

LEMMA StepCallInv ==
    ASSUME CallInv, NEW c \in Callers, Proceeds(c) \/ Refused(c) \/ Taken(c) \/ Resumed(c)
    PROVE  CallInv'
<1>1. CASE Proceeds(c)
  BY <1>1 DEF CallInv, Proceeds, Writing
<1>2. CASE Refused(c)
  BY <1>2 DEF CallInv, Refused, Writing
<1>3. CASE Taken(c)
  BY <1>3 DEF CallInv, Taken, Writing
<1>4. CASE Resumed(c)
  BY <1>4 DEF CallInv, Resumed, Writing
<1> QED BY <1>1, <1>2, <1>3, <1>4

LEMMA NextCallInv ==
    ASSUME CallInv, [CNext]_<<gvars, lowvars>>
    PROVE  CallInv'
<1>1. CASE UNCHANGED lowvars
  BY <1>1 DEF lowvars, CallInv
<1>2. ASSUME NEW j \in Jobs, Begun(App, JobCommand(Wire(j))) PROVE CallInv'
  BY <1>2, BegunCallInv, CommandsWhole DEF Callers
<1>3. ASSUME NEW c \in Others, NEW m \in OtherCommand, Begun(c, m) PROVE CallInv'
  BY <1>3, BegunCallInv, CommandsWhole DEF Callers
<1>4. CASE CNext
  BY <1>1, <1>2, <1>3, <1>4, ClientStepIs, StepCallInv DEF Prepare
<1> QED BY <1>1, <1>4

-----------------------------------------------------------------------------
(* The application's jobs.  An index array in a job is of a graph that has *)
(* been constructed, so its relation is the one the graph gave it.         *)

JobsFromGraphs ==
    \A j \in Jobs : \A k \in DOMAIN jobs[j].arrays : \A g \in Graphs, d \in Direction :
        jobs[j].arrays[k] = IndexOf[g][d] => g \in built

JobsInv == GraphInv /\ JobsFromGraphs

LEMMA InitJobsInv == GInit => JobsInv
<1> SUFFICES ASSUME GInit PROVE JobsFromGraphs
  BY GraphInitInv DEF JobsInv
<1>1. \A j \in Jobs : jobs[j].arrays = <<>>
  BY DEF GInit, Init, EmptyJob
<1> QED BY <1>1 DEF JobsFromGraphs

(* Preparing is constructing graphs and building jobs.                     *)
LEMMA PrepareIs ==
    ASSUME Prepare
    PROVE  /\ GNext
           /\ UNCHANGED lowvars
           /\ \/ \E g \in Graphs : ConstructGraph(g)
              \/ \E j \in Jobs, g \in Graphs, d \in Direction, sel, cons \in Optional :
                    CreateGraphJob(j, g, d, sel, cons)
BY ClientAssumption DEF Prepare, GNext

LEMMA PrepareJobsInv ==
    ASSUME JobsInv, Prepare
    PROVE  JobsInv'
<1>1. GraphInv /\ GraphInv'
  BY PrepareIs, GraphNextInv DEF JobsInv
<1>2. ASSUME NEW g \in Graphs, ConstructGraph(g) PROVE JobsFromGraphs'
  BY <1>2 DEF JobsInv, JobsFromGraphs, ConstructGraph
<1>3. ASSUME NEW j \in Jobs, NEW g \in Graphs, NEW d \in Direction,
             NEW sel \in Optional, NEW cons \in Optional, CreateGraphJob(j, g, d, sel, cons)
      PROVE  JobsFromGraphs'
  <2> DEFINE s == GraphJobOf(heap, IndexOf[g][d], NeighborsOf[g][d], sel, cons)
  <2>1. jobs' = [jobs EXCEPT ![j] = s.job] /\ built' = built /\ g \in built
    BY <1>3 DEF CreateGraphJob
  <2>2. FreshJob(s.heap, s.job, IndexOf[g][d], NeighborsOf[g][d], sel, cons)
    BY <1>1, <2>1, FreshJobIs
  <2> HIDE DEF s
  <2>3. \A k \in DOMAIN s.job.arrays :
            s.job.arrays[k] \in {IndexOf[g][d], NeighborsOf[g][d], sel, cons} \ {Null}
    BY <2>2, ChainPlaces
  <2>4. ASSUME NEW k \in DOMAIN s.job.arrays, NEW f \in Graphs, NEW e \in Direction,
               s.job.arrays[k] = IndexOf[f][e]
        PROVE  f \in built
    <3>1. IndexOf[f][e] \in IndexArrays /\ NeighborsOf[g][d] \notin IndexArrays
      BY GraphArrays, GraphAssumption
    <3>2. sel \notin IndexArrays /\ cons \notin IndexArrays
      BY OptionalArrays
    <3>3. IndexOf[f][e] = IndexOf[g][d]
      BY <2>3, <2>4, <3>1, <3>2
    <3>4. f = g
      BY <3>3, GraphAssumption
    <3> QED BY <2>1, <3>4
  <2>5. \A i \in Jobs : jobs'[i] = IF i = j THEN s.job ELSE jobs[i]
    BY <1>1, <2>1 DEF GraphInv, TypeOK
  <2> QED BY <2>1, <2>4, <2>5 DEF JobsInv, JobsFromGraphs
<1> QED BY <1>1, <1>2, <1>3, PrepareIs DEF JobsInv

LEMMA NextJobsInv ==
    ASSUME JobsInv, CallInv, [CNext]_<<gvars, lowvars>>
    PROVE  JobsInv'
<1>1. CASE UNCHANGED gvars
  <2>1. GraphInv'
    BY <1>1, GraphNextInv DEF JobsInv
  <2> QED BY <1>1, <2>1 DEF JobsInv, JobsFromGraphs, gvars
<1> QED BY <1>1, ClientStepIs, PrepareJobsInv

(* A description that walks no further than its own rows, and from an      *)
(* index array to its neighbors array.                                     *)
WalksEdges(rows) ==
    \A k \in DOMAIN rows :
        /\ rows[k].dst \in {NoArray} \cup 0 .. Len(rows) - 1
        /\ \A g \in Graphs, d \in Direction : rows[k].region = IndexOf[g][d] =>
              /\ rows[k].dst # NoArray
              /\ rows[rows[k].dst + 1].region = NeighborsOf[g][d]

(* At the moment of the call, a job that does not throw is one.            *)
LEMMA WireWalksEdges ==
    ASSUME JobsInv, NEW j \in Jobs, Wire(j).ok
    PROVE  WalksEdges(Wire(j).rows)
<1> DEFINE q == jobs[j].arrays
           rows == Wire(j).rows
<1>1. /\ TypeOK /\ RenameInv /\ IdsDistinct(heap) /\ IndexReachesNeighbors
      /\ \A a \in Arrays : heap.id[a] \in Nat
      /\ \A k \in DOMAIN q : q[k] \in Arrays
  BY DEF JobsInv, GraphInv, RenameInv, TypeOK, Heap, IsJob
<1>2. ASSUME NEW k \in DOMAIN rows
      PROVE  /\ k \in DOMAIN q /\ Len(rows) = Len(q) /\ rows[k].region = q[k]
             /\ DOMAIN rows = 1 .. Len(rows) /\ Len(rows) \in Nat
  <2>1. DOMAIN q = 1 .. Len(q) /\ Len(q) \in Nat
    BY <1>1 DEF TypeOK, IsJob
  <2>2. DOMAIN rows = DOMAIN q /\ Len(rows) = Len(q) /\ rows[k] = WireRow(heap, jobs[j], q[k])
    BY <1>1, <1>2, WireFacts
  <2> HIDE DEF rows
  <2> QED BY <1>2, <2>1, <2>2 DEF WireRow
<1>3. WireFollowsIndexing
  BY <1>1, FollowsFromInv
<1>4. ASSUME NEW k \in DOMAIN rows
      PROVE  LET d == heap.dst[rows[k].region] IN
             IF d = NoArray THEN rows[k].dst = NoArray
             ELSE /\ rows[k].dst \in 0 .. Len(rows) - 1
                  /\ heap.id[rows[rows[k].dst + 1].region] = d
  BY <1>3, <1>4 DEF WireFollowsIndexing
<1> HIDE DEF rows
<1>5. ASSUME NEW k \in DOMAIN rows, NEW g \in Graphs, NEW d \in Direction,
             rows[k].region = IndexOf[g][d]
      PROVE  rows[k].dst # NoArray /\ rows[rows[k].dst + 1].region = NeighborsOf[g][d]
  <2>1. g \in built
    BY <1>2, <1>5 DEF JobsInv, JobsFromGraphs
  <2>2. /\ heap.dst[rows[k].region] = heap.id[NeighborsOf[g][d]]
        /\ heap.id[NeighborsOf[g][d]] # Unassigned /\ NeighborsOf[g][d] \in Arrays
    BY <1>1, <1>5, <2>1, GraphArrays, UnrelatedAssumption DEF IndexReachesNeighbors
  <2>3. heap.dst[rows[k].region] # NoArray
    BY <1>1, <2>2 DEF NoArray
  <2>4. /\ rows[k].dst \in 0 .. Len(rows) - 1
        /\ heap.id[rows[rows[k].dst + 1].region] = heap.id[NeighborsOf[g][d]]
    BY <1>4, <2>2, <2>3
  <2>5. rows[k].dst # NoArray /\ rows[k].dst + 1 \in DOMAIN rows
    BY <1>2, <2>4 DEF NoArray
  <2>6. rows[rows[k].dst + 1].region \in Arrays
    BY <1>1, <1>2, <2>5
  <2> QED BY <1>1, <2>2, <2>4, <2>5, <2>6 DEF IdsDistinct
<1>6. ASSUME NEW k \in DOMAIN rows
      PROVE  rows[k].dst \in {NoArray} \cup 0 .. Len(rows) - 1
  BY <1>4, <1>6
<1> QED BY <1>5, <1>6 DEF WalksEdges, rows

(* From the call to the device the command is the same.                    *)
Walks(m) == m.type = "SEND_JOB_DESCRIPTOR" => WalksEdges(m.body)

(* The hypothesis of the theorem: what the other processes send as jobs,   *)
(* if they send jobs, they built as the application does.                  *)
OthersWalk == \A m \in OtherCommand : Walks(m)

WalkInv ==
    /\ \A c \in Callers : pc[c] # "idle" => Walks(call[c].command)
    /\ log = [k \in DOMAIN log |-> log[k]] /\ \E n \in Nat : DOMAIN log = 1 .. n
    /\ \A k \in DOMAIN log : Walks(log[k])

LEMMA WalkSuffices == WalkInv => HeldJobsWalkEdges
BY DEF WalkInv, Walks, WalksEdges, HeldJobsWalkEdges, JobsHeld

LEMMA InitWalkInv == Low!LInit => WalkInv
<1> SUFFICES ASSUME Low!LInit PROVE WalkInv
  OBVIOUS
<1>1. pc = [c \in Callers |-> "idle"] /\ log = <<>>
  BY DEF Low!LInit, Callers
<1> QED BY <1>1 DEF WalkInv

LEMMA BegunWalkInv ==
    ASSUME CallInv, WalkInv, NEW c \in Callers, NEW m, Walks(m), Begun(c, m)
    PROVE  WalkInv'
<1>1. \A b \in Callers : pc'[b] # "idle" => Walks(call'[b].command)
  <2>1. \A b \in Callers \ {c} : pc'[b] = pc[b] /\ call'[b] = call[b]
    BY DEF CallInv, Begun
  <2>2. call'[c].command = m
    BY DEF CallInv, Begun
  <2> QED BY <2>1, <2>2 DEF WalkInv
<1> QED BY <1>1 DEF WalkInv, Begun, Walks, WalksEdges

LEMMA StepWalkInv ==
    ASSUME CallInv, WalkInv, NEW c \in Callers,
           Proceeds(c) \/ Refused(c) \/ Taken(c) \/ Resumed(c)
    PROVE  WalkInv'
<1>1. \A b \in Callers : pc'[b] # "idle" => pc[b] # "idle" /\ call'[b] = call[b]
  BY DEF CallInv, Proceeds, Refused, Taken, Resumed
<1>2. \A b \in Callers : pc'[b] # "idle" => Walks(call'[b].command)
  BY <1>1 DEF WalkInv
<1>3. CASE UNCHANGED log
  BY <1>2, <1>3 DEF WalkInv
<1>4. CASE Taken(c)
  <2>1. log' = Append(log, call[c].command) /\ Walks(call[c].command)
    BY <1>4 DEF Taken, WalkInv
  <2> QED BY <1>2, <2>1 DEF WalkInv
<1> QED BY <1>3, <1>4 DEF Proceeds, Refused, Resumed

LEMMA NextWalkInv ==
    ASSUME OthersWalk, JobsInv, CallInv, WalkInv, [CNext]_<<gvars, lowvars>>
    PROVE  WalkInv'
<1>1. CASE UNCHANGED lowvars
  BY <1>1 DEF lowvars, WalkInv
<1>2. ASSUME NEW j \in Jobs, Wire(j).ok, Begun(App, JobCommand(Wire(j))) PROVE WalkInv'
  <2>1. Walks(JobCommand(Wire(j)))
    BY <1>2, WireWalksEdges DEF Walks, JobCommand
  <2> QED BY <1>2, <2>1, BegunWalkInv DEF Callers
<1>3. ASSUME NEW c \in Others, NEW m \in OtherCommand, Begun(c, m) PROVE WalkInv'
  BY <1>3, BegunWalkInv DEF Callers, OthersWalk
<1>4. CASE CNext
  BY <1>1, <1>2, <1>3, <1>4, ClientStepIs, StepWalkInv DEF Prepare
<1> QED BY <1>1, <1>4

LEMMA ClientInvariant == CSpec => [](JobsInv /\ CallInv)
<1>1. CInit => JobsInv /\ CallInv
  BY InitJobsInv, InitCallInv DEF CInit
<1>2. JobsInv /\ CallInv /\ [CNext]_<<gvars, lowvars>> => JobsInv' /\ CallInv'
  BY NextJobsInv, NextCallInv
<1> QED BY <1>1, <1>2, PTL DEF CSpec

(* Every job the device has taken leads from index arrays to their         *)
(* neighbors arrays and nowhere outside itself, though the relations it    *)
(* was made from have been rewritten for other jobs since                  *)
(* (wrapper.h:13-75, pickle_job.h:200-219, manager.cpp:32-36).             *)
THEOREM HeldJobsWalkEdgesCorrect ==
    ASSUME OthersWalk
    PROVE  CSpec => []HeldJobsWalkEdges
<1>1. CInit => WalkInv
  BY InitWalkInv DEF CInit
<1>2. JobsInv /\ CallInv /\ WalkInv /\ [CNext]_<<gvars, lowvars>> => WalkInv'
  BY NextWalkInv
<1> QED BY <1>1, <1>2, ClientInvariant, WalkSuffices, PTL DEF CSpec

-----------------------------------------------------------------------------
(* PrefetchClient implements PrefetchService.  First the calls: the        *)
(* command channel that CommandChannel describes.                          *)

(* A step of one call leaves the others where they are.                    *)
LEMMA OthersStand ==
    ASSUME NEW c \in Callers,
           \A b \in Callers \ {c} :
               pc'[b] = pc[b] /\ verdict'[b] = verdict[b] /\ call'[b] = call[b]
    PROVE  /\ ServiceState' = [ServiceState EXCEPT ![c] = ServiceState'[c]]
           /\ ServiceWants' = [ServiceWants EXCEPT ![c] = ServiceWants'[c]]
<1>1. \A b \in Callers \ {c} :
          ServiceState'[b] = ServiceState[b] /\ ServiceWants'[b] = ServiceWants[b]
  BY DEF ServiceState, ServiceWants, InWrite, Callers
<1>2. /\ ServiceState = [b \in Callers |-> ServiceState[b]]
      /\ ServiceState' = [b \in Callers |-> ServiceState'[b]]
      /\ ServiceWants = [b \in Callers |-> ServiceWants[b]]
      /\ ServiceWants' = [b \in Callers |-> ServiceWants'[b]]
  BY DEF ServiceState, ServiceWants, Callers
<1> QED BY <1>1, <1>2

LEMMA ProceedsHidden ==
    ASSUME CallInv, NEW c \in Callers, Proceeds(c)
    PROVE  UNCHANGED <<ServiceState, ServiceWants, log>>
<1>1. /\ \A b \in Callers \ {c} : pc'[b] = pc[b] /\ verdict'[b] = verdict[b] /\ call'[b] = call[b]
      /\ pc[c] \in {"open", "header", "body"} /\ pc'[c] \in {"open", "header", "body"}
      /\ call'[c] = call[c] /\ log' = log
  BY DEF CallInv, Proceeds
<1>2. /\ ServiceState[c] = "pending" /\ ServiceState'[c] = "pending"
      /\ ServiceWants'[c] = ServiceWants[c]
  BY <1>1 DEF ServiceState, ServiceWants, InWrite, Callers
<1>3. /\ ServiceState = [b \in Callers |-> ServiceState[b]]
      /\ ServiceWants = [b \in Callers |-> ServiceWants[b]]
  BY DEF ServiceState, ServiceWants, Callers
<1> QED BY <1>1, <1>2, <1>3, OthersStand

LEMMA BegunBegins ==
    ASSUME CallInv, NEW c \in Callers, NEW m, Begun(c, m)
    PROVE  Service!Channel!Begin(c, m)
<1>1. /\ \A b \in Callers \ {c} : pc'[b] = pc[b] /\ verdict'[b] = verdict[b] /\ call'[b] = call[b]
      /\ pc[c] = "idle" /\ pc'[c] = "open" /\ call'[c].command = m /\ log' = log
  BY DEF CallInv, Begun
<1>2. ServiceState[c] = "idle" /\ ServiceState'[c] = "pending" /\ ServiceWants'[c] = m
  BY <1>1 DEF ServiceState, ServiceWants, InWrite, Callers
<1> QED BY <1>1, <1>2, OthersStand DEF Service!Channel!Begin

LEMMA RefusedRefuses ==
    ASSUME CallInv, NEW c \in Callers, Refused(c)
    PROVE  Service!Channel!Refuse(c)
<1>1. /\ \A b \in Callers \ {c} : pc'[b] = pc[b] /\ verdict'[b] = verdict[b] /\ call'[b] = call[b]
      /\ pc[c] \in {"open", "header", "body"} /\ pc'[c] = "returned" /\ verdict'[c] = FALSE
      /\ call'[c] = call[c] /\ log' = log
  BY DEF CallInv, Refused
<1>2. /\ ServiceState[c] = "pending" /\ ServiceState'[c] = "false"
      /\ ServiceWants'[c] = ServiceWants[c]
  BY <1>1 DEF ServiceState, ServiceWants, InWrite, Callers
<1>3. ServiceWants = [b \in Callers |-> ServiceWants[b]]
  BY DEF ServiceWants, Callers
<1> QED BY <1>1, <1>2, <1>3, OthersStand DEF Service!Channel!Refuse

LEMMA TakenTakes ==
    ASSUME CallInv, NEW c \in Callers, Taken(c)
    PROVE  Service!Channel!Take(c)
<1>1. /\ \A b \in Callers \ {c} : pc'[b] = pc[b] /\ verdict'[b] = verdict[b] /\ call'[b] = call[b]
      /\ pc[c] = "body" /\ pc'[c] = "returned" /\ verdict'[c] = TRUE
      /\ call'[c] = call[c] /\ log' = Append(log, call[c].command)
  BY DEF CallInv, Taken
<1>2. /\ ServiceState[c] = "pending" /\ ServiceState'[c] = "true"
      /\ ServiceWants'[c] = ServiceWants[c] /\ ServiceWants[c] = call[c].command
  BY <1>1 DEF ServiceState, ServiceWants, InWrite, Callers
<1>3. ServiceWants = [b \in Callers |-> ServiceWants[b]]
  BY DEF ServiceWants, Callers
<1> QED BY <1>1, <1>2, <1>3, OthersStand DEF Service!Channel!Take

LEMMA ResumedAnswers ==
    ASSUME CallInv, NEW c \in Callers, Resumed(c)
    PROVE  Service!Channel!Answer(c)
<1>1. /\ \A b \in Callers \ {c} : pc'[b] = pc[b] /\ verdict'[b] = verdict[b] /\ call'[b] = call[b]
      /\ pc[c] = "returned" /\ pc'[c] = "idle" /\ log' = log
  BY DEF CallInv, Resumed
<1>2. /\ ServiceState[c] \in {"true", "false"} /\ ServiceState'[c] = "idle"
      /\ ServiceWants'[c] = NoCommand
  BY <1>1 DEF ServiceState, ServiceWants, InWrite, Callers
<1> QED BY <1>1, <1>2, OthersStand DEF Service!Channel!Answer

(* Then the application's part: what IndexChains keeps of its arrays.      *)

LEMMA SameDescribe ==
    \A t, s, ac, ad : Service!Describe(t, s, ac, ad) = Chains!Describe(t, s, ac, ad)
BY DEF Service!Describe, Service!Closed, Service!Row, Service!LastPos, Service!Elements,
       Chains!Describe, Chains!Closed, Chains!Row, Chains!LastPos, Chains!Elements

LEMMA InvOfJobs == JobsInv => JobInv /\ Viewed
BY ViewedFromInv DEF JobsInv, GraphInv, JobInv

(* A relation that holds an id leads to the array that has it.             *)
LEMMA TargetSet ==
    ASSUME JobInv', NEW a \in Arrays, NEW b \in Arrays,
           heap'.dst[a] = heap'.id[b], heap'.id[b] # Unassigned
    PROVE  Target'[a] = b
<1>1. /\ heap'.id[b] \in Nat
      /\ \A c \in Arrays : heap'.id[c] = heap'.dst[a] => c = b
  BY DEF JobInv, RenameInv, IdsDistinct, TypeOK, Heap
<1>2. Target'[a] = CHOOSE c \in Arrays : heap'.id[c] = heap'.dst[a]
  BY <1>1 DEF Target, NoArray
<1> QED BY <1>1, <1>2

LEMMA ConstructImplements ==
    ASSUME JobInv, JobInv', Viewed', NEW g \in Graphs, ConstructGraph(g)
    PROVE  Service!Construct(g)
<1> DEFINE own == {IndexOf[g][d] : d \in Direction}
<1>1. heap \in Heap /\ IdsDistinct(heap) /\ DstsExist(heap)
  BY DEF JobInv, TypeOK, RenameInv
<1>2. heap' = GraphHeap(heap, g) /\ jobs' = jobs
  BY DEF ConstructGraph
<1>3. /\ Extends(heap, heap', own)
      /\ \A d \in Direction : /\ heap'.dst[IndexOf[g][d]] = heap'.id[NeighborsOf[g][d]]
                              /\ heap'.id[NeighborsOf[g][d]] # Unassigned
  BY <1>1, <1>2, GraphHeapFacts
<1>4. \A d \in Direction : Target'[IndexOf[g][d]] = NeighborsOf[g][d]
  BY <1>3, TargetSet, GraphArrays
<1>5. \A a \in Arrays \ own : Target'[a] = Target[a]
  BY <1>3, TargetKept DEF Extends
<1>6. \A d, e \in Direction : IndexOf[g][d] = IndexOf[g][e] => d = e
  BY GraphAssumption
<1>7. Direction = Service!Direction
  BY DEF Direction, Service!Direction
<1>8. ASSUME NEW a \in Arrays
      PROVE  Target'[a] = IF \E d \in Direction : a = IndexOf[g][d]
                          THEN NeighborsOf[g][CHOOSE d \in Direction : a = IndexOf[g][d]]
                          ELSE Target[a]
  <2>1. CASE a \in own
    <3>1. PICK d \in Direction : a = IndexOf[g][d]
      BY <2>1
    <3>2. (CHOOSE e \in Direction : a = IndexOf[g][e]) = d
      BY <1>6, <3>1
    <3> QED BY <1>4, <3>1, <3>2
  <2>2. CASE a \notin own
    BY <1>5, <2>2
  <2> QED BY <2>1, <2>2
<1>9. Target' = [a \in Arrays |-> IF \E d \in Direction : a = IndexOf[g][d]
                    THEN NeighborsOf[g][CHOOSE d \in Direction : a = IndexOf[g][d]]
                    ELSE Target[a]]
  <2>1. Target' = [a \in Arrays |-> Target'[a]]
    BY DEF Target
  <2> QED BY <1>8, <2>1
<1>10. Members' = Members /\ heap'.access = heap.access /\ heap'.addressing = heap.addressing
  BY <1>2, <1>3 DEF Members, Extends
<1>11. Service!Viewed
  BY SameDescribe DEF Viewed, Service!Viewed
<1> QED BY <1>7, <1>9, <1>10, <1>11 DEF Service!Construct

LEMMA ThenFacts ==
    ASSUME NEW q \in Seq(Arrays), NEW a \in Arrays \cup {Null}
    PROVE  /\ Service!Then(q, a) \in Seq(Arrays)
           /\ Len(q) \in Nat
           /\ Len(Service!Then(q, a)) = Len(q) + (IF a = Null THEN 0 ELSE 1)
           /\ \A k \in 1 .. Len(q) : Service!Then(q, a)[k] = q[k]
           /\ a # Null => Service!Then(q, a)[Len(q) + 1] = a
<1>1. CASE a = Null
  BY <1>1 DEF Service!Then
<1>2. CASE a # Null
  BY <1>2, AppendFacts DEF Service!Then
<1> QED BY <1>1, <1>2

(* The arrays of a job the wrapper builds, in order.                       *)
LEMMA ChainIs ==
    ASSUME NEW q \in Seq(Arrays), NEW index \in Arrays, NEW neighbors \in Arrays,
           NEW sel \in Arrays \cup {Null}, NEW cons \in Arrays \cup {Null},
           IsChain(q, index, neighbors, sel, cons)
    PROVE  q = Service!Then(Service!Then(<<index, neighbors>>, sel), cons)
<1> DEFINE p == <<index, neighbors>>
           r == Service!Then(p, sel)
           t == Service!Then(r, cons)
<1>1. q[1] = index /\ q[2] = neighbors
  BY DEF IsChain
<1>2. p \in Seq(Arrays) /\ Len(p) = 2 /\ p[1] = index /\ p[2] = neighbors
  OBVIOUS
<1> HIDE DEF p
<1>3. /\ r \in Seq(Arrays) /\ Len(r) = (IF sel = Null THEN 2 ELSE 3)
      /\ r[1] = index /\ r[2] = neighbors /\ (sel # Null => r[3] = sel)
  <2>1. /\ r \in Seq(Arrays) /\ Len(r) = Len(p) + (IF sel = Null THEN 0 ELSE 1)
        /\ \A k \in 1 .. Len(p) : r[k] = p[k]
        /\ sel # Null => r[Len(p) + 1] = sel
    BY <1>2, ThenFacts
  <2> HIDE DEF r
  <2>2. 1 \in 1 .. Len(p) /\ 2 \in 1 .. Len(p)
    BY <1>2
  <2> QED BY <1>2, <2>1, <2>2
<1> HIDE DEF r
<1>4. /\ t \in Seq(Arrays) /\ Len(t) = Len(r) + (IF cons = Null THEN 0 ELSE 1)
      /\ t[1] = index /\ t[2] = neighbors /\ (sel # Null => t[3] = sel)
      /\ cons # Null => t[Len(t)] = cons
  <2>1. /\ t \in Seq(Arrays) /\ Len(t) = Len(r) + (IF cons = Null THEN 0 ELSE 1)
        /\ \A k \in 1 .. Len(r) : t[k] = r[k]
        /\ cons # Null => t[Len(r) + 1] = cons
    BY <1>3, ThenFacts
  <2> HIDE DEF t
  <2>2. 1 \in 1 .. Len(r) /\ 2 \in 1 .. Len(r) /\ (sel # Null => 3 \in 1 .. Len(r))
    BY <1>3
  <2>3. cons # Null => Len(t) = Len(r) + 1
    BY <2>1
  <2> QED BY <1>3, <2>1, <2>2, <2>3
<1> HIDE DEF t
<1>5. Len(q) = Len(t) /\ (sel # Null => q[3] = sel) /\ (cons # Null => q[Len(q)] = cons)
  BY <1>3, <1>4 DEF IsChain
<1>6. ASSUME NEW k \in 1 .. Len(q) PROVE q[k] = t[k]
  BY <1>1, <1>3, <1>4, <1>5, <1>6
<1>7. q = t
  BY <1>4, <1>5, <1>6
<1> QED BY <1>7 DEF p, r, t

LEMMA BuildImplements ==
    ASSUME GraphInv, JobInv, JobInv', Viewed',
           NEW j \in Jobs, NEW g \in Graphs, NEW d \in Direction,
           NEW sel \in Optional, NEW cons \in Optional, CreateGraphJob(j, g, d, sel, cons)
    PROVE  Service!Build(j, IndexOf[g][d], NeighborsOf[g][d], sel, cons)
<1> DEFINE i == IndexOf[g][d]
           n == NeighborsOf[g][d]
           s == GraphJobOf(heap, i, n, sel, cons)
<1>1. heap' = s.heap /\ jobs' = [jobs EXCEPT ![j] = s.job] /\ g \in built
  BY DEF CreateGraphJob
<1>2. FreshJob(s.heap, s.job, i, n, sel, cons)
  BY <1>1, FreshJobIs
<1>3. jobs = [k \in Jobs |-> jobs[k]]
  BY DEF JobInv, TypeOK
<1> HIDE DEF s, i, n
<1>4. /\ Extends(heap, heap', {n, sel}) /\ RenamesItsArrays(heap', s.job)
      /\ i \in Arrays /\ n \in Arrays
      /\ sel \in Arrays \cup {Null} /\ cons \in Arrays \cup {Null} /\ sel # n
      /\ sel # Null => heap'.dst[sel] = heap'.id[i]
      /\ cons # Null => heap'.dst[n] = heap'.id[cons]
      /\ cons = Null => heap'.dst[n] = heap.dst[n]
  BY <1>1, <1>2 DEF FreshJob
<1>5. \A a \in {i, n, sel, cons} \ {Null} : heap'.id[a] # Unassigned
  <2>1. \A a \in {i, n, sel, cons} \ {Null} :
            \E m \in DOMAIN s.job.arrays : s.job.arrays[m] = a
    BY <1>2, ChainPlaces
  <2>2. \A m \in DOMAIN s.job.arrays : heap'.id[s.job.arrays[m]] # Unassigned
    BY <1>4 DEF RenamesItsArrays
  <2> QED BY <2>1, <2>2
<1>6. cons # Null => Target'[n] = cons
  BY <1>4, <1>5, TargetSet
<1>7. sel # Null => Target'[sel] = i
  BY <1>4, <1>5, NullAssumption, TargetSet
<1>8. ASSUME NEW a \in Arrays, a # sel, ~ (a = n /\ cons # Null) PROVE Target'[a] = Target[a]
  BY <1>4, <1>8, TargetKept DEF Extends
<1>9. Target' = [a \in Arrays |-> CASE a = n /\ cons # Null -> cons
                                    [] a = sel -> i
                                    [] OTHER -> Target[a]]
  <2>1. ASSUME NEW a \in Arrays
        PROVE  Target'[a] = CASE a = n /\ cons # Null -> cons
                              [] a = sel -> i
                              [] OTHER -> Target[a]
    <3>1. CASE a = n /\ cons # Null
      BY <1>4, <1>6, <3>1
    <3>2. CASE a = sel
      BY <1>4, <1>7, <3>2, NullAssumption
    <3>3. CASE a # sel /\ ~ (a = n /\ cons # Null)
      BY <1>8, <3>3
    <3> QED BY <3>1, <3>2, <3>3
  <2>2. Target' = [a \in Arrays |-> Target'[a]]
    BY DEF Target
  <2> QED BY <2>1, <2>2
<1>10. Members' = [Members EXCEPT ![j] = Service!Then(Service!Then(<<i, n>>, sel), cons)]
  <2>1. s.job.arrays \in Seq(Arrays) /\ IsChain(s.job.arrays, i, n, sel, cons)
    BY <1>2 DEF FreshJob, IsJob
  <2>2. s.job.arrays = Service!Then(Service!Then(<<i, n>>, sel), cons)
    <3>1. \A q \in Seq(Arrays) : IsChain(q, i, n, sel, cons) =>
              q = Service!Then(Service!Then(<<i, n>>, sel), cons)
      BY <1>4, ChainIs
    <3> QED BY <2>1, <3>1
  <2> QED BY <1>1, <1>3, <2>2 DEF Members
<1>11. Service!Viewed
  BY SameDescribe DEF Viewed, Service!Viewed
<1>12. heap'.access = heap.access /\ heap'.addressing = heap.addressing
  BY <1>4 DEF Extends
<1> QED BY <1>9, <1>10, <1>11, <1>12 DEF Service!Build, i, n

LEMMA InitService == CInit => Service!SInit
<1> SUFFICES ASSUME CInit PROVE Service!SInit
  OBVIOUS
<1>1. Init /\ Low!LInit
  BY DEF CInit, GInit
<1>2. Chains!Init
  BY <1>1, InitChains
<1>3. Service!Init
  BY <1>2, SameDescribe DEF Chains!Init, Service!Init
<1>4. /\ pc = [c \in Callers |-> "idle"] /\ log = <<>>
  BY <1>1 DEF Low!LInit, Callers
<1>5. Service!Channel!Init
  BY <1>4 DEF Service!Channel!Init, ServiceState, ServiceWants, InWrite, Callers
<1> QED BY <1>3, <1>5 DEF Service!SInit

LEMMA PrepareImplements ==
    ASSUME JobsInv, JobInv', Viewed', Prepare
    PROVE  Service!SNext
<1>1. JobInv /\ GraphInv
  BY InvOfJobs DEF JobsInv
<1>2. UNCHANGED <<ServiceState, ServiceWants, log>> /\ ServiceState[App] = "idle"
  BY DEF Prepare, Running, lowvars, ServiceState, ServiceWants, InWrite
<1>3. ASSUME NEW g \in Graphs, ConstructGraph(g) PROVE Service!Changes
  BY <1>1, <1>2, <1>3, ConstructImplements DEF Service!Changes
<1>4. ASSUME NEW j \in Jobs, NEW g \in Graphs, NEW d \in Direction,
             NEW sel \in Optional, NEW cons \in Optional, CreateGraphJob(j, g, d, sel, cons)
      PROVE  Service!Changes
  <2>1. Service!Build(j, IndexOf[g][d], NeighborsOf[g][d], sel, cons)
    BY <1>1, <1>4, BuildImplements
  <2>2. /\ d \in Service!Direction
        /\ sel \in Arrays \cup {Null} /\ cons \in Arrays \cup {Null}
    BY OptionalArrays DEF Direction, Service!Direction
  <2> QED BY <1>2, <2>1, <2>2 DEF Service!Changes
<1> QED BY <1>3, <1>4, PrepareIs DEF Service!SNext

LEMMA NextService ==
    ASSUME JobsInv, CallInv, JobInv', Viewed', [CNext]_<<gvars, lowvars>>
    PROVE  [Service!SNext]_(Service!svars)
<1>1. ASSUME UNCHANGED gvars PROVE UNCHANGED Service!avars
  BY <1>1 DEF gvars, Service!avars, Target, Members, View, Wire
<1>2. ASSUME NEW j \in Jobs, Wire(j).ok, Begun(App, JobCommand(Wire(j))), UNCHANGED gvars
      PROVE  Service!SNext
  <2>1. View[j].ok /\ JobCommand(Wire(j)) = Service!ChainCommand(View[j].rows)
    BY <1>2 DEF View, JobCommand, Service!ChainCommand
  <2>2. Service!Channel!Begin(App, JobCommand(Wire(j)))
    BY <1>2, BegunBegins DEF Callers
  <2> QED BY <1>1, <1>2, <2>1, <2>2 DEF Service!SNext, Service!Send
<1>3. ASSUME NEW c \in Others, NEW m \in OtherCommand, Begun(c, m), UNCHANGED gvars
      PROVE  Service!SNext
  <2>1. Service!Channel!Begin(c, m)
    BY <1>3, BegunBegins DEF Callers
  <2> QED BY <1>1, <1>3, <2>1, ClientAssumption DEF Service!SNext, Service!OthersSend
<1>4. ASSUME NEW c \in Callers, Refused(c) \/ Taken(c) \/ Resumed(c), UNCHANGED gvars
      PROVE  Service!SNext
  <2>1. Service!Channel!Take(c) \/ Service!Channel!Refuse(c) \/ Service!Channel!Answer(c)
    BY <1>4, RefusedRefuses, TakenTakes, ResumedAnswers
  <2> QED BY <1>1, <1>4, <2>1 DEF Service!SNext, Service!Deliver, Callers
<1>5. ASSUME NEW c \in Callers, Proceeds(c), UNCHANGED gvars PROVE UNCHANGED Service!svars
  BY <1>1, <1>5, ProceedsHidden DEF Service!svars
<1>6. CASE UNCHANGED <<gvars, lowvars>>
  <2>1. UNCHANGED <<ServiceState, ServiceWants, log>>
    BY <1>6 DEF lowvars, ServiceState, ServiceWants, InWrite
  <2> QED BY <1>1, <1>6, <2>1 DEF Service!svars
<1> QED BY <1>2, <1>3, <1>4, <1>5, <1>6, ClientStepIs, PrepareImplements

(* From graphs to the device: a call of sendJob throws, or hands over the  *)
(* chain the job had when it was called, whole and once if it answers true *)
(* and not at all if it answers false, with everything in between hidden   *)
(* (manager.cpp:32-36, low_level.cpp:157-180, pickle_job.h:170-225).       *)
THEOREM ImplementsServiceCorrect == CSpec => ImplementsService
<1>1. [](JobsInv => JobInv /\ Viewed)
  BY InvOfJobs, PTL
<1>2. JobsInv /\ CallInv /\ JobInv' /\ Viewed' /\ [CNext]_<<gvars, lowvars>>
        => [Service!SNext]_(Service!svars)
  BY NextService
<1> QED BY <1>1, <1>2, ClientInvariant, InitService, PTL
        DEF CSpec, ImplementsService, Service!SSpec
=============================================================================

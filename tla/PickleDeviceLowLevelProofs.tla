---------------------- MODULE PickleDeviceLowLevelProofs ----------------------
(***************************************************************************)
(* Theorems about PickleDeviceLowLevel, for any number of processes, file  *)
(* descriptors, pages and commands.  The lemmas take the steps one by one, *)
(* from any state where the invariant holds.                               *)
(***************************************************************************)
EXTENDS PickleDeviceLowLevel, TLAPS

(* What the device takes: the fields of commands, not yet of one command.  *)
Frame == [type   : {m.type : m \in Command},
          length : {m.length : m \in Command},
          body   : {m.body : m \in Command}]

InProgress == {"mmap", "ioctl", "header", "body"}

(* Past open, a process makes the system calls of the function it is in.   *)
RightCall ==
    \A c \in Clients :
        /\ pc[c] \in InProgress \ {"body"} => pc[c] = AfterOpen(call[c].fn)
        /\ pc[c] = "body" => call[c].fn = "write_command_to_device"

(* The driver's numbers are those of pages mapped.                         *)
PagesMapped ==
    \A c \in Clients, k \in Kind : pc[c] # "exited" =>
        \A i \in 0 .. nextPage[c][k] - 1 :
            [owner |-> c, kind |-> k, number |-> i] \in mapped[c]

(* What holds whoever calls the functions, and what holds as long as pages *)
(* stay mapped.                                                            *)
CallsInv == LTypeOK /\ log \in Seq(Frame) /\ FdsAccounted /\ RightCall

LInv == CallsInv /\ PagesMapped /\ OutIsHonest

(* The page that an allocator maps next.                                   *)
NewPage(c) ==
    [owner  |-> c,
     kind   |-> KindOf(call[c].fn),
     number |-> nextPage[c][KindOf(call[c].fn)]]

LEMMA AfterOpenFacts ==
    /\ \A f : AfterOpen(f) \in InProgress
    /\ \A f : AfterOpen(f) \in {"header", "body"} <=> f = "write_command_to_device"
    /\ \A f : AfterOpen(f) = "mmap" => f \notin {"write_command_to_device", "get_device_specs"}
BY DEF AfterOpen, InProgress, AddressFunction

LEMMA InitLInv == LInit => LInv
<1> SUFFICES ASSUME LInit PROVE LInv
  OBVIOUS
<1>1. LTypeOK
  BY LimitsAssumption DEF LInit, LTypeOK, Location, NoCall, Kind
<1>2. log \in Seq(Frame) /\ FdsAccounted /\ RightCall /\ PagesMapped /\ OutIsHonest
  BY DEF LInit, FdsAccounted, RightCall, PagesMapped, OutIsHonest, InProgress, Kind
<1> QED BY <1>1, <1>2 DEF LInv, CallsInv

(* A function is entered by a process that makes no system call.           *)
LEMMA EnterCallsInv ==
    ASSUME CallsInv, NEW c \in Clients, NEW f \in Function, NEW id \in Nat,
           NEW m \in Command \cup {NoCommand},
           f = "write_command_to_device" => m \in Command,
           pc[c] \in {"idle", "returned"}, Enter(c, f, id, m)
    PROVE  CallsInv'
<1> USE DEF CallsInv, Enter, process, driver
<1>1. LTypeOK'
  BY DEF LTypeOK, Location
<1>2. log' \in Seq(Frame)
  OBVIOUS
<1>3. FdsAccounted'
  BY DEF FdsAccounted, LTypeOK, Location
<1>4. RightCall'
  BY DEF RightCall, LTypeOK, InProgress
<1> QED BY <1>1, <1>2, <1>3, <1>4

LEMMA ResumeCallsInv ==
    ASSUME CallsInv, NEW c \in Clients, Resume(c)
    PROVE  CallsInv'
<1> USE DEF CallsInv, Resume, process, driver
<1>1. LTypeOK'
  BY DEF LTypeOK, Location, NoCall
<1>2. log' \in Seq(Frame)
  OBVIOUS
<1>3. FdsAccounted'
  BY DEF FdsAccounted, LTypeOK, Location
<1>4. RightCall'
  BY DEF RightCall, LTypeOK, InProgress
<1> QED BY <1>1, <1>2, <1>3, <1>4

LEMMA ExitCallsInv ==
    ASSUME CallsInv, NEW c \in Clients, ProcessExit(c)
    PROVE  CallsInv'
<1> USE DEF CallsInv, ProcessExit, driver
<1>1. LTypeOK'
  BY LimitsAssumption DEF LTypeOK, Location
<1>2. log' \in Seq(Frame)
  OBVIOUS
<1>3. FdsAccounted'
  BY DEF FdsAccounted, LTypeOK, Location
<1>4. RightCall'
  BY DEF RightCall, LTypeOK, InProgress
<1> QED BY <1>1, <1>2, <1>3, <1>4

(* What Close and Leak leave of a process's descriptors.                   *)
FdsReleased(c) ==
    /\ fds' \in [Clients -> 0 .. MaxFds] /\ leaked' \in [Clients -> Nat]
    /\ \A e \in Clients \ {c} : fds'[e] = fds[e] /\ leaked'[e] = leaked[e]
    /\ fds'[c] = leaked'[c]

LEMMA CloseFacts ==
    ASSUME CallsInv, NEW c \in Clients, pc[c] \in InProgress, Close(c), UNCHANGED leaked
    PROVE  FdsReleased(c)
<1>1. fds[c] \in 0 .. MaxFds /\ fds[c] = leaked[c] + 1 /\ leaked[c] \in Nat /\ MaxFds \in Nat
  BY LimitsAssumption DEF CallsInv, LTypeOK, FdsAccounted, InProgress
<1>2. fds \in [Clients -> 0 .. MaxFds] /\ fds' = [fds EXCEPT ![c] = fds[c] - 1]
      /\ leaked' \in [Clients -> Nat]
  BY DEF CallsInv, LTypeOK, Close
<1> QED BY <1>1, <1>2 DEF FdsReleased, Close

LEMMA LeakFacts ==
    ASSUME CallsInv, NEW c \in Clients, pc[c] \in InProgress, Leak(c)
    PROVE  FdsReleased(c)
<1>1. fds[c] = leaked[c] + 1 /\ leaked[c] \in Nat
  BY DEF CallsInv, LTypeOK, FdsAccounted, InProgress
<1>2. fds \in [Clients -> 0 .. MaxFds] /\ leaked \in [Clients -> Nat]
      /\ leaked' = [leaked EXCEPT ![c] = leaked[c] + 1] /\ fds' = fds
  BY DEF CallsInv, LTypeOK, Leak
<1> QED BY <1>1, <1>2 DEF FdsReleased

(* A function that returns keeps the invariant if it has let go of its     *)
(* descriptor.                                                             *)
LEMMA ReturnCallsInv ==
    ASSUME CallsInv, NEW c \in Clients, NEW v \in BOOLEAN, NEW p \in Page \cup {NoPage},
           Return(c, v, p), FdsReleased(c),
           mapped' \in [Clients -> SUBSET Page], at' \in [Page -> Page],
           nextPage' \in [Clients -> [Kind -> 0 .. MaxPages]],
           header' = header, log' \in Seq(Frame)
    PROVE  CallsInv'
<1>t. LTypeOK
  BY DEF CallsInv
<1>1. /\ pc' \in [Clients -> Location] /\ pc'[c] = "returned"
      /\ verdict' \in [Clients -> BOOLEAN]
      /\ out' \in [Clients -> Page \cup {NoPage}]
      /\ call' = call
      /\ \A e \in Clients \ {c} : pc'[e] = pc[e]
  BY <1>t DEF Return, LTypeOK, Location
<1>2. \A k \in DOMAIN log' : DOMAIN log'[k] = {"type", "length", "body"}
  <2> SUFFICES ASSUME NEW k \in DOMAIN log' PROVE DOMAIN log'[k] = {"type", "length", "body"}
    OBVIOUS
  <2>1. log'[k] \in Frame
    OBVIOUS
  <2>2. \A f \in Frame : DOMAIN f = {"type", "length", "body"}
    BY DEF Frame
  <2> QED BY <2>1, <2>2
<1>3. LTypeOK'
  BY <1>t, <1>1, <1>2 DEF LTypeOK, FdsReleased
<1>4. FdsAccounted'
  <2>1. FdsAccounted /\ \A e \in Clients : leaked'[e] \in Nat /\ fds'[e] \in 0 .. MaxFds
    BY DEF CallsInv, FdsReleased
  <2>2. pc'[c] = "returned" /\ fds'[c] = leaked'[c]
    BY <1>1 DEF FdsReleased
  <2>3. \A e \in Clients \ {c} : pc'[e] = pc[e] /\ fds'[e] = fds[e] /\ leaked'[e] = leaked[e]
    BY <1>1 DEF FdsReleased
  <2> SUFFICES ASSUME NEW e \in Clients, pc'[e] # "exited"
               PROVE  fds'[e] = leaked'[e] + IF pc'[e] \in {"mmap", "ioctl", "header", "body"} THEN 1 ELSE 0
    BY DEF FdsAccounted
  <2>4. CASE e = c
    BY <2>1, <2>2, <2>4
  <2>5. CASE e # c
    BY <2>1, <2>3, <2>5 DEF FdsAccounted
  <2> QED BY <2>4, <2>5
<1>5. RightCall'
  BY <1>1 DEF CallsInv, RightCall, InProgress
<1> QED BY <1>3, <1>4, <1>5 DEF CallsInv

(* A page that the driver finds is one.                                    *)
LEMMA AskedIsPage ==
    ASSUME CallsInv, NEW c \in Clients,
           Asked(c).number \in 0 .. nextPage[c][Asked(c).kind] - 1
    PROVE  Asked(c) \in Page
<1>1. \A k \in Kind : nextPage[c][k] \in 0 .. MaxPages
  BY DEF CallsInv, LTypeOK
<1>2. Asked(c).kind \in Kind /\ Asked(c) = [owner |-> c, kind |-> Asked(c).kind, number |-> Asked(c).number]
  BY DEF Asked, Kind
<1>3. Asked(c).number \in 0 .. MaxPages
  BY <1>1, <1>2, LimitsAssumption
<1> QED BY <1>2, <1>3 DEF Page

(* A system call, made or failed, of any process.                          *)
LEMMA SyscallCallsInv ==
    ASSUME CallsInv, NEW c \in Clients, Syscall(c)
    PROVE  CallsInv'
<1>t. LTypeOK /\ log \in Seq(Frame) /\ RightCall /\ FdsAccounted
  BY DEF CallsInv
<1>s. /\ mapped \in [Clients -> SUBSET Page] /\ at \in [Page -> Page]
      /\ nextPage \in [Clients -> [Kind -> 0 .. MaxPages]]
  BY <1>t DEF LTypeOK
<1>n. \A e \in Clients : fds[e] \in 0 .. MaxFds /\ leaked[e] \in Nat
  BY <1>t DEF LTypeOK
<1>1. CASE Open(c)
  <2>1. /\ pc' \in [Clients -> Location] /\ pc'[c] = AfterOpen(call[c].fn) /\ pc'[c] \in InProgress \ {"body"}
        /\ fds' \in [Clients -> 0 .. MaxFds] /\ fds'[c] = fds[c] + 1 /\ pc[c] = "open"
        /\ \A e \in Clients \ {c} : pc'[e] = pc[e] /\ fds'[e] = fds[e]
        /\ UNCHANGED <<call, verdict, out, mapped, at, nextPage, leaked, log>>
    <3>1. AfterOpen(call[c].fn) \in InProgress \ {"body"}
      BY DEF AfterOpen, InProgress, AddressFunction
    <3>2. fds[c] + 1 \in 0 .. MaxFds
      BY <1>1, <1>t, LimitsAssumption DEF Open, LTypeOK
    <3> QED BY <1>1, <1>t, <3>1, <3>2 DEF Open, LTypeOK, InProgress, Location
  <2>2. header' \in [Clients \cup {Device} -> Header \cup {NoCommand}]
    BY <1>1, <1>t DEF Open, LTypeOK
  <2>3. LTypeOK'
    BY <1>t, <2>1, <2>2 DEF LTypeOK
  <2>4. FdsAccounted'
    BY <1>t, <1>n, <2>1 DEF FdsAccounted, InProgress
  <2>5. RightCall'
    BY <1>t, <2>1 DEF RightCall, InProgress
  <2> QED BY <1>t, <2>1, <2>3, <2>4, <2>5 DEF CallsInv
<1>2. CASE OpenFails(c)
  <2>1. FdsReleased(c)
    <3>1. fds' = fds /\ leaked' = leaked /\ fds[c] = leaked[c]
      BY <1>2, <1>t, <1>n DEF OpenFails, process, FdsAccounted
    <3> QED BY <1>t, <3>1 DEF FdsReleased, LTypeOK
  <2> QED BY <1>2, <1>t, <1>s, <2>1, ReturnCallsInv DEF OpenFails, process, driver
<1>3. CASE Mmap(c)
  <2> DEFINE k == KindOf(call[c].fn)
             n == nextPage[c][k]
             page == [owner |-> c, kind |-> k, number |-> n]
  <2>1. k \in Kind /\ n \in 0 .. MaxPages /\ n < MaxPages
    BY <1>3, <1>s DEF Mmap, Kind, KindOf
  <2>2. page \in Page /\ n + 1 \in 0 .. MaxPages
    BY <2>1, LimitsAssumption DEF Page
  <2>3. /\ nextPage' = [nextPage EXCEPT ![c][k] = n + 1]
        /\ mapped' = [mapped EXCEPT ![c] = mapped[c] \cup {page}]
        /\ Return(c, TRUE, page) /\ Leak(c) /\ pc[c] = "mmap"
        /\ header' = header /\ log' = log
        /\ \E a \in Room(c, page) : at' = [at EXCEPT ![page] = a]
    BY <1>3 DEF Mmap, driver
  <2> HIDE DEF page, n, k
  <2>5. at' \in [Page -> Page]
    <3>1. Room(c, page) \subseteq Page
      BY <1>s, <2>2 DEF Room, Given
    <3> QED BY <1>s, <2>2, <2>3, <3>1
  <2>4. /\ mapped' \in [Clients -> SUBSET Page]
        /\ nextPage' \in [Clients -> [Kind -> 0 .. MaxPages]]
    BY <1>s, <2>1, <2>2, <2>3
  <2>7. FdsReleased(c)
    BY <2>3, LeakFacts DEF InProgress
  <2> QED BY <1>t, <2>2, <2>3, <2>4, <2>5, <2>7, ReturnCallsInv
<1>4. CASE IoctlPaddr(c)
  <2>1. /\ Return(c, TRUE, Asked(c)) /\ Close(c) /\ pc[c] = "ioctl"
        /\ UNCHANGED <<mapped, at, nextPage, leaked, header, log>>
        /\ Asked(c).number \in 0 .. nextPage[c][Asked(c).kind] - 1
    BY <1>4 DEF IoctlPaddr, driver
  <2>2. Asked(c) \in Page
    BY <2>1, AskedIsPage DEF CallsInv
  <2>4. FdsReleased(c)
    BY <2>1, CloseFacts DEF InProgress
  <2> QED BY <1>t, <1>s, <2>1, <2>2, <2>4, ReturnCallsInv
<1>5. CASE IoctlSpecs(c)
  <2>1. FdsReleased(c)
    BY <1>5, LeakFacts DEF IoctlSpecs, InProgress
  <2> QED BY <1>5, <1>t, <1>s, <2>1, ReturnCallsInv DEF IoctlSpecs, driver
<1>6. CASE WriteHeader(c)
  <2>1. /\ pc' \in [Clients -> Location] /\ pc'[c] = "body" /\ pc[c] = "header"
        /\ \A e \in Clients \ {c} : pc'[e] = pc[e]
        /\ UNCHANGED <<call, verdict, out, fds, mapped, at, nextPage, leaked, log>>
    BY <1>6, <1>t DEF WriteHeader, process, LTypeOK, Location
  <2>2. call[c].fn = "write_command_to_device"
    BY <1>t, <2>1, AfterOpenFacts DEF RightCall, InProgress
  <2>3. header' \in [Clients \cup {Device} -> Header \cup {NoCommand}]
    <3>1. HeaderOf(call[c].command) \in Header
      BY <1>t, <2>2 DEF LTypeOK, Header
    <3> QED BY <1>6, <1>t, <3>1 DEF WriteHeader, LTypeOK
  <2>4. LTypeOK'
    BY <1>t, <2>1, <2>3 DEF LTypeOK
  <2>5. FdsAccounted'
    BY <1>t, <2>1 DEF FdsAccounted
  <2>6. RightCall'
    BY <1>t, <2>1, <2>2 DEF RightCall, InProgress
  <2> QED BY <1>t, <2>1, <2>4, <2>5, <2>6 DEF CallsInv
<1>7. CASE WriteBody(c)
  <2> DEFINE h == header[Slot(c)]
             frame == [type |-> h.type, length |-> h.length, body |-> call[c].command.body]
  <2>1. /\ pc[c] = "body" /\ h # NoCommand /\ log' = Append(log, frame)
        /\ Return(c, TRUE, NoPage) /\ Close(c)
        /\ UNCHANGED <<mapped, at, nextPage, leaked, header>>
    BY <1>7 DEF WriteBody
  <2>2. call[c].fn = "write_command_to_device" /\ call[c].command \in Command
    BY <1>t, <2>1 DEF RightCall, LTypeOK
  <2>3. PICK m \in Command : h = HeaderOf(m)
    BY <1>t, <2>1 DEF LTypeOK, Header, Slot
  <2>4. h.type = m.type /\ h.length = m.length
    BY <2>3 DEF HeaderOf
  <2>5. frame \in Frame
    BY <2>2, <2>4 DEF Frame
  <2> HIDE DEF frame, h
  <2>6. log' \in Seq(Frame)
    BY <1>t, <2>1, <2>5
  <2>7. FdsReleased(c)
    BY <2>1, CloseFacts DEF InProgress
  <2> QED BY <1>t, <1>s, <2>1, <2>6, <2>7, ReturnCallsInv
<1>8. CASE SyscallFails(c)
  <2>1. FdsReleased(c)
    BY <1>8, CloseFacts DEF SyscallFails, Fail, InProgress
  <2> QED BY <1>8, <1>t, <1>s, <2>1, ReturnCallsInv DEF SyscallFails, Fail, driver
<1>9. CASE SpecsFails(c)
  BY <1>9, ExitCallsInv DEF SpecsFails
<1> QED BY <1>1, <1>2, <1>3, <1>4, <1>5, <1>6, <1>7, <1>8, <1>9 DEF Syscall

(* What a system call does to pages, and what it answers.                  *)
LEMMA SyscallPages ==
    ASSUME CallsInv, NEW c \in Clients, Syscall(c)
    PROVE  /\ \A e \in Clients \ {c} : /\ pc'[e] = pc[e] /\ verdict'[e] = verdict[e] /\ out'[e] = out[e]
                                       /\ mapped'[e] = mapped[e] /\ nextPage'[e] = nextPage[e]
           /\ call' = call /\ pc[c] \in InProgress \cup {"open"}
           /\ pc'[c] \in InProgress \cup {"returned", "exited"}
           /\ pc'[c] = "exited" => call[c].fn = "get_device_specs" /\ nextPage' = nextPage
           /\ pc'[c] # "returned" /\ pc'[c] # "exited" => UNCHANGED <<mapped, nextPage>>
           /\ pc'[c] = "returned" =>
                 \/ UNCHANGED <<mapped, nextPage>> /\ ~verdict'[c] /\ out'[c] = NoPage
                 \/ /\ UNCHANGED <<mapped, nextPage>> /\ verdict'[c] /\ out'[c] = NoPage
                    /\ call[c].fn \in {"write_command_to_device", "get_device_specs"}
                 \/ /\ UNCHANGED <<mapped, nextPage>> /\ verdict'[c] /\ out'[c] = Asked(c)
                    /\ call[c].fn \in AddressFunction
                    /\ Asked(c).number \in 0 .. nextPage[c][Asked(c).kind] - 1
                 \/ /\ verdict'[c] /\ out'[c] = NewPage(c) /\ NewPage(c) \in Page
                    /\ call[c].fn \notin {"write_command_to_device", "get_device_specs"}
                    /\ call[c].fn \notin AddressFunction
                    /\ nextPage' = [nextPage EXCEPT ![c][KindOf(call[c].fn)] =
                                        nextPage[c][KindOf(call[c].fn)] + 1]
                    /\ mapped' = [mapped EXCEPT ![c] = mapped[c] \cup {NewPage(c)}]
<1>t. LTypeOK /\ RightCall
  BY DEF CallsInv
<1>r. ASSUME NEW v, NEW p, Return(c, v, p)
      PROVE  /\ pc'[c] = "returned" /\ verdict'[c] = v /\ out'[c] = p /\ call' = call
             /\ \A e \in Clients \ {c} : pc'[e] = pc[e] /\ verdict'[e] = verdict[e] /\ out'[e] = out[e]
  BY <1>t, <1>r DEF Return, LTypeOK
<1>1. CASE Open(c)
  <2>1. /\ pc[c] = "open" /\ pc'[c] = AfterOpen(call[c].fn)
        /\ \A e \in Clients \ {c} : pc'[e] = pc[e]
        /\ UNCHANGED <<call, verdict, out, mapped, nextPage>>
    BY <1>1, <1>t DEF Open, LTypeOK
  <2>2. AfterOpen(call[c].fn) \in InProgress
    BY AfterOpenFacts
  <2>3. AfterOpen(call[c].fn) \notin {"returned", "exited"}
    BY <2>2 DEF InProgress
  <2> QED BY <2>1, <2>2, <2>3
<1>2. CASE OpenFails(c)
  <2>1. Return(c, FALSE, NoPage) /\ pc[c] = "open" /\ UNCHANGED <<mapped, nextPage>>
    BY <1>2 DEF OpenFails, process
  <2> QED BY <1>r, <2>1
<1>3. CASE Mmap(c)
  <2>1. /\ pc[c] = "mmap" /\ Return(c, TRUE, NewPage(c))
        /\ nextPage[c][KindOf(call[c].fn)] < MaxPages
        /\ nextPage' = [nextPage EXCEPT ![c][KindOf(call[c].fn)] =
                                        nextPage[c][KindOf(call[c].fn)] + 1]
        /\ mapped' = [mapped EXCEPT ![c] = mapped[c] \cup {NewPage(c)}]
    BY <1>3 DEF Mmap, NewPage
  <2>2. call[c].fn \notin {"write_command_to_device", "get_device_specs"} \cup AddressFunction
    <3>1. AfterOpen(call[c].fn) = "mmap"
      BY <1>t, <2>1 DEF RightCall, InProgress
    <3> QED BY <3>1 DEF AfterOpen
  <2>3. NewPage(c) \in Page
    <3>1. nextPage[c][KindOf(call[c].fn)] \in 0 .. MaxPages /\ KindOf(call[c].fn) \in Kind
      BY <1>t DEF LTypeOK, Kind, KindOf
    <3> QED BY <3>1 DEF NewPage, Page
  <2>4. \A e \in Clients \ {c} : mapped'[e] = mapped[e] /\ nextPage'[e] = nextPage[e]
    BY <1>t, <2>1 DEF LTypeOK
  <2>5. pc[c] \in InProgress /\ pc'[c] = "returned"
    BY <1>r, <2>1 DEF InProgress
  <2> HIDE DEF NewPage
  <2> QED BY <1>r, <2>1, <2>2, <2>3, <2>4, <2>5
<1>4. CASE IoctlPaddr(c)
  <2>1. /\ Return(c, TRUE, Asked(c)) /\ pc[c] = "ioctl" /\ call[c].fn \in AddressFunction
        /\ UNCHANGED <<mapped, nextPage>>
        /\ Asked(c).number \in 0 .. nextPage[c][Asked(c).kind] - 1
    BY <1>4 DEF IoctlPaddr
  <2> HIDE DEF Asked
  <2> QED BY <1>r, <2>1 DEF InProgress
<1>5. CASE IoctlSpecs(c)
  <2>1. /\ Return(c, TRUE, NoPage) /\ pc[c] = "ioctl" /\ call[c].fn = "get_device_specs"
        /\ UNCHANGED <<mapped, nextPage>>
    BY <1>5 DEF IoctlSpecs
  <2> QED BY <1>r, <2>1 DEF InProgress
<1>6. CASE WriteHeader(c)
  <2>1. /\ pc[c] = "header" /\ pc'[c] = "body" /\ \A e \in Clients \ {c} : pc'[e] = pc[e]
        /\ UNCHANGED <<call, verdict, out, mapped, nextPage>>
    BY <1>6, <1>t DEF WriteHeader, LTypeOK, process
  <2> QED BY <2>1 DEF InProgress
<1>7. CASE WriteBody(c)
  <2>1. /\ Return(c, TRUE, NoPage) /\ pc[c] = "body" /\ UNCHANGED <<mapped, nextPage>>
        /\ call[c].fn = "write_command_to_device"
    BY <1>7, <1>t DEF WriteBody, RightCall
  <2> QED BY <1>r, <2>1 DEF InProgress
<1>8. CASE SyscallFails(c)
  <2>1. /\ Return(c, FALSE, NoPage) /\ pc[c] \in InProgress /\ UNCHANGED <<mapped, nextPage>>
    BY <1>8 DEF SyscallFails, Fail, InProgress
  <2> QED BY <1>r, <2>1
<1>9. CASE SpecsFails(c)
  <2>1. /\ pc[c] \in InProgress \cup {"open"} /\ call[c].fn = "get_device_specs"
        /\ pc'[c] = "exited" /\ UNCHANGED <<call, verdict, out, nextPage>>
        /\ \A e \in Clients \ {c} : pc'[e] = pc[e] /\ mapped'[e] = mapped[e]
    BY <1>9, <1>t DEF SpecsFails, ProcessExit, LTypeOK, InProgress
  <2> QED BY <2>1
<1> QED BY <1>1, <1>2, <1>3, <1>4, <1>5, <1>6, <1>7, <1>8, <1>9 DEF Syscall

(* What a system call does to the addresses of pages: mmap gives a page    *)
(* one that is free, the others leave them.                                *)
LEMMA SyscallAddresses ==
    ASSUME CallsInv, NEW c \in Clients, Syscall(c)
    PROVE  \/ UNCHANGED <<at, mapped, nextPage>>
           \/ pc'[c] = "exited" /\ UNCHANGED <<at, nextPage>>
           \/ /\ nextPage' = [nextPage EXCEPT ![c][KindOf(call[c].fn)] =
                                        nextPage[c][KindOf(call[c].fn)] + 1]
              /\ mapped' = [mapped EXCEPT ![c] = mapped[c] \cup {NewPage(c)}]
              /\ \E a \in Room(c, NewPage(c)) : at' = [at EXCEPT ![NewPage(c)] = a]
              /\ NewPage(c) \in Page
<1>t. LTypeOK
  BY DEF CallsInv
<1>1. CASE Mmap(c)
  <2>1. /\ nextPage' = [nextPage EXCEPT ![c][KindOf(call[c].fn)] =
                                        nextPage[c][KindOf(call[c].fn)] + 1]
        /\ mapped' = [mapped EXCEPT ![c] = mapped[c] \cup {NewPage(c)}]
        /\ \E a \in Room(c, NewPage(c)) : at' = [at EXCEPT ![NewPage(c)] = a]
    BY <1>1 DEF Mmap, NewPage
  <2>2. NewPage(c) \in Page
    <3>1. nextPage[c][KindOf(call[c].fn)] \in 0 .. MaxPages /\ KindOf(call[c].fn) \in Kind
      BY <1>t DEF LTypeOK, Kind, KindOf
    <3> QED BY <3>1 DEF NewPage, Page
  <2> QED BY <2>1, <2>2
<1>2. CASE SpecsFails(c)
  <2>1. pc'[c] = "exited" /\ UNCHANGED <<at, nextPage>>
    BY <1>2, <1>t DEF SpecsFails, ProcessExit, LTypeOK
  <2> QED BY <2>1
<1>3. CASE \/ Open(c) \/ OpenFails(c) \/ IoctlPaddr(c) \/ IoctlSpecs(c)
           \/ WriteHeader(c) \/ WriteBody(c) \/ SyscallFails(c)
  <2>1. UNCHANGED <<at, mapped, nextPage>>
    BY <1>3 DEF Open, OpenFails, IoctlPaddr, IoctlSpecs, WriteHeader, WriteBody, SyscallFails, process
  <2> QED BY <2>1
<1> QED BY <1>1, <1>2, <1>3 DEF Syscall

(* Where a process is in no call that returned, nothing is to be said of   *)
(* its answer.                                                             *)
LEMMA EnterLInv ==
    ASSUME LInv, NEW c \in Clients, NEW f \in Function, NEW id \in Nat,
           NEW m \in Command \cup {NoCommand},
           f = "write_command_to_device" => m \in Command,
           pc[c] \in {"idle", "returned"}, Enter(c, f, id, m)
    PROVE  LInv'
<1>1. CallsInv'
  BY EnterCallsInv DEF LInv
<1>2. PagesMapped'
  BY DEF LInv, CallsInv, PagesMapped, LTypeOK, Enter, process
<1>3. OutIsHonest'
  BY DEF LInv, CallsInv, OutIsHonest, LTypeOK, Enter, process
<1> QED BY <1>1, <1>2, <1>3 DEF LInv

LEMMA ResumeLInv ==
    ASSUME LInv, NEW c \in Clients, Resume(c)
    PROVE  LInv'
<1>1. CallsInv'
  BY ResumeCallsInv DEF LInv
<1>2. PagesMapped'
  BY DEF LInv, CallsInv, PagesMapped, LTypeOK, Resume, process
<1>3. OutIsHonest'
  BY DEF LInv, CallsInv, OutIsHonest, LTypeOK, Resume, process
<1> QED BY <1>1, <1>2, <1>3 DEF LInv

LEMMA SyscallLInv ==
    ASSUME LInv, NEW c \in Clients, Syscall(c)
    PROVE  LInv'
<1>t. CallsInv /\ LTypeOK /\ PagesMapped /\ OutIsHonest
  BY DEF LInv, CallsInv
<1>1. CallsInv'
  BY <1>t, SyscallCallsInv
<1>2. PagesMapped'
  <2> SUFFICES ASSUME NEW e \in Clients, NEW k \in Kind, pc'[e] # "exited",
                      NEW i \in 0 .. nextPage'[e][k] - 1
               PROVE  [owner |-> e, kind |-> k, number |-> i] \in mapped'[e]
    BY DEF PagesMapped
  <2>1. CASE UNCHANGED <<mapped, nextPage>> \/ e # c
    <3>1. pc[e] # "exited" /\ mapped'[e] = mapped[e] /\ nextPage'[e] = nextPage[e]
      BY <1>t, <2>1, SyscallPages DEF InProgress
    <3> QED BY <1>t, <3>1 DEF PagesMapped
  <2>2. CASE e = c /\ ~ UNCHANGED <<mapped, nextPage>>
    <3> DEFINE n == nextPage[c][KindOf(call[c].fn)]
    <3>1. /\ nextPage' = [nextPage EXCEPT ![c][KindOf(call[c].fn)] = n + 1]
          /\ mapped' = [mapped EXCEPT ![c] = mapped[c] \cup {NewPage(c)}]
          /\ pc[c] # "exited"
      BY <1>t, <2>2, SyscallPages DEF InProgress
    <3>2. mapped \in [Clients -> SUBSET Page] /\ nextPage \in [Clients -> [Kind -> 0 .. MaxPages]]
      BY <1>t DEF LTypeOK
    <3>3. KindOf(call[c].fn) \in Kind /\ n \in Nat
      BY <3>2, LimitsAssumption DEF Kind, KindOf
    <3>4. CASE i < nextPage[c][k]
      BY <1>t, <2>2, <3>1, <3>2, <3>4 DEF PagesMapped
    <3>5. CASE ~ (i < nextPage[c][k])
      <4>1. k = KindOf(call[c].fn) /\ i = n
        BY <2>2, <3>1, <3>2, <3>3, <3>5, LimitsAssumption
      <4> QED BY <2>2, <3>1, <3>2, <4>1 DEF NewPage
    <3> QED BY <3>4, <3>5
  <2> QED BY <2>1, <2>2
<1>3. OutIsHonest'
  <2> SUFFICES ASSUME NEW e \in Clients, pc'[e] = "returned"
               PROVE  IF call'[e].fn \in {"write_command_to_device", "get_device_specs"}
                      THEN out'[e] = NoPage
                      ELSE verdict'[e] <=> out'[e] \in mapped'[e]
    BY DEF OutIsHonest
  <2>1. CASE e # c
    BY <1>t, <2>1, SyscallPages DEF OutIsHonest
  <2>2. CASE e = c
    <3>1. \A d \in Clients : mapped[d] \subseteq Page /\ NoPage \notin mapped[d]
      BY <1>t, PageAssumption DEF LTypeOK
    <3>2. CASE UNCHANGED <<mapped, nextPage>> /\ ~verdict'[c] /\ out'[c] = NoPage
      BY <1>t, <2>2, <3>1, <3>2, SyscallPages
    <3>3. CASE /\ out'[c] = NoPage
               /\ call[c].fn \in {"write_command_to_device", "get_device_specs"}
      BY <1>t, <2>2, <3>3, SyscallPages
    <3>4. CASE /\ UNCHANGED <<mapped, nextPage>> /\ verdict'[c] /\ out'[c] = Asked(c)
               /\ call[c].fn \in AddressFunction
               /\ Asked(c).number \in 0 .. nextPage[c][Asked(c).kind] - 1
      <4>1. pc[c] # "exited" /\ call' = call
        BY <1>t, SyscallPages DEF InProgress
      <4>2. Asked(c).kind \in Kind
            /\ Asked(c) = [owner |-> c, kind |-> Asked(c).kind, number |-> Asked(c).number]
        BY DEF Asked, Kind
      <4>3. Asked(c) \in mapped[c]
        BY <1>t, <3>4, <4>1, <4>2 DEF PagesMapped
      <4> QED BY <2>2, <3>4, <4>1, <4>3 DEF AddressFunction
    <3>5. CASE /\ verdict'[c] /\ out'[c] = NewPage(c)
               /\ call[c].fn \notin {"write_command_to_device", "get_device_specs"}
               /\ mapped' = [mapped EXCEPT ![c] = mapped[c] \cup {NewPage(c)}]
      <4>1. call' = call /\ NewPage(c) \in mapped'[c]
        BY <1>t, <3>5, SyscallPages DEF LTypeOK
      <4> QED BY <2>2, <3>5, <4>1
    <3> QED BY <1>t, <2>2, <3>2, <3>3, <3>4, <3>5, SyscallPages
  <2> QED BY <2>1, <2>2
<1> QED BY <1>1, <1>2, <1>3 DEF LInv

LEMMA NextLInv == LInv /\ [LNext]_lvars => LInv'
<1> SUFFICES ASSUME LInv, [LNext]_lvars PROVE LInv'
  OBVIOUS
<1>1. ASSUME NEW c \in Clients, Syscall(c) PROVE LInv'
  BY <1>1, SyscallLInv
<1>2. ASSUME NEW c \in Clients, AnyCall(c) PROVE LInv'
  <2>1. PICK f \in Function, id \in Nat, m \in Command \cup {NoCommand} :
            /\ Enter(c, f, id, m) /\ pc[c] = "idle"
            /\ f = "write_command_to_device" => m \in Command
    BY <1>2, LimitsAssumption DEF AnyCall, Function
  <2> QED BY <2>1, EnterLInv
<1>3. ASSUME NEW c \in Clients, Resume(c) PROVE LInv'
  BY <1>3, ResumeLInv
<1>4. CASE UNCHANGED lvars
  BY <1>4 DEF lvars, LInv, CallsInv, LTypeOK, FdsAccounted, RightCall, PagesMapped, OutIsHonest
<1> QED BY <1>1, <1>2, <1>3, <1>4 DEF LNext

(* However the system calls of the processes interleave and fail, the      *)
(* invariant holds (low_level.cpp:22-222).                                 *)
THEOREM LowLevelInvariant == LSpec => []LInv
BY InitLInv, NextLInv, PTL DEF LSpec

(* The state keeps its types, and no process ever has more descriptors     *)
(* open, or pages mapped, than the bounds say.                             *)
THEOREM LowLevelTypeCorrect == LSpec => []LTypeOK
BY LowLevelInvariant, PTL DEF LInv, CallsInv

(* Every function closes the descriptor it opened on every path, but for   *)
(* the three that never do (low_level.cpp:22-222).                         *)
THEOREM FdsAccountedCorrect == LSpec => []FdsAccounted
BY LowLevelInvariant, PTL DEF LInv, CallsInv

(* true comes with a page that is mapped, false with none                  *)
(* (low_level.cpp:28-48, 102-110).                                         *)
THEOREM OutIsHonestCorrect == LSpec => []OutIsHonest
BY LowLevelInvariant, PTL DEF LInv, CallsInv

-----------------------------------------------------------------------------
(* Commands, where no other process writes to the slot of a header.        *)

(* The driver keeps a header per open file, or one process uses it.        *)
OneHeader == HeaderPerOpen \/ \A c, d \in Clients : c = d

(* Between its two writes a process's header is that of its command.       *)
HeaderInv ==
    \A c \in Clients : pc[c] = "body" => header[Slot(c)] = HeaderOf(call[c].command)

LEMMA SlotFacts ==
    ASSUME OneHeader
    PROVE  \A c, e \in Clients : c # e => Slot(c) # Slot(e)
BY DEF OneHeader, Slot

(* The device joins the body to the header of the same command.            *)
LEMMA BodyJoined ==
    ASSUME CallsInv, HeaderInv, NEW c \in Clients, WriteBody(c)
    PROVE  /\ log' = Append(log, call[c].command) /\ call[c].command \in Command
           /\ call[c].fn = "write_command_to_device" /\ pc[c] = "body"
           /\ Return(c, TRUE, NoPage)
<1> DEFINE h == header[Slot(c)]
           m == call[c].command
<1>1. /\ log' = Append(log, [type |-> h.type, length |-> h.length, body |-> m.body])
      /\ pc[c] = "body" /\ Return(c, TRUE, NoPage)
  BY DEF WriteBody
<1>2. call[c].fn = "write_command_to_device" /\ m \in Command
  BY <1>1 DEF CallsInv, RightCall, LTypeOK
<1>3. h.type = m.type /\ h.length = m.length
  <2>1. h = HeaderOf(m)
    BY <1>1 DEF HeaderInv
  <2>2. HeaderOf(m).type = m.type /\ HeaderOf(m).length = m.length
    BY DEF HeaderOf
  <2> QED BY <2>1, <2>2
<1>4. m = [type |-> m.type, length |-> m.length, body |-> m.body]
  BY <1>2, CommandAssumption
<1> QED BY <1>1, <1>2, <1>3, <1>4

(* A system call adds nothing to what the device has taken, and is not the *)
(* success of write_command_to_device.                                     *)
NothingTaken(c) ==
    /\ log' = log
    /\ call[c].fn = "write_command_to_device" => ~ (pc'[c] = "returned" /\ verdict'[c])

(* It adds the command of the call, and the call succeeds.                 *)
CommandTaken(c) ==
    /\ log' = Append(log, call[c].command) /\ call[c].command \in Command
    /\ call[c].fn = "write_command_to_device" /\ pc[c] = "body"
    /\ pc'[c] = "returned" /\ verdict'[c]

LEMMA SyscallTakes ==
    ASSUME OneHeader, CallsInv, HeaderInv, NEW c \in Clients, Syscall(c)
    PROVE  HeaderInv' /\ (NothingTaken(c) \/ CommandTaken(c))
<1>t. LTypeOK /\ RightCall
  BY DEF CallsInv
<1>1. ASSUME header' = header, pc'[c] # "body",
             \A e \in Clients \ {c} : pc'[e] = pc[e] /\ call'[e] = call[e]
      PROVE  HeaderInv'
  BY <1>1 DEF HeaderInv, Slot
<1>2. ASSUME NEW v, NEW p, Return(c, v, p)
      PROVE  /\ pc'[c] = "returned" /\ verdict'[c] = v
             /\ \A e \in Clients \ {c} : pc'[e] = pc[e] /\ call'[e] = call[e]
  BY <1>2, <1>t DEF Return, LTypeOK
<1>3. CASE Open(c)
  <2>1. /\ pc'[c] \notin {"body", "returned"} /\ log' = log
        /\ \A e \in Clients \ {c} : pc'[e] = pc[e] /\ call'[e] = call[e]
        /\ \A e \in Clients \ {c} : header'[Slot(e)] = header[Slot(e)]
    BY <1>3, <1>t DEF Open, LTypeOK, AfterOpen, Slot
  <2> QED BY <2>1 DEF HeaderInv, Slot, NothingTaken
<1>4. CASE WriteHeader(c)
  <2>1. Slot(c) \in Clients \cup {Device} /\ \A e \in Clients \ {c} : Slot(e) # Slot(c)
    BY SlotFacts DEF Slot
  <2>2. /\ header'[Slot(c)] = HeaderOf(call'[c].command) /\ log' = log /\ pc'[c] = "body"
        /\ \A e \in Clients \ {c} : pc'[e] = pc[e] /\ call'[e] = call[e]
        /\ \A e \in Clients \ {c} : header'[Slot(e)] = header[Slot(e)]
    BY <1>4, <1>t, <2>1 DEF WriteHeader, LTypeOK
  <2> QED BY <2>2 DEF HeaderInv, Slot, NothingTaken
<1>5. CASE WriteBody(c)
  <2>1. header' = header
    BY <1>5 DEF WriteBody
  <2> QED BY <1>1, <1>2, <1>5, <2>1, BodyJoined DEF CommandTaken
<1>6. CASE OpenFails(c) \/ SyscallFails(c)
  <2>1. Return(c, FALSE, NoPage) /\ UNCHANGED <<log, header>>
    BY <1>6 DEF OpenFails, SyscallFails, Fail, driver
  <2> QED BY <1>1, <1>2, <2>1 DEF NothingTaken
<1>7. CASE Mmap(c) \/ IoctlPaddr(c) \/ IoctlSpecs(c)
  <2>1. /\ \E p : Return(c, TRUE, p)
        /\ UNCHANGED <<log, header>> /\ pc[c] \in {"mmap", "ioctl"}
    BY <1>7 DEF Mmap, IoctlPaddr, IoctlSpecs, driver
  <2>2. call[c].fn # "write_command_to_device"
    BY <1>t, <2>1, AfterOpenFacts DEF RightCall, InProgress
  <2> QED BY <1>1, <1>2, <2>1, <2>2 DEF NothingTaken
<1>8. CASE SpecsFails(c)
  <2>1. /\ UNCHANGED <<log, header>> /\ pc'[c] = "exited"
        /\ \A e \in Clients \ {c} : pc'[e] = pc[e] /\ call'[e] = call[e]
    BY <1>8, <1>t DEF SpecsFails, ProcessExit, driver, LTypeOK
  <2> QED BY <1>1, <2>1 DEF NothingTaken
<1> QED BY <1>3, <1>4, <1>5, <1>6, <1>7, <1>8 DEF Syscall

(* A step of a process that writes no header leaves those there are.       *)
LEMMA HeadersKept ==
    ASSUME HeaderInv, NEW c \in Clients, header' = header, pc'[c] # "body",
           \A e \in Clients \ {c} : pc'[e] = pc[e] /\ call'[e] = call[e]
    PROVE  HeaderInv'
BY DEF HeaderInv, Slot

LEMMA HeaderStep ==
    ASSUME OneHeader, LInv, HeaderInv, CommandsWhole, [LNext]_lvars
    PROVE  HeaderInv' /\ CommandsWhole'
<1>t. LTypeOK /\ log \in Seq(Frame)
  BY DEF LInv, CallsInv
<1>1. ASSUME NEW c \in Clients, Syscall(c) PROVE HeaderInv' /\ CommandsWhole'
  <2>1. HeaderInv' /\ (NothingTaken(c) \/ CommandTaken(c))
    BY <1>1, SyscallTakes DEF LInv
  <2>2. CASE log' = log
    BY <2>1, <2>2 DEF CommandsWhole
  <2>3. CASE log' = Append(log, call[c].command) /\ call[c].command \in Command
    <3>1. \A k \in DOMAIN log' : log'[k] \in Command
      BY <1>t, <2>3 DEF CommandsWhole
    <3> QED BY <2>1, <3>1 DEF CommandsWhole
  <2> QED BY <2>1, <2>2, <2>3 DEF NothingTaken, CommandTaken
<1>2. ASSUME NEW c \in Clients, AnyCall(c) \/ Resume(c) PROVE HeaderInv' /\ CommandsWhole'
  <2>1. /\ UNCHANGED <<log, header>> /\ pc'[c] # "body"
        /\ \A e \in Clients \ {c} : pc'[e] = pc[e] /\ call'[e] = call[e]
    BY <1>t, <1>2 DEF AnyCall, Enter, Resume, driver, LTypeOK
  <2> QED BY <2>1, HeadersKept DEF CommandsWhole
<1>3. CASE UNCHANGED lvars
  BY <1>3 DEF lvars, HeaderInv, CommandsWhole, Slot
<1> QED BY <1>1, <1>2, <1>3 DEF LNext

LEMMA HeaderAlways ==
    ASSUME OneHeader PROVE LSpec => [](LInv /\ HeaderInv /\ CommandsWhole)
<1>1. LInit => HeaderInv /\ CommandsWhole
  BY DEF LInit, HeaderInv, CommandsWhole
<1>2. LInv /\ HeaderInv /\ CommandsWhole /\ [LNext]_lvars => HeaderInv' /\ CommandsWhole'
  BY HeaderStep
<1> QED BY <1>1, <1>2, LowLevelInvariant, PTL DEF LSpec

(* No process ever hands the device a command made of two: if the driver   *)
(* keeps the header with the open file, every function's own open is       *)
(* enough, and if it keeps one for everybody, a single process is          *)
(* (low_level.cpp:168-176).                                                *)
THEOREM CommandsWholeCorrect ==
    ASSUME OneHeader PROVE LSpec => []CommandsWhole
BY HeaderAlways, PTL

-----------------------------------------------------------------------------
(* write_command_to_device is one step of CommandChannel, or none.         *)

(* A process that keeps its place in its call is where it was.             *)
LEMMA PlaceKept ==
    ASSUME NEW e \in Clients, pc'[e] = pc[e], call'[e] = call[e], verdict'[e] = verdict[e]
    PROVE  ChannelState'[e] = ChannelState[e] /\ ChannelWants'[e] = ChannelWants[e]
BY DEF ChannelState, ChannelWants, InWrite

(* What the channel sees of a step of process c.                           *)
ChannelStep(c) ==
    /\ \A e \in Clients \ {c} : /\ ChannelState'[e] = ChannelState[e]
                               /\ ChannelWants'[e] = ChannelWants[e]
    /\ \/ /\ ChannelState[c] = "idle" /\ ChannelState'[c] = "pending"
          /\ ChannelWants'[c] \in Command /\ log' = log
       \/ /\ ChannelState[c] = "pending" /\ ChannelState'[c] = "true"
          /\ ChannelWants'[c] = ChannelWants[c] /\ log' = Append(log, ChannelWants[c])
       \/ /\ ChannelState[c] = "pending" /\ ChannelState'[c] = "false"
          /\ ChannelWants'[c] = ChannelWants[c] /\ log' = log
       \/ /\ ChannelState[c] \in {"true", "false"} /\ ChannelState'[c] = "idle"
          /\ ChannelWants'[c] = NoCommand /\ log' = log
       \/ /\ ChannelState'[c] = ChannelState[c]
          /\ ChannelWants'[c] = ChannelWants[c] /\ log' = log

LEMMA ChannelSteps ==
    ASSUME NEW c \in Clients, ChannelStep(c)
    PROVE  [Channel!Next]_(Channel!cvars)
<1>1. /\ ChannelState = [e \in Clients |-> ChannelState[e]]
      /\ ChannelState' = [e \in Clients |-> ChannelState'[e]]
  BY DEF ChannelState
<1>2. /\ ChannelWants = [e \in Clients |-> ChannelWants[e]]
      /\ ChannelWants' = [e \in Clients |-> ChannelWants'[e]]
  BY DEF ChannelWants
<1>3. /\ ChannelState' = [ChannelState EXCEPT ![c] = ChannelState'[c]]
      /\ ChannelState'[c] = ChannelState[c] => ChannelState' = ChannelState
  BY <1>1 DEF ChannelStep
<1>4. /\ ChannelWants' = [ChannelWants EXCEPT ![c] = ChannelWants'[c]]
      /\ ChannelWants'[c] = ChannelWants[c] => ChannelWants' = ChannelWants
  BY <1>2 DEF ChannelStep
<1> QED
  BY <1>3, <1>4 DEF ChannelStep, Channel!Next, Channel!cvars,
                    Channel!Begin, Channel!Take, Channel!Refuse, Channel!Answer

(* Every step of a process is one the channel allows.                      *)
LEMMA ProcessSteps ==
    ASSUME LInv, HeaderInv, NEW c \in Clients,
           Syscall(c) \/ AnyCall(c) \/ Resume(c)
    PROVE  ChannelStep(c)
<1>t. LTypeOK /\ RightCall
  BY DEF LInv, CallsInv
<1>u. ASSUME \A e \in Clients \ {c} : pc'[e] = pc[e] /\ call'[e] = call[e] /\ verdict'[e] = verdict[e]
      PROVE  \A e \in Clients \ {c} : /\ ChannelState'[e] = ChannelState[e]
                                      /\ ChannelWants'[e] = ChannelWants[e]
  BY <1>u, PlaceKept
<1>c. /\ ChannelState[c] = IF ~ InWrite(c) THEN "idle"
                           ELSE IF pc[c] # "returned" THEN "pending"
                           ELSE IF verdict[c] THEN "true" ELSE "false"
      /\ ChannelWants[c] = IF InWrite(c) THEN call[c].command ELSE NoCommand
      /\ ChannelState'[c] = IF ~ InWrite(c)' THEN "idle"
                           ELSE IF pc'[c] # "returned" THEN "pending"
                           ELSE IF verdict'[c] THEN "true" ELSE "false"
      /\ ChannelWants'[c] = IF InWrite(c)' THEN call'[c].command ELSE NoCommand
  BY DEF ChannelState, ChannelWants
<1>i. /\ InWrite(c) <=> /\ call[c].fn = "write_command_to_device"
                        /\ pc[c] \in {"open", "header", "body", "returned"}
      /\ InWrite(c)' <=> /\ call'[c].fn = "write_command_to_device"
                         /\ pc'[c] \in {"open", "header", "body", "returned"}
  BY DEF InWrite
<1>r. ASSUME NEW v \in BOOLEAN, NEW p, Return(c, v, p)
      PROVE  /\ pc'[c] = "returned" /\ verdict'[c] = v /\ call' = call
             /\ \A e \in Clients \ {c} : pc'[e] = pc[e] /\ call'[e] = call[e] /\ verdict'[e] = verdict[e]
  BY <1>r, <1>t DEF Return, LTypeOK
<1>1. CASE Open(c)
  <2>1. /\ pc[c] = "open" /\ pc'[c] = AfterOpen(call[c].fn)
        /\ UNCHANGED <<call, verdict, log>> /\ \A e \in Clients \ {c} : pc'[e] = pc[e]
    BY <1>1, <1>t DEF Open, LTypeOK
  <2>2. AfterOpen(call[c].fn) = "header" <=> call[c].fn = "write_command_to_device"
    BY DEF AfterOpen, AddressFunction
  <2>3. AfterOpen(call[c].fn) \in {"header", "ioctl", "mmap"}
    BY DEF AfterOpen, AddressFunction
  <2> QED BY <1>u, <1>c, <1>i, <2>1, <2>2, <2>3 DEF ChannelStep
<1>2. CASE OpenFails(c) \/ SyscallFails(c)
  <2>1. Return(c, FALSE, NoPage) /\ log' = log /\ pc[c] \in InProgress \cup {"open"}
    BY <1>2 DEF OpenFails, SyscallFails, Fail, driver, InProgress
  <2>2. call[c].fn = "write_command_to_device" => pc[c] \in {"open", "header", "body"}
    BY <1>t, <2>1, AfterOpenFacts DEF RightCall, InProgress
  <2> QED BY <1>r, <1>u, <1>c, <1>i, <2>1, <2>2 DEF ChannelStep
<1>3. CASE Mmap(c) \/ IoctlPaddr(c) \/ IoctlSpecs(c)
  <2>1. /\ \E p : Return(c, TRUE, p)
        /\ log' = log /\ pc[c] \in {"mmap", "ioctl"}
    BY <1>3 DEF Mmap, IoctlPaddr, IoctlSpecs, driver
  <2>2. call[c].fn # "write_command_to_device"
    BY <1>t, <2>1, AfterOpenFacts DEF RightCall, InProgress
  <2> QED BY <1>r, <1>u, <1>c, <1>i, <2>1, <2>2 DEF ChannelStep
<1>4. CASE WriteHeader(c)
  <2>1. /\ pc[c] = "header" /\ pc'[c] = "body"
        /\ UNCHANGED <<call, verdict, log>> /\ \A e \in Clients \ {c} : pc'[e] = pc[e]
    BY <1>4, <1>t DEF WriteHeader, LTypeOK
  <2> QED BY <1>u, <1>c, <1>i, <2>1 DEF ChannelStep
<1>5. CASE WriteBody(c)
  <2>1. /\ Return(c, TRUE, NoPage) /\ log' = Append(log, call[c].command)
        /\ pc[c] = "body" /\ call[c].fn = "write_command_to_device"
    BY <1>5, BodyJoined DEF LInv
  <2> QED BY <1>r, <1>u, <1>c, <1>i, <2>1 DEF ChannelStep
<1>6. CASE SpecsFails(c)
  <2>1. /\ call[c].fn = "get_device_specs" /\ UNCHANGED <<call, verdict, log>>
        /\ \A e \in Clients \ {c} : pc'[e] = pc[e]
    BY <1>6, <1>t DEF SpecsFails, ProcessExit, driver, LTypeOK
  <2> QED BY <1>u, <1>c, <1>i, <2>1 DEF ChannelStep
<1>7. CASE AnyCall(c)
  <2>1. PICK f \in Function, id \in Nat, m \in Command \cup {NoCommand} :
            /\ Enter(c, f, id, m) /\ pc[c] = "idle"
            /\ f = "write_command_to_device" => m \in Command
    BY <1>7, LimitsAssumption DEF AnyCall, Function
  <2>2. /\ pc'[c] = "open" /\ call'[c] = [fn |-> f, id |-> id, command |-> m] /\ log' = log
        /\ \A e \in Clients \ {c} : pc'[e] = pc[e] /\ call'[e] = call[e] /\ verdict'[e] = verdict[e]
    BY <1>t, <2>1 DEF Enter, LTypeOK, driver
  <2> QED BY <1>u, <1>c, <1>i, <2>1, <2>2 DEF ChannelStep
<1>8. CASE Resume(c)
  <2>1. /\ pc[c] = "returned" /\ pc'[c] = "idle" /\ log' = log /\ verdict[c] \in BOOLEAN
        /\ \A e \in Clients \ {c} : pc'[e] = pc[e] /\ call'[e] = call[e] /\ verdict'[e] = verdict[e]
    BY <1>t, <1>8 DEF Resume, LTypeOK, driver
  <2> QED BY <1>u, <1>c, <1>i, <2>1 DEF ChannelStep
<1> QED BY <1>1, <1>2, <1>3, <1>4, <1>5, <1>6, <1>7, <1>8 DEF Syscall

(* A write_command_to_device that answers true has given the device its    *)
(* whole command once, and one that answers false nothing, for any number  *)
(* of processes if the driver keeps a header per open file, and for one    *)
(* process whatever it keeps (low_level.cpp:148-188).                      *)
THEOREM ImplementsChannelCorrect ==
    ASSUME OneHeader PROVE LSpec => ImplementsChannel
<1>1. LInit => Channel!Init
  BY DEF LInit, Channel!Init, ChannelState, ChannelWants, InWrite
<1>2. LInv /\ HeaderInv /\ [LNext]_lvars => [Channel!Next]_(Channel!cvars)
  <2> SUFFICES ASSUME LInv, HeaderInv, [LNext]_lvars PROVE [Channel!Next]_(Channel!cvars)
    OBVIOUS
  <2>1. CASE LNext
    BY <2>1, ProcessSteps, ChannelSteps DEF LNext
  <2>2. CASE UNCHANGED lvars
    BY <2>2 DEF lvars, Channel!cvars, ChannelState, ChannelWants, InWrite
  <2> QED BY <2>1, <2>2
<1> QED BY <1>1, <1>2, HeaderAlways, PTL DEF LSpec, ImplementsChannel, Channel!Spec
=============================================================================

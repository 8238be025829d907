------------------------- MODULE PickleDeviceLowLevel -------------------------
(***************************************************************************)
(* The calls on the Pickle driver (src/src/pickle_device_low_level.cpp):   *)
(* every one opens /dev/hey_pickle for itself, makes its system calls, and *)
(* answers true or false.  Each system call is a step, so the calls of     *)
(* several processes interleave, and each may fail.                        *)
(*                                                                         *)
(* The driver is not in the repository.  What it keeps is what the library *)
(* relies on: the header of a command is written at offset 0 and its body  *)
(* at offset 1, the driver joins the two; it numbers the pages a process   *)
(* maps with a length of 4096, and translates such a number to a physical  *)
(* address.                                                                *)
(*                                                                         *)
(* A pointer is represented by the page it was returned for; the number    *)
(* the program has is at[page], and two pointers are equal if their        *)
(* numbers are.  A mapping lies at one address: that the monitoring page   *)
(* is two pages long, and what overlaps follow, is abstracted.             *)
(***************************************************************************)
EXTENDS Integers, Sequences

CONSTANTS
    Clients,        \* the processes that use the library
    Device,         \* the slot of a header the device keeps for everybody
    HeaderPerOpen,  \* whether the driver keeps a header per open file
    Command,        \* commands: records with a type, a length and a body
    NoCommand,      \* no command, no header
    NoPage,         \* a null pointer
    MaxFds,         \* bound: file descriptors a process may have open
    MaxPages,       \* bound: pages of a kind a process maps
    MaxLog          \* bound: commands the device takes

ASSUME ClientsAssumption == Device \notin Clients /\ HeaderPerOpen \in BOOLEAN
ASSUME CommandAssumption ==
    /\ \A m \in Command : m = [type |-> m.type, length |-> m.length, body |-> m.body]
    /\ NoCommand \notin Command
ASSUME LimitsAssumption == MaxFds \in Nat /\ MaxPages \in Nat /\ MaxLog \in Nat

VARIABLES
    pc,         \* pc[c]: the system call c makes next, "returned" or "idle"
    call,       \* call[c]: the function c is in, with its arguments
    verdict,    \* verdict[c]: the Boolean result of c's last call
    out,        \* out[c]: its out parameter, a page or a page's address
    fds,        \* fds[c]: the file descriptors c has open
    mapped,     \* mapped[c]: the pages mapped by c
    at,         \* at[page]: the address it was mapped at; an address has the
                \* name of the first page that lay there
    nextPage,   \* nextPage[c][kind]: how many pages of the kind c has mapped
    leaked,     \* history: how many calls of c returned with a descriptor open
    header,     \* the driver: the header it holds in each slot
    log         \* the driver: the commands it has taken

lvars == <<pc, call, verdict, out, fds, mapped, at, nextPage, leaked, header, log>>

Function == {"allocate_uncacheable_page", "allocate_perf_page", "get_mmap_paddr",
             "get_perf_page_paddr", "write_command_to_device", "get_device_specs"}
AddressFunction == {"get_mmap_paddr", "get_perf_page_paddr"}
Kind == {"uc", "perf"}
Page == [owner : Clients, kind : Kind, number : 0 .. MaxPages]

ASSUME PageAssumption == NoPage \notin Page

NoCall == [fn |-> "none", id |-> 0, command |-> NoCommand]

KindOf(f) == IF f = "allocate_perf_page" THEN "perf" ELSE "uc"

(* Mutant of HeaderOf: the header's own size is sent, not the command's.   *)
HeaderOfSized(m) == [type |-> m.type, length |-> 16]

(* The two words of content1, written at offset 0.                         *)
HeaderOf(m) == [type |-> m.type, length |-> m.length]

Header == {HeaderOf(m) : m \in Command}

(* External: the driver's slot for the headers that c writes.              *)
Slot(c) == IF HeaderPerOpen THEN c ELSE Device

process == <<fds, mapped, at, nextPage, leaked>>
driver == <<header, log>>

-----------------------------------------------------------------------------
LInit ==
    /\ pc = [c \in Clients |-> "idle"]
    /\ call = [c \in Clients |-> NoCall]
    /\ verdict = [c \in Clients |-> FALSE]
    /\ out = [c \in Clients |-> NoPage]
    /\ fds = [c \in Clients |-> 0]
    /\ mapped = [c \in Clients |-> {}]
    /\ at = [p \in Page |-> p]
    /\ nextPage = [c \in Clients |-> [k \in Kind |-> 0]]
    /\ leaked = [c \in Clients |-> 0]
    /\ header = [s \in Clients \cup {Device} |-> NoCommand]
    /\ log = <<>>

(* c enters function f.  The two allocators begin with *ptr = nullptr.     *)
Enter(c, f, id, m) ==
    /\ pc' = [pc EXCEPT ![c] = "open"]
    /\ call' = [call EXCEPT ![c] = [fn |-> f, id |-> id, command |-> m]]
    /\ verdict' = [verdict EXCEPT ![c] = FALSE]
    /\ out' = [out EXCEPT ![c] = NoPage]
    /\ UNCHANGED <<process, driver>>

(* The function returns v; its out parameter holds p.                      *)
Return(c, v, p) ==
    /\ pc' = [pc EXCEPT ![c] = "returned"]
    /\ verdict' = [verdict EXCEPT ![c] = v]
    /\ out' = [out EXCEPT ![c] = p]
    /\ UNCHANGED call

(* The caller resumes; the locals of the call are gone.                    *)
Resume(c) ==
    /\ pc[c] = "returned"
    /\ pc' = [pc EXCEPT ![c] = "idle"]
    /\ call' = [call EXCEPT ![c] = NoCall]
    /\ verdict' = [verdict EXCEPT ![c] = FALSE]
    /\ out' = [out EXCEPT ![c] = NoPage]
    /\ UNCHANGED <<process, driver>>

(* exit(): the process is gone, with its descriptors and its mappings.     *)
ProcessExit(c) ==
    /\ pc' = [pc EXCEPT ![c] = "exited"]
    /\ fds' = [fds EXCEPT ![c] = 0]
    /\ mapped' = [mapped EXCEPT ![c] = {}]
    /\ UNCHANGED <<call, verdict, out, at, nextPage, leaked, driver>>

(* Mutant of Close: the descriptor is closed twice.                        *)
CloseTwice(c) == fds' = [fds EXCEPT ![c] = fds[c] - 2]

Close(c) == fds' = [fds EXCEPT ![c] = fds[c] - 1]

(* The allocators and get_device_specs return without closing.             *)
Leak(c) ==
    /\ leaked' = [leaked EXCEPT ![c] = leaked[c] + 1]
    /\ UNCHANGED fds

(* What each function does with its descriptor.                            *)
AfterOpen(f) ==
    CASE f = "write_command_to_device"                   -> "header"
      [] f \in AddressFunction \cup {"get_device_specs"} -> "ioctl"
      [] OTHER                                           -> "mmap"

Open(c) ==
    /\ pc[c] = "open"
    /\ fds[c] < MaxFds
    /\ fds' = [fds EXCEPT ![c] = fds[c] + 1]
    /\ pc' = [pc EXCEPT ![c] = AfterOpen(call[c].fn)]
    /\ header' = IF HeaderPerOpen THEN [header EXCEPT ![c] = NoCommand] ELSE header
    /\ UNCHANGED <<call, verdict, out, mapped, at, nextPage, leaked, log>>

OpenFails(c) ==
    /\ pc[c] = "open"
    /\ call[c].fn # "get_device_specs"
    /\ Return(c, FALSE, NoPage)
    /\ UNCHANGED <<process, driver>>

(* The pages c has mapped so far.                                          *)
Given(c) == {p \in Page : p.owner = c /\ p.number < nextPage[c][p.kind]}

(* External: where the kernel puts the next page of c: at an address that  *)
(* is new, or at one that munmap has freed.                                *)
Room(c, page) ==
    {page} \cup ({at[p] : p \in Given(c)} \ {at[p] : p \in mapped[c]})

Mmap(c) ==
    LET k == KindOf(call[c].fn)
        page == [owner |-> c, kind |-> k, number |-> nextPage[c][k]]
    IN  /\ pc[c] = "mmap"
        /\ nextPage[c][k] < MaxPages
        /\ nextPage' = [nextPage EXCEPT ![c][k] = nextPage[c][k] + 1]
        /\ mapped' = [mapped EXCEPT ![c] = mapped[c] \cup {page}]
        /\ \E a \in Room(c, page) : at' = [at EXCEPT ![page] = a]
        /\ Return(c, TRUE, page)
        /\ Leak(c)
        /\ UNCHANGED driver

(* External: the page a call asks the address of.  The driver knows the    *)
(* 4096-byte pages by their number; the monitoring page is the last one.   *)
Asked(c) ==
    LET perf == call[c].fn = "get_perf_page_paddr" IN
    [owner  |-> c,
     kind   |-> IF perf THEN "perf" ELSE "uc",
     number |-> IF perf THEN nextPage[c]["perf"] - 1 ELSE call[c].id]

IoctlPaddr(c) ==
    /\ pc[c] = "ioctl"
    /\ call[c].fn \in AddressFunction
    /\ Asked(c).number \in 0 .. nextPage[c][Asked(c).kind] - 1
    /\ Return(c, TRUE, Asked(c))
    /\ Close(c)
    /\ UNCHANGED <<mapped, at, nextPage, leaked, driver>>

IoctlSpecs(c) ==
    /\ pc[c] = "ioctl"
    /\ call[c].fn = "get_device_specs"
    /\ Return(c, TRUE, NoPage)
    /\ Leak(c)
    /\ UNCHANGED <<mapped, at, nextPage, driver>>

(* It has no way to report a failure: it exits the process.                *)
SpecsFails(c) ==
    /\ pc[c] \in {"open", "ioctl"}
    /\ call[c].fn = "get_device_specs"
    /\ ProcessExit(c)

WriteHeader(c) ==
    /\ pc[c] = "header"
    /\ header' = [header EXCEPT ![Slot(c)] = HeaderOf(call[c].command)]
    /\ pc' = [pc EXCEPT ![c] = "body"]
    /\ UNCHANGED <<call, verdict, out, process, log>>

(* The device takes the body under the header it holds.                    *)
WriteBody(c) ==
    LET h == header[Slot(c)] IN
    /\ pc[c] = "body"
    /\ h # NoCommand
    /\ Len(log) < MaxLog
    /\ log' = Append(log, [type |-> h.type, length |-> h.length, body |-> call[c].command.body])
    /\ Return(c, TRUE, NoPage)
    /\ Close(c)
    /\ UNCHANGED <<mapped, at, nextPage, leaked, header>>

(* Mutants of Fail: no close; the result is not looked at.                 *)
FailOpen(c) == Return(c, FALSE, NoPage) /\ UNCHANGED fds
FailUnseen(c) == Return(c, TRUE, NoPage) /\ Close(c)

Fail(c) == Return(c, FALSE, NoPage) /\ Close(c)

(* A system call on the open descriptor fails, or writes too little; the   *)
(* driver takes nothing.                                                   *)
SyscallFails(c) ==
    /\ pc[c] \in {"mmap", "ioctl", "header", "body"}
    /\ call[c].fn # "get_device_specs"
    /\ Fail(c)
    /\ UNCHANGED <<mapped, at, nextPage, leaked, driver>>

Syscall(c) ==
    \/ Open(c) \/ OpenFails(c)
    \/ Mmap(c) \/ IoctlPaddr(c) \/ IoctlSpecs(c) \/ WriteHeader(c) \/ WriteBody(c)
    \/ SyscallFails(c) \/ SpecsFails(c)

(* The functions called in any order, with any arguments. *)
AnyCall(c) ==
    /\ pc[c] = "idle"
    /\ \/ \E f \in Function \ {"write_command_to_device"}, id \in 0 .. MaxPages :
             Enter(c, f, id, NoCommand)
       \/ \E m \in Command : Enter(c, "write_command_to_device", 0, m)

LNext == \E c \in Clients : Syscall(c) \/ AnyCall(c) \/ Resume(c)

LSpec == LInit /\ [][LNext]_lvars

-----------------------------------------------------------------------------
(* Properties. *)

Location == {"idle", "open", "mmap", "ioctl", "header", "body", "returned", "exited"}

LTypeOK ==
    /\ pc \in [Clients -> Location]
    /\ call \in [Clients -> [fn : Function \cup {"none"}, id : Nat, command : Command \cup {NoCommand}]]
    /\ \A c \in Clients : call[c].fn = "write_command_to_device" => call[c].command \in Command
    /\ verdict \in [Clients -> BOOLEAN]
    /\ out \in [Clients -> Page \cup {NoPage}]
    /\ fds \in [Clients -> 0 .. MaxFds]
    /\ mapped \in [Clients -> SUBSET Page]
    /\ at \in [Page -> Page]
    /\ nextPage \in [Clients -> [Kind -> 0 .. MaxPages]]
    /\ leaked \in [Clients -> Nat]
    /\ header \in [Clients \cup {Device} -> Header \cup {NoCommand}]
    /\ \A k \in DOMAIN log : DOMAIN log[k] = {"type", "length", "body"}

(* Every path through the six functions closes the descriptor it opened,   *)
(* failures included, but for the three that return with it open: a        *)
(* process's open descriptors are those leaks and the call in progress.    *)
FdsAccounted ==
    \A c \in Clients : pc[c] # "exited" =>
        fds[c] = leaked[c] + IF pc[c] \in {"mmap", "ioctl", "header", "body"} THEN 1 ELSE 0

(* A function that hands out a page, or a page's address, answers true if  *)
(* and only if it does, and the page is mapped; its caller exits otherwise *)
(* (low_level.cpp:28-48, 102-110).                                         *)
OutIsHonest ==
    \A c \in Clients : pc[c] = "returned" =>
        IF call[c].fn \in {"write_command_to_device", "get_device_specs"}
        THEN out[c] = NoPage
        ELSE verdict[c] <=> out[c] \in mapped[c]

(* Every command the device takes is one a caller passed, header and body  *)
(* together, though they are two writes that other calls' writes may       *)
(* separate (low_level.cpp:168-176).                                       *)
CommandsWhole == \A k \in DOMAIN log : log[k] \in Command

InWrite(c) ==
    call[c].fn = "write_command_to_device" /\ pc[c] \in {"open", "header", "body", "returned"}

ChannelState ==
    [c \in Clients |->
        IF ~ InWrite(c) THEN "idle"
        ELSE IF pc[c] # "returned" THEN "pending"
        ELSE IF verdict[c] THEN "true" ELSE "false"]

ChannelWants == [c \in Clients |-> IF InWrite(c) THEN call[c].command ELSE NoCommand]

Channel == INSTANCE CommandChannel WITH state <- ChannelState, wants <- ChannelWants

(* A call of write_command_to_device answers true if and only if the       *)
(* device took its command, whole and once, between its first step and its *)
(* last, whatever the other processes do and whichever system call fails.  *)
ImplementsChannel == Channel!Spec
=============================================================================

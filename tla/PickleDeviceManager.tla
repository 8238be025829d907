-------------------------- MODULE PickleDeviceManager --------------------------
(***************************************************************************)
(* The PickleDeviceManager objects of client processes                     *)
(* (src/src/pickle_device_manager.cpp) over the calls of                   *)
(* PickleDeviceLowLevel.  A method runs from the application's call to its *)
(* return through one or more low-level calls; stage says which, and each  *)
(* step between two of them is the code between those calls.  A process    *)
(* has one thread, and may have several managers: it constructs them, or   *)
(* copies them, since nothing forbids that.                                *)
(***************************************************************************)
EXTENDS PickleDeviceLowLevel

CONSTANTS
    Managers,       \* the manager objects
    ProcessOf,      \* ProcessOf[m]: the client whose object m is
    MmapIds,        \* bound: the mmap ids an application asks for
    JobDescriptors, \* the job descriptors sent, each with a length
    JobLength       \* JobLength[j]: bytes of descriptor j

(* Mutant of WatchCommand: the range begins where the page ends.           *)
WatchCommandAfter(page) ==
    [type |-> "ADD_WATCH_RANGE", length |-> 16, body |-> [page EXCEPT !.number = page.number + 1]]

(* The 16 bytes are the page's first address and the address after it.     *)
WatchCommand(page) == [type |-> "ADD_WATCH_RANGE", length |-> 16, body |-> page]
JobCommand(j) == [type |-> "SEND_JOB_DESCRIPTOR", length |-> JobLength[j], body |-> j]

ASSUME ManagerAssumption ==
    /\ ProcessOf \in [Managers -> Clients]
    /\ MmapIds \subseteq Nat
    /\ \A p \in Page : WatchCommand(p) \in Command
    /\ \A j \in JobDescriptors : JobCommand(j) \in Command

VARIABLES
    stage,      \* stage[m]: the low-level call m's method waits for, or "ready";
                \* "none" before it is constructed, "destroyed" or "exited" after
    local,      \* local[m]: the method's locals: the id asked for and mmap_ptr
    ucPtr,      \* ucPtr[m]: mmap_id_to_uc_ptr_map
    ucPaddr,    \* ucPaddr[m]: mmap_id_to_uc_paddr_map
    perfPtr,    \* perfPtr[m]: perf_page_ptr
    touched,    \* the pages that have been written to, so faulted in
    answer,     \* answer[c]: what the last method returned to the application
    unwatched   \* history: pages whose ADD_WATCH_RANGE was refused

mvars == <<stage, local, ucPtr, ucPaddr, perfPtr, touched, answer, unwatched>>

vars == <<lvars, mvars>>

(* What the manager objects remember, and the state of the pages.          *)
memory == <<ucPtr, ucPaddr, perfPtr, touched>>

(* What a method in progress waits for.                                    *)
Waiting == {"uc_allocate", "uc_paddr", "uc_watch", "perf_allocate", "job", "specs"}

NoLocal == [id |-> 0, ptr |-> NoPage]

MInit ==
    /\ LInit
    /\ stage = [m \in Managers |-> "none"]
    /\ local = [m \in Managers |-> NoLocal]
    /\ ucPtr = [m \in Managers |-> [id \in {} |-> NoPage]]
    /\ ucPaddr = [m \in Managers |-> [id \in {} |-> NoPage]]
    /\ perfPtr = [m \in Managers |-> NoPage]
    /\ touched = {}
    /\ answer = [c \in Clients |-> NoPage]
    /\ unwatched = {}

(* map[id] = p *)
Put(map, id, p) == [i \in DOMAIN map \cup {id} |-> IF i = id THEN p ELSE map[i]]

(* Mutant of Touch: the page is not written to.                            *)
NoTouch(p) == touched' = touched

(* The first write to a page faults it in.                                 *)
Touch(p) == touched' = touched \cup {p}

(* Mutant of Cached: the map is not consulted.                             *)
NeverCached(m, id) == FALSE

Cached(m, id) == id \in DOMAIN ucPtr[m]

(* The thread of m's process can call a method of m.                       *)
Ready(m) == stage[m] = "ready" /\ pc[ProcessOf[m]] = "idle"

(* m's method goes on to make the low-level call f and then waits for it.  *)
CallThen(m, s, f, id, command) ==
    /\ stage' = [stage EXCEPT ![m] = s]
    /\ Enter(ProcessOf[m], f, id, command)

(* m's method waits for the low-level call of stage s, which returned v.   *)
Returned(m, s, v) ==
    stage[m] = s /\ pc[ProcessOf[m]] = "returned" /\ verdict[ProcessOf[m]] = v

Out(m) == out[ProcessOf[m]]

(* The method returns v to the application.                                *)
Answer(m, v) ==
    /\ stage' = [stage EXCEPT ![m] = "ready"]
    /\ answer' = [answer EXCEPT ![ProcessOf[m]] = v]
    /\ local' = [local EXCEPT ![m] = NoLocal]

(* The process of m is gone, and so are all its managers.                  *)
AllExited(m) ==
    [n \in Managers |-> IF ProcessOf[n] = ProcessOf[m] THEN "exited" ELSE stage[n]]

(* Mutant of Abort: the method returns.                                    *)
AbortReturns(m) ==
    /\ Resume(ProcessOf[m])
    /\ Answer(m, NoPage)
    /\ UNCHANGED <<memory, unwatched>>

(* exit() in the middle of a method.                                       *)
Abort(m) ==
    /\ ProcessExit(ProcessOf[m])
    /\ stage' = AllExited(m)
    /\ UNCHANGED <<local, answer, memory, unwatched>>

-----------------------------------------------------------------------------
(* The constructor, and the copy constructor, which the class leaves to    *)
(* the compiler: the maps and perf_page_ptr are copied.                    *)

Construct(m) ==
    /\ stage[m] = "none" /\ pc[ProcessOf[m]] = "idle"
    /\ stage' = [stage EXCEPT ![m] = "ready"]
    /\ UNCHANGED <<lvars, local, answer, memory, unwatched>>

(* n is a copy of m.                                                       *)
Copy(m, n) ==
    /\ stage[n] = "none" /\ ProcessOf[n] = ProcessOf[m] /\ Ready(m)
    /\ stage' = [stage EXCEPT ![n] = "ready"]
    /\ ucPtr' = [ucPtr EXCEPT ![n] = ucPtr[m]]
    /\ ucPaddr' = [ucPaddr EXCEPT ![n] = ucPaddr[m]]
    /\ perfPtr' = [perfPtr EXCEPT ![n] = perfPtr[m]]
    /\ UNCHANGED <<lvars, local, answer, touched, unwatched>>

-----------------------------------------------------------------------------
(* getUCPagePtr *)

GetCachedUCPage(m, id) ==
    /\ Ready(m) /\ Cached(m, id)
    /\ Answer(m, ucPtr[m][id])
    /\ UNCHANGED <<lvars, memory, unwatched>>

GetUCPage(m, id) ==
    /\ Ready(m) /\ ~ Cached(m, id)
    /\ CallThen(m, "uc_allocate", "allocate_uncacheable_page", id, NoCommand)
    /\ local' = [local EXCEPT ![m] = [id |-> id, ptr |-> NoPage]]
    /\ UNCHANGED <<answer, memory, unwatched>>

(* mmap_id is first used here: the allocation does not pass it on.         *)
UCPageAllocated(m) ==
    /\ Returned(m, "uc_allocate", TRUE)
    /\ CallThen(m, "uc_paddr", "get_mmap_paddr", local[m].id, NoCommand)
    /\ local' = [local EXCEPT ![m].ptr = Out(m)]
    /\ UNCHANGED <<answer, memory, unwatched>>

(* Register the page, fault it in, and tell the device to watch it.        *)
UCPageAddressed(m) ==
    /\ Returned(m, "uc_paddr", TRUE)
    /\ ucPtr' = [ucPtr EXCEPT ![m] = Put(ucPtr[m], local[m].id, local[m].ptr)]
    /\ ucPaddr' = [ucPaddr EXCEPT ![m] = Put(ucPaddr[m], local[m].id, Out(m))]
    /\ Touch(local[m].ptr)
    /\ CallThen(m, "uc_watch", "write_command_to_device", 0,
                WatchCommand(ucPaddr'[m][local[m].id]))
    /\ UNCHANGED <<local, perfPtr, answer, unwatched>>

(* The result of writeUncacheablePagePaddr is not looked at.               *)
UCPageReady(m) ==
    /\ Returned(m, "uc_watch", TRUE) \/ Returned(m, "uc_watch", FALSE)
    /\ unwatched' = IF verdict[ProcessOf[m]] THEN unwatched
                    ELSE unwatched \cup {ucPaddr[m][local[m].id]}
    /\ Resume(ProcessOf[m])
    /\ Answer(m, ucPtr[m][local[m].id])
    /\ UNCHANGED memory

UCPageFails(m) ==
    /\ Returned(m, "uc_allocate", FALSE) \/ Returned(m, "uc_paddr", FALSE)
    /\ Abort(m)

-----------------------------------------------------------------------------
(* getPerfPagePtr *)

GetCachedPerfPage(m) ==
    /\ Ready(m) /\ perfPtr[m] # NoPage
    /\ Answer(m, perfPtr[m])
    /\ UNCHANGED <<lvars, memory, unwatched>>

GetPerfPage(m) ==
    /\ Ready(m) /\ perfPtr[m] = NoPage
    /\ CallThen(m, "perf_allocate", "allocate_perf_page", 0, NoCommand)
    /\ UNCHANGED <<local, answer, memory, unwatched>>

PerfPageReady(m) ==
    /\ Returned(m, "perf_allocate", TRUE)
    /\ perfPtr' = [perfPtr EXCEPT ![m] = Out(m)]
    /\ Touch(Out(m))
    /\ Resume(ProcessOf[m])
    /\ Answer(m, perfPtr'[m])
    /\ UNCHANGED <<ucPtr, ucPaddr, unwatched>>

PerfPageFails(m) ==
    /\ Returned(m, "perf_allocate", FALSE)
    /\ Abort(m)

-----------------------------------------------------------------------------
(* sendJob: the descriptor has been computed, so getJobDescriptor did not  *)
(* throw.  getDevicePrefetcherSpecs.  The destructor.                      *)

SendJob(m, j) ==
    /\ Ready(m)
    /\ CallThen(m, "job", "write_command_to_device", 0, JobCommand(j))
    /\ UNCHANGED <<local, answer, memory, unwatched>>

GetDevicePrefetcherSpecs(m) ==
    /\ Ready(m)
    /\ CallThen(m, "specs", "get_device_specs", 0, NoCommand)
    /\ UNCHANGED <<local, answer, memory, unwatched>>

(* Mutant of MethodReturns: only success is handled.                       *)
MethodReturnsTrue(m) ==
    /\ Returned(m, "job", TRUE) \/ Returned(m, "specs", TRUE)
    /\ Resume(ProcessOf[m])
    /\ Answer(m, NoPage)
    /\ UNCHANGED <<memory, unwatched>>

(* Neither method keeps anything: the Boolean or the specs are returned.   *)
MethodReturns(m) ==
    /\ \E v \in BOOLEAN : Returned(m, "job", v) \/ Returned(m, "specs", v)
    /\ Resume(ProcessOf[m])
    /\ Answer(m, NoPage)
    /\ UNCHANGED <<memory, unwatched>>

(* External: what munmap at p leaves mapped.  It takes away what lies at   *)
(* that address now, which is another page if p has been unmapped before   *)
(* and the address used again.  At a null pointer there is nothing.        *)
Munmapped(c, p) ==
    IF p = NoPage THEN mapped[c] ELSE {q \in mapped[c] : at[q] # at[p]}

(* Mutant of Destroy: the destructor unmaps all its pages.                 *)
DestroyAll(m) ==
    /\ Ready(m)
    /\ mapped' = [mapped EXCEPT ![ProcessOf[m]] =
                    {q \in mapped[ProcessOf[m]] :
                        \A p \in {ucPtr[m][id] : id \in DOMAIN ucPtr[m]} \cup {perfPtr[m]} :
                            p # NoPage => at[q] # at[p]}]
    /\ stage' = [stage EXCEPT ![m] = "destroyed"]
    /\ UNCHANGED <<pc, call, verdict, out, fds, at, nextPage, leaked, driver>>
    /\ UNCHANGED <<local, answer, memory, unwatched>>

(* Only the page of id 0 is unmapped; operator[] inserts a null pointer if *)
(* there is none.                                                          *)
Destroy(m) ==
    /\ Ready(m)
    /\ ucPtr' = IF Cached(m, 0) THEN ucPtr
                ELSE [ucPtr EXCEPT ![m] = Put(ucPtr[m], 0, NoPage)]
    /\ mapped' = [mapped EXCEPT ![ProcessOf[m]] = Munmapped(ProcessOf[m], ucPtr'[m][0])]
    /\ stage' = [stage EXCEPT ![m] = "destroyed"]
    /\ UNCHANGED <<pc, call, verdict, out, fds, at, nextPage, leaked, driver>>
    /\ UNCHANGED <<local, answer, ucPaddr, perfPtr, touched, unwatched>>

-----------------------------------------------------------------------------
(* A system call of the low-level function in progress; get_device_specs   *)
(* may exit the process.                                                   *)
LowLevelStep(m) ==
    /\ stage[m] \in Waiting
    /\ Syscall(ProcessOf[m])
    /\ stage' = IF pc'[ProcessOf[m]] = "exited" THEN AllExited(m) ELSE stage
    /\ UNCHANGED <<local, answer, memory, unwatched>>

Progress(m) ==
    \/ LowLevelStep(m)
    \/ UCPageAllocated(m) \/ UCPageAddressed(m) \/ UCPageReady(m) \/ UCPageFails(m)
    \/ PerfPageReady(m) \/ PerfPageFails(m)
    \/ MethodReturns(m)

MNext ==
    \E m \in Managers :
        \/ Progress(m)
        \/ Construct(m) \/ \E n \in Managers : Copy(m, n)
        \/ \E id \in MmapIds : GetCachedUCPage(m, id) \/ GetUCPage(m, id)
        \/ GetCachedPerfPage(m) \/ GetPerfPage(m)
        \/ \E j \in JobDescriptors : SendJob(m, j)
        \/ GetDevicePrefetcherSpecs(m)
        \/ Destroy(m)

(* System calls return and code between them runs; the application need    *)
(* not call anything.                                                      *)
MSpec == MInit /\ [][MNext]_vars /\ \A m \in Managers : WF_vars(Progress(m))

-----------------------------------------------------------------------------
(* Properties. *)

MTypeOK ==
    /\ LTypeOK
    /\ stage \in [Managers -> Waiting \cup {"none", "ready", "exited", "destroyed"}]
    /\ local \in [Managers -> [id : Nat, ptr : Page \cup {NoPage}]]
    /\ DOMAIN ucPtr = Managers /\ DOMAIN ucPaddr = Managers
    /\ \A m \in Managers :
          /\ ucPtr[m] \in [DOMAIN ucPtr[m] -> Page \cup {NoPage}]
          /\ ucPaddr[m] \in [DOMAIN ucPaddr[m] -> Page]
          /\ DOMAIN ucPtr[m] \subseteq Nat
    /\ perfPtr \in [Managers -> Page \cup {NoPage}]
    /\ answer \in [Clients -> Page \cup {NoPage}]
    /\ touched \subseteq Page
    /\ unwatched \subseteq Page

Alive(m) == stage[m] \in Waiting \cup {"ready"}

(* m has had, or has, a page for this id.                                  *)
Has(m, id) == id \in DOMAIN ucPtr[m] /\ ucPtr[m][id] # NoPage

Siblings(m) == {n \in Managers : ProcessOf[n] = ProcessOf[m]}

(* The destroyed managers of m's process whose page of id 0 was p, or lay  *)
(* where p does.                                                           *)
Destroyers(m, p) ==
    {n \in Siblings(m) : stage[n] = "destroyed" /\ Has(n, 0) /\ ucPtr[n][0] = p}
DestroyersAt(m, p) ==
    {n \in Siblings(m) : stage[n] = "destroyed" /\ Has(n, 0) /\ at[ucPtr[n][0]] = at[p]}

(* A pointer that a manager hands out can be used, faulted in and mapped,  *)
(* but in two cases: it is the page of id 0 and the destructor of another  *)
(* manager, a copy, has unmapped it; or two managers have been destroyed   *)
(* that had their page of id 0 at its address, and the second unmapped     *)
(* what it no longer owned (manager.cpp:30, 56-61, 70-75, 88-90).          *)
PagesUsable ==
    \A m \in Managers : Alive(m) =>
        \A p \in ({ucPtr[m][id] : id \in DOMAIN ucPtr[m]} \cup {perfPtr[m]}) \ {NoPage} :
            /\ p \in touched
            /\ Destroyers(m, p) # {} => p \notin mapped[ProcessOf[m]]
            /\ \/ p \in mapped[ProcessOf[m]]
               \/ Destroyers(m, p) # {}
               \/ \E d, e \in DestroyersAt(m, p) : d # e

(* No two managers of the process have got a page for the same id, other   *)
(* than by copying.                                                        *)
OnePagePerId(c) ==
    \A m, n \in Managers : ProcessOf[m] = c /\ ProcessOf[n] = c =>
        \A id \in MmapIds : Has(m, id) /\ Has(n, id) => ucPtr[m][id] = ucPtr[n][id]

(* The address registered for an id, which the device is told to watch, is *)
(* that of the page the application is given, though the id is not part of *)
(* the request that maps the page: in a process that gets each id from one *)
(* manager or its copies.  If two managers each get a page for an id, one  *)
(* of the two has the other's address (low_level.cpp:38, manager.cpp:41).  *)
AddressesMatch ==
    \A c \in Clients : pc[c] # "exited" =>
        (OnePagePerId(c) <=>
            \A m \in Managers : ProcessOf[m] = c =>
                \A id \in MmapIds : Has(m, id) =>
                    id \in DOMAIN ucPaddr[m] /\ ucPaddr[m][id] = ucPtr[m][id])

(* p of m and q of n are different pages, and in one process different     *)
(* pointers unless a destroyed manager had its page of id 0 there.         *)
Apart(m, p, n, q) ==
    /\ p # q
    /\ ProcessOf[m] = ProcessOf[n] /\ at[p] = at[q] => DestroyersAt(m, p) # {}

(* Different ids, and the monitoring page, have different pages, of all    *)
(* the managers there are, and in a process different pointers: unless a   *)
(* destroyed manager had its page of id 0 at that address.  Then a live    *)
(* copy may still have this pointer when the kernel puts another of its    *)
(* pages there (low_level.cpp:38, 69, manager.cpp:39-75, 88-90).           *)
PagesDistinct ==
    \A m, n \in Managers : Alive(m) /\ Alive(n) =>
        \A i \in MmapIds : Has(m, i) =>
            /\ \A k \in MmapIds :
                  Has(n, k) /\ (i # k \/ ProcessOf[m] # ProcessOf[n]) =>
                      Apart(m, ucPtr[m][i], n, ucPtr[n][k])
            /\ perfPtr[n] # NoPage => Apart(m, ucPtr[m][i], n, perfPtr[n])

Watches(page) == {k \in DOMAIN log : log[k].type = "ADD_WATCH_RANGE" /\ log[k].body = page}

(* A page the application has been given is watched by the device, once,   *)
(* or the device refused and the refusal went unnoticed; the library never *)
(* tries again, and no copy does (manager.cpp:39,59).  And the device is   *)
(* told of a range only after the page was faulted in ("induce page        *)
(* fault", manager.cpp:57).                                                *)
WatchedOnceOrNever ==
    /\ \A page \in Page : Watches(page) # {} => page \in touched
    /\ \A m \in Managers : Alive(m) /\ OnePagePerId(ProcessOf[m]) =>
        \A id \in DOMAIN ucPtr[m] :
            \/ \E n \in Siblings(m) : stage[n] = "uc_watch" /\ local[n].id = id
            \/ /\ ucPtr[m][id] \in unwatched
               /\ Watches(ucPtr[m][id]) = {}
            \/ /\ ucPtr[m][id] \notin unwatched
               /\ \E k \in DOMAIN log : Watches(ucPtr[m][id]) = {k}

(* A pointer the application holds is never replaced: the maps and         *)
(* perf_page_ptr only gain entries.                                        *)
PointersKept ==
    [][\A m \in Managers :
        /\ \A id \in DOMAIN ucPtr[m] : id \in DOMAIN ucPtr'[m] /\ ucPtr'[m][id] = ucPtr[m][id]
        /\ perfPtr[m] # NoPage => perfPtr'[m] = perfPtr[m]]_vars

(* Every method returns to the application or ends the process, if system  *)
(* calls return.                                                           *)
MethodsEnd == \A m \in Managers : stage[m] \in Waiting ~> stage[m] \in {"ready", "exited"}
=============================================================================

---------------------- MODULE PickleDeviceManagerProofs ----------------------
(***************************************************************************)
(* Theorems about PickleDeviceManager, for any processes, any managers in  *)
(* them and any ids: which pages the managers of a process know, what they *)
(* hand out, and which ranges the device is told to watch.                 *)
(***************************************************************************)
EXTENDS PickleDeviceManager, PickleDeviceLowLevelProofs

PageOf(c, k, n) == [owner |-> c, kind |-> k, number |-> n]

Allocator == {"allocate_uncacheable_page", "allocate_perf_page"}

(* The function a method waits for.                                        *)
FunctionOf(s) ==
    CASE s = "uc_allocate"   -> "allocate_uncacheable_page"
      [] s = "uc_paddr"      -> "get_mmap_paddr"
      [] s = "perf_allocate" -> "allocate_perf_page"
      [] s = "specs"         -> "get_device_specs"
      [] OTHER               -> "write_command_to_device"

(* A process has one thread: its call in progress is that of the one       *)
(* manager with a method in progress.                                      *)
ThreadInv ==
    \A m \in Managers :
        /\ pc[ProcessOf[m]] = "exited" => stage[m] = "exited"
        /\ stage[m] \in Waiting =>
              /\ pc[ProcessOf[m]] \notin {"idle", "exited"}
              /\ call[ProcessOf[m]].fn = FunctionOf(stage[m])
              /\ \A n \in Managers :
                    ProcessOf[n] = ProcessOf[m] /\ stage[n] \in Waiting => n = m

(* A call that succeeds returns the page just mapped, or the one asked for. *)
AnswerInv ==
    \A c \in Clients : pc[c] = "returned" /\ verdict[c] =>
        /\ call[c].fn \in Allocator =>
              /\ nextPage[c][KindOf(call[c].fn)] > 0
              /\ out[c] = PageOf(c, KindOf(call[c].fn), nextPage[c][KindOf(call[c].fn)] - 1)
              /\ out[c] \in mapped[c]
        /\ call[c].fn = "get_mmap_paddr" =>
              /\ out[c] = PageOf(c, "uc", call[c].id)
              /\ call[c].id < nextPage[c]["uc"]

(* A method's locals, at each call it waits for.                           *)
LocalsOf(m) ==
    /\ stage[m] = "none" => DOMAIN ucPtr[m] = {} /\ perfPtr[m] = NoPage
    /\ stage[m] \in {"uc_allocate", "uc_paddr"} => local[m].id \in MmapIds \ DOMAIN ucPtr[m]
    /\ stage[m] = "uc_paddr" =>
          /\ call[ProcessOf[m]].id = local[m].id
          /\ nextPage[ProcessOf[m]]["uc"] > 0
          /\ local[m].ptr = PageOf(ProcessOf[m], "uc", nextPage[ProcessOf[m]]["uc"] - 1)
          /\ local[m].ptr \in mapped[ProcessOf[m]]
    /\ stage[m] = "uc_watch" => Has(m, local[m].id)
    /\ stage[m] = "perf_allocate" => perfPtr[m] = NoPage

LocalInv == \A m \in Managers : LocalsOf(m)

(* A page was mapped and no manager has registered it yet.                 *)
Getting(c) ==
    \/ call[c].fn = "get_mmap_paddr" /\ pc[c] \notin {"idle", "exited"}
    \/ call[c].fn = "allocate_uncacheable_page" /\ pc[c] = "returned" /\ verdict[c]

(* How many pages of c its managers have registered.                       *)
Known(c) == nextPage[c]["uc"] - IF Getting(c) THEN 1 ELSE 0

(* An entry of the maps: a page, and the address of the page that has the  *)
(* id's number; or what the destructor leaves.                             *)
Registered(m, id) ==
    /\ id \in MmapIds /\ id \in 0 .. Known(ProcessOf[m]) - 1
    /\ \E k \in 0 .. Known(ProcessOf[m]) - 1 : ucPtr[m][id] = PageOf(ProcessOf[m], "uc", k)
    /\ ucPtr[m][id] \in touched
    /\ id \in DOMAIN ucPaddr[m] /\ ucPaddr[m][id] = PageOf(ProcessOf[m], "uc", id)

EntriesInv ==
    \A m \in Managers :
        /\ \A id \in DOMAIN ucPtr[m] :
              \/ Registered(m, id)
              \/ id = 0 /\ ucPtr[m][id] = NoPage /\ stage[m] \in {"destroyed", "exited"}
        /\ perfPtr[m] # NoPage => perfPtr[m].kind = "perf" /\ perfPtr[m] \in touched

(* A page has one id, whoever has it.                                      *)
OneIdPerPage ==
    \A m, n \in Managers : \A i, k : Has(m, i) /\ Has(n, k) /\ ucPtr[m][i] = ucPtr[n][k] => i = k

(* No page that the driver has numbered is unknown.                        *)
NoneForgotten ==
    \A c \in Clients : pc[c] # "exited" => \A k \in 0 .. Known(c) - 1 :
        \E m \in Managers : ProcessOf[m] = c /\ \E id \in DOMAIN ucPtr[m] : ucPtr[m][id] = PageOf(c, "uc", k)

(* If managers do not disagree, the pages have the numbers of their ids.   *)
NumberedById ==
    \A c \in Clients : pc[c] # "exited" /\ OnePagePerId(c) =>
        \A m \in Managers : ProcessOf[m] = c =>
            \A id \in DOMAIN ucPtr[m] : ucPtr[m][id] # NoPage => ucPtr[m][id] = PageOf(c, "uc", id)

PagesInv == EntriesInv /\ OneIdPerPage /\ NoneForgotten /\ NumberedById

MInv == CallsInv /\ MTypeOK /\ ThreadInv /\ AnswerInv /\ LocalInv /\ PagesInv

-----------------------------------------------------------------------------
LEMMA ManagerFacts ==
    ASSUME MTypeOK
    PROVE  /\ \A m \in Managers : ProcessOf[m] \in Clients
           /\ \A c \in Clients : /\ nextPage[c] \in [Kind -> 0 .. MaxPages]
                                 /\ nextPage[c]["uc"] \in Nat /\ Known(c) \in Int
                                 /\ mapped[c] \subseteq Page
           /\ pc \in [Clients -> Location] /\ verdict \in [Clients -> BOOLEAN]
           /\ stage \in [Managers -> Waiting \cup {"none", "ready", "exited", "destroyed"}]
           /\ local \in [Managers -> [id : Nat, ptr : Page \cup {NoPage}]]
<1>1. \A c \in Clients : nextPage[c] \in [Kind -> 0 .. MaxPages] /\ mapped[c] \subseteq Page
  BY DEF MTypeOK, LTypeOK
<1>2. \A c \in Clients : nextPage[c]["uc"] \in Nat
  <2>1. "uc" \in Kind /\ 0 .. MaxPages \subseteq Nat
    BY LimitsAssumption DEF Kind
  <2> QED BY <1>1, <2>1
<1> QED BY <1>1, <1>2, ManagerAssumption DEF MTypeOK, LTypeOK, Known

(* A page in a map is one of its process's, and known.                     *)
LEMMA HasFacts ==
    ASSUME EntriesInv, NEW m \in Managers, NEW id, Has(m, id)
    PROVE  Registered(m, id) /\ ucPtr[m][id] # NoPage
BY DEF EntriesInv, Has

LEMMA PageFacts ==
    /\ \A c, k, n : /\ PageOf(c, k, n).owner = c /\ PageOf(c, k, n).kind = k
                    /\ PageOf(c, k, n).number = n
    /\ \A c \in Clients, k \in Kind, n \in 0 .. MaxPages : PageOf(c, k, n) \in Page
BY DEF PageOf, Page

-----------------------------------------------------------------------------
(* Steps that register nothing: the maps are as before.                    *)
LEMMA RegistryKept ==
    ASSUME MTypeOK, MTypeOK', LocalInv, PagesInv, UNCHANGED memory,
           \A m \in Managers : stage[m] \in {"destroyed", "exited"} => stage'[m] \in {"destroyed", "exited"},
           \A c \in Clients : /\ pc'[c] # "exited" => pc[c] # "exited" /\ Known(c)' = Known(c)
                              /\ Known(c)' >= Known(c)
    PROVE  PagesInv'
<1>h. \A m \in Managers : \A id : Has(m, id)' <=> Has(m, id)
  BY DEF Has, memory
<1>k. \A c \in Clients : Known(c) \in Int /\ Known(c)' \in Int
  <2>1. "uc" \in Kind /\ 0 .. MaxPages \subseteq Int
    BY LimitsAssumption DEF Kind
  <2>2. \A c \in Clients : nextPage[c]["uc"] \in Int /\ nextPage'[c]["uc"] \in Int
    BY <2>1 DEF MTypeOK, LTypeOK
  <2> QED BY <2>2 DEF Known
<1>m. \A m \in Managers : ProcessOf[m] \in Clients
  BY ManagerFacts
<1>1. EntriesInv'
  <2> SUFFICES ASSUME NEW m \in Managers
               PROVE  /\ \A id \in DOMAIN ucPtr[m] :
                            \/ Registered(m, id)'
                            \/ id = 0 /\ ucPtr[m][id] = NoPage /\ stage'[m] \in {"destroyed", "exited"}
                      /\ perfPtr[m] # NoPage => perfPtr[m].kind = "perf" /\ perfPtr[m] \in touched
    BY DEF EntriesInv, memory
  <2>1. ASSUME NEW id, Registered(m, id) PROVE Registered(m, id)'
    <3>1. 0 .. Known(ProcessOf[m]) - 1 \subseteq 0 .. Known(ProcessOf[m])' - 1
      BY <1>k, <1>m
    <3> QED BY <2>1, <3>1 DEF Registered, memory
  <2> QED BY <2>1 DEF PagesInv, EntriesInv
<1>2. OneIdPerPage'
  BY <1>h DEF PagesInv, OneIdPerPage, memory
<1>3. NoneForgotten'
  <2>1. NoneForgotten
    BY DEF PagesInv
  <2> QED BY <2>1 DEF NoneForgotten, memory
<1>4. NumberedById'
  <2>1. \A c \in Clients : OnePagePerId(c)' <=> OnePagePerId(c)
    BY <1>h DEF OnePagePerId, memory
  <2>2. NumberedById
    BY DEF PagesInv
  <2> QED BY <2>1, <2>2 DEF NumberedById, memory
<1> QED BY <1>1, <1>2, <1>3, <1>4 DEF PagesInv

-----------------------------------------------------------------------------
(* What a step of the thread of one process does to the others: nothing.   *)
Others(c) ==
    /\ \A e \in Clients \ {c} :
          /\ pc'[e] = pc[e] /\ call'[e] = call[e] /\ verdict'[e] = verdict[e] /\ out'[e] = out[e]
          /\ mapped'[e] = mapped[e] /\ nextPage'[e] = nextPage[e]
    /\ \A m \in Managers : ProcessOf[m] # c => stage'[m] = stage[m] /\ local'[m] = local[m]

(* The invariant of the threads, for the managers of one process.          *)
LEMMA ThreadsKept ==
    ASSUME MTypeOK, ThreadInv, NEW m \in Managers, Others(ProcessOf[m]),
           \A n \in Managers : ProcessOf[n] = ProcessOf[m] =>
              /\ pc'[ProcessOf[m]] = "exited" => stage'[n] = "exited"
              /\ stage'[n] \in Waiting =>
                    /\ n = m /\ pc'[ProcessOf[m]] \notin {"idle", "exited"}
                    /\ call'[ProcessOf[m]].fn = FunctionOf(stage'[n])
    PROVE  ThreadInv'
<1>1. \A n \in Managers : ProcessOf[n] \in Clients
  BY ManagerFacts
<1> QED BY <1>1 DEF ThreadInv, Others

(* A low-level function is entered: no call has an answer.                 *)
LEMMA CallThenFacts ==
    ASSUME MTypeOK, ThreadInv, AnswerInv, NEW m \in Managers, NEW s \in Waiting,
           NEW id, NEW command,
           stage[m] \in Waiting \/ pc[ProcessOf[m]] = "idle",
           stage[m] \in Waiting \cup {"ready"},
           \A n \in Managers \ {m} : local'[n] = local[n],
           CallThen(m, s, FunctionOf(s), id, command)
    PROVE  /\ ThreadInv' /\ AnswerInv' /\ Others(ProcessOf[m])
           /\ pc'[ProcessOf[m]] = "open" /\ pc[ProcessOf[m]] # "exited"
           /\ call'[ProcessOf[m]] = [fn |-> FunctionOf(s), id |-> id, command |-> command]
           /\ UNCHANGED <<mapped, nextPage>>
           /\ stage' = [stage EXCEPT ![m] = s]
<1> DEFINE c == ProcessOf[m]
<1>1. c \in Clients /\ s # "exited"
  BY ManagerFacts DEF Waiting
<1>2. /\ pc' = [pc EXCEPT ![c] = "open"]
      /\ call' = [call EXCEPT ![c] = [fn |-> FunctionOf(s), id |-> id, command |-> command]]
      /\ verdict' = [verdict EXCEPT ![c] = FALSE] /\ out' = [out EXCEPT ![c] = NoPage]
      /\ UNCHANGED <<mapped, nextPage>> /\ stage' = [stage EXCEPT ![m] = s]
  BY DEF CallThen, Enter, process
<1>3. Others(c)
  BY <1>2 DEF Others, MTypeOK, LTypeOK
<1>4. pc'[c] = "open" /\ call'[c].fn = FunctionOf(s) /\ verdict'[c] = FALSE
      /\ call'[c] = [fn |-> FunctionOf(s), id |-> id, command |-> command]
  BY <1>1, <1>2 DEF MTypeOK, LTypeOK
<1>5. ThreadInv'
  <2>1. \A n \in Managers : ProcessOf[n] = c /\ stage[n] \in Waiting => n = m
    BY DEF ThreadInv
  <2>2. stage'[m] = s /\ \A n \in Managers \ {m} : stage'[n] = stage[n]
    BY <1>2 DEF MTypeOK
  <2> HIDE DEF c
  <2> QED BY <1>1, <1>3, <1>4, <2>1, <2>2, ThreadsKept DEF c
<1>6. AnswerInv'
  BY <1>3, <1>4 DEF AnswerInv, Others
<1>7. pc[c] # "exited"
  BY DEF ThreadInv, Waiting
<1> QED BY <1>2, <1>3, <1>4, <1>5, <1>6, <1>7

(* The method resumes after its call.                                      *)
LEMMA ResumeFacts ==
    ASSUME MTypeOK, ThreadInv, AnswerInv, NEW m \in Managers,
           stage[m] \in Waiting, stage' = [stage EXCEPT ![m] = "ready"],
           \A n \in Managers \ {m} : local'[n] = local[n],
           Resume(ProcessOf[m])
    PROVE  /\ ThreadInv' /\ AnswerInv' /\ Others(ProcessOf[m])
           /\ pc'[ProcessOf[m]] = "idle" /\ pc[ProcessOf[m]] = "returned"
           /\ call'[ProcessOf[m]] = NoCall
           /\ UNCHANGED <<mapped, nextPage>>
<1> DEFINE c == ProcessOf[m]
<1>1. c \in Clients
  BY ManagerFacts
<1>2. /\ pc' = [pc EXCEPT ![c] = "idle"] /\ call' = [call EXCEPT ![c] = NoCall]
      /\ verdict' = [verdict EXCEPT ![c] = FALSE] /\ out' = [out EXCEPT ![c] = NoPage]
      /\ UNCHANGED <<mapped, nextPage>> /\ pc[c] = "returned"
  BY DEF Resume, process
<1>3. Others(c)
  BY <1>2 DEF Others, MTypeOK, LTypeOK
<1>4. pc'[c] = "idle" /\ call'[c] = NoCall
  BY <1>1, <1>2 DEF MTypeOK, LTypeOK
<1>5. ThreadInv'
  <2>1. \A n \in Managers : ProcessOf[n] = c /\ stage[n] \in Waiting => n = m
    BY DEF ThreadInv
  <2>2. stage'[m] = "ready" /\ \A n \in Managers \ {m} : stage'[n] = stage[n]
    BY DEF MTypeOK
  <2>3. "ready" \notin Waiting
    BY DEF Waiting
  <2> HIDE DEF c
  <2> QED BY <1>1, <1>3, <1>4, <2>1, <2>2, <2>3, ThreadsKept DEF c
<1>6. AnswerInv'
  BY <1>3, <1>4 DEF AnswerInv, Others
<1> QED BY <1>2, <1>3, <1>4, <1>5, <1>6

(* The process exits, with all its managers.                               *)
LEMMA ExitFacts ==
    ASSUME MTypeOK, ThreadInv, AnswerInv, NEW m \in Managers,
           stage' = AllExited(m), local' = local,
           ProcessExit(ProcessOf[m])
    PROVE  /\ ThreadInv' /\ AnswerInv' /\ Others(ProcessOf[m])
           /\ pc'[ProcessOf[m]] = "exited" /\ nextPage' = nextPage
           /\ \A n \in Managers : ProcessOf[n] = ProcessOf[m] => stage'[n] = "exited"
<1> DEFINE c == ProcessOf[m]
<1>1. c \in Clients
  BY ManagerFacts
<1>2. /\ pc' = [pc EXCEPT ![c] = "exited"] /\ mapped' = [mapped EXCEPT ![c] = {}]
      /\ UNCHANGED <<call, verdict, out, nextPage>>
  BY DEF ProcessExit
<1>3. /\ \A n \in Managers : ProcessOf[n] = c => stage'[n] = "exited"
      /\ \A n \in Managers : ProcessOf[n] # c => stage'[n] = stage[n]
  BY DEF AllExited
<1>4. Others(c)
  BY <1>2, <1>3 DEF Others, MTypeOK, LTypeOK
<1>5. pc'[c] = "exited"
  BY <1>1, <1>2 DEF MTypeOK, LTypeOK
<1>6. ThreadInv'
  <2>1. "exited" \notin Waiting
    BY DEF Waiting
  <2> HIDE DEF c
  <2> QED BY <1>1, <1>3, <1>4, <1>5, <2>1, ThreadsKept DEF c
<1>7. AnswerInv'
  BY <1>4, <1>5 DEF AnswerInv, Others
<1> QED BY <1>2, <1>3, <1>4, <1>5, <1>6, <1>7

-----------------------------------------------------------------------------
(* A step of the thread of m's process that changes no manager but m, and  *)
(* no map.                                                                 *)
LEMMA QuietInv ==
    ASSUME MTypeOK, MTypeOK', LocalInv, PagesInv, NEW m \in Managers,
           Others(ProcessOf[m]), UNCHANGED memory,
           pc[ProcessOf[m]] # "exited", Known(ProcessOf[m])' = Known(ProcessOf[m]),
           stage[m] \in Waiting \cup {"ready", "none"}, stage'[m] \in Waiting \cup {"ready"},
           \A n \in Managers \ {m} : stage'[n] = stage[n]
    PROVE  PagesInv'
<1>1. /\ "destroyed" \notin Waiting \cup {"ready", "none"} /\ "exited" \notin Waiting \cup {"ready", "none"}
  BY DEF Waiting
<1>2. \A n \in Managers : stage[n] \in {"destroyed", "exited"} => stage'[n] \in {"destroyed", "exited"}
  BY <1>1
<1>3. \A c \in Clients : /\ pc'[c] # "exited" => pc[c] # "exited" /\ Known(c)' = Known(c)
                         /\ Known(c)' >= Known(c)
  <2>1. \A c \in Clients : Known(c) \in Int
    BY ManagerFacts
  <2>2. \A c \in Clients \ {ProcessOf[m]} : Known(c)' = Known(c) /\ pc'[c] = pc[c]
    BY DEF Others, Known, Getting
  <2> QED BY <2>1, <2>2
<1> QED BY <1>2, <1>3, RegistryKept

(* The process of m exits: what is said of the others stays true.          *)
LEMMA GoneInv ==
    ASSUME MTypeOK, MTypeOK', LocalInv, PagesInv, NEW m \in Managers,
           Others(ProcessOf[m]), UNCHANGED memory, nextPage' = nextPage,
           pc'[ProcessOf[m]] = "exited",
           \A n \in Managers : ProcessOf[n] = ProcessOf[m] => stage'[n] = "exited"
    PROVE  PagesInv' /\ LocalInv'
<1> DEFINE c == ProcessOf[m]
<1>0. c \in Clients /\ \A n \in Managers : ProcessOf[n] \in Clients
  BY ManagerFacts
<1>1. \A n \in Managers : stage[n] \in {"destroyed", "exited"} => stage'[n] \in {"destroyed", "exited"}
  BY DEF Others
<1>2. \A e \in Clients : /\ pc'[e] # "exited" => pc[e] # "exited" /\ Known(e)' = Known(e)
                         /\ Known(e)' >= Known(e)
  <2>1. \A e \in Clients : Known(e) \in Int /\ nextPage[e]["uc"] \in Nat
    BY ManagerFacts
  <2>2. \A e \in Clients \ {c} : Known(e)' = Known(e) /\ pc'[e] = pc[e]
    BY DEF Others, Known, Getting
  <2>3. Known(c)' = nextPage[c]["uc"] /\ Known(c) =< nextPage[c]["uc"]
    BY <1>0, <2>1 DEF Known, Getting
  <2> QED BY <2>1, <2>2, <2>3
<1>3. PagesInv'
  BY <1>1, <1>2, RegistryKept
<1>4. LocalInv'
  <2> SUFFICES ASSUME NEW n \in Managers PROVE LocalsOf(n)'
    BY DEF LocalInv
  <2>1. CASE ProcessOf[n] = c
    BY <2>1 DEF LocalsOf
  <2>2. CASE ProcessOf[n] # c
    <3>1. LocalsOf(n)
      BY DEF LocalInv
    <3> QED BY <1>0, <2>2, <3>1 DEF LocalsOf, Others, Has, memory
  <2> QED BY <2>1, <2>2
<1> QED BY <1>3, <1>4

(* The locals of all methods, if those of m are right.                     *)
LEMMA LocalsKept ==
    ASSUME MTypeOK, LocalInv, NEW m \in Managers, Others(ProcessOf[m]),
           \A n \in Managers \ {m} : /\ ucPtr'[n] = ucPtr[n] /\ perfPtr'[n] = perfPtr[n]
                                     /\ stage'[n] = stage[n]
                                     /\ ProcessOf[n] = ProcessOf[m] => stage'[n] \notin Waiting,
           LocalsOf(m)'
    PROVE  LocalInv'
<1> SUFFICES ASSUME NEW n \in Managers \ {m} PROVE LocalsOf(n)'
  BY DEF LocalInv
<1>1. LocalsOf(n) /\ ProcessOf[n] \in Clients
  BY ManagerFacts DEF LocalInv
<1>2. CASE ProcessOf[n] = ProcessOf[m]
  <2>1. stage'[n] \notin {"uc_allocate", "uc_paddr", "uc_watch", "perf_allocate"}
    BY <1>2 DEF Waiting
  <2> QED BY <1>1, <2>1 DEF LocalsOf
<1>3. CASE ProcessOf[n] # ProcessOf[m]
  BY <1>1, <1>3 DEF LocalsOf, Others, Has
<1> QED BY <1>2, <1>3

-----------------------------------------------------------------------------
(* Between two low-level calls.                                            *)
LEMMA FunctionFacts == \A s \in Waiting : FunctionOf(s) \in Function
BY DEF FunctionOf, Waiting, Function

(* A method makes a call and has changed no map.                           *)
LEMMA CallThenInv ==
    ASSUME MInv, NEW m \in Managers, NEW s \in Waiting, NEW id \in Nat,
           NEW command \in Command \cup {NoCommand},
           FunctionOf(s) = "write_command_to_device" => command \in Command,
           \/ stage[m] = "ready" /\ pc[ProcessOf[m]] = "idle"
           \/ stage[m] \in Waiting /\ pc[ProcessOf[m]] = "returned",
           CallThen(m, s, FunctionOf(s), id, command),
           UNCHANGED <<answer, memory, unwatched>>,
           local' \in [Managers -> [id : Nat, ptr : Page \cup {NoPage}]],
           \A n \in Managers \ {m} : local'[n] = local[n],
           Getting(ProcessOf[m])' = Getting(ProcessOf[m]),
           LocalsOf(m)'
    PROVE  MInv'
<1> DEFINE c == ProcessOf[m]
<1>0. /\ CallsInv /\ MTypeOK /\ ThreadInv /\ AnswerInv /\ LocalInv /\ PagesInv
      /\ c \in Clients /\ FunctionOf(s) \in Function
  BY ManagerFacts, FunctionFacts DEF MInv
<1>1. CallsInv'
  BY <1>0, EnterCallsInv DEF CallThen
<1>2. /\ ThreadInv' /\ AnswerInv' /\ Others(c)
      /\ pc'[c] = "open" /\ pc[c] # "exited"
      /\ UNCHANGED <<mapped, nextPage>> /\ stage' = [stage EXCEPT ![m] = s]
  BY <1>0, CallThenFacts
<1>3. MTypeOK'
  BY <1>0, <1>1, <1>2 DEF MTypeOK, CallsInv, memory
<1>4. /\ stage'[m] = s /\ \A n \in Managers \ {m} : stage'[n] = stage[n]
  BY <1>0, <1>2 DEF MTypeOK
<1>5. PagesInv'
  <2>1. Known(c)' = Known(c)
    BY <1>2 DEF Known
  <2> HIDE DEF c
  <2> QED BY <1>0, <1>2, <1>3, <1>4, <2>1, QuietInv DEF c
<1>6. LocalInv'
  <2>1. \A n \in Managers \ {m} : ProcessOf[n] = c => stage'[n] \notin Waiting
    BY <1>0, <1>4 DEF ThreadInv
  <2> QED BY <1>0, <1>2, <1>4, <2>1, LocalsKept DEF memory
<1> QED BY <1>1, <1>2, <1>3, <1>5, <1>6 DEF MInv

(* A method returns after its call and has changed no map.                 *)
LEMMA BackInv ==
    ASSUME MInv, NEW m \in Managers, NEW p \in Page \cup {NoPage},
           stage[m] \in Waiting, Resume(ProcessOf[m]), Answer(m, p),
           ~ Getting(ProcessOf[m]),
           UNCHANGED memory, unwatched' \subseteq Page
    PROVE  MInv'
<1> DEFINE c == ProcessOf[m]
<1>0. /\ CallsInv /\ MTypeOK /\ ThreadInv /\ AnswerInv /\ LocalInv /\ PagesInv
      /\ c \in Clients
  BY ManagerFacts DEF MInv
<1>1. CallsInv'
  BY <1>0, ResumeCallsInv
<1>2. /\ stage' = [stage EXCEPT ![m] = "ready"] /\ local' = [local EXCEPT ![m] = NoLocal]
      /\ answer' = [answer EXCEPT ![c] = p]
  BY DEF Answer
<1>3. \A n \in Managers \ {m} : local'[n] = local[n] /\ stage'[n] = stage[n]
  BY <1>0, <1>2 DEF MTypeOK
<1>4. stage'[m] = "ready"
  BY <1>0, <1>2 DEF MTypeOK
<1>5. /\ ThreadInv' /\ AnswerInv' /\ Others(c) /\ pc'[c] = "idle" /\ pc[c] = "returned"
      /\ UNCHANGED <<mapped, nextPage>> /\ call'[c] = NoCall
  BY <1>0, <1>2, <1>3, ResumeFacts
<1>6. MTypeOK'
  BY <1>0, <1>1, <1>2 DEF MTypeOK, CallsInv, memory, NoLocal
<1>7. PagesInv'
  <2>1. ~ Getting(c)'
    BY <1>5 DEF Getting, NoCall
  <2>2. Known(c)' = Known(c)
    BY <1>5, <2>1 DEF Known
  <2> HIDE DEF c
  <2> QED BY <1>0, <1>3, <1>4, <1>5, <1>6, <2>2, QuietInv DEF c
<1>8. LocalInv'
  <2>1. \A n \in Managers \ {m} : ProcessOf[n] = c => stage'[n] \notin Waiting
    BY <1>0, <1>3 DEF ThreadInv
  <2>2. LocalsOf(m)'
    BY <1>4 DEF LocalsOf
  <2> QED BY <1>0, <1>3, <1>5, <2>1, <2>2, LocalsKept DEF memory
<1> QED BY <1>1, <1>5, <1>6, <1>7, <1>8 DEF MInv

(* A method answers from what its manager remembers.                       *)
LEMMA CachedInv ==
    ASSUME MInv, NEW m \in Managers, NEW p \in Page \cup {NoPage},
           Ready(m), Answer(m, p), UNCHANGED <<lvars, memory, unwatched>>
    PROVE  MInv'
<1> DEFINE c == ProcessOf[m]
<1>0. /\ CallsInv /\ MTypeOK /\ ThreadInv /\ AnswerInv /\ LocalInv /\ PagesInv
      /\ c \in Clients /\ stage[m] = "ready" /\ pc[c] = "idle"
  BY ManagerFacts DEF MInv, Ready
<1>1. CallsInv' /\ AnswerInv'
  BY <1>0 DEF lvars, CallsInv, LTypeOK, FdsAccounted, RightCall, AnswerInv
<1>2. stage' = stage /\ local' = [local EXCEPT ![m] = NoLocal] /\ answer' = [answer EXCEPT ![c] = p]
  BY <1>0 DEF Answer, MTypeOK
<1>3. \A n \in Managers \ {m} : local'[n] = local[n] /\ stage'[n] = stage[n]
  BY <1>0, <1>2 DEF MTypeOK
<1>4. ThreadInv'
  BY <1>0, <1>2 DEF ThreadInv, lvars
<1>5. MTypeOK'
  BY <1>0, <1>1, <1>2 DEF MTypeOK, CallsInv, memory, NoLocal
<1>6. Others(c) /\ UNCHANGED <<mapped, nextPage>> /\ Known(c)' = Known(c)
  BY <1>3 DEF Others, Known, Getting, lvars
<1>7. PagesInv'
  <2> HIDE DEF c
  <2> QED BY <1>0, <1>2, <1>3, <1>5, <1>6, QuietInv DEF c
<1>8. LocalInv'
  <2>1. \A n \in Managers \ {m} : ProcessOf[n] = c => stage'[n] \notin Waiting
    BY <1>0, <1>3 DEF ThreadInv
  <2>2. LocalsOf(m)'
    BY <1>0, <1>2 DEF LocalsOf
  <2> QED BY <1>0, <1>3, <1>6, <2>1, <2>2, LocalsKept DEF memory
<1> QED BY <1>1, <1>4, <1>5, <1>7, <1>8 DEF MInv

(* exit() in the middle of a method.                                       *)
LEMMA AbortInv ==
    ASSUME MInv, NEW m \in Managers, Abort(m)
    PROVE  MInv'
<1> DEFINE c == ProcessOf[m]
<1>0. /\ CallsInv /\ MTypeOK /\ ThreadInv /\ AnswerInv /\ LocalInv /\ PagesInv
      /\ c \in Clients
  BY ManagerFacts DEF MInv
<1>1. /\ ProcessExit(c) /\ stage' = AllExited(m) /\ UNCHANGED <<local, answer, memory, unwatched>>
  BY DEF Abort
<1>2. CallsInv'
  BY <1>0, <1>1, ExitCallsInv
<1>3. /\ ThreadInv' /\ AnswerInv' /\ Others(c) /\ pc'[c] = "exited" /\ nextPage' = nextPage
      /\ \A n \in Managers : ProcessOf[n] = c => stage'[n] = "exited"
  BY <1>0, <1>1, ExitFacts
<1>4. MTypeOK'
  <2>1. stage' \in [Managers -> Waiting \cup {"none", "ready", "exited", "destroyed"}]
    BY <1>0, <1>1 DEF AllExited, MTypeOK
  <2> QED BY <1>0, <1>1, <1>2, <2>1 DEF MTypeOK, CallsInv, memory
<1>5. PagesInv' /\ LocalInv'
  <2> HIDE DEF c
  <2> QED BY <1>0, <1>1, <1>3, <1>4, GoneInv DEF c
<1> QED BY <1>2, <1>3, <1>4, <1>5 DEF MInv

(* A system call, or the end of the process in the query of the specs.     *)
LEMMA LowLevelStepInv ==
    ASSUME MInv, NEW m \in Managers, LowLevelStep(m)
    PROVE  MInv'
<1> DEFINE c == ProcessOf[m]
           k == KindOf(call[c].fn)
<1>0. /\ CallsInv /\ MTypeOK /\ ThreadInv /\ AnswerInv /\ LocalInv /\ PagesInv
      /\ c \in Clients
  BY ManagerFacts DEF MInv
<1>1. /\ stage[m] \in Waiting /\ Syscall(c) /\ UNCHANGED <<local, answer, memory, unwatched>>
      /\ stage' = IF pc'[c] = "exited" THEN AllExited(m) ELSE stage
  BY DEF LowLevelStep
<1>2. CallsInv'
  BY <1>0, <1>1, SyscallCallsInv
<1>3. /\ \A e \in Clients \ {c} : /\ pc'[e] = pc[e] /\ verdict'[e] = verdict[e] /\ out'[e] = out[e]
                                  /\ mapped'[e] = mapped[e] /\ nextPage'[e] = nextPage[e]
      /\ call' = call /\ pc[c] \in InProgress \cup {"open"}
      /\ pc'[c] \in InProgress \cup {"open", "returned", "exited"}
      /\ pc'[c] = "exited" => nextPage' = nextPage
      /\ pc'[c] # "returned" /\ pc'[c] # "exited" => UNCHANGED <<mapped, nextPage>>
  BY <1>0, <1>1, SyscallPages
<1>4. pc'[c] = "returned" =>
          \/ UNCHANGED <<mapped, nextPage>> /\ ~verdict'[c]
          \/ /\ UNCHANGED <<mapped, nextPage>>
             /\ call[c].fn \in {"write_command_to_device", "get_device_specs"}
          \/ /\ UNCHANGED <<mapped, nextPage>> /\ out'[c] = Asked(c)
             /\ call[c].fn \in AddressFunction
             /\ Asked(c).number \in 0 .. nextPage[c][Asked(c).kind] - 1
          \/ /\ verdict'[c] /\ out'[c] = NewPage(c)
             /\ call[c].fn \notin {"write_command_to_device", "get_device_specs"} \cup AddressFunction
             /\ nextPage' = [nextPage EXCEPT ![c][k] = nextPage[c][k] + 1]
             /\ mapped' = [mapped EXCEPT ![c] = mapped[c] \cup {NewPage(c)}]
  BY <1>0, <1>1, SyscallPages
<1>5. Others(c)
  <2>1. \A n \in Managers : ProcessOf[n] # c => stage'[n] = stage[n]
    BY <1>1 DEF AllExited
  <2> QED BY <1>1, <1>3, <2>1 DEF Others
<1>6. /\ MTypeOK'
      /\ pc'[c] = "exited" => \A n \in Managers : ProcessOf[n] = c => stage'[n] = "exited"
      /\ pc'[c] # "exited" => stage' = stage
  <2>1. stage' \in [Managers -> Waiting \cup {"none", "ready", "exited", "destroyed"}]
    BY <1>0, <1>1 DEF AllExited, MTypeOK
  <2>2. MTypeOK'
    BY <1>0, <1>1, <1>2, <2>1 DEF MTypeOK, CallsInv, memory
  <2> QED BY <1>1, <2>2 DEF AllExited
<1>7. ThreadInv'
  <2>1. \A n \in Managers : ProcessOf[n] = c /\ stage[n] \in Waiting => n = m
    BY <1>0, <1>1 DEF ThreadInv
  <2>2. call[c].fn = FunctionOf(stage[m])
    BY <1>0, <1>1 DEF ThreadInv
  <2>3. "exited" \notin Waiting /\ pc'[c] # "idle"
    BY <1>3 DEF Waiting, InProgress
  <2> HIDE DEF c
  <2> QED BY <1>0, <1>3, <1>5, <1>6, <2>1, <2>2, <2>3, ThreadsKept DEF c
<1>8. CASE pc'[c] = "exited"
  <2>1. AnswerInv'
    BY <1>0, <1>5, <1>8 DEF AnswerInv, Others
  <2>2. PagesInv' /\ LocalInv'
    <3> HIDE DEF c
    <3> QED BY <1>0, <1>1, <1>3, <1>5, <1>6, <1>8, GoneInv DEF c
  <2> QED BY <1>2, <1>6, <1>7, <2>1, <2>2 DEF MInv
<1>9. CASE pc'[c] # "exited"
  <2> DEFINE Maps == /\ nextPage' = [nextPage EXCEPT ![c][k] = nextPage[c][k] + 1]
                     /\ mapped' = [mapped EXCEPT ![c] = mapped[c] \cup {NewPage(c)}]
                     /\ pc'[c] = "returned" /\ verdict'[c] /\ out'[c] = NewPage(c)
                     /\ call[c].fn \notin {"write_command_to_device", "get_device_specs"} \cup AddressFunction
  <2>t. /\ nextPage[c] \in [Kind -> 0 .. MaxPages] /\ nextPage[c]["uc"] \in Nat /\ nextPage[c]["perf"] \in Nat
        /\ k \in Kind /\ nextPage[c][k] \in Nat
        /\ nextPage \in [Clients -> [Kind -> 0 .. MaxPages]] /\ mapped \in [Clients -> SUBSET Page]
        /\ verdict'[c] \in BOOLEAN
    <3>1. "uc" \in Kind /\ "perf" \in Kind /\ k \in Kind /\ 0 .. MaxPages \subseteq Nat
      BY LimitsAssumption DEF Kind, KindOf
    <3>2. nextPage[c] \in [Kind -> 0 .. MaxPages]
      BY <1>0, ManagerFacts
    <3> QED BY <1>0, <1>6, <3>1, <3>2 DEF MTypeOK, LTypeOK
  <2>1. Maps \/ UNCHANGED <<mapped, nextPage>>
    BY <1>3, <1>4, <1>9
  <2>2. pc[c] \notin {"idle", "exited", "returned"} /\ pc'[c] # "idle"
    BY <1>3 DEF InProgress
  <2>f. call[c].fn = FunctionOf(stage[m]) /\ FunctionOf(stage[m]) \in Function
    BY <1>0, <1>1, FunctionFacts DEF ThreadInv
  <2>3. Maps => /\ nextPage'[c][k] = nextPage[c][k] + 1
                /\ mapped'[c] = mapped[c] \cup {NewPage(c)}
                /\ k # "uc" => nextPage'[c]["uc"] = nextPage[c]["uc"]
                /\ NewPage(c) = PageOf(c, k, nextPage[c][k])
                /\ call[c].fn \in Allocator
                /\ ~ Getting(c)
    <3>1. Maps => call[c].fn \in Allocator /\ call[c].fn # "get_mmap_paddr"
      BY <2>f DEF Function, Allocator, AddressFunction
    <3>2. ~ (pc[c] = "returned")
      BY <2>2
    <3> QED BY <1>0, <2>t, <3>1, <3>2 DEF NewPage, PageOf, Getting
  <2>4. AnswerInv'
    <3> SUFFICES ASSUME pc'[c] = "returned", verdict'[c]
                 PROVE  /\ call'[c].fn \in Allocator =>
                              /\ nextPage'[c][k] > 0
                              /\ out'[c] = PageOf(c, k, nextPage'[c][k] - 1)
                              /\ out'[c] \in mapped'[c]
                        /\ call'[c].fn = "get_mmap_paddr" =>
                              /\ out'[c] = PageOf(c, "uc", call'[c].id)
                              /\ call'[c].id < nextPage'[c]["uc"]
      BY <1>0, <1>3, <1>5 DEF AnswerInv, Others
    <3>1. CASE Maps
      <4>1. call'[c].fn # "get_mmap_paddr"
        BY <1>3, <2>3, <3>1 DEF Allocator
      <4>2. nextPage'[c][k] - 1 = nextPage[c][k] /\ nextPage'[c][k] > 0
        <5> DEFINE n == nextPage[c][k]
        <5>1. n \in Nat /\ nextPage'[c][k] = n + 1
          BY <2>t, <2>3, <3>1
        <5> HIDE DEF n, k, Maps
        <5> QED BY <5>1 DEF n
      <4>3. out'[c] = PageOf(c, k, nextPage[c][k]) /\ out'[c] \in mapped'[c]
        BY <2>3, <3>1
      <4> QED BY <4>1, <4>2, <4>3
    <3>2. CASE call[c].fn \in {"write_command_to_device", "get_device_specs"}
      BY <1>3, <3>2 DEF Allocator
    <3>3. CASE /\ UNCHANGED <<mapped, nextPage>> /\ out'[c] = Asked(c)
               /\ call[c].fn \in AddressFunction
               /\ Asked(c).number \in 0 .. nextPage[c][Asked(c).kind] - 1
      <4>1. call'[c].fn \notin Allocator
        BY <1>3, <3>3 DEF Allocator, AddressFunction
      <4>2. CASE call[c].fn = "get_mmap_paddr"
        <5>1. Asked(c) = PageOf(c, "uc", call[c].id)
          BY <4>2 DEF Asked, PageOf
        <5>2. call[c].id < nextPage[c]["uc"]
          BY <2>t, <3>3, <5>1, PageFacts
        <5> QED BY <1>3, <3>3, <4>1, <5>1, <5>2
      <4> QED BY <1>3, <4>1, <4>2
    <3> QED BY <1>4, <3>1, <3>2, <3>3
  <2>5. Known(c)' = Known(c)
    <3>1. CASE Maps
      <4>1. CASE k = "uc"
        <5>1. call[c].fn = "allocate_uncacheable_page"
          BY <2>3, <3>1, <4>1 DEF Allocator, KindOf
        <5>2. Getting(c)'
          BY <1>3, <3>1, <5>1 DEF Getting
        <5> QED BY <2>t, <2>3, <3>1, <4>1, <5>2 DEF Known
      <4>2. CASE k # "uc"
        <5>1. call[c].fn = "allocate_perf_page"
          BY <2>3, <3>1, <4>2 DEF Allocator, KindOf
        <5>2. ~ Getting(c)'
          BY <1>3, <5>1 DEF Getting
        <5> QED BY <2>t, <2>3, <3>1, <4>2, <5>2 DEF Known
      <4> QED BY <4>1, <4>2
    <3>2. CASE UNCHANGED <<mapped, nextPage>> /\ ~Maps
      <4>1. pc'[c] = "returned" /\ verdict'[c] => call[c].fn # "allocate_uncacheable_page"
        BY <1>4, <3>2 DEF AddressFunction
      <4>2. Getting(c)' <=> Getting(c)
        BY <1>3, <1>9, <2>2, <4>1 DEF Getting
      <4> QED BY <3>2, <4>2 DEF Known
    <3> QED BY <2>1, <3>1, <3>2
  <2>6. PagesInv'
    <3>1. stage'[m] \in Waiting \cup {"ready"} /\ \A n \in Managers \ {m} : stage'[n] = stage[n]
      BY <1>1, <1>6, <1>9
    <3>2. pc[c] # "exited"
      BY <2>2
    <3> HIDE DEF c
    <3> QED BY <1>0, <1>1, <1>5, <1>6, <2>5, <3>1, <3>2, QuietInv DEF c
  <2>7. LocalInv'
    <3>1. \A n \in Managers \ {m} : ProcessOf[n] = c => stage'[n] \notin Waiting
      BY <1>0, <1>1, <1>6, <1>9 DEF ThreadInv
    <3>2. LocalsOf(m)'
      <4>1. LocalsOf(m)
        BY <1>0 DEF LocalInv
      <4>2. ASSUME stage[m] = "uc_paddr" PROVE UNCHANGED <<mapped, nextPage>>
        BY <2>1, <2>3, <2>f, <4>2 DEF FunctionOf, Allocator
      <4> QED BY <1>1, <1>3, <1>6, <1>9, <4>1, <4>2 DEF LocalsOf, Has, memory
    <3> QED BY <1>0, <1>1, <1>5, <1>6, <1>9, <3>1, <3>2, LocalsKept DEF memory
  <2> QED BY <1>2, <1>6, <1>7, <2>4, <2>6, <2>7 DEF MInv
<1> QED BY <1>8, <1>9

-----------------------------------------------------------------------------
(* The methods, but for what registers a page.                             *)
LEMMA GetUCPageInv ==
    ASSUME MInv, NEW m \in Managers, NEW id \in MmapIds, GetUCPage(m, id)
    PROVE  MInv'
<1> DEFINE c == ProcessOf[m]
<1>0. /\ MTypeOK /\ ThreadInv /\ AnswerInv /\ c \in Clients /\ id \in Nat
      /\ stage[m] = "ready" /\ pc[c] = "idle" /\ "uc_allocate" \in Waiting
  BY ManagerFacts, ManagerAssumption DEF MInv, GetUCPage, Ready, Waiting
<1>1. /\ CallThen(m, "uc_allocate", FunctionOf("uc_allocate"), id, NoCommand)
      /\ FunctionOf("uc_allocate") = "allocate_uncacheable_page"
      /\ local' = [local EXCEPT ![m] = [id |-> id, ptr |-> NoPage]]
      /\ UNCHANGED <<answer, memory, unwatched>> /\ id \notin DOMAIN ucPtr[m]
  BY DEF GetUCPage, FunctionOf, Cached
<1>2. /\ local' \in [Managers -> [id : Nat, ptr : Page \cup {NoPage}]]
      /\ local'[m].id = id /\ \A n \in Managers \ {m} : local'[n] = local[n]
  BY <1>0, <1>1 DEF MTypeOK
<1>3. /\ pc'[c] = "open" /\ call'[c].fn = "allocate_uncacheable_page"
      /\ stage' = [stage EXCEPT ![m] = "uc_allocate"]
  <2>1. /\ pc'[c] = "open" /\ stage' = [stage EXCEPT ![m] = "uc_allocate"]
        /\ call'[c] = [fn |-> FunctionOf("uc_allocate"), id |-> id, command |-> NoCommand]
    BY <1>0, <1>1, <1>2, CallThenFacts
  <2> QED BY <1>1, <2>1
<1>4. Getting(c)' = Getting(c)
  BY <1>0, <1>3 DEF Getting
<1>5. LocalsOf(m)'
  BY <1>0, <1>1, <1>2, <1>3 DEF LocalsOf, MTypeOK, memory
<1> QED BY <1>0, <1>1, <1>2, <1>4, <1>5, CallThenInv

LEMMA UCPageAllocatedInv ==
    ASSUME MInv, NEW m \in Managers, UCPageAllocated(m)
    PROVE  MInv'
<1> DEFINE c == ProcessOf[m]
<1>0. /\ MTypeOK /\ ThreadInv /\ AnswerInv /\ LocalInv /\ c \in Clients
      /\ stage[m] = "uc_allocate" /\ pc[c] = "returned" /\ verdict[c]
      /\ "uc_paddr" \in Waiting /\ "uc_allocate" \in Waiting
  BY ManagerFacts DEF MInv, UCPageAllocated, Returned, Waiting
<1>1. /\ CallThen(m, "uc_paddr", FunctionOf("uc_paddr"), local[m].id, NoCommand)
      /\ FunctionOf("uc_paddr") = "get_mmap_paddr"
      /\ local' = [local EXCEPT ![m].ptr = out[c]]
      /\ UNCHANGED <<answer, memory, unwatched>>
  BY DEF UCPageAllocated, FunctionOf, Out
<1>2. /\ call[c].fn = "allocate_uncacheable_page" /\ local[m].id \in Nat
      /\ nextPage[c]["uc"] > 0 /\ out[c] = PageOf(c, "uc", nextPage[c]["uc"] - 1) /\ out[c] \in mapped[c]
      /\ out[c] \in Page \cup {NoPage} /\ local[m].id \in MmapIds \ DOMAIN ucPtr[m]
  <2>1. call[c].fn = "allocate_uncacheable_page"
    BY <1>0 DEF ThreadInv, FunctionOf
  <2>2. local[m].id \in Nat /\ out[c] \in Page \cup {NoPage}
    BY <1>0 DEF MTypeOK, LTypeOK
  <2>3. local[m].id \in MmapIds \ DOMAIN ucPtr[m]
    BY <1>0 DEF LocalInv, LocalsOf
  <2> QED BY <1>0, <2>1, <2>2, <2>3 DEF AnswerInv, Allocator, KindOf
<1>3. /\ local' \in [Managers -> [id : Nat, ptr : Page \cup {NoPage}]]
      /\ local'[m].id = local[m].id /\ local'[m].ptr = out[c]
      /\ \A n \in Managers \ {m} : local'[n] = local[n]
  BY <1>0, <1>1, <1>2 DEF MTypeOK
<1>4. /\ pc'[c] = "open" /\ call'[c].fn = "get_mmap_paddr" /\ call'[c].id = local[m].id
      /\ stage' = [stage EXCEPT ![m] = "uc_paddr"] /\ UNCHANGED <<mapped, nextPage>>
  <2>1. /\ pc'[c] = "open" /\ stage' = [stage EXCEPT ![m] = "uc_paddr"]
        /\ call'[c] = [fn |-> FunctionOf("uc_paddr"), id |-> local[m].id, command |-> NoCommand]
        /\ UNCHANGED <<mapped, nextPage>>
    BY <1>0, <1>1, <1>3, CallThenFacts
  <2> QED BY <1>1, <2>1
<1>5. Getting(c)' = Getting(c)
  BY <1>0, <1>2, <1>4 DEF Getting
<1>6. LocalsOf(m)'
  BY <1>0, <1>1, <1>2, <1>3, <1>4 DEF LocalsOf, MTypeOK, memory
<1> QED BY <1>0, <1>1, <1>2, <1>3, <1>5, <1>6, CallThenInv

(* The methods that make one call and keep nothing.                        *)
LEMMA OneCallInv ==
    ASSUME MInv, NEW m \in Managers, NEW s \in {"perf_allocate", "job", "specs"},
           NEW command \in Command \cup {NoCommand},
           FunctionOf(s) = "write_command_to_device" => command \in Command,
           Ready(m), CallThen(m, s, FunctionOf(s), 0, command),
           s = "perf_allocate" => perfPtr[m] = NoPage,
           UNCHANGED <<local, answer, memory, unwatched>>
    PROVE  MInv'
<1> DEFINE c == ProcessOf[m]
<1>0. /\ MTypeOK /\ ThreadInv /\ AnswerInv /\ c \in Clients
      /\ stage[m] = "ready" /\ pc[c] = "idle" /\ s \in Waiting
      /\ local \in [Managers -> [id : Nat, ptr : Page \cup {NoPage}]]
  BY ManagerFacts DEF MInv, Ready, Waiting
<1>1. FunctionOf(s) \notin {"allocate_uncacheable_page", "get_mmap_paddr"}
  BY DEF FunctionOf
<1>2. /\ pc'[c] = "open" /\ call'[c].fn = FunctionOf(s)
      /\ stage' = [stage EXCEPT ![m] = s]
  <2>1. /\ pc'[c] = "open" /\ stage' = [stage EXCEPT ![m] = s]
        /\ call'[c] = [fn |-> FunctionOf(s), id |-> 0, command |-> command]
    BY <1>0, CallThenFacts
  <2> QED BY <2>1
<1>3. Getting(c)' = Getting(c)
  BY <1>0, <1>1, <1>2 DEF Getting
<1>4. LocalsOf(m)'
  BY <1>0, <1>2 DEF LocalsOf, MTypeOK, memory
<1> QED BY <1>0, <1>3, <1>4, CallThenInv

LEMMA OneCallsInv ==
    ASSUME MInv, NEW m \in Managers,
           \/ GetPerfPage(m) \/ GetDevicePrefetcherSpecs(m)
           \/ \E j \in JobDescriptors : SendJob(m, j)
    PROVE  MInv'
<1>1. /\ FunctionOf("perf_allocate") = "allocate_perf_page"
      /\ FunctionOf("specs") = "get_device_specs"
      /\ FunctionOf("job") = "write_command_to_device"
  BY DEF FunctionOf
<1>2. CASE GetPerfPage(m)
  BY <1>1, <1>2, OneCallInv DEF GetPerfPage
<1>3. CASE GetDevicePrefetcherSpecs(m)
  BY <1>1, <1>3, OneCallInv DEF GetDevicePrefetcherSpecs
<1>4. ASSUME NEW j \in JobDescriptors, SendJob(m, j) PROVE MInv'
  BY <1>1, <1>4, OneCallInv, ManagerAssumption DEF SendJob
<1> QED BY <1>2, <1>3, <1>4

LEMMA CachedPagesInv ==
    ASSUME MInv, NEW m \in Managers,
           GetCachedPerfPage(m) \/ \E id \in MmapIds : GetCachedUCPage(m, id)
    PROVE  MInv'
<1>0. MTypeOK
  BY DEF MInv
<1>1. CASE GetCachedPerfPage(m)
  <2>1. perfPtr[m] \in Page \cup {NoPage}
    BY <1>0 DEF MTypeOK
  <2> QED BY <1>1, <2>1, CachedInv DEF GetCachedPerfPage
<1>2. ASSUME NEW id \in MmapIds, GetCachedUCPage(m, id) PROVE MInv'
  <2>1. ucPtr[m][id] \in Page \cup {NoPage}
    BY <1>0, <1>2 DEF MTypeOK, GetCachedUCPage, Cached
  <2> QED BY <1>2, <2>1, CachedInv DEF GetCachedUCPage
<1> QED BY <1>1, <1>2

LEMMA ReturnsInv ==
    ASSUME MInv, NEW m \in Managers, UCPageReady(m) \/ MethodReturns(m)
    PROVE  MInv'
<1> DEFINE c == ProcessOf[m]
<1>0. /\ MTypeOK /\ ThreadInv /\ LocalInv /\ EntriesInv /\ c \in Clients
  BY ManagerFacts DEF MInv, PagesInv
<1>1. stage[m] \in {"uc_watch", "job", "specs"} /\ stage[m] \in Waiting
  BY DEF UCPageReady, MethodReturns, Returned, Waiting
<1>2. ~ Getting(c)
  BY <1>0, <1>1 DEF ThreadInv, Getting, FunctionOf
<1>3. CASE MethodReturns(m)
  BY <1>0, <1>1, <1>2, <1>3, BackInv DEF MethodReturns, MTypeOK
<1>4. CASE UCPageReady(m)
  <2>1. Has(m, local[m].id)
    BY <1>0, <1>4 DEF UCPageReady, Returned, LocalInv, LocalsOf
  <2>2. local[m].id \in DOMAIN ucPaddr[m]
    BY <1>0, <2>1, HasFacts DEF Registered
  <2>3. ucPaddr[m][local[m].id] \in Page /\ ucPtr[m][local[m].id] \in Page \cup {NoPage}
        /\ unwatched \subseteq Page
    BY <1>0, <2>1, <2>2 DEF MTypeOK, Has
  <2> QED BY <1>1, <1>2, <1>4, <2>3, BackInv DEF UCPageReady
<1> QED BY <1>3, <1>4

-----------------------------------------------------------------------------
LEMMA InitMInv == MInit => MInv
<1> SUFFICES ASSUME MInit PROVE MInv
  OBVIOUS
<1>1. CallsInv /\ LTypeOK
  BY InitLInv DEF MInit, LInv, CallsInv
<1>2. \A m \in Managers : DOMAIN ucPtr[m] = {} /\ perfPtr[m] = NoPage /\ stage[m] = "none"
  BY DEF MInit
<1>3. MTypeOK
  BY <1>1, <1>2, ManagerAssumption DEF MInit, MTypeOK, NoLocal
<1>4. ThreadInv /\ AnswerInv /\ LocalInv
  <2>1. \A m \in Managers : stage[m] \notin Waiting
    BY <1>2 DEF Waiting
  <2>2. \A c \in Clients : pc[c] = "idle"
    BY DEF MInit, LInit
  <2>3. ThreadInv
    BY <2>1, <2>2, ManagerAssumption DEF ThreadInv
  <2>4. AnswerInv
    BY <2>2 DEF AnswerInv
  <2> QED BY <1>2, <2>3, <2>4 DEF LocalInv, LocalsOf
<1>5. PagesInv
  <2>1. ASSUME NEW c \in Clients PROVE Known(c) = 0
    <3>1. nextPage[c]["uc"] = 0
      BY DEF MInit, LInit, Kind
    <3>2. ~ Getting(c)
      BY DEF MInit, LInit, Getting, NoCall
    <3>3. Known(c) = nextPage[c]["uc"] - 0
      BY <3>2 DEF Known
    <3> QED BY <3>1, <3>3
  <2>2. EntriesInv
    BY <1>2 DEF EntriesInv
  <2>3. OneIdPerPage /\ NoneForgotten /\ NumberedById
    BY <1>2, <2>1 DEF OneIdPerPage, NoneForgotten, NumberedById, Has
  <2> QED BY <2>2, <2>3 DEF PagesInv
<1> QED BY <1>1, <1>3, <1>4, <1>5 DEF MInv

LEMMA ConstructInv ==
    ASSUME MInv, NEW m \in Managers, Construct(m)
    PROVE  MInv'
<1> DEFINE c == ProcessOf[m]
<1>0. /\ CallsInv /\ MTypeOK /\ ThreadInv /\ AnswerInv /\ LocalInv /\ PagesInv
      /\ c \in Clients /\ stage[m] = "none" /\ pc[c] = "idle"
  BY ManagerFacts DEF MInv, Construct
<1>1. stage' = [stage EXCEPT ![m] = "ready"] /\ UNCHANGED <<lvars, local, answer, memory, unwatched>>
  BY DEF Construct
<1>2. CallsInv' /\ AnswerInv'
  BY <1>0, <1>1 DEF lvars, CallsInv, LTypeOK, FdsAccounted, RightCall, AnswerInv
<1>3. stage'[m] = "ready" /\ \A n \in Managers \ {m} : stage'[n] = stage[n]
  BY <1>0, <1>1 DEF MTypeOK
<1>4. ThreadInv'
  <2>1. "ready" \notin Waiting
    BY DEF Waiting
  <2> QED BY <1>0, <1>1, <1>3, <2>1 DEF ThreadInv, lvars
<1>5. MTypeOK'
  BY <1>0, <1>1, <1>2 DEF MTypeOK, CallsInv, memory
<1>6. Others(c) /\ UNCHANGED <<mapped, nextPage>> /\ Known(c)' = Known(c)
  BY <1>1, <1>3 DEF Others, Known, Getting, lvars
<1>7. PagesInv'
  <2> HIDE DEF c
  <2> QED BY <1>0, <1>1, <1>3, <1>5, <1>6, QuietInv DEF c
<1>8. LocalInv'
  <2>1. \A n \in Managers \ {m} : ProcessOf[n] = c => stage'[n] \notin Waiting
    BY <1>0, <1>3 DEF ThreadInv
  <2>2. LocalsOf(m)'
    BY <1>3 DEF LocalsOf
  <2> QED BY <1>0, <1>1, <1>3, <1>6, <2>1, <2>2, LocalsKept DEF memory
<1> QED BY <1>2, <1>4, <1>5, <1>7, <1>8 DEF MInv

LEMMA FailsInv ==
    ASSUME MInv, NEW m \in Managers, UCPageFails(m) \/ PerfPageFails(m)
    PROVE  MInv'
<1>1. stage[m] \in Waiting
  BY DEF UCPageFails, PerfPageFails, Returned, Waiting
<1> QED BY <1>1, AbortInv DEF UCPageFails, PerfPageFails

(* The monitoring page becomes known to m.                                 *)
LEMMA PerfPageReadyInv ==
    ASSUME MInv, NEW m \in Managers, PerfPageReady(m)
    PROVE  MInv'
<1> DEFINE c == ProcessOf[m]
           p == out[c]
<1>0. /\ CallsInv /\ MTypeOK /\ ThreadInv /\ AnswerInv /\ LocalInv /\ PagesInv
      /\ c \in Clients /\ stage[m] = "perf_allocate" /\ pc[c] = "returned" /\ verdict[c]
      /\ "perf_allocate" \in Waiting
  BY ManagerFacts DEF MInv, PerfPageReady, Returned, Waiting
<1>1. /\ perfPtr' = [perfPtr EXCEPT ![m] = p] /\ touched' = touched \cup {p}
      /\ UNCHANGED <<ucPtr, ucPaddr, unwatched>> /\ Resume(c)
      /\ stage' = [stage EXCEPT ![m] = "ready"] /\ local' = [local EXCEPT ![m] = NoLocal]
      /\ answer' = [answer EXCEPT ![c] = perfPtr'[m]]
  BY DEF PerfPageReady, Out, Touch, Answer
<1>2. /\ call[c].fn = "allocate_perf_page" /\ p \in mapped[c] /\ p.kind = "perf"
      /\ p \in Page /\ p # NoPage /\ ~ Getting(c)
  <2>1. call[c].fn = "allocate_perf_page"
    BY <1>0 DEF ThreadInv, FunctionOf
  <2>2. p \in mapped[c] /\ p = PageOf(c, "perf", nextPage[c]["perf"] - 1)
    BY <1>0, <2>1 DEF AnswerInv, Allocator, KindOf
  <2> QED BY <1>0, <2>1, <2>2, ManagerFacts, PageFacts, PageAssumption DEF Getting
<1>3. perfPtr'[m] = p /\ \A n \in Managers \ {m} : perfPtr'[n] = perfPtr[n]
  BY <1>0, <1>1 DEF MTypeOK
<1>4. /\ \A n \in Managers \ {m} : local'[n] = local[n] /\ stage'[n] = stage[n]
      /\ stage'[m] = "ready"
  BY <1>0, <1>1 DEF MTypeOK
<1>5. CallsInv'
  BY <1>0, <1>1, ResumeCallsInv
<1>6. /\ ThreadInv' /\ AnswerInv' /\ Others(c) /\ pc'[c] = "idle"
      /\ UNCHANGED <<mapped, nextPage>> /\ call'[c] = NoCall
  BY <1>0, <1>1, <1>4, ResumeFacts
<1>7. MTypeOK'
  BY <1>0, <1>1, <1>2, <1>3, <1>5 DEF MTypeOK, CallsInv, NoLocal
<1>8. LocalInv'
  <2>1. \A n \in Managers \ {m} : ProcessOf[n] = c => stage'[n] \notin Waiting
    BY <1>0, <1>4 DEF ThreadInv
  <2>2. LocalsOf(m)'
    BY <1>4 DEF LocalsOf
  <2> QED BY <1>0, <1>1, <1>3, <1>4, <1>6, <2>1, <2>2, LocalsKept
<1>9. PagesInv'
  <2>1. \A e \in Clients : Known(e)' = Known(e) /\ (pc'[e] # "exited" => pc[e] # "exited")
    <3>1. ~ Getting(c)'
      BY <1>6 DEF Getting, NoCall
    <3>2. Known(c)' = Known(c)
      BY <1>2, <1>6, <3>1 DEF Known
    <3>3. \A e \in Clients \ {c} : Known(e)' = Known(e) /\ pc'[e] = pc[e]
      BY <1>6 DEF Others, Known, Getting
    <3> QED BY <1>0, <3>2, <3>3
  <2>2. \A n \in Managers : \A id : Has(n, id)' <=> Has(n, id)
    BY <1>1 DEF Has
  <2>3. \A n \in Managers : ProcessOf[n] \in Clients
    BY <1>0, ManagerFacts
  <2>4. EntriesInv'
    <3> SUFFICES ASSUME NEW n \in Managers
                 PROVE  /\ \A id \in DOMAIN ucPtr[n] :
                              \/ Registered(n, id)'
                              \/ id = 0 /\ ucPtr[n][id] = NoPage /\ stage'[n] \in {"destroyed", "exited"}
                        /\ perfPtr'[n] # NoPage => perfPtr'[n].kind = "perf" /\ perfPtr'[n] \in touched'
      BY <1>1 DEF EntriesInv
    <3>1. \A id : Registered(n, id) => Registered(n, id)'
      BY <1>1, <2>1, <2>3 DEF Registered
    <3>2. stage[n] \in {"destroyed", "exited"} => stage'[n] = stage[n]
      BY <1>0, <1>4
    <3>3. EntriesInv
      BY <1>0 DEF PagesInv
    <3> QED BY <1>1, <1>2, <1>3, <3>1, <3>2, <3>3 DEF EntriesInv
  <2>5. OneIdPerPage'
    BY <1>0, <1>1, <2>2 DEF PagesInv, OneIdPerPage
  <2>6. NoneForgotten'
    <3>1. NoneForgotten
      BY <1>0 DEF PagesInv
    <3> QED BY <1>1, <2>1, <3>1 DEF NoneForgotten
  <2>7. NumberedById'
    <3>1. \A e \in Clients : OnePagePerId(e)' <=> OnePagePerId(e)
      BY <1>1, <2>2 DEF OnePagePerId
    <3>2. NumberedById
      BY <1>0 DEF PagesInv
    <3> QED BY <1>1, <2>1, <3>1, <3>2 DEF NumberedById
  <2> QED BY <2>4, <2>5, <2>6, <2>7 DEF PagesInv
<1> QED BY <1>5, <1>6, <1>7, <1>8, <1>9 DEF MInv

-----------------------------------------------------------------------------
(* A page for an id becomes known to m.                                    *)
LEMMA RegisterInv ==
    ASSUME MTypeOK, PagesInv, NEW m \in Managers, NEW id \in MmapIds \ DOMAIN ucPtr[m],
           pc[ProcessOf[m]] # "exited", Getting(ProcessOf[m]), ~ Getting(ProcessOf[m])',
           UNCHANGED <<mapped, nextPage, perfPtr>>, Others(ProcessOf[m]),
           nextPage[ProcessOf[m]]["uc"] > 0, id < nextPage[ProcessOf[m]]["uc"],
           PageOf(ProcessOf[m], "uc", nextPage[ProcessOf[m]]["uc"] - 1) \in mapped[ProcessOf[m]],
           touched' = touched \cup {PageOf(ProcessOf[m], "uc", nextPage[ProcessOf[m]]["uc"] - 1)},
           ucPtr' = [ucPtr EXCEPT ![m] =
              Put(ucPtr[m], id, PageOf(ProcessOf[m], "uc", nextPage[ProcessOf[m]]["uc"] - 1))],
           ucPaddr' = [ucPaddr EXCEPT ![m] = Put(ucPaddr[m], id, PageOf(ProcessOf[m], "uc", id))],
           Alive(m), stage'[m] \in Waiting, \A n \in Managers \ {m} : stage'[n] = stage[n]
    PROVE  PagesInv'
<1> DEFINE c == ProcessOf[m]
           K == Known(c)
           p == PageOf(c, "uc", K)
<1>0. /\ c \in Clients /\ \A n \in Managers : ProcessOf[n] \in Clients
      /\ EntriesInv /\ OneIdPerPage /\ NoneForgotten /\ NumberedById
      /\ "destroyed" \notin Waiting \cup {"ready"} /\ "exited" \notin Waiting \cup {"ready"}
  BY ManagerFacts DEF PagesInv, Waiting
<1>1. /\ K \in Nat /\ K = nextPage[c]["uc"] - 1 /\ Known(c)' = K + 1
      /\ id \in 0 .. K
  <2>1. nextPage[c]["uc"] \in Nat /\ id \in Nat
    BY ManagerFacts, <1>0, ManagerAssumption
  <2>2. Known(c)' = nextPage[c]["uc"] - 0
    BY DEF Known
  <2>3. K = nextPage[c]["uc"] - 1
    BY DEF Known
  <2> QED BY <2>1, <2>2, <2>3
<1>2. /\ p \in mapped[c] /\ p \in Page /\ p # NoPage /\ touched' = touched \cup {p}
  BY <1>0, <1>1, ManagerFacts, PageAssumption
<1>3. /\ DOMAIN ucPtr'[m] = DOMAIN ucPtr[m] \cup {id} /\ ucPtr'[m][id] = p
      /\ \A j \in DOMAIN ucPtr[m] : ucPtr'[m][j] = ucPtr[m][j]
      /\ DOMAIN ucPaddr'[m] = DOMAIN ucPaddr[m] \cup {id} /\ ucPaddr'[m][id] = PageOf(c, "uc", id)
      /\ \A j \in DOMAIN ucPaddr[m] \ {id} : ucPaddr'[m][j] = ucPaddr[m][j]
      /\ \A n \in Managers \ {m} : ucPtr'[n] = ucPtr[n] /\ ucPaddr'[n] = ucPaddr[n]
  <2>1. ucPtr'[m] = Put(ucPtr[m], id, p) /\ ucPaddr'[m] = Put(ucPaddr[m], id, PageOf(c, "uc", id))
    BY <1>1 DEF MTypeOK
  <2>2. \A n \in Managers \ {m} : ucPtr'[n] = ucPtr[n] /\ ucPaddr'[n] = ucPaddr[n]
    BY DEF MTypeOK
  <2> DEFINE a == PageOf(c, "uc", id)
  <2>3. ucPtr'[m] = Put(ucPtr[m], id, p) /\ ucPaddr'[m] = Put(ucPaddr[m], id, a)
    BY <2>1
  <2> HIDE DEF p, a
  <2>4. /\ DOMAIN ucPtr'[m] = DOMAIN ucPtr[m] \cup {id} /\ ucPtr'[m][id] = p
        /\ \A j \in DOMAIN ucPtr[m] : ucPtr'[m][j] = ucPtr[m][j]
    BY <2>3 DEF Put
  <2>5. /\ DOMAIN ucPaddr'[m] = DOMAIN ucPaddr[m] \cup {id} /\ ucPaddr'[m][id] = a
        /\ \A j \in DOMAIN ucPaddr[m] \ {id} : ucPaddr'[m][j] = ucPaddr[m][j]
    BY <2>3 DEF Put
  <2> QED BY <2>2, <2>4, <2>5 DEF a
<1>4. \A n \in Managers : \A j : Has(n, j)' <=> Has(n, j) \/ (n = m /\ j = id)
  BY <1>2, <1>3 DEF Has
<1>5. \A n \in Managers : \A j : Has(n, j) => ucPtr'[n][j] = ucPtr[n][j] /\ ~ (n = m /\ j = id)
  BY <1>3 DEF Has
<1>6. \A e \in Clients : /\ e # c => Known(e)' = Known(e) /\ pc'[e] = pc[e]
                         /\ Known(e) \in Int /\ Known(e)' \in Int /\ Known(e)' >= Known(e)
  <2>1. \A e \in Clients \ {c} : Known(e)' = Known(e) /\ pc'[e] = pc[e]
    BY DEF Others, Known, Getting
  <2>2. \A e \in Clients : Known(e) \in Int
    BY ManagerFacts
  <2> QED BY <1>1, <2>1, <2>2
<1>7. \A n \in Managers : \A j : Has(n, j) => ucPtr[n][j] # p
  <2> SUFFICES ASSUME NEW n \in Managers, NEW j, Has(n, j), ucPtr[n][j] = p PROVE FALSE
    OBVIOUS
  <2>1. PICK k \in 0 .. Known(ProcessOf[n]) - 1 : ucPtr[n][j] = PageOf(ProcessOf[n], "uc", k)
    BY <1>0, HasFacts DEF Registered
  <2>2. ProcessOf[n] = c /\ k = K
    BY <2>1, PageFacts
  <2> QED BY <1>1, <2>1, <2>2
<1> HIDE DEF c, K, p
<1>8. EntriesInv'
  <2> SUFFICES ASSUME NEW n \in Managers
               PROVE  /\ \A j \in DOMAIN ucPtr'[n] :
                            \/ Registered(n, j)'
                            \/ j = 0 /\ ucPtr'[n][j] = NoPage /\ stage'[n] \in {"destroyed", "exited"}
                      /\ perfPtr[n] # NoPage => perfPtr[n].kind = "perf" /\ perfPtr[n] \in touched'
    BY DEF EntriesInv
  <2>1. ASSUME NEW j \in DOMAIN ucPtr[n], Registered(n, j) PROVE Registered(n, j)'
    <3>1. ucPtr'[n][j] = ucPtr[n][j] /\ (n = m => j # id)
      BY <1>3
    <3>2. j \in DOMAIN ucPaddr'[n] /\ ucPaddr'[n][j] = ucPaddr[n][j]
      BY <1>3, <2>1, <3>1 DEF Registered
    <3>3. 0 .. Known(ProcessOf[n]) - 1 \subseteq 0 .. Known(ProcessOf[n])' - 1
      BY <1>0, <1>6
    <3> QED BY <1>2, <2>1, <3>1, <3>2, <3>3 DEF Registered
  <2>2. Registered(m, id)'
    <3>1. id \in 0 .. Known(c)' - 1 /\ K \in 0 .. Known(c)' - 1
      BY <1>1
    <3> QED BY <1>2, <1>3, <3>1 DEF Registered, c, p
  <2>3. ASSUME NEW j \in DOMAIN ucPtr[n], ~ Registered(n, j)
        PROVE  j = 0 /\ ucPtr'[n][j] = NoPage /\ stage'[n] \in {"destroyed", "exited"}
    <3>1. j = 0 /\ ucPtr[n][j] = NoPage /\ stage[n] \in {"destroyed", "exited"}
      BY <1>0, <2>3 DEF EntriesInv
    <3>2. n # m
      BY <1>0, <3>1 DEF Alive
    <3> QED BY <1>3, <3>1, <3>2
  <2>4. perfPtr[n] # NoPage => perfPtr[n].kind = "perf" /\ perfPtr[n] \in touched'
    BY <1>0, <1>2 DEF EntriesInv
  <2>5. \A j \in DOMAIN ucPtr'[n] : j \in DOMAIN ucPtr[n] \/ (n = m /\ j = id)
    BY <1>3
  <2> QED BY <2>1, <2>2, <2>3, <2>4, <2>5
<1>9. OneIdPerPage'
  <2> SUFFICES ASSUME NEW n \in Managers, NEW o \in Managers, NEW i, NEW k,
                      Has(n, i)', Has(o, k)', ucPtr'[n][i] = ucPtr'[o][k]
               PROVE  i = k
    BY DEF OneIdPerPage
  <2>1. CASE Has(n, i) /\ Has(o, k)
    BY <1>0, <1>5, <2>1 DEF OneIdPerPage
  <2>2. CASE n = m /\ i = id /\ Has(o, k)
    BY <1>3, <1>5, <1>7, <2>2
  <2>3. CASE o = m /\ k = id /\ Has(n, i)
    BY <1>3, <1>5, <1>7, <2>3
  <2> QED BY <1>4, <2>1, <2>2, <2>3
<1>10. NoneForgotten'
  <2> SUFFICES ASSUME NEW e \in Clients, pc'[e] # "exited", NEW k \in 0 .. Known(e)' - 1
               PROVE  \E n \in Managers : ProcessOf[n] = e /\ \E j \in DOMAIN ucPtr'[n] :
                         ucPtr'[n][j] = PageOf(e, "uc", k)
    BY DEF NoneForgotten
  <2>1. CASE e = c /\ k = K
    BY <1>3, <2>1 DEF c, p
  <2>2. CASE ~ (e = c /\ k = K)
    <3>1. k \in 0 .. Known(e) - 1 /\ pc[e] # "exited"
      BY <1>1, <1>6, <2>2 DEF c, K
    <3>2. PICK n \in Managers : ProcessOf[n] = e /\ \E j \in DOMAIN ucPtr[n] : ucPtr[n][j] = PageOf(e, "uc", k)
      BY <1>0, <3>1 DEF NoneForgotten
    <3> QED BY <1>3, <3>2
  <2> QED BY <2>1, <2>2
<1>11. \A e \in Clients : OnePagePerId(e)' => OnePagePerId(e)
  BY <1>4, <1>5 DEF OnePagePerId
<1>12. NumberedById'
  <2> SUFFICES ASSUME NEW e \in Clients, pc'[e] # "exited", OnePagePerId(e)',
                      NEW n \in Managers, ProcessOf[n] = e,
                      NEW j \in DOMAIN ucPtr'[n], ucPtr'[n][j] # NoPage
               PROVE  ucPtr'[n][j] = PageOf(e, "uc", j)
    BY DEF NumberedById
  <2>1. pc[e] # "exited" /\ OnePagePerId(e)
    BY <1>6, <1>11 DEF c
  <2>2. CASE j \in DOMAIN ucPtr[n]
    BY <1>0, <1>3, <2>1, <2>2 DEF NumberedById
  <2>3. CASE n = m /\ j = id
    <3> SUFFICES K = id
      BY <1>3, <2>3 DEF c, p
    <3>1. SUFFICES ASSUME id # K PROVE FALSE
      OBVIOUS
    <3>2. id \in 0 .. K - 1 /\ e = c
      BY <1>1, <2>3, <3>1 DEF c
    <3>3. PICK o \in Managers : ProcessOf[o] = c /\ \E i \in DOMAIN ucPtr[o] : ucPtr[o][i] = PageOf(c, "uc", id)
      BY <1>0, <2>1, <3>2 DEF NoneForgotten, K
    <3>4. PICK i \in DOMAIN ucPtr[o] : ucPtr[o][i] = PageOf(c, "uc", id)
      BY <3>3
    <3>5. PageOf(c, "uc", id) \in Page
      <4>1. id \in 0 .. MaxPages
        BY <1>0, <1>1, ManagerFacts, LimitsAssumption DEF MTypeOK, LTypeOK, Kind
      <4> QED BY <1>0, <4>1, PageFacts DEF Kind
    <3>6. Has(o, i) /\ i = id
      <4>1. Has(o, i)
        BY <3>4, <3>5, PageAssumption DEF Has
      <4>2. ucPtr[o][i] = PageOf(c, "uc", i)
        BY <1>0, <2>1, <3>2, <3>3, <4>1 DEF NumberedById, Has
      <4> QED BY <3>4, <4>1, <4>2, PageFacts
    <3>7. ucPtr'[o][id] = ucPtr'[m][id]
      <4>1. Has(o, id)' /\ Has(m, id)'
        BY <1>4, <3>6
      <4> QED BY <3>2, <3>3, <4>1 DEF OnePagePerId, c
    <3>8. ucPtr[o][id] = p
      BY <1>3, <1>5, <3>6, <3>7
    <3> QED BY <1>7, <3>6, <3>8
  <2> QED BY <1>3, <2>2, <2>3
<1> QED BY <1>8, <1>9, <1>10, <1>12 DEF PagesInv

(* The step between the ioctl and the writes: the newest page of the       *)
(* process is registered with the address of the page its id numbers.      *)
LEMMA AddressedFacts ==
    ASSUME MInv, NEW m \in Managers, UCPageAddressed(m)
    PROVE  LET c == ProcessOf[m]
               id == local[m].id
               page == PageOf(c, "uc", id)
               p == PageOf(c, "uc", nextPage[c]["uc"] - 1)
           IN  /\ c \in Clients /\ stage[m] = "uc_paddr" /\ pc[c] = "returned" /\ verdict[c]
               /\ call[c].fn = "get_mmap_paddr" /\ Getting(c)
               /\ id \in MmapIds \ DOMAIN ucPtr[m] /\ nextPage[c]["uc"] > 0
               /\ local[m].ptr = p /\ p \in mapped[c] /\ out[c] = page /\ id < nextPage[c]["uc"]
               /\ page \in Page /\ p \in Page
               /\ ucPtr' = [ucPtr EXCEPT ![m] = Put(ucPtr[m], id, p)]
               /\ ucPaddr' = [ucPaddr EXCEPT ![m] = Put(ucPaddr[m], id, page)]
               /\ touched' = touched \cup {p} /\ UNCHANGED <<local, perfPtr, answer, unwatched>>
               /\ CallThen(m, "uc_watch", FunctionOf("uc_watch"), 0, WatchCommand(page))
               /\ ThreadInv' /\ AnswerInv' /\ Others(c)
               /\ pc'[c] = "open" /\ pc[c] # "exited"
               /\ call'[c] = [fn |-> "write_command_to_device", id |-> 0, command |-> WatchCommand(page)]
               /\ UNCHANGED <<mapped, nextPage>> /\ stage' = [stage EXCEPT ![m] = "uc_watch"]
               /\ stage'[m] = "uc_watch" /\ \A n \in Managers \ {m} : stage'[n] = stage[n]
<1> DEFINE c == ProcessOf[m]
           id == local[m].id
           page == PageOf(c, "uc", id)
           p == PageOf(c, "uc", nextPage[c]["uc"] - 1)
<1>0. /\ CallsInv /\ MTypeOK /\ ThreadInv /\ AnswerInv /\ LocalInv /\ PagesInv
      /\ c \in Clients /\ stage[m] = "uc_paddr" /\ pc[c] = "returned" /\ verdict[c]
      /\ "uc_paddr" \in Waiting /\ "uc_watch" \in Waiting
      /\ FunctionOf("uc_watch") = "write_command_to_device"
  BY ManagerFacts DEF MInv, UCPageAddressed, Returned, Waiting, FunctionOf
<1>1. /\ call[c].fn = "get_mmap_paddr" /\ Getting(c)
      /\ id \in MmapIds \ DOMAIN ucPtr[m] /\ nextPage[c]["uc"] > 0
      /\ local[m].ptr = p /\ p \in mapped[c]
      /\ out[c] = page /\ id < nextPage[c]["uc"]
  <2>1. call[c].fn = "get_mmap_paddr"
    BY <1>0 DEF ThreadInv, FunctionOf
  <2>2. LocalsOf(m)
    BY <1>0 DEF LocalInv
  <2> QED BY <1>0, <2>1, <2>2 DEF LocalsOf, AnswerInv, Getting
<1>2. page \in Page /\ p \in Page
  <2>1. id \in Nat /\ nextPage[c]["uc"] \in 0 .. MaxPages /\ MaxPages \in Nat
    BY <1>0, <1>1, ManagerAssumption, LimitsAssumption DEF MTypeOK, LTypeOK, Kind
  <2>2. id \in 0 .. MaxPages
    BY <1>1, <2>1
  <2> QED BY <1>0, <1>1, <2>2, PageFacts, ManagerFacts DEF Kind
<1>3. /\ ucPtr' = [ucPtr EXCEPT ![m] = Put(ucPtr[m], id, p)]
      /\ ucPaddr' = [ucPaddr EXCEPT ![m] = Put(ucPaddr[m], id, page)]
      /\ touched' = touched \cup {p} /\ UNCHANGED <<local, perfPtr, answer, unwatched>>
      /\ ucPaddr'[m][id] = page
      /\ CallThen(m, "uc_watch", FunctionOf("uc_watch"), 0, WatchCommand(page))
  <2>1. /\ ucPtr' = [ucPtr EXCEPT ![m] = Put(ucPtr[m], id, p)]
        /\ ucPaddr' = [ucPaddr EXCEPT ![m] = Put(ucPaddr[m], id, page)]
        /\ touched' = touched \cup {p} /\ UNCHANGED <<local, perfPtr, answer, unwatched>>
    BY <1>1 DEF UCPageAddressed, Touch, Out
  <2>2. ucPaddr'[m][id] = page
    <3>1. ucPaddr'[m] = Put(ucPaddr[m], id, page)
      BY <1>0, <2>1 DEF MTypeOK
    <3> HIDE DEF page, id
    <3> QED BY <3>1 DEF Put
  <2> QED BY <1>0, <2>1, <2>2 DEF UCPageAddressed
<1>4. /\ ThreadInv' /\ AnswerInv' /\ Others(c)
      /\ pc'[c] = "open" /\ pc[c] # "exited"
      /\ call'[c] = [fn |-> "write_command_to_device", id |-> 0, command |-> WatchCommand(page)]
      /\ UNCHANGED <<mapped, nextPage>> /\ stage' = [stage EXCEPT ![m] = "uc_watch"]
  <2>1. /\ ThreadInv' /\ AnswerInv' /\ Others(c)
        /\ pc'[c] = "open" /\ pc[c] # "exited"
        /\ call'[c] = [fn |-> FunctionOf("uc_watch"), id |-> 0, command |-> WatchCommand(page)]
        /\ UNCHANGED <<mapped, nextPage>> /\ stage' = [stage EXCEPT ![m] = "uc_watch"]
    <3> HIDE DEF page
    <3> QED BY <1>0, <1>3, CallThenFacts
  <2> QED BY <1>0, <2>1
<1>5. stage'[m] = "uc_watch" /\ \A n \in Managers \ {m} : stage'[n] = stage[n]
  BY <1>0, <1>4 DEF MTypeOK
<1> QED BY <1>0, <1>1, <1>2, <1>3, <1>4, <1>5

LEMMA UCPageAddressedInv ==
    ASSUME MInv, NEW m \in Managers, UCPageAddressed(m)
    PROVE  MInv'
<1> DEFINE c == ProcessOf[m]
           id == local[m].id
           page == PageOf(c, "uc", id)
           p == PageOf(c, "uc", nextPage[c]["uc"] - 1)
<1>0. /\ CallsInv /\ MTypeOK /\ ThreadInv /\ AnswerInv /\ LocalInv /\ PagesInv
      /\ "uc_paddr" \in Waiting /\ "uc_watch" \in Waiting
      /\ FunctionOf("uc_watch") = "write_command_to_device"
  BY DEF MInv, Waiting, FunctionOf
<1>1. /\ c \in Clients /\ stage[m] = "uc_paddr" /\ pc[c] = "returned" /\ verdict[c]
      /\ call[c].fn = "get_mmap_paddr" /\ Getting(c)
      /\ id \in MmapIds \ DOMAIN ucPtr[m] /\ nextPage[c]["uc"] > 0
      /\ local[m].ptr = p /\ p \in mapped[c] /\ out[c] = page /\ id < nextPage[c]["uc"]
      /\ page \in Page /\ p \in Page
      /\ ucPtr' = [ucPtr EXCEPT ![m] = Put(ucPtr[m], id, p)]
      /\ ucPaddr' = [ucPaddr EXCEPT ![m] = Put(ucPaddr[m], id, page)]
      /\ touched' = touched \cup {p} /\ UNCHANGED <<local, perfPtr, answer, unwatched>>
      /\ CallThen(m, "uc_watch", FunctionOf("uc_watch"), 0, WatchCommand(page))
      /\ ThreadInv' /\ AnswerInv' /\ Others(c)
      /\ pc'[c] = "open" /\ pc[c] # "exited"
      /\ call'[c] = [fn |-> "write_command_to_device", id |-> 0, command |-> WatchCommand(page)]
      /\ UNCHANGED <<mapped, nextPage>> /\ stage' = [stage EXCEPT ![m] = "uc_watch"]
      /\ stage'[m] = "uc_watch" /\ \A n \in Managers \ {m} : stage'[n] = stage[n]
  BY AddressedFacts
<1>6. CallsInv'
  <2>1. WatchCommand(page) \in Command /\ "write_command_to_device" \in Function
    BY <1>1, ManagerAssumption DEF Function
  <2> QED BY <1>0, <1>1, <2>1, EnterCallsInv DEF CallThen
<1>7. /\ ucPtr'[m] = Put(ucPtr[m], id, p) /\ ucPaddr'[m] = Put(ucPaddr[m], id, page)
      /\ \A n \in Managers \ {m} : ucPtr'[n] = ucPtr[n] /\ ucPaddr'[n] = ucPaddr[n]
      /\ DOMAIN ucPtr' = Managers /\ DOMAIN ucPaddr' = Managers
  BY <1>0, <1>1 DEF MTypeOK
<1>8. /\ ucPtr'[m] \in [DOMAIN ucPtr'[m] -> Page \cup {NoPage}]
      /\ ucPaddr'[m] \in [DOMAIN ucPaddr'[m] -> Page]
      /\ DOMAIN ucPtr'[m] = DOMAIN ucPtr[m] \cup {id} /\ ucPtr'[m][id] = p
  <2> HIDE DEF p, page, id
  <2>1. /\ ucPtr[m] \in [DOMAIN ucPtr[m] -> Page \cup {NoPage}]
        /\ ucPaddr[m] \in [DOMAIN ucPaddr[m] -> Page]
    BY <1>0 DEF MTypeOK
  <2> QED BY <1>1, <1>7, <2>1 DEF Put
<1>9. MTypeOK'
  <2>1. id \in Nat
    BY <1>1, ManagerAssumption
  <2>2. \A n \in Managers :
          /\ ucPtr'[n] \in [DOMAIN ucPtr'[n] -> Page \cup {NoPage}]
          /\ ucPaddr'[n] \in [DOMAIN ucPaddr'[n] -> Page]
          /\ DOMAIN ucPtr'[n] \subseteq Nat
    BY <1>0, <1>7, <1>8, <2>1 DEF MTypeOK
  <2> QED BY <1>0, <1>1, <1>6, <1>7, <2>2 DEF MTypeOK, CallsInv
<1>10. PagesInv'
  <2>1. Alive(m) /\ ~ Getting(c)'
    BY <1>0, <1>1 DEF Alive, Getting
  <2>2. \A n \in Managers \ {m} : stage'[n] = stage[n]
    BY <1>1
  <2> QED BY <1>0, <1>1, <2>1, <2>2, RegisterInv
<1>11. LocalInv'
  <2>1. \A n \in Managers \ {m} : ProcessOf[n] = c => stage'[n] \notin Waiting
    BY <1>0, <1>1 DEF ThreadInv
  <2>2. LocalsOf(m)'
    <3>1. Has(m, id)'
      BY <1>1, <1>8, PageAssumption DEF Has
    <3> QED BY <1>1, <3>1 DEF LocalsOf
  <2> QED BY <1>0, <1>1, <1>7, <2>1, <2>2, LocalsKept
<1> QED BY <1>1, <1>6, <1>9, <1>10, <1>11 DEF MInv

-----------------------------------------------------------------------------
(* A copy knows what its original knows.                                   *)
LEMMA CopyInv ==
    ASSUME MInv, NEW m \in Managers, NEW n \in Managers, Copy(m, n)
    PROVE  MInv'
<1> DEFINE c == ProcessOf[n]
           Origin(o) == IF o = n THEN m ELSE o
<1>0. /\ CallsInv /\ MTypeOK /\ ThreadInv /\ AnswerInv /\ LocalInv /\ PagesInv
      /\ c \in Clients /\ stage[n] = "none" /\ stage[m] = "ready"
      /\ pc[c] = "idle" /\ ProcessOf[m] = c /\ m # n
      /\ "ready" \notin Waiting
  BY ManagerFacts DEF MInv, Copy, Ready, Waiting
<1>1. /\ stage' = [stage EXCEPT ![n] = "ready"]
      /\ ucPtr' = [ucPtr EXCEPT ![n] = ucPtr[m]]
      /\ ucPaddr' = [ucPaddr EXCEPT ![n] = ucPaddr[m]]
      /\ perfPtr' = [perfPtr EXCEPT ![n] = perfPtr[m]]
      /\ UNCHANGED <<lvars, local, answer, touched, unwatched>>
  BY DEF Copy
<1>2. CallsInv' /\ AnswerInv'
  BY <1>0, <1>1 DEF lvars, CallsInv, LTypeOK, FdsAccounted, RightCall, AnswerInv
<1>3. /\ stage'[n] = "ready" /\ \A o \in Managers \ {n} : stage'[o] = stage[o]
      /\ \A o \in Managers \ {n} : ucPtr'[o] = ucPtr[o] /\ perfPtr'[o] = perfPtr[o]
  BY <1>0, <1>1 DEF MTypeOK
<1>4. \A o \in Managers : /\ Origin(o) \in Managers /\ ProcessOf[Origin(o)] = ProcessOf[o]
                          /\ ucPtr'[o] = ucPtr[Origin(o)] /\ ucPaddr'[o] = ucPaddr[Origin(o)]
                          /\ perfPtr'[o] = perfPtr[Origin(o)]
  BY <1>0, <1>1 DEF MTypeOK
<1>5. ThreadInv'
  BY <1>0, <1>1, <1>3 DEF ThreadInv, lvars
<1>6. MTypeOK'
  <2>1. \A o \in Managers :
          /\ ucPtr'[o] \in [DOMAIN ucPtr'[o] -> Page \cup {NoPage}]
          /\ ucPaddr'[o] \in [DOMAIN ucPaddr'[o] -> Page]
          /\ DOMAIN ucPtr'[o] \subseteq Nat
    BY <1>0, <1>4 DEF MTypeOK
  <2> QED BY <1>0, <1>1, <1>2, <2>1 DEF MTypeOK, CallsInv
<1>7. Others(c) /\ UNCHANGED <<mapped, nextPage, pc>> /\ \A e : Known(e)' = Known(e)
  BY <1>1, <1>3 DEF Others, Known, Getting, lvars
<1>8. LocalInv'
  <2>1. \A o \in Managers \ {n} : ProcessOf[o] = c => stage'[o] \notin Waiting
    BY <1>0, <1>3 DEF ThreadInv
  <2>2. LocalsOf(n)'
    BY <1>3 DEF LocalsOf
  <2> HIDE DEF Origin
  <2> QED BY <1>0, <1>1, <1>3, <1>7, <2>1, <2>2, LocalsKept
<1>9. PagesInv'
  <2>1. \A o \in Managers : \A j : Has(o, j)' <=> Has(Origin(o), j)
    BY <1>4 DEF Has
  <2>2. DOMAIN ucPtr[n] = {}
    BY <1>0 DEF LocalInv, LocalsOf
  <2>3. /\ EntriesInv /\ OneIdPerPage /\ NoneForgotten /\ NumberedById
    BY <1>0 DEF PagesInv
  <2>4. \A o \in Managers : /\ stage[Origin(o)] \in {"destroyed", "exited"} => stage'[o] = stage[Origin(o)]
                            /\ Alive(o)' => Alive(Origin(o))
    BY <1>0, <1>3 DEF Alive
  <2>5. EntriesInv'
    <3> SUFFICES ASSUME NEW o \in Managers
                 PROVE  /\ \A id \in DOMAIN ucPtr'[o] :
                              \/ Registered(o, id)'
                              \/ id = 0 /\ ucPtr'[o][id] = NoPage /\ stage'[o] \in {"destroyed", "exited"}
                        /\ perfPtr'[o] # NoPage => perfPtr'[o].kind = "perf" /\ perfPtr'[o] \in touched
      BY <1>1 DEF EntriesInv
    <3> HIDE DEF Origin
    <3>1. \A id : Registered(Origin(o), id) => Registered(o, id)'
      BY <1>1, <1>4, <1>7 DEF Registered
    <3> QED BY <1>4, <2>3, <2>4, <3>1 DEF EntriesInv
  <2>6. OneIdPerPage'
    <3> HIDE DEF Origin
    <3> QED BY <1>4, <2>1, <2>3 DEF OneIdPerPage
  <2>7. NoneForgotten'
    BY <1>3, <1>7, <2>2, <2>3 DEF NoneForgotten
  <2>8. NumberedById'
    <3>1. \A e \in Clients : OnePagePerId(e)' => OnePagePerId(e)
      <4>1. \A o \in Managers : \A j : Has(o, j) => o # n /\ Has(o, j)' /\ ucPtr'[o][j] = ucPtr[o][j]
        BY <1>3, <2>2 DEF Has
      <4> QED BY <4>1 DEF OnePagePerId
    <3> HIDE DEF Origin
    <3> QED BY <1>4, <1>7, <2>3, <3>1 DEF NumberedById
  <2> QED BY <2>5, <2>6, <2>7, <2>8 DEF PagesInv
<1> QED BY <1>2, <1>5, <1>6, <1>8, <1>9 DEF MInv

-----------------------------------------------------------------------------
(* The destructor takes a page away, and keeps the maps.                   *)
LEMMA DestroyInv ==
    ASSUME MInv, NEW m \in Managers, Destroy(m)
    PROVE  MInv'
<1> DEFINE c == ProcessOf[m]
<1>0. /\ CallsInv /\ MTypeOK /\ ThreadInv /\ AnswerInv /\ LocalInv /\ PagesInv
      /\ c \in Clients /\ stage[m] = "ready" /\ pc[c] = "idle"
      /\ "destroyed" \notin Waiting /\ Alive(m)
  BY ManagerFacts DEF MInv, Destroy, Ready, Waiting, Alive
<1>1. /\ stage' = [stage EXCEPT ![m] = "destroyed"]
      /\ UNCHANGED <<pc, call, verdict, out, fds, at, nextPage, leaked, driver>>
      /\ UNCHANGED <<local, answer, ucPaddr, perfPtr, touched, unwatched>>
  BY DEF Destroy
<1>w. PICK w : w = ucPtr'[m][0]
  OBVIOUS
<1>2. mapped' = [mapped EXCEPT ![c] = Munmapped(c, w)] /\ Munmapped(c, w) \subseteq mapped[c]
  BY <1>w DEF Destroy, Munmapped
<1>3. /\ DOMAIN ucPtr'[m] = DOMAIN ucPtr[m] \cup {0}
      /\ \A j \in DOMAIN ucPtr[m] : ucPtr'[m][j] = ucPtr[m][j]
      /\ 0 \notin DOMAIN ucPtr[m] => w = NoPage
      /\ \A n \in Managers \ {m} : ucPtr'[n] = ucPtr[n]
      /\ DOMAIN ucPtr' = Managers
      /\ ucPtr'[m] \in [DOMAIN ucPtr'[m] -> Page \cup {NoPage}]
  <2>1. CASE Cached(m, 0)
    BY <1>0, <1>w, <2>1 DEF Destroy, Cached, MTypeOK
  <2>2. CASE ~ Cached(m, 0)
    <3>1. /\ ucPtr' = [ucPtr EXCEPT ![m] = Put(ucPtr[m], 0, NoPage)]
      BY <2>2 DEF Destroy
    <3>2. /\ ucPtr'[m] = Put(ucPtr[m], 0, NoPage) /\ DOMAIN ucPtr' = Managers
          /\ \A n \in Managers \ {m} : ucPtr'[n] = ucPtr[n]
          /\ ucPtr[m] \in [DOMAIN ucPtr[m] -> Page \cup {NoPage}]
      BY <1>0, <3>1 DEF MTypeOK
    <3> QED BY <1>w, <2>2, <3>2 DEF Put, Cached
  <2> QED BY <2>1, <2>2
<1>4. \A n \in Managers : \A j : /\ Has(n, j)' <=> Has(n, j)
                                 /\ Has(n, j) => ucPtr'[n][j] = ucPtr[n][j]
  <2>1. \A j : Has(m, j)' <=> Has(m, j)
    BY <1>w, <1>3 DEF Has
  <2>2. \A n \in Managers \ {m} : \A j : Has(n, j)' <=> Has(n, j)
    BY <1>3 DEF Has
  <2> QED BY <1>3, <2>1, <2>2 DEF Has
<1>5. /\ mapped' \in [Clients -> SUBSET Page]
      /\ \A e \in Clients : /\ mapped'[e] \subseteq mapped[e]
                            /\ e # c => mapped'[e] = mapped[e]
      /\ mapped'[c] = Munmapped(c, w)
  BY <1>0, <1>2 DEF MTypeOK, LTypeOK
<1>6. stage'[m] = "destroyed" /\ \A n \in Managers \ {m} : stage'[n] = stage[n]
  BY <1>0, <1>1 DEF MTypeOK
<1>7. CallsInv'
  BY <1>0, <1>1, <1>5 DEF CallsInv, LTypeOK, FdsAccounted, RightCall, driver
<1>8. AnswerInv'
  BY <1>0, <1>1, <1>5 DEF AnswerInv
<1>9. ThreadInv'
  BY <1>0, <1>1, <1>6 DEF ThreadInv
<1>10. MTypeOK'
  <2>1. \A n \in Managers :
          /\ ucPtr'[n] \in [DOMAIN ucPtr'[n] -> Page \cup {NoPage}]
          /\ DOMAIN ucPtr'[n] \subseteq Nat
    BY <1>0, <1>3 DEF MTypeOK
  <2> QED BY <1>0, <1>1, <1>3, <1>7, <2>1 DEF MTypeOK, CallsInv
<1>11. LocalInv'
  <2>1. \A n \in Managers \ {m} : ProcessOf[n] = c => stage'[n] \notin Waiting
    BY <1>0, <1>6 DEF ThreadInv
  <2>2. LocalsOf(m)'
    BY <1>6 DEF LocalsOf
  <2>3. Others(c)
    BY <1>1, <1>5, <1>6 DEF Others
  <2> QED BY <1>0, <1>1, <1>3, <1>6, <2>1, <2>2, <2>3, LocalsKept
<1>12. PagesInv'
  <2>1. \A e : Known(e)' = Known(e)
    BY <1>1 DEF Known, Getting
  <2>2. /\ EntriesInv /\ OneIdPerPage /\ NoneForgotten /\ NumberedById
    BY <1>0 DEF PagesInv
  <2>3. EntriesInv'
    <3> SUFFICES ASSUME NEW n \in Managers
                 PROVE  /\ \A id \in DOMAIN ucPtr'[n] :
                              \/ Registered(n, id)'
                              \/ id = 0 /\ ucPtr'[n][id] = NoPage /\ stage'[n] \in {"destroyed", "exited"}
                        /\ perfPtr[n] # NoPage => perfPtr[n].kind = "perf" /\ perfPtr[n] \in touched
      BY <1>1 DEF EntriesInv
    <3>1. ASSUME NEW id \in DOMAIN ucPtr[n], Registered(n, id) PROVE Registered(n, id)'
      <4>1. ucPtr'[n][id] = ucPtr[n][id]
        BY <1>3
      <4> QED BY <1>1, <2>1, <3>1, <4>1 DEF Registered
    <3>2. ASSUME NEW id \in DOMAIN ucPtr[n], ~ Registered(n, id)
          PROVE  id = 0 /\ ucPtr'[n][id] = NoPage /\ stage'[n] \in {"destroyed", "exited"}
      BY <1>3, <1>6, <2>2, <3>2 DEF EntriesInv
    <3>3. ASSUME NEW id \in DOMAIN ucPtr'[n], id \notin DOMAIN ucPtr[n]
          PROVE  id = 0 /\ ucPtr'[n][id] = NoPage /\ stage'[n] \in {"destroyed", "exited"}
      BY <1>w, <1>3, <1>6, <3>3
    <3> QED BY <2>2, <3>1, <3>2, <3>3 DEF EntriesInv
  <2>4. OneIdPerPage'
    BY <1>4, <2>2 DEF OneIdPerPage
  <2>5. NoneForgotten'
    BY <1>1, <1>3, <2>1, <2>2 DEF NoneForgotten
  <2>6. NumberedById'
    <3>1. \A e \in Clients : OnePagePerId(e)' => OnePagePerId(e)
      BY <1>4 DEF OnePagePerId
    <3>2. \A n \in Managers : \A j \in DOMAIN ucPtr'[n] : ucPtr'[n][j] # NoPage =>
             j \in DOMAIN ucPtr[n] /\ ucPtr[n][j] = ucPtr'[n][j]
      BY <1>w, <1>3
    <3> QED BY <1>1, <2>2, <3>1, <3>2 DEF NumberedById
  <2> QED BY <2>3, <2>4, <2>5, <2>6 DEF PagesInv
<1> QED BY <1>7, <1>8, <1>9, <1>10, <1>11, <1>12 DEF MInv

-----------------------------------------------------------------------------
LEMMA NextMInv == MInv /\ [MNext]_vars => MInv'
<1> SUFFICES ASSUME MInv, [MNext]_vars PROVE MInv'
  OBVIOUS
<1>1. ASSUME NEW m \in Managers, Progress(m) PROVE MInv'
  BY <1>1, LowLevelStepInv, UCPageAllocatedInv, UCPageAddressedInv, ReturnsInv, FailsInv,
     PerfPageReadyInv DEF Progress
<1>2. ASSUME NEW m \in Managers, NEW n \in Managers, Copy(m, n) PROVE MInv'
  BY <1>2, CopyInv
<1>3. ASSUME NEW m \in Managers, NEW id \in MmapIds, GetCachedUCPage(m, id) \/ GetUCPage(m, id)
      PROVE  MInv'
  BY <1>3, CachedPagesInv, GetUCPageInv
<1>4. ASSUME NEW m \in Managers,
             \/ GetCachedPerfPage(m) \/ GetPerfPage(m) \/ GetDevicePrefetcherSpecs(m)
             \/ \E j \in JobDescriptors : SendJob(m, j)
      PROVE  MInv'
  BY <1>4, CachedPagesInv, OneCallsInv
<1>5. ASSUME NEW m \in Managers, Construct(m) \/ Destroy(m) PROVE MInv'
  BY <1>5, ConstructInv, DestroyInv
<1>6. CASE UNCHANGED vars
  <2>1. UNCHANGED <<lvars, stage, local, memory, answer, unwatched>>
    BY <1>6 DEF vars, mvars, memory
  <2>2. CallsInv' /\ MTypeOK'
    BY <2>1 DEF lvars, memory, MInv, CallsInv, LTypeOK, FdsAccounted, RightCall, MTypeOK
  <2>3. ThreadInv' /\ AnswerInv' /\ LocalInv'
    BY <2>1 DEF lvars, memory, MInv, ThreadInv, AnswerInv, LocalInv, LocalsOf, Has
  <2>4. PagesInv'
    <3>1. \A c \in Clients : Known(c)' = Known(c) /\ Known(c) \in Int
      BY <2>1, ManagerFacts DEF MInv, lvars, Known, Getting
    <3>2. MTypeOK /\ LocalInv /\ PagesInv
      BY DEF MInv
    <3> QED BY <2>1, <2>2, <3>1, <3>2, RegistryKept DEF lvars
  <2> QED BY <2>2, <2>3, <2>4 DEF MInv
<1> QED BY <1>1, <1>2, <1>3, <1>4, <1>5, <1>6 DEF MNext

(* Whatever the processes do, the managers' maps, the calls in progress    *)
(* and the pages mapped stay related as MInv says.                         *)
THEOREM ManagerInvariant == MSpec => []MInv
BY InitMInv, NextMInv, PTL DEF MSpec

(* The values of the manager objects, and of the calls they make, are      *)
(* those of their types (manager.h:14-18).                                 *)
THEOREM ManagerTypeCorrect == MSpec => []MTypeOK
<1>1. MInv => MTypeOK
  BY DEF MInv
<1> QED BY <1>1, ManagerInvariant, PTL

-----------------------------------------------------------------------------
(* What munmap, and the kernel's using freed addresses again, make of the  *)
(* pages of one process.                                                   *)

(* Its pages lie at addresses of its own, and those mapped apart.          *)
PlacesOf(c) ==
    /\ mapped[c] \subseteq Given(c)
    /\ \A p \in Given(c) : at[p] \in Given(c)
    /\ \A p, q \in mapped[c] : at[p] = at[q] => p = q

(* The destroyed managers whose page of id 0 lay where p does.             *)
Gone(c, p) ==
    {d \in Managers : /\ ProcessOf[d] = c /\ stage[d] = "destroyed" /\ Has(d, 0)
                      /\ at[ucPtr[d][0]] = at[p]}

(* A page is taken away by the destructor of a manager that had it for id  *)
(* 0, or by a second destructor at its address.                            *)
UnmappedOf(c) ==
    \A p \in Given(c) \ mapped[c] :
        \/ \E d \in Gone(c, p) : ucPtr[d][0] = p
        \/ \E d \in Gone(c, p) : \E e \in Gone(c, p) : d # e

(* A destructor takes its page away, and the page does not come back.      *)
DestroyedOf(c) ==
    \A d \in Managers : ProcessOf[d] = c /\ stage[d] = "destroyed" /\ Has(d, 0) =>
        ucPtr[d][0] \notin mapped[c]

PerfOf(c) ==
    \A m \in Managers : ProcessOf[m] = c /\ perfPtr[m] # NoPage => perfPtr[m] \in Given(c)

AddressesOf(c) == PlacesOf(c) /\ UnmappedOf(c) /\ DestroyedOf(c) /\ PerfOf(c)

AddressInv == \A c \in Clients : pc[c] # "exited" => AddressesOf(c)

(* A page in a map has been given by the kernel.                           *)
LEMMA EntryGiven ==
    ASSUME MTypeOK, EntriesInv, NEW m \in Managers, NEW id, Has(m, id)
    PROVE  ucPtr[m][id] \in Given(ProcessOf[m])
<1> DEFINE c == ProcessOf[m]
<1>1. Registered(m, id) /\ c \in Clients /\ nextPage[c]["uc"] \in Nat
  BY HasFacts, ManagerFacts
<1>2. PICK k \in 0 .. Known(c) - 1 : ucPtr[m][id] = PageOf(c, "uc", k)
  BY <1>1 DEF Registered
<1>3. k < nextPage[c]["uc"]
  BY <1>1 DEF Known
<1>4. ucPtr[m][id] \in Page
  <2>1. ucPtr[m] \in [DOMAIN ucPtr[m] -> Page \cup {NoPage}]
    BY DEF MTypeOK
  <2> QED BY <2>1 DEF Has
<1> QED BY <1>2, <1>3, <1>4, PageFacts DEF Given

(* The destroyed managers of process c, and their maps, are as before.     *)
DestroyedKept(c) ==
    \A d \in Managers : ProcessOf[d] = c =>
        /\ stage'[d] = "destroyed" <=> stage[d] = "destroyed"
        /\ stage[d] = "destroyed" => ucPtr'[d] = ucPtr[d]

(* Then they account for the pages that were gone before.                  *)
LEMMA GoneKept ==
    ASSUME MTypeOK, EntriesInv, NEW c \in Clients, DestroyedKept(c),
           \A p \in Given(c) : at'[p] = at[p]
    PROVE  \A p \in Given(c) : Gone(c, p)' = Gone(c, p)
<1>1. ASSUME NEW d \in Managers, ProcessOf[d] = c, stage[d] = "destroyed"
      PROVE  /\ Has(d, 0)' <=> Has(d, 0)
             /\ Has(d, 0) => ucPtr'[d][0] = ucPtr[d][0] /\ ucPtr[d][0] \in Given(c)
  <2>1. ucPtr'[d] = ucPtr[d]
    BY <1>1 DEF DestroyedKept
  <2> QED BY <1>1, <2>1, EntryGiven DEF Has
<1>2. ASSUME NEW p \in Given(c), NEW d \in Managers, ProcessOf[d] = c
      PROVE  d \in Gone(c, p)' <=> d \in Gone(c, p)
  BY <1>1, <1>2 DEF Gone, DestroyedKept
<1>3. \A p \in Given(c) : \A d \in Gone(c, p) \cup Gone(c, p)' : d \in Managers /\ ProcessOf[d] = c
  BY DEF Gone
<1> QED BY <1>2, <1>3

(* A step that maps and unmaps nothing, of this process or of another.     *)
LEMMA AddressesKept ==
    ASSUME MTypeOK, EntriesInv, NEW c \in Clients, AddressesOf(c), DestroyedKept(c), PerfOf(c)',
           mapped'[c] = mapped[c], nextPage'[c] = nextPage[c],
           \A p \in Given(c) : at'[p] = at[p]
    PROVE  AddressesOf(c)'
<1>1. Given(c)' = Given(c)
  BY DEF Given
<1>2. PlacesOf(c)'
  BY <1>1 DEF AddressesOf, PlacesOf
<1>3. UnmappedOf(c)'
  <2> SUFFICES ASSUME NEW p \in Given(c) \ mapped[c]
               PROVE  \/ \E d \in Gone(c, p)' : ucPtr'[d][0] = p
                      \/ \E d \in Gone(c, p)' : \E e \in Gone(c, p)' : d # e
    BY <1>1 DEF UnmappedOf
  <2>1. Gone(c, p)' = Gone(c, p)
    BY GoneKept
  <2>2. \A d \in Gone(c, p) : ucPtr'[d] = ucPtr[d]
    BY DEF Gone, DestroyedKept
  <2> QED BY <2>1, <2>2 DEF AddressesOf, UnmappedOf
<1>4. DestroyedOf(c)'
  BY DEF AddressesOf, DestroyedOf, DestroyedKept, Has
<1> QED BY <1>2, <1>3, <1>4 DEF AddressesOf

(* mmap puts the new page where none is mapped.                            *)
LEMMA MmapAddresses ==
    ASSUME MTypeOK, EntriesInv, NEW c \in Clients, AddressesOf(c), DestroyedKept(c), perfPtr' = perfPtr,
           nextPage' = [nextPage EXCEPT ![c][KindOf(call[c].fn)] = nextPage[c][KindOf(call[c].fn)] + 1],
           mapped' = [mapped EXCEPT ![c] = mapped[c] \cup {NewPage(c)}],
           NEW a \in Room(c, NewPage(c)), at' = [at EXCEPT ![NewPage(c)] = a],
           NewPage(c) \in Page
    PROVE  /\ AddressesOf(c)'
           /\ \A e \in Clients \ {c} : \A p \in Given(e) : at'[p] = at[p]
<1> DEFINE k == KindOf(call[c].fn)
           n == nextPage[c][k]
           page == NewPage(c)
<1>0. /\ mapped \in [Clients -> SUBSET Page] /\ at \in [Page -> Page]
      /\ nextPage \in [Clients -> [Kind -> 0 .. MaxPages]]
      /\ k \in Kind /\ n \in Nat /\ \A j \in Kind : nextPage[c][j] \in Nat
  <2>1. nextPage[c] \in [Kind -> 0 .. MaxPages] /\ 0 .. MaxPages \subseteq Nat
    BY ManagerFacts, LimitsAssumption
  <2>2. k \in Kind
    BY DEF Kind, KindOf
  <2> QED BY <2>1, <2>2 DEF MTypeOK, LTypeOK
<1>1. page.owner = c /\ page.kind = k /\ page.number = n
  BY DEF NewPage
<1>2. page \notin Given(c)
  BY <1>0, <1>1 DEF Given
<1>3. nextPage'[c][k] = n + 1 /\ \A j \in Kind \ {k} : nextPage'[c][j] = nextPage[c][j]
  BY <1>0
<1>4. Given(c)' = Given(c) \cup {page}
  <2>1. ASSUME NEW p \in Page, p.owner = c
        PROVE  p.number < nextPage'[c][p.kind] <=> p.number < nextPage[c][p.kind] \/ p = page
    <3>1. p = PageOf(c, p.kind, p.number) /\ p.kind \in Kind /\ p.number \in 0 .. MaxPages
      BY <2>1 DEF Page, PageOf
    <3>2. page = PageOf(c, k, n)
      BY DEF NewPage, PageOf
    <3>3. p = page <=> p.kind = k /\ p.number = n
      BY <1>1, <3>1, <3>2
    <3>4. p.number \in Nat
      BY <3>1, LimitsAssumption
    <3> HIDE DEF k, n, page
    <3> QED BY <1>0, <1>3, <3>1, <3>3, <3>4
  <2> QED BY <1>1, <2>1 DEF Given
<1>5. at'[page] = a /\ \A p \in Page \ {page} : at'[p] = at[p]
  BY <1>0
<1>6. \A p \in Given(c) : at'[p] = at[p] /\ at[p] \in Given(c) /\ p # page
  BY <1>2, <1>5 DEF AddressesOf, PlacesOf, Given
<1>7. a \in Given(c) \cup {page} /\ \A p \in mapped[c] : at[p] # a
  <2>1. CASE a = page
    BY <1>2, <1>6, <2>1 DEF AddressesOf, PlacesOf
  <2>2. CASE a \in {at[p] : p \in Given(c)} \ {at[p] : p \in mapped[c]}
    BY <1>6, <2>2
  <2> QED BY <2>1, <2>2 DEF Room
<1>8. mapped'[c] = mapped[c] \cup {page}
  BY <1>0
<1> HIDE DEF page, k, n
<1>9. PlacesOf(c)'
  <2>1. mapped[c] \subseteq Given(c) /\ \A p, q \in mapped[c] : at[p] = at[q] => p = q
    BY DEF AddressesOf, PlacesOf
  <2>2. \A p \in mapped[c] : at'[p] = at[p]
    BY <1>6, <2>1
  <2>3. \A p, q \in mapped'[c] : at'[p] = at'[q] => p = q
    BY <1>5, <1>7, <1>8, <2>1, <2>2
  <2>4. mapped'[c] \subseteq Given(c)'
    BY <1>4, <1>8, <2>1
  <2>5. \A p \in Given(c)' : at'[p] \in Given(c)'
    BY <1>4, <1>5, <1>6, <1>7
  <2> QED BY <2>3, <2>4, <2>5 DEF PlacesOf
<1>10. UnmappedOf(c)'
  <2> SUFFICES ASSUME NEW p \in Given(c) \ mapped[c]
               PROVE  \/ \E d \in Gone(c, p)' : ucPtr'[d][0] = p
                      \/ \E d \in Gone(c, p)' : \E e \in Gone(c, p)' : d # e
    BY <1>4, <1>8 DEF UnmappedOf
  <2>1. Gone(c, p)' = Gone(c, p)
    BY <1>6, GoneKept
  <2>2. \A d \in Gone(c, p) : ucPtr'[d] = ucPtr[d]
    BY DEF Gone, DestroyedKept
  <2> QED BY <2>1, <2>2 DEF AddressesOf, UnmappedOf
<1>11. DestroyedOf(c)'
  <2> SUFFICES ASSUME NEW d \in Managers, ProcessOf[d] = c, stage'[d] = "destroyed", Has(d, 0)'
               PROVE  ucPtr'[d][0] \notin mapped'[c]
    BY DEF DestroyedOf
  <2>1. stage[d] = "destroyed" /\ ucPtr'[d] = ucPtr[d] /\ Has(d, 0)
    BY DEF DestroyedKept, Has
  <2>2. ucPtr[d][0] \in Given(c) /\ ucPtr[d][0] \notin mapped[c]
    BY <2>1, EntryGiven DEF AddressesOf, DestroyedOf
  <2> QED BY <1>6, <1>8, <2>1, <2>2
<1>12. PerfOf(c)'
  BY <1>4 DEF AddressesOf, PerfOf
<1>13. \A e \in Clients \ {c} : \A p \in Given(e) : at'[p] = at[p]
  BY <1>1, <1>5 DEF Given
<1> QED BY <1>9, <1>10, <1>11, <1>12, <1>13 DEF AddressesOf

(* The destructor of m takes away what lies at its address of id 0: its    *)
(* own page, or another if an earlier destructor has taken that.           *)
LEMMA DestroyAddresses ==
    ASSUME MInv, MInv', NEW m \in Managers, Destroy(m), AddressesOf(ProcessOf[m])
    PROVE  AddressesOf(ProcessOf[m])'
<1> DEFINE c == ProcessOf[m]
           w == ucPtr'[m][0]
<1>0. /\ MTypeOK /\ EntriesInv /\ c \in Clients /\ stage[m] = "ready" /\ "destroyed" \notin Waiting
      /\ DOMAIN ucPtr = Managers /\ mapped \in [Clients -> SUBSET Page]
      /\ stage \in [Managers -> Waiting \cup {"none", "ready", "exited", "destroyed"}]
  BY ManagerFacts DEF MInv, PagesInv, MTypeOK, LTypeOK, Destroy, Ready, Waiting
<1>1. /\ UNCHANGED <<at, nextPage, perfPtr>>
      /\ stage'[m] = "destroyed" /\ \A n \in Managers \ {m} : stage'[n] = stage[n]
      /\ mapped'[c] = Munmapped(c, w)
  BY <1>0 DEF Destroy
<1>2. Given(c)' = Given(c) /\ mapped'[c] \subseteq mapped[c]
  BY <1>1 DEF Given, Munmapped
<1>3. \A n \in Managers : ucPtr[n] # ucPtr'[n] => n = m
  BY <1>0 DEF Destroy
<1>4. Has(m, 0)' => Has(m, 0) /\ w = ucPtr[m][0]
  <2>1. CASE Cached(m, 0)
    BY <2>1 DEF Destroy, Has
  <2>2. CASE ~ Cached(m, 0)
    <3>1. ucPtr'[m] = Put(ucPtr[m], 0, NoPage)
      BY <1>0, <2>2 DEF Destroy
    <3>2. ucPtr'[m][0] = NoPage
      BY <3>1 DEF Put
    <3> QED BY <3>2 DEF Has
  <2> QED BY <2>1, <2>2
<1>5. w = NoPage \/ Has(m, 0)'
  <2>1. 0 \in DOMAIN ucPtr'[m]
    <3>1. CASE Cached(m, 0)
      BY <3>1 DEF Destroy, Cached
    <3>2. CASE ~ Cached(m, 0)
      BY <1>0, <3>2 DEF Destroy, Put
    <3> QED BY <3>1, <3>2
  <2> QED BY <2>1 DEF Has
<1>6. \A p : Gone(c, p) \subseteq Gone(c, p)' /\ m \notin Gone(c, p)
  BY <1>0, <1>1, <1>3 DEF Gone, Has
<1>7. ASSUME NEW p, Has(m, 0)', at[w] = at[p] PROVE m \in Gone(c, p)'
  BY <1>1, <1>7 DEF Gone
<1>8. PlacesOf(c)'
  BY <1>1, <1>2 DEF AddressesOf, PlacesOf
<1>9. UnmappedOf(c)'
  <2> SUFFICES ASSUME NEW p \in Given(c), p \notin mapped'[c]
               PROVE  \/ \E d \in Gone(c, p)' : ucPtr'[d][0] = p
                      \/ \E d \in Gone(c, p)' : \E e \in Gone(c, p)' : d # e
    BY <1>2 DEF UnmappedOf
  <2>1. CASE p \notin mapped[c]
    <3>1. \A d \in Gone(c, p) : d \in Gone(c, p)' /\ ucPtr'[d] = ucPtr[d]
      <4> SUFFICES ASSUME NEW d \in Gone(c, p) PROVE d \in Gone(c, p)' /\ ucPtr'[d] = ucPtr[d]
        OBVIOUS
      <4>1. d \in Managers /\ d # m
        BY <1>6 DEF Gone
      <4> QED BY <1>3, <1>6, <4>1
    <3>2. \/ \E d \in Gone(c, p) : ucPtr[d][0] = p
          \/ \E d \in Gone(c, p) : \E e \in Gone(c, p) : d # e
      BY <2>1 DEF AddressesOf, UnmappedOf
    <3> HIDE DEF c
    <3> QED BY <3>1, <3>2
  <2>2. CASE p \in mapped[c]
    <3>1. w # NoPage /\ at[w] = at[p]
      BY <1>1, <2>2 DEF Munmapped
    <3>2. Has(m, 0)' /\ Has(m, 0) /\ w = ucPtr[m][0] /\ w \in Given(c)
      BY <1>0, <1>4, <1>5, <3>1, EntryGiven
    <3>3. m \in Gone(c, p)'
      BY <1>7, <3>1, <3>2
    <3>4. CASE p = w
      BY <3>3, <3>4
    <3>5. CASE p # w
      <4>1. w \notin mapped[c]
        BY <2>2, <3>1, <3>5 DEF AddressesOf, PlacesOf
      <4>2. Gone(c, w) # {}
        BY <3>2, <4>1 DEF AddressesOf, UnmappedOf
      <4>3. Gone(c, w) = Gone(c, p)
        BY <3>1 DEF Gone
      <4> QED BY <1>6, <3>3, <4>2, <4>3
    <3> QED BY <3>4, <3>5
  <2> QED BY <2>1, <2>2
<1>10. DestroyedOf(c)'
  <2> SUFFICES ASSUME NEW d \in Managers, ProcessOf[d] = c, stage'[d] = "destroyed", Has(d, 0)'
               PROVE  ucPtr'[d][0] \notin mapped'[c]
    BY DEF DestroyedOf
  <2>1. CASE d = m
    BY <1>1, <1>5, <2>1 DEF Munmapped, Has
  <2>2. CASE d # m
    <3>1. stage[d] = "destroyed" /\ ucPtr'[d] = ucPtr[d] /\ Has(d, 0)
      BY <1>1, <1>3, <2>2 DEF Has
    <3> QED BY <1>2, <3>1 DEF AddressesOf, DestroyedOf
  <2> QED BY <2>1, <2>2
<1>11. PerfOf(c)'
  BY <1>1, <1>2 DEF AddressesOf, PerfOf
<1> QED BY <1>8, <1>9, <1>10, <1>11 DEF AddressesOf

(* What a step of m's process may do to the pages of process c, and to     *)
(* what is remembered of them, without disturbing the invariant.           *)
LEMMA StepAddresses ==
    ASSUME MInv, NEW c \in Clients, AddressesOf(c), NEW m \in Managers,
           UNCHANGED <<at, nextPage, ucPtr, perfPtr>>, mapped'[c] = mapped[c],
           stage[m] # "destroyed", stage'[m] # "destroyed",
           \A n \in Managers \ {m} : stage'[n] = stage[n] \/ ProcessOf[n] # c
    PROVE  AddressesOf(c)'
<1>1. DestroyedKept(c)
  BY DEF DestroyedKept
<1>2. PerfOf(c)'
  BY DEF AddressesOf, PerfOf, Given
<1> QED BY <1>1, <1>2, AddressesKept DEF MInv, PagesInv

(* Steps that make or end a call, or answer at once.                       *)
LEMMA MethodAddresses ==
    ASSUME MInv, NEW c \in Clients, AddressesOf(c), NEW m \in Managers,
           \/ UCPageAllocated(m) \/ UCPageReady(m) \/ MethodReturns(m) \/ Construct(m)
           \/ \E id \in MmapIds : GetCachedUCPage(m, id) \/ GetUCPage(m, id)
           \/ GetCachedPerfPage(m) \/ GetPerfPage(m)
           \/ \E j \in JobDescriptors : SendJob(m, j)
           \/ GetDevicePrefetcherSpecs(m)
    PROVE  AddressesOf(c)'
<1>0. stage \in [Managers -> Waiting \cup {"none", "ready", "exited", "destroyed"}]
  BY DEF MInv, MTypeOK
<1>1. UNCHANGED <<at, mapped, nextPage, ucPtr, perfPtr>>
  BY DEF UCPageAllocated, UCPageReady, MethodReturns, Construct, GetCachedUCPage, GetUCPage,
         GetCachedPerfPage, GetPerfPage, SendJob, GetDevicePrefetcherSpecs,
         CallThen, Enter, Resume, process, memory, lvars
<1>2. stage[m] \in Waiting \cup {"ready", "none"}
  BY DEF UCPageAllocated, UCPageReady, MethodReturns, Construct, GetCachedUCPage, GetUCPage,
         GetCachedPerfPage, GetPerfPage, SendJob, GetDevicePrefetcherSpecs, Ready, Returned, Waiting
<1>3. \E s \in Waiting \cup {"ready"} : stage' = [stage EXCEPT ![m] = s]
  BY DEF UCPageAllocated, UCPageReady, MethodReturns, Construct, GetCachedUCPage, GetUCPage,
         GetCachedPerfPage, GetPerfPage, SendJob, GetDevicePrefetcherSpecs, CallThen, Answer, Waiting
<1>4. "destroyed" \notin Waiting \cup {"ready", "none"}
  BY DEF Waiting
<1>5. stage'[m] # "destroyed" /\ \A n \in Managers \ {m} : stage'[n] = stage[n]
  BY <1>0, <1>3, <1>4
<1> QED BY <1>1, <1>2, <1>4, <1>5, StepAddresses

LEMMA FailAddresses ==
    ASSUME MInv, NEW c \in Clients, AddressesOf(c), NEW m \in Managers, pc'[c] # "exited",
           UCPageFails(m) \/ PerfPageFails(m)
    PROVE  AddressesOf(c)'
<1>1. Abort(m) /\ stage[m] \in Waiting
  BY DEF UCPageFails, PerfPageFails, Returned, Waiting
<1>2. ProcessOf[m] # c
  BY <1>1 DEF Abort, ProcessExit, MInv, MTypeOK, LTypeOK
<1>3. UNCHANGED <<at, nextPage, ucPtr, perfPtr>> /\ mapped'[c] = mapped[c]
  BY <1>1, <1>2, ManagerFacts DEF Abort, ProcessExit, memory, MInv, MTypeOK, LTypeOK
<1>4. stage'[m] = "exited" /\ \A n \in Managers : ProcessOf[n] = c => stage'[n] = stage[n]
  BY <1>1, <1>2 DEF Abort, AllExited
<1>5. "destroyed" \notin Waiting
  BY DEF Waiting
<1> QED BY <1>1, <1>3, <1>4, <1>5, StepAddresses

LEMMA LowLevelAddresses ==
    ASSUME MInv, NEW c \in Clients, AddressesOf(c), NEW m \in Managers, pc'[c] # "exited",
           LowLevelStep(m)
    PROVE  AddressesOf(c)'
<1> DEFINE b == ProcessOf[m]
<1>0. /\ CallsInv /\ MTypeOK /\ EntriesInv /\ b \in Clients /\ stage[m] \in Waiting
      /\ "destroyed" \notin Waiting /\ Syscall(b) /\ UNCHANGED <<ucPtr, perfPtr>>
  BY ManagerFacts DEF MInv, PagesInv, LowLevelStep, memory, Waiting
<1>1. /\ stage'[m] # "destroyed"
      /\ \A n \in Managers \ {m} : stage'[n] = stage[n] \/ ProcessOf[n] # c
  <2>1. CASE pc'[b] = "exited"
    BY <2>1 DEF LowLevelStep, AllExited
  <2>2. CASE pc'[b] # "exited"
    BY <1>0, <2>2 DEF LowLevelStep
  <2> QED BY <2>1, <2>2
<1>2. \A e \in Clients \ {b} : mapped'[e] = mapped[e] /\ nextPage'[e] = nextPage[e]
  BY <1>0, SyscallPages
<1>3. CASE UNCHANGED <<at, mapped, nextPage>>
  BY <1>0, <1>1, <1>3, StepAddresses
<1>4. CASE pc'[b] = "exited" /\ UNCHANGED <<at, nextPage>>
  <2>1. mapped'[c] = mapped[c]
    BY <1>2, <1>4
  <2> QED BY <1>0, <1>1, <1>4, <2>1, StepAddresses
<1>5. ASSUME nextPage' = [nextPage EXCEPT ![b][KindOf(call[b].fn)] = nextPage[b][KindOf(call[b].fn)] + 1],
             mapped' = [mapped EXCEPT ![b] = mapped[b] \cup {NewPage(b)}],
             NEW a \in Room(b, NewPage(b)), at' = [at EXCEPT ![NewPage(b)] = a],
             NewPage(b) \in Page
      PROVE  AddressesOf(c)'
  <2>1. DestroyedKept(c)
    BY <1>0, <1>1 DEF DestroyedKept
  <2>2. CASE c = b
    <3> HIDE DEF b
    <3> QED BY <1>0, <1>5, <2>1, <2>2, MmapAddresses
  <2>3. CASE c # b
    <3>1. \A p \in Given(c) : at'[p] = at[p]
      <4>1. NewPage(b).owner = b /\ \A p \in Page \ {NewPage(b)} : at'[p] = at[p]
        BY <1>0, <1>5 DEF NewPage, MTypeOK, LTypeOK
      <4> QED BY <2>3, <4>1 DEF Given
    <3>2. mapped'[c] = mapped[c] /\ nextPage'[c] = nextPage[c] /\ perfPtr' = perfPtr
      BY <1>0, <1>2, <2>3
    <3>3. PerfOf(c)'
      BY <3>2 DEF AddressesOf, PerfOf, Given
    <3> QED BY <1>0, <2>1, <3>1, <3>2, <3>3, AddressesKept
  <2> QED BY <2>2, <2>3
<1> HIDE DEF b
<1> QED BY <1>0, <1>3, <1>4, <1>5, SyscallAddresses

(* Steps that register a page, or copy what is registered.                 *)
LEMMA RegisterAddresses ==
    ASSUME MInv, NEW c \in Clients, AddressesOf(c), NEW m \in Managers,
           UCPageAddressed(m) \/ PerfPageReady(m) \/ \E n \in Managers : Copy(m, n)
    PROVE  AddressesOf(c)'
<1>0. /\ MTypeOK /\ EntriesInv /\ "destroyed" \notin Waiting \cup {"ready", "none"}
      /\ stage \in [Managers -> Waiting \cup {"none", "ready", "exited", "destroyed"}]
      /\ DOMAIN ucPtr = Managers /\ perfPtr \in [Managers -> Page \cup {NoPage}]
      /\ DOMAIN ucPaddr = Managers
  BY DEF MInv, PagesInv, MTypeOK, Waiting
<1>1. UNCHANGED <<at, mapped, nextPage>>
  BY DEF UCPageAddressed, PerfPageReady, Copy, CallThen, Enter, Resume, process, lvars
<1>2. Given(c)' = Given(c)
  BY <1>1 DEF Given
<1>3. CASE UCPageAddressed(m)
  <2>1. /\ stage[m] = "uc_paddr" /\ stage' = [stage EXCEPT ![m] = "uc_watch"]
        /\ perfPtr' = perfPtr /\ \A n \in Managers \ {m} : ucPtr'[n] = ucPtr[n]
    BY <1>0, <1>3 DEF UCPageAddressed, Returned, CallThen
  <2>2. DestroyedKept(c)
    BY <1>0, <2>1 DEF DestroyedKept
  <2>3. PerfOf(c)'
    BY <1>2, <2>1 DEF AddressesOf, PerfOf
  <2> QED BY <1>0, <1>1, <2>2, <2>3, AddressesKept
<1>4. CASE PerfPageReady(m)
  <2>1. /\ stage[m] = "perf_allocate" /\ stage' = [stage EXCEPT ![m] = "ready"] /\ ucPtr' = ucPtr
        /\ perfPtr' = [perfPtr EXCEPT ![m] = out[ProcessOf[m]]]
        /\ pc[ProcessOf[m]] = "returned" /\ verdict[ProcessOf[m]]
    BY <1>4 DEF PerfPageReady, Returned, Answer, Out
  <2>2. DestroyedKept(c)
    BY <1>0, <2>1 DEF DestroyedKept
  <2>3. ASSUME ProcessOf[m] = c PROVE out[c] \in Given(c)
    <3>1. call[c].fn = "allocate_perf_page"
      BY <2>1, <2>3 DEF MInv, ThreadInv, FunctionOf, Waiting
    <3>2. out[c] \in mapped[c]
      BY <2>1, <2>3, <3>1 DEF MInv, AnswerInv, Allocator
    <3> QED BY <3>2 DEF AddressesOf, PlacesOf
  <2>4. PerfOf(c)'
    BY <1>0, <1>2, <2>1, <2>3 DEF AddressesOf, PerfOf
  <2> QED BY <1>0, <1>1, <2>2, <2>4, AddressesKept
<1>5. ASSUME NEW n \in Managers, Copy(m, n) PROVE AddressesOf(c)'
  <2>1. /\ stage[n] = "none" /\ stage' = [stage EXCEPT ![n] = "ready"]
        /\ \A o \in Managers \ {n} : ucPtr'[o] = ucPtr[o] /\ perfPtr'[o] = perfPtr[o]
        /\ ProcessOf[n] = ProcessOf[m] /\ perfPtr'[n] = perfPtr[m]
    BY <1>0, <1>5 DEF Copy
  <2>2. DestroyedKept(c)
    BY <1>0, <2>1 DEF DestroyedKept
  <2>3. PerfOf(c)'
    BY <1>2, <2>1 DEF AddressesOf, PerfOf
  <2> QED BY <1>0, <1>1, <2>2, <2>3, AddressesKept
<1> QED BY <1>3, <1>4, <1>5

LEMMA DestroyedAddresses ==
    ASSUME MInv, MInv', NEW c \in Clients, AddressesOf(c), NEW m \in Managers, Destroy(m)
    PROVE  AddressesOf(c)'
<1>1. CASE c = ProcessOf[m]
  BY <1>1, DestroyAddresses
<1>2. CASE c # ProcessOf[m]
  <2>0. /\ MTypeOK /\ EntriesInv /\ DOMAIN ucPtr = Managers
        /\ stage \in [Managers -> Waiting \cup {"none", "ready", "exited", "destroyed"}]
        /\ mapped \in [Clients -> SUBSET Page]
    BY DEF MInv, PagesInv, MTypeOK, LTypeOK
  <2>1. /\ UNCHANGED <<at, nextPage, perfPtr>> /\ mapped'[c] = mapped[c]
        /\ \A n \in Managers \ {m} : stage'[n] = stage[n] /\ ucPtr'[n] = ucPtr[n]
    BY <1>2, <2>0 DEF Destroy
  <2>2. DestroyedKept(c)
    BY <1>2, <2>1 DEF DestroyedKept
  <2>3. PerfOf(c)'
    BY <2>1 DEF AddressesOf, PerfOf, Given
  <2> QED BY <2>0, <2>1, <2>2, <2>3, AddressesKept
<1> QED BY <1>1, <1>2

(* An exited process stays so.                                             *)
LEMMA NotExitedBefore ==
    ASSUME MInv, [MNext]_vars, NEW c \in Clients, pc'[c] # "exited"
    PROVE  pc[c] # "exited"
<1>1. ASSUME NEW m \in Managers, Syscall(ProcessOf[m]) PROVE pc[c] # "exited"
  <2>1. pc[ProcessOf[m]] \in InProgress \cup {"open"} /\ ProcessOf[m] \in Clients
        /\ \A e \in Clients \ {ProcessOf[m]} : pc'[e] = pc[e]
    BY <1>1, SyscallPages, ManagerFacts DEF MInv
  <2> QED BY <2>1 DEF InProgress
<1>2. ASSUME NEW m \in Managers, pc[ProcessOf[m]] \in {"idle", "returned"},
             \/ pc' = pc \/ \E v : pc' = [pc EXCEPT ![ProcessOf[m]] = v]
      PROVE  pc[c] # "exited"
  BY <1>2 DEF MInv, MTypeOK, LTypeOK
<1>3. CASE UNCHANGED vars
  BY <1>3 DEF vars, lvars
<1>4. CASE MNext
  <2>1. PICK m \in Managers :
            \/ Progress(m)
            \/ Construct(m) \/ \E n \in Managers : Copy(m, n)
            \/ \E id \in MmapIds : GetCachedUCPage(m, id) \/ GetUCPage(m, id)
            \/ GetCachedPerfPage(m) \/ GetPerfPage(m)
            \/ \E j \in JobDescriptors : SendJob(m, j)
            \/ GetDevicePrefetcherSpecs(m)
            \/ Destroy(m)
    BY <1>4 DEF MNext
  <2>2. CASE LowLevelStep(m)
    BY <1>1, <2>2 DEF LowLevelStep
  <2>3. CASE UCPageAllocated(m) \/ UCPageAddressed(m) \/ UCPageReady(m) \/ PerfPageReady(m) \/ MethodReturns(m)
    BY <1>2, <2>3 DEF UCPageAllocated, UCPageAddressed, UCPageReady, PerfPageReady, MethodReturns,
                      Returned, CallThen, Enter, Resume
  <2>4. CASE UCPageFails(m) \/ PerfPageFails(m)
    BY <1>2, <2>4 DEF UCPageFails, PerfPageFails, Abort, ProcessExit, Returned
  <2>5. CASE \/ Construct(m) \/ \E n \in Managers : Copy(m, n)
             \/ \E id \in MmapIds : GetCachedUCPage(m, id)
             \/ GetCachedPerfPage(m) \/ Destroy(m)
    BY <1>2, <2>5 DEF Construct, Copy, GetCachedUCPage, GetCachedPerfPage, Destroy, Ready, lvars
  <2>6. CASE \/ \E id \in MmapIds : GetUCPage(m, id)
             \/ GetPerfPage(m) \/ GetDevicePrefetcherSpecs(m)
             \/ \E j \in JobDescriptors : SendJob(m, j)
    <3>1. Ready(m)
      BY <2>6 DEF GetUCPage, GetPerfPage, GetDevicePrefetcherSpecs, SendJob
    <3>2. pc' = [pc EXCEPT ![ProcessOf[m]] = "open"]
      BY <2>6 DEF GetUCPage, GetPerfPage, GetDevicePrefetcherSpecs, SendJob, CallThen, Enter
    <3> QED BY <1>2, <3>1, <3>2 DEF Ready
  <2> QED BY <2>1, <2>2, <2>3, <2>4, <2>5, <2>6 DEF Progress
<1> QED BY <1>3, <1>4

LEMMA NextAddressInv ==
    ASSUME MInv, MInv', AddressInv, [MNext]_vars
    PROVE  AddressInv'
<1> SUFFICES ASSUME NEW c \in Clients, pc'[c] # "exited" PROVE AddressesOf(c)'
  BY DEF AddressInv
<1>1. AddressesOf(c)
  BY NotExitedBefore DEF AddressInv
<1>2. CASE UNCHANGED vars
  <2>1. UNCHANGED <<at, mapped, nextPage, ucPtr, perfPtr, stage>>
    BY <1>2 DEF vars, lvars, mvars
  <2> QED BY <1>1, <2>1 DEF AddressesOf, PlacesOf, UnmappedOf, DestroyedOf, PerfOf, Given, Gone, Has
<1>3. CASE MNext
  BY <1>1, <1>3, MethodAddresses, FailAddresses, LowLevelAddresses, RegisterAddresses, DestroyedAddresses
     DEF MNext, Progress
<1> QED BY <1>2, <1>3

LEMMA AddressesAlways == MSpec => [](MInv /\ AddressInv)
<1>1. MInit => AddressInv
  <2> SUFFICES ASSUME MInit, NEW c \in Clients PROVE AddressesOf(c)
    BY DEF AddressInv
  <2>1. Given(c) = {} /\ mapped[c] = {}
    BY LimitsAssumption DEF MInit, LInit, Given, Page
  <2>2. \A m \in Managers : stage[m] = "none" /\ perfPtr[m] = NoPage
    BY DEF MInit
  <2> QED BY <2>1, <2>2 DEF AddressesOf, PlacesOf, UnmappedOf, DestroyedOf, PerfOf
<1>2. MInv /\ AddressInv /\ MInv' /\ [MNext]_vars => AddressInv'
  BY NextAddressInv
<1> QED BY <1>1, <1>2, ManagerInvariant, PTL DEF MSpec

(* A live manager's process has not exited.                                *)
LEMMA AliveFacts ==
    ASSUME MInv, NEW m \in Managers, Alive(m)
    PROVE  ProcessOf[m] \in Clients /\ pc[ProcessOf[m]] # "exited"
BY ManagerFacts DEF MInv, ThreadInv, Alive, Waiting

(* A pointer that getUCPagePtr or getPerfPagePtr has returned can be used, *)
(* but where the destructor of a copy has unmapped it or two destructors   *)
(* unmapped its address: for any managers, copied and destroyed in any     *)
(* order, and wherever the kernel puts their pages (manager.cpp:25-90).    *)
THEOREM PagesUsableCorrect == MSpec => []PagesUsable
<1>1. ASSUME MInv, AddressInv PROVE PagesUsable
  <2> SUFFICES ASSUME NEW m \in Managers, Alive(m),
                      NEW p \in ({ucPtr[m][id] : id \in DOMAIN ucPtr[m]} \cup {perfPtr[m]}) \ {NoPage}
               PROVE  /\ p \in touched
                      /\ Destroyers(m, p) # {} => p \notin mapped[ProcessOf[m]]
                      /\ \/ p \in mapped[ProcessOf[m]]
                         \/ Destroyers(m, p) # {}
                         \/ \E d, e \in DestroyersAt(m, p) : d # e
    BY DEF PagesUsable
  <2>1. /\ MTypeOK /\ EntriesInv /\ ProcessOf[m] \in Clients
        /\ AddressesOf(ProcessOf[m])
    BY <1>1, AliveFacts DEF MInv, PagesInv, AddressInv
  <2>2. p \in touched /\ p \in Given(ProcessOf[m])
    <3>1. CASE p = perfPtr[m]
      BY <2>1, <3>1 DEF EntriesInv, AddressesOf, PerfOf
    <3>2. ASSUME NEW id \in DOMAIN ucPtr[m], p = ucPtr[m][id] PROVE p \in touched /\ p \in Given(ProcessOf[m])
      <4>1. Has(m, id)
        BY <3>2 DEF Has
      <4> QED BY <2>1, <3>2, <4>1, EntryGiven, HasFacts DEF Registered
    <3> QED BY <3>1, <3>2
  <2>3. Destroyers(m, p) # {} => p \notin mapped[ProcessOf[m]]
    BY <2>1 DEF AddressesOf, DestroyedOf, Destroyers, Siblings
  <2>4. DestroyersAt(m, p) = Gone(ProcessOf[m], p)
    BY DEF DestroyersAt, Gone, Siblings
  <2>5. \A d \in Gone(ProcessOf[m], p) : ucPtr[d][0] = p => d \in Destroyers(m, p)
    BY DEF Gone, Destroyers, Siblings
  <2>6. CASE p \notin mapped[ProcessOf[m]]
    <3>1. \/ \E d \in Gone(ProcessOf[m], p) : ucPtr[d][0] = p
          \/ \E d \in Gone(ProcessOf[m], p) : \E e \in Gone(ProcessOf[m], p) : d # e
      BY <2>1, <2>2, <2>6 DEF AddressesOf, UnmappedOf
    <3> QED BY <2>2, <2>3, <2>4, <2>5, <3>1
  <2> QED BY <2>2, <2>3, <2>6
<1> QED BY <1>1, AddressesAlways, PTL

(* Two pages of a process at one address: one of them is gone, so a        *)
(* destroyed manager had its page of id 0 there.                           *)
LEMMA ApartFacts ==
    ASSUME NEW m \in Managers, NEW n \in Managers, NEW p, NEW q, p # q,
           AddressesOf(ProcessOf[m]), p \in Given(ProcessOf[m]), q \in Given(ProcessOf[n])
    PROVE  Apart(m, p, n, q)
<1> DEFINE c == ProcessOf[m]
<1> SUFFICES ASSUME ProcessOf[m] = ProcessOf[n], at[p] = at[q]
             PROVE  DestroyersAt(m, p) # {}
  BY DEF Apart
<1>1. p \notin mapped[c] \/ q \notin mapped[c]
  BY DEF AddressesOf, PlacesOf
<1>2. \A r \in Given(c) \ mapped[c] : Gone(c, r) # {}
  BY DEF AddressesOf, UnmappedOf
<1>3. Gone(c, p) = Gone(c, q) /\ DestroyersAt(m, p) = Gone(c, p)
  BY DEF Gone, DestroyersAt, Siblings
<1> QED BY <1>1, <1>2, <1>3

(* No page serves two ids, or an id and as the monitoring page, though the *)
(* id is not in the request that maps it; and no pointer does, unless a    *)
(* manager was destroyed that had its page of id 0 there                   *)
(* (low_level.cpp:38, 69, manager.cpp:33-75, 88-90).                       *)
THEOREM PagesDistinctCorrect == MSpec => []PagesDistinct
<1>1. ASSUME MInv, AddressInv PROVE PagesDistinct
  <2> SUFFICES ASSUME NEW m \in Managers, NEW n \in Managers, Alive(m), Alive(n),
                      NEW i \in MmapIds, Has(m, i)
               PROVE  /\ \A k \in MmapIds :
                            Has(n, k) /\ (i # k \/ ProcessOf[m] # ProcessOf[n]) =>
                                Apart(m, ucPtr[m][i], n, ucPtr[n][k])
                      /\ perfPtr[n] # NoPage => Apart(m, ucPtr[m][i], n, perfPtr[n])
    BY DEF PagesDistinct
  <2>1. /\ MTypeOK /\ EntriesInv /\ OneIdPerPage
        /\ AddressesOf(ProcessOf[m]) /\ AddressesOf(ProcessOf[n])
    BY <1>1, AliveFacts DEF MInv, PagesInv, AddressInv
  <2>2. ucPtr[m][i] \in Given(ProcessOf[m])
    BY <2>1, EntryGiven
  <2>3. ASSUME NEW k \in MmapIds, Has(n, k), i # k \/ ProcessOf[m] # ProcessOf[n]
        PROVE  Apart(m, ucPtr[m][i], n, ucPtr[n][k])
    <3>1. ucPtr[m][i].owner = ProcessOf[m] /\ ucPtr[n][k].owner = ProcessOf[n]
      BY <2>1, <2>3, HasFacts, PageFacts DEF Registered
    <3>2. ucPtr[m][i] # ucPtr[n][k]
      BY <2>1, <2>3, <3>1 DEF OneIdPerPage
    <3>3. ucPtr[n][k] \in Given(ProcessOf[n])
      BY <2>1, <2>3, EntryGiven
    <3> QED BY <2>1, <2>2, <3>2, <3>3, ApartFacts
  <2>4. ASSUME perfPtr[n] # NoPage PROVE Apart(m, ucPtr[m][i], n, perfPtr[n])
    <3>1. ucPtr[m][i].kind = "uc" /\ perfPtr[n].kind = "perf"
      BY <2>1, <2>4, HasFacts, PageFacts DEF Registered, EntriesInv
    <3>2. perfPtr[n] \in Given(ProcessOf[n])
      BY <2>1, <2>4 DEF AddressesOf, PerfOf
    <3>3. ucPtr[m][i] # perfPtr[n]
      BY <3>1
    <3> QED BY <2>1, <2>2, <3>2, <3>3, ApartFacts
  <2> QED BY <2>3, <2>4
<1> QED BY <1>1, AddressesAlways, PTL

-----------------------------------------------------------------------------
(* The address the device is told to watch is that of the page the         *)
(* application is given, in a process that gets each id from one manager   *)
(* or its copies, and only there (low_level.cpp:38, manager.cpp:41-58).    *)
THEOREM AddressesMatchCorrect == MSpec => []AddressesMatch
<1>1. ASSUME MInv PROVE AddressesMatch
  <2> SUFFICES ASSUME NEW c \in Clients, pc[c] # "exited"
               PROVE  OnePagePerId(c) <=>
                        \A m \in Managers : ProcessOf[m] = c =>
                          \A id \in MmapIds : Has(m, id) =>
                            id \in DOMAIN ucPaddr[m] /\ ucPaddr[m][id] = ucPtr[m][id]
    BY DEF AddressesMatch
  <2>1. EntriesInv /\ NumberedById
    BY <1>1 DEF MInv, PagesInv
  <2>2. \A m \in Managers : \A id \in MmapIds : ProcessOf[m] = c /\ Has(m, id) =>
           id \in DOMAIN ucPaddr[m] /\ ucPaddr[m][id] = PageOf(c, "uc", id)
    BY <2>1, HasFacts DEF Registered
  <2>3. OnePagePerId(c) => \A m \in Managers : \A id \in MmapIds :
           ProcessOf[m] = c /\ Has(m, id) => ucPtr[m][id] = PageOf(c, "uc", id)
    BY <2>1 DEF NumberedById, Has
  <2> QED BY <2>2, <2>3 DEF OnePagePerId
<1> QED BY <1>1, ManagerInvariant, PTL

(* A pointer that the application has been given is not replaced by a      *)
(* later call of any method, nor by the copy constructor or the            *)
(* destructor (manager.cpp:25-90).                                         *)
THEOREM PointersKeptCorrect == MSpec => PointersKept
<1>1. ASSUME MInv, [MNext]_vars
      PROVE  [\A m \in Managers :
                /\ \A id \in DOMAIN ucPtr[m] : id \in DOMAIN ucPtr'[m] /\ ucPtr'[m][id] = ucPtr[m][id]
                /\ perfPtr[m] # NoPage => perfPtr'[m] = perfPtr[m]]_vars
  <2> DEFINE Kept(m) ==
         /\ \A id \in DOMAIN ucPtr[m] : id \in DOMAIN ucPtr'[m] /\ ucPtr'[m][id] = ucPtr[m][id]
         /\ perfPtr[m] # NoPage => perfPtr'[m] = perfPtr[m]
  <2>0. /\ LocalInv /\ DOMAIN ucPtr = Managers /\ perfPtr \in [Managers -> Page \cup {NoPage}]
    BY <1>1 DEF MInv, MTypeOK
  <2>1. CASE UNCHANGED <<ucPtr, perfPtr>>
    BY <2>1
  <2>2. ASSUME NEW m \in Managers, UCPageAddressed(m) PROVE \A n \in Managers : Kept(n)
    <3>1. local[m].id \notin DOMAIN ucPtr[m]
      BY <2>0, <2>2 DEF UCPageAddressed, Returned, LocalInv, LocalsOf
    <3>2. /\ ucPtr'[m] = Put(ucPtr[m], local[m].id, local[m].ptr) /\ perfPtr' = perfPtr
          /\ \A n \in Managers \ {m} : ucPtr'[n] = ucPtr[n]
      BY <2>0, <2>2 DEF UCPageAddressed
    <3> QED BY <3>1, <3>2 DEF Put
  <2>3. ASSUME NEW m \in Managers, PerfPageReady(m) PROVE \A n \in Managers : Kept(n)
    <3>1. perfPtr[m] = NoPage
      BY <2>0, <2>3 DEF PerfPageReady, Returned, LocalInv, LocalsOf
    <3>2. ucPtr' = ucPtr /\ \A n \in Managers \ {m} : perfPtr'[n] = perfPtr[n]
      BY <2>0, <2>3 DEF PerfPageReady
    <3> QED BY <3>1, <3>2
  <2>4. ASSUME NEW m \in Managers, NEW n \in Managers, Copy(m, n) PROVE \A o \in Managers : Kept(o)
    <3>1. DOMAIN ucPtr[n] = {} /\ perfPtr[n] = NoPage
      BY <2>0, <2>4 DEF Copy, LocalInv, LocalsOf
    <3>2. \A o \in Managers \ {n} : ucPtr'[o] = ucPtr[o] /\ perfPtr'[o] = perfPtr[o]
      BY <2>0, <2>4 DEF Copy
    <3> QED BY <3>1, <3>2
  <2>5. ASSUME NEW m \in Managers, Destroy(m) PROVE \A n \in Managers : Kept(n)
    <3>1. CASE Cached(m, 0)
      BY <2>5, <3>1 DEF Destroy
    <3>2. CASE ~ Cached(m, 0)
      <4>1. /\ ucPtr'[m] = Put(ucPtr[m], 0, NoPage) /\ perfPtr' = perfPtr
            /\ \A n \in Managers \ {m} : ucPtr'[n] = ucPtr[n]
        BY <2>0, <2>5, <3>2 DEF Destroy
      <4> QED BY <3>2, <4>1 DEF Put, Cached
    <3> QED BY <3>1, <3>2
  <2>6. CASE MNext
    <3>1. \/ UNCHANGED <<ucPtr, perfPtr>>
          \/ \E m \in Managers : \/ UCPageAddressed(m) \/ PerfPageReady(m) \/ Destroy(m)
                                 \/ \E n \in Managers : Copy(m, n)
      BY <2>6 DEF MNext, Progress, LowLevelStep, UCPageAllocated, UCPageReady, UCPageFails,
         PerfPageFails, Abort, MethodReturns, Construct, GetCachedUCPage, GetUCPage,
         GetCachedPerfPage, GetPerfPage, SendJob, GetDevicePrefetcherSpecs, memory
    <3> QED BY <2>1, <2>2, <2>3, <2>4, <2>5, <3>1
  <2>7. CASE UNCHANGED vars
    BY <2>1, <2>7 DEF vars, mvars
  <2> QED BY <1>1, <2>6, <2>7
<1> QED BY <1>1, ManagerInvariant, PTL DEF MSpec, PointersKept

-----------------------------------------------------------------------------
(* Which ranges the device is told to watch, where a command is taken with *)
(* its own header.                                                         *)

(* The page whose address is registered for id in process c.               *)
AddressOf(c, id) == PageOf(c, "uc", id)

(* A manager of c has a page for id.                                       *)
Knows(c, id) == \E m \in Managers : ProcessOf[m] = c /\ Has(m, id)

(* The device is being told of id's range, and has answered that it was.   *)
Watching(c, id) ==
    \E m \in Managers : ProcessOf[m] = c /\ stage[m] = "uc_watch" /\ local[m].id = id
Told(c) == pc[c] = "returned" /\ verdict[c]

WatchedOnce(page) == \E k \in DOMAIN log : Watches(page) = {k}

(* How it stands with the range of an id.                                  *)
Outcome(c, id) ==
    IF Watching(c, id)
    THEN /\ AddressOf(c, id) \notin unwatched
         /\ IF Told(c) THEN WatchedOnce(AddressOf(c, id)) ELSE Watches(AddressOf(c, id)) = {}
    ELSE \/ AddressOf(c, id) \in unwatched /\ Watches(AddressOf(c, id)) = {}
         \/ AddressOf(c, id) \notin unwatched /\ WatchedOnce(AddressOf(c, id))

OutcomesInv ==
    \A c \in Clients : pc[c] # "exited" /\ OnePagePerId(c) =>
        \A id : Knows(c, id) => Outcome(c, id)

(* What the two methods that write a command have asked for.               *)
CommandsInv ==
    \A m \in Managers :
        /\ stage[m] = "uc_watch" =>
              call[ProcessOf[m]].command = WatchCommand(AddressOf(ProcessOf[m], local[m].id))
        /\ stage[m] = "job" => call[ProcessOf[m]].command.type = "SEND_JOB_DESCRIPTOR"

(* The device has heard of no range but those of ids in the maps.          *)
SeenInv ==
    \A page : Watches(page) # {} \/ page \in unwatched =>
        \E c \in Clients : \E id : Knows(c, id) /\ page = AddressOf(c, id)

TouchedInv == \A c \in Clients : \A id : Knows(c, id) => AddressOf(c, id) \in touched

WatchInv == HeaderInv /\ CommandsInv /\ SeenInv /\ TouchedInv /\ OutcomesInv

LEMMA AddressFacts ==
    /\ \A c, id : AddressOf(c, id).owner = c /\ AddressOf(c, id).number = id
    /\ \A c, e, i, k : AddressOf(c, i) = AddressOf(e, k) => c = e /\ i = k
BY DEF AddressOf, PageOf

(* What no step takes back.                                                *)
MapsKept ==
    /\ \A m \in Managers : \A id : Has(m, id) => Has(m, id)' /\ ucPtr'[m][id] = ucPtr[m][id]
    /\ touched \subseteq touched'
    /\ \A c \in Clients : pc'[c] # "exited" => pc[c] # "exited"

LEMMA KeptFacts ==
    ASSUME MapsKept
    PROVE  /\ \A c, id : Knows(c, id) => Knows(c, id)'
           /\ \A c : OnePagePerId(c)' => OnePagePerId(c)
<1>1. \A c, id : Knows(c, id) => Knows(c, id)'
  BY DEF Knows, MapsKept
<1>2. \A c : OnePagePerId(c)' => OnePagePerId(c)
  BY DEF OnePagePerId, MapsKept
<1> QED BY <1>1, <1>2

(* An id whose range nobody speaks of.                                     *)
Undisturbed(c, id) ==
    /\ Watches(AddressOf(c, id))' = Watches(AddressOf(c, id))
    /\ AddressOf(c, id) \in unwatched' <=> AddressOf(c, id) \in unwatched
    /\ Watching(c, id)' <=> Watching(c, id)
    /\ Watching(c, id) => (Told(c)' <=> Told(c))

LEMMA OutcomeKept ==
    ASSUME NEW c, NEW id, Undisturbed(c, id), DOMAIN log \subseteq DOMAIN log',
           Outcome(c, id)
    PROVE  Outcome(c, id)'
<1>1. WatchedOnce(AddressOf(c, id)) => WatchedOnce(AddressOf(c, id))'
  BY DEF WatchedOnce, Undisturbed, AddressOf, PageOf
<1> QED BY <1>1 DEF Outcome, Undisturbed, AddressOf, PageOf

(* The range of at most one id of c changes hands in a step.               *)
LEMMA OutcomesKept ==
    ASSUME MapsKept, OutcomesInv, DOMAIN log \subseteq DOMAIN log',
           NEW c \in Clients, NEW id,
           \A e \in Clients : \A i : pc'[e] # "exited" /\ (e # c \/ i # id) =>
              (Knows(e, i)' => Knows(e, i)) /\ Undisturbed(e, i),
           pc'[c] # "exited" /\ OnePagePerId(c)' /\ Knows(c, id)' => Outcome(c, id)'
    PROVE  OutcomesInv'
<1> SUFFICES ASSUME NEW e \in Clients, pc'[e] # "exited", OnePagePerId(e)', NEW i, Knows(e, i)'
             PROVE  Outcome(e, i)'
  BY DEF OutcomesInv
<1>1. CASE e = c /\ i = id
  BY <1>1
<1>2. CASE e # c \/ i # id
  <2>1. Knows(e, i) /\ Undisturbed(e, i)
    BY <1>2
  <2>2. pc[e] # "exited" /\ OnePagePerId(e)
    BY KeptFacts DEF MapsKept
  <2>3. Outcome(e, i)
    BY <2>1, <2>2 DEF OutcomesInv
  <2> QED BY <2>1, <2>3, OutcomeKept
<1> QED BY <1>1, <1>2

-----------------------------------------------------------------------------
(* Steps of a process that says nothing of ranges to the device.           *)
Quiet(m) ==
    /\ Others(ProcessOf[m]) /\ UNCHANGED <<log, header, unwatched>>
    /\ MapsKept /\ \A c, id : Knows(c, id)' => Knows(c, id)
    /\ pc'[ProcessOf[m]] # "body"
    /\ \A n \in Siblings(m) :
          /\ stage[n] # "uc_watch" /\ stage'[n] # "uc_watch"
          /\ stage'[n] = "job" => call'[ProcessOf[m]].command.type = "SEND_JOB_DESCRIPTOR"

(* What is said of the processes that take no step.                        *)
LEMMA OthersUndisturbed ==
    ASSUME NEW c \in Clients, Others(c), NEW e \in Clients \ {c}, NEW id
    PROVE  (Watching(e, id)' <=> Watching(e, id)) /\ (Told(e)' <=> Told(e))
<1>1. \A m \in Managers : ProcessOf[m] = e => stage'[m] = stage[m] /\ local'[m] = local[m]
  BY DEF Others
<1>2. Watching(e, id)' <=> Watching(e, id)
  BY <1>1 DEF Watching
<1>3. Told(e)' <=> Told(e)
  BY DEF Told, Others
<1> QED BY <1>2, <1>3

LEMMA CommandsKept ==
    ASSUME MTypeOK, CommandsInv, NEW c \in Clients, Others(c),
           \A n \in Managers : ProcessOf[n] = c =>
              /\ stage'[n] = "uc_watch" => call'[c].command = WatchCommand(AddressOf(c, local'[n].id))
              /\ stage'[n] = "job" => call'[c].command.type = "SEND_JOB_DESCRIPTOR"
    PROVE  CommandsInv'
<1> SUFFICES ASSUME NEW n \in Managers
             PROVE  /\ stage'[n] = "uc_watch" =>
                          call'[ProcessOf[n]].command = WatchCommand(AddressOf(ProcessOf[n], local'[n].id))
                    /\ stage'[n] = "job" => call'[ProcessOf[n]].command.type = "SEND_JOB_DESCRIPTOR"
  BY DEF CommandsInv, AddressOf, PageOf, WatchCommand
<1>1. ProcessOf[n] \in Clients
  BY ManagerFacts
<1> QED BY <1>1 DEF CommandsInv, Others

LEMMA QuietWatchInv ==
    ASSUME MTypeOK, WatchInv, NEW m \in Managers, Quiet(m)
    PROVE  WatchInv'
<1> DEFINE c == ProcessOf[m]
<1>0. c \in Clients /\ HeaderInv /\ CommandsInv /\ SeenInv /\ TouchedInv /\ OutcomesInv
  BY ManagerFacts DEF WatchInv
<1>1. /\ Others(c) /\ UNCHANGED <<log, header, unwatched>> /\ MapsKept /\ pc'[c] # "body"
      /\ \A e, id : Knows(e, id)' <=> Knows(e, id)
  BY KeptFacts DEF Quiet
<1>2. \A p : Watches(p)' = Watches(p)
  BY <1>1 DEF Watches
<1>3. HeaderInv'
  BY <1>0, <1>1, HeadersKept DEF Others
<1>4. CommandsInv'
  BY <1>0, <1>1, CommandsKept DEF Quiet, Siblings
<1>5. SeenInv'
  BY <1>0, <1>1, <1>2 DEF SeenInv, AddressOf, PageOf
<1>6. TouchedInv'
  BY <1>0, <1>1 DEF TouchedInv, MapsKept, AddressOf, PageOf
<1>7. OutcomesInv'
  <2>1. \A id : ~ Watching(c, id) /\ ~ Watching(c, id)'
    BY DEF Watching, Quiet, Siblings
  <2>2. \A e \in Clients : \A id : /\ Watching(e, id)' <=> Watching(e, id)
                                   /\ Watching(e, id) => (Told(e)' <=> Told(e))
    BY <1>0, <1>1, <2>1, OthersUndisturbed
  <2>3. \A e \in Clients : \A id : Undisturbed(e, id)
    BY <1>1, <1>2, <2>2 DEF Undisturbed, AddressOf, PageOf
  <2> SUFFICES ASSUME NEW e \in Clients, pc'[e] # "exited", OnePagePerId(e)', NEW i, Knows(e, i)'
               PROVE  Outcome(e, i)'
    BY DEF OutcomesInv
  <2>4. pc[e] # "exited" /\ OnePagePerId(e) /\ Knows(e, i)
    BY <1>1, KeptFacts DEF MapsKept
  <2>5. Outcome(e, i)
    BY <1>0, <2>4 DEF OutcomesInv
  <2> QED BY <1>1, <2>3, <2>5, OutcomeKept
<1> QED BY <1>3, <1>4, <1>5, <1>6, <1>7 DEF WatchInv

(* Steps that change no map at all.                                        *)
LEMMA MemoryKept ==
    ASSUME UNCHANGED <<ucPtr, touched>>, \A c \in Clients : pc'[c] # "exited" => pc[c] # "exited"
    PROVE  MapsKept /\ \A c, id : Knows(c, id)' => Knows(c, id)
<1>1. \A m \in Managers : \A id : Has(m, id)' <=> Has(m, id)
  BY DEF Has
<1> QED BY <1>1 DEF MapsKept, Knows

(* A thread that waits for nothing, or for another call than that of the   *)
(* range, has no manager that waits for that one.                          *)
LEMMA OneWaits ==
    ASSUME ThreadInv, NEW m \in Managers,
           pc[ProcessOf[m]] = "idle" \/ stage[m] \in Waiting
    PROVE  \A n \in Siblings(m) \ {m} : stage[n] \notin Waiting
BY DEF ThreadInv, Siblings

(* A method makes a call other than that of the range.                     *)
LEMMA CallQuiet ==
    ASSUME MInv, NEW m \in Managers, NEW s \in Waiting \ {"uc_watch"}, NEW id, NEW command,
           s = "job" => command.type = "SEND_JOB_DESCRIPTOR",
           stage[m] \in (Waiting \cup {"ready"}) \ {"uc_watch"},
           stage[m] \in Waiting \/ pc[ProcessOf[m]] = "idle",
           CallThen(m, s, FunctionOf(s), id, command),
           UNCHANGED <<memory, unwatched>>, \A n \in Managers \ {m} : local'[n] = local[n]
    PROVE  Quiet(m)
<1> DEFINE c == ProcessOf[m]
<1>0. MTypeOK /\ ThreadInv /\ AnswerInv /\ c \in Clients
  BY ManagerFacts DEF MInv
<1>1. /\ Others(c) /\ pc'[c] = "open" /\ pc[c] # "exited"
      /\ call'[c] = [fn |-> FunctionOf(s), id |-> id, command |-> command]
      /\ stage' = [stage EXCEPT ![m] = s]
  BY <1>0, CallThenFacts
<1>2. UNCHANGED <<log, header>>
  BY DEF CallThen, Enter, driver
<1>3. MapsKept /\ \A e, i : Knows(e, i)' => Knows(e, i)
  <2>1. \A e \in Clients : pc'[e] # "exited" => pc[e] # "exited"
    BY <1>1 DEF Others
  <2> QED BY <2>1, MemoryKept DEF memory
<1>4. \A n \in Siblings(m) :
          /\ stage[n] # "uc_watch" /\ stage'[n] # "uc_watch"
          /\ stage'[n] = "job" => call'[c].command.type = "SEND_JOB_DESCRIPTOR"
  <2>1. stage'[m] = s /\ \A n \in Managers \ {m} : stage'[n] = stage[n]
    BY <1>0, <1>1 DEF MTypeOK
  <2>2. \A n \in Siblings(m) \ {m} : stage[n] \notin Waiting
    BY <1>0, OneWaits
  <2>3. "uc_watch" \in Waiting /\ "job" \in Waiting
    BY DEF Waiting
  <2> QED BY <1>1, <2>1, <2>2, <2>3 DEF Siblings
<1> QED BY <1>1, <1>2, <1>3, <1>4 DEF Quiet

(* A method returns from a call other than that of the range.              *)
LEMMA BackQuiet ==
    ASSUME MInv, NEW m \in Managers, NEW p,
           stage[m] \in Waiting \ {"uc_watch"}, Resume(ProcessOf[m]), Answer(m, p),
           UNCHANGED <<ucPtr, unwatched>>, touched \subseteq touched'
    PROVE  Quiet(m)
<1> DEFINE c == ProcessOf[m]
<1>0. MTypeOK /\ ThreadInv /\ AnswerInv /\ c \in Clients /\ "ready" \notin Waiting
  BY ManagerFacts DEF MInv, Waiting
<1>1. /\ stage' = [stage EXCEPT ![m] = "ready"]
      /\ \A n \in Managers \ {m} : local'[n] = local[n]
  BY <1>0 DEF Answer, MTypeOK
<1>2. /\ Others(c) /\ pc'[c] = "idle" /\ pc[c] = "returned"
  BY <1>0, <1>1, ResumeFacts
<1>3. UNCHANGED <<log, header>>
  BY DEF Resume, driver
<1>4. MapsKept /\ \A e, i : Knows(e, i)' => Knows(e, i)
  <2>1. \A e \in Clients : pc'[e] # "exited" => pc[e] # "exited"
    BY <1>2 DEF Others
  <2>2. \A n \in Managers : \A i : Has(n, i)' <=> Has(n, i)
    BY DEF Has
  <2> QED BY <2>1, <2>2 DEF MapsKept, Knows
<1>5. \A n \in Siblings(m) : stage[n] # "uc_watch" /\ stage'[n] \notin {"uc_watch", "job"}
  <2>1. stage'[m] = "ready" /\ \A n \in Managers \ {m} : stage'[n] = stage[n]
    BY <1>0, <1>1 DEF MTypeOK
  <2>2. \A n \in Siblings(m) \ {m} : stage[n] \notin Waiting
    BY <1>0, OneWaits
  <2>3. "uc_watch" \in Waiting /\ "job" \in Waiting
    BY DEF Waiting
  <2> QED BY <2>1, <2>2, <2>3 DEF Siblings
<1> QED BY <1>2, <1>3, <1>4, <1>5 DEF Quiet

(* exit() in the middle of a method that has not asked for the range.      *)
LEMMA ExitQuiet ==
    ASSUME MInv, NEW m \in Managers, stage[m] \in Waiting \ {"uc_watch"},
           ProcessExit(ProcessOf[m]), stage' = AllExited(m),
           UNCHANGED <<local, memory, unwatched>>
    PROVE  Quiet(m)
<1> DEFINE c == ProcessOf[m]
<1>0. MTypeOK /\ ThreadInv /\ AnswerInv /\ c \in Clients
  BY ManagerFacts DEF MInv
<1>1. /\ Others(c) /\ pc'[c] = "exited"
      /\ \A n \in Managers : ProcessOf[n] = c => stage'[n] = "exited"
  BY <1>0, ExitFacts
<1>2. UNCHANGED <<log, header>>
  BY DEF ProcessExit, driver
<1>3. MapsKept /\ \A e, i : Knows(e, i)' => Knows(e, i)
  <2>1. \A e \in Clients : pc'[e] # "exited" => pc[e] # "exited"
    BY <1>1 DEF Others
  <2> QED BY <2>1, MemoryKept DEF memory
<1>4. \A n \in Siblings(m) : stage[n] # "uc_watch" /\ stage'[n] = "exited"
  <2>1. \A n \in Siblings(m) \ {m} : stage[n] \notin Waiting
    BY <1>0, OneWaits
  <2>2. "uc_watch" \in Waiting
    BY DEF Waiting
  <2> QED BY <1>1, <2>1, <2>2 DEF Siblings
<1> QED BY <1>1, <1>2, <1>3, <1>4 DEF Quiet

(* The application's code, and methods that make no call: nothing of the   *)
(* low level changes but what is mapped.                                   *)
LEMMA IdleQuiet ==
    ASSUME MInv, NEW m \in Managers, pc[ProcessOf[m]] = "idle",
           UNCHANGED <<pc, call, verdict, out, nextPage, driver, touched, unwatched>>,
           \A e \in Clients \ {ProcessOf[m]} : mapped'[e] = mapped[e],
           \A n \in Managers : /\ ProcessOf[n] # ProcessOf[m] => stage'[n] = stage[n] /\ local'[n] = local[n]
                               /\ stage'[n] \in Waiting => stage[n] \in Waiting,
           \A n \in Managers : \A id : Has(n, id) => Has(n, id)' /\ ucPtr'[n][id] = ucPtr[n][id],
           \A n \in Managers : \A id : Has(n, id)' => Knows(ProcessOf[n], id)
    PROVE  Quiet(m)
<1>1. Others(ProcessOf[m])
  BY DEF Others
<1>2. MapsKept /\ \A e, i : Knows(e, i)' => Knows(e, i)
  BY DEF MapsKept, Knows
<1>3. \A n \in Siblings(m) : stage[n] \notin Waiting
  BY DEF MInv, ThreadInv, Siblings
<1>4. \A n \in Siblings(m) : /\ stage[n] # "uc_watch" /\ stage'[n] # "uc_watch"
                             /\ stage'[n] # "job"
  BY <1>3 DEF Waiting, Siblings
<1> QED BY <1>1, <1>2, <1>4 DEF Quiet, driver

LEMMA IdleStepsQuiet ==
    ASSUME MInv, NEW m \in Managers,
           \/ Construct(m) \/ Destroy(m)
           \/ \E id \in MmapIds : GetCachedUCPage(m, id)
           \/ GetCachedPerfPage(m)
    PROVE  Quiet(m)
<1>0. MTypeOK /\ stage \in [Managers -> Waiting \cup {"none", "ready", "exited", "destroyed"}]
      /\ local \in [Managers -> [id : Nat, ptr : Page \cup {NoPage}]]
      /\ "ready" \notin Waiting /\ "destroyed" \notin Waiting
  BY ManagerFacts DEF MInv, Waiting
<1>h. ASSUME ucPtr' = ucPtr
      PROVE  /\ \A n \in Managers : \A id : Has(n, id) => Has(n, id)' /\ ucPtr'[n][id] = ucPtr[n][id]
             /\ \A n \in Managers : \A id : Has(n, id)' => Knows(ProcessOf[n], id)
  BY <1>h DEF Has, Knows
<1>1. CASE Construct(m)
  <2>1. /\ pc[ProcessOf[m]] = "idle"
        /\ UNCHANGED <<pc, call, verdict, out, nextPage, mapped, driver, touched, unwatched, ucPtr, local>>
        /\ stage'[m] = "ready" /\ \A n \in Managers \ {m} : stage'[n] = stage[n]
    BY <1>0, <1>1 DEF Construct, lvars, memory, driver
  <2> QED BY <1>0, <1>h, <2>1, IdleQuiet
<1>2. CASE (\E id \in MmapIds : GetCachedUCPage(m, id)) \/ GetCachedPerfPage(m)
  <2>1. /\ pc[ProcessOf[m]] = "idle"
        /\ UNCHANGED <<pc, call, verdict, out, nextPage, mapped, driver, touched, unwatched, ucPtr>>
        /\ stage'[m] = "ready"
        /\ \A n \in Managers \ {m} : stage'[n] = stage[n] /\ local'[n] = local[n]
    BY <1>0, <1>2 DEF GetCachedUCPage, GetCachedPerfPage, Ready, Answer, lvars, memory, driver
  <2> QED BY <1>0, <1>h, <2>1, IdleQuiet
<1>3. CASE Destroy(m)
  <2>1. /\ pc[ProcessOf[m]] = "idle"
        /\ UNCHANGED <<pc, call, verdict, out, nextPage, driver, touched, unwatched, local>>
        /\ stage'[m] = "destroyed" /\ \A n \in Managers \ {m} : stage'[n] = stage[n]
    BY <1>0, <1>3 DEF Destroy, Ready
  <2>2. \A e \in Clients \ {ProcessOf[m]} : mapped'[e] = mapped[e]
    BY <1>0, <1>3 DEF Destroy, MTypeOK, LTypeOK
  <2>3. \A n \in Managers : \A j : /\ Has(n, j)' <=> Has(n, j)
                                   /\ Has(n, j) => ucPtr'[n][j] = ucPtr[n][j]
    <3>1. CASE Cached(m, 0)
      BY <1>3, <3>1 DEF Destroy, Has
    <3>2. CASE ~ Cached(m, 0)
      <4>1. /\ ucPtr'[m] = Put(ucPtr[m], 0, NoPage)
            /\ \A n \in Managers \ {m} : ucPtr'[n] = ucPtr[n]
        BY <1>0, <1>3, <3>2 DEF Destroy, MTypeOK
      <4>2. \A j : /\ Has(m, j)' <=> Has(m, j)
                   /\ Has(m, j) => ucPtr'[m][j] = ucPtr[m][j]
        BY <3>2, <4>1 DEF Put, Cached, Has
      <4> QED BY <4>1, <4>2 DEF Has
    <3> QED BY <3>1, <3>2
  <2>4. \A n \in Managers : \A j : Has(n, j)' => Knows(ProcessOf[n], j)
    BY <2>3 DEF Knows
  <2> QED BY <1>0, <2>1, <2>2, <2>3, <2>4, IdleQuiet
<1> QED BY <1>1, <1>2, <1>3

LEMMA CopyQuiet ==
    ASSUME MInv, NEW m \in Managers, NEW n \in Managers, Copy(m, n)
    PROVE  Quiet(m)
<1>0. MTypeOK /\ LocalInv /\ "ready" \notin Waiting
  BY DEF MInv, Waiting
<1>1. /\ pc[ProcessOf[m]] = "idle" /\ ProcessOf[n] = ProcessOf[m]
      /\ UNCHANGED <<pc, call, verdict, out, nextPage, mapped, driver, touched, unwatched, local>>
      /\ stage'[n] = "ready" /\ \A o \in Managers \ {n} : stage'[o] = stage[o]
      /\ ucPtr'[n] = ucPtr[m] /\ \A o \in Managers \ {n} : ucPtr'[o] = ucPtr[o]
  BY <1>0 DEF Copy, Ready, lvars, driver, MTypeOK
<1>2. \A o \in Managers : \A id : Has(o, id) => Has(o, id)' /\ ucPtr'[o][id] = ucPtr[o][id]
  <2>1. DOMAIN ucPtr[n] = {}
    BY <1>0 DEF Copy, LocalInv, LocalsOf
  <2> QED BY <1>1, <2>1 DEF Has
<1>3. \A o \in Managers : \A id : Has(o, id)' => Knows(ProcessOf[o], id)
  BY <1>1 DEF Has, Knows
<1> QED BY <1>0, <1>1, <1>2, <1>3, IdleQuiet

(* The methods' steps that neither ask for a range nor hear of it.         *)
LEMMA MethodStepsQuiet ==
    ASSUME MInv, NEW m \in Managers,
           \/ UCPageAllocated(m) \/ UCPageFails(m) \/ PerfPageReady(m) \/ PerfPageFails(m)
           \/ MethodReturns(m) \/ GetPerfPage(m) \/ GetDevicePrefetcherSpecs(m)
           \/ \E id \in MmapIds : GetUCPage(m, id)
           \/ \E j \in JobDescriptors : SendJob(m, j)
    PROVE  Quiet(m)
<1>0. MTypeOK /\ "ready" \notin Waiting
      /\ \A s \in {"uc_allocate", "uc_paddr", "perf_allocate", "job", "specs"} : s \in Waiting \ {"uc_watch"}
      /\ FunctionOf("uc_allocate") = "allocate_uncacheable_page" /\ FunctionOf("uc_paddr") = "get_mmap_paddr"
      /\ FunctionOf("perf_allocate") = "allocate_perf_page" /\ FunctionOf("specs") = "get_device_specs"
      /\ FunctionOf("job") = "write_command_to_device"
  BY DEF MInv, Waiting, FunctionOf
<1>l. ASSUME NEW v, local' = [local EXCEPT ![m] = v]
      PROVE  \A n \in Managers \ {m} : local'[n] = local[n]
  BY <1>0, <1>l DEF MTypeOK
<1>1. CASE UCPageAllocated(m)
  <2>1. /\ stage[m] = "uc_paddr" \/ stage[m] = "uc_allocate"
        /\ CallThen(m, "uc_paddr", FunctionOf("uc_paddr"), local[m].id, NoCommand)
        /\ UNCHANGED <<memory, unwatched>> /\ \A n \in Managers \ {m} : local'[n] = local[n]
    BY <1>0, <1>1 DEF UCPageAllocated, Returned, MTypeOK
  <2> QED BY <1>0, <2>1, CallQuiet
<1>2. CASE UCPageFails(m) \/ PerfPageFails(m)
  BY <1>0, <1>2, ExitQuiet DEF UCPageFails, PerfPageFails, Returned, Abort
<1>3. CASE PerfPageReady(m)
  <2>1. /\ stage[m] = "perf_allocate" /\ Resume(ProcessOf[m]) /\ Answer(m, perfPtr'[m])
        /\ UNCHANGED <<ucPtr, unwatched>> /\ touched \subseteq touched'
    BY <1>3 DEF PerfPageReady, Returned, Touch
  <2> QED BY <1>0, <2>1, BackQuiet
<1>4. CASE MethodReturns(m)
  BY <1>0, <1>4, BackQuiet DEF MethodReturns, Returned, memory
<1>5. CASE GetPerfPage(m)
  <2>1. /\ stage[m] = "ready" /\ pc[ProcessOf[m]] = "idle"
        /\ CallThen(m, "perf_allocate", FunctionOf("perf_allocate"), 0, NoCommand)
        /\ UNCHANGED <<memory, unwatched>> /\ \A n \in Managers \ {m} : local'[n] = local[n]
    BY <1>0, <1>5 DEF GetPerfPage, Ready
  <2> QED BY <1>0, <2>1, CallQuiet
<1>6. CASE GetDevicePrefetcherSpecs(m)
  <2>1. /\ stage[m] = "ready" /\ pc[ProcessOf[m]] = "idle"
        /\ CallThen(m, "specs", FunctionOf("specs"), 0, NoCommand)
        /\ UNCHANGED <<memory, unwatched>> /\ \A n \in Managers \ {m} : local'[n] = local[n]
    BY <1>0, <1>6 DEF GetDevicePrefetcherSpecs, Ready
  <2> QED BY <1>0, <2>1, CallQuiet
<1>7. ASSUME NEW id \in MmapIds, GetUCPage(m, id) PROVE Quiet(m)
  <2>1. /\ stage[m] = "ready" /\ pc[ProcessOf[m]] = "idle"
        /\ CallThen(m, "uc_allocate", FunctionOf("uc_allocate"), id, NoCommand)
        /\ UNCHANGED <<memory, unwatched>> /\ \A n \in Managers \ {m} : local'[n] = local[n]
    BY <1>0, <1>l, <1>7 DEF GetUCPage, Ready
  <2> QED BY <1>0, <2>1, CallQuiet
<1>8. ASSUME NEW j \in JobDescriptors, SendJob(m, j) PROVE Quiet(m)
  <2>1. /\ stage[m] = "ready" /\ pc[ProcessOf[m]] = "idle"
        /\ CallThen(m, "job", FunctionOf("job"), 0, JobCommand(j))
        /\ UNCHANGED <<memory, unwatched>> /\ \A n \in Managers \ {m} : local'[n] = local[n]
    BY <1>0, <1>8 DEF SendJob, Ready
  <2>2. JobCommand(j).type = "SEND_JOB_DESCRIPTOR"
    BY DEF JobCommand
  <2> QED BY <1>0, <2>1, <2>2, CallQuiet
<1> QED BY <1>1, <1>2, <1>3, <1>4, <1>5, <1>6, <1>7, <1>8

-----------------------------------------------------------------------------
(* A system call: the device may take the command of a range, or of a job. *)
LEMMA TakenFacts ==
    ASSUME log \in Seq(Frame), NEW command, log' = Append(log, command), NEW page
    PROVE  /\ DOMAIN log \subseteq DOMAIN log'
           /\ command.type # "ADD_WATCH_RANGE" \/ command.body # page => Watches(page)' = Watches(page)
           /\ command.type = "ADD_WATCH_RANGE" /\ command.body = page =>
                 Watches(page)' = Watches(page) \cup {Len(log) + 1} /\ Len(log) + 1 \in DOMAIN log'
<1>1. /\ DOMAIN log = 1 .. Len(log) /\ DOMAIN log' = 1 .. Len(log) + 1 /\ Len(log) \in Nat
      /\ \A k \in DOMAIN log : log'[k] = log[k]
      /\ log'[Len(log) + 1] = command
  OBVIOUS
<1>2. DOMAIN log' = DOMAIN log \cup {Len(log) + 1}
  BY <1>1
<1> QED BY <1>1, <1>2 DEF Watches

LEMMA LowLevelWatchInv ==
    ASSUME OneHeader, MInv, WatchInv, NEW m \in Managers, LowLevelStep(m)
    PROVE  WatchInv'
<1> DEFINE c == ProcessOf[m]
<1>p. PICK id : id = local[m].id
  OBVIOUS
<1>0. /\ CallsInv /\ MTypeOK /\ ThreadInv /\ LocalInv /\ c \in Clients
      /\ HeaderInv /\ CommandsInv /\ SeenInv /\ TouchedInv /\ OutcomesInv
      /\ log \in Seq(Frame)
  BY ManagerFacts DEF MInv, WatchInv, CallsInv
<1>1. /\ stage[m] \in Waiting /\ Syscall(c) /\ UNCHANGED <<local, answer, memory, unwatched>>
      /\ stage' = IF pc'[c] = "exited" THEN AllExited(m) ELSE stage
  BY DEF LowLevelStep
<1>2. /\ \A e \in Clients \ {c} : /\ pc'[e] = pc[e] /\ verdict'[e] = verdict[e] /\ out'[e] = out[e]
                                  /\ mapped'[e] = mapped[e] /\ nextPage'[e] = nextPage[e]
      /\ call' = call /\ pc[c] \in InProgress \cup {"open"}
  BY <1>0, <1>1, SyscallPages
<1>3. HeaderInv' /\ (NothingTaken(c) \/ CommandTaken(c))
  BY <1>0, <1>1, SyscallTakes
<1>4. Others(c)
  <2>1. \A n \in Managers : ProcessOf[n] # c => stage'[n] = stage[n]
    BY <1>1 DEF AllExited
  <2> QED BY <1>1, <1>2, <2>1 DEF Others
<1>5. MapsKept /\ \A e, i : Knows(e, i)' => Knows(e, i)
  <2>1. \A e \in Clients : pc'[e] # "exited" => pc[e] # "exited"
    BY <1>2 DEF InProgress
  <2> QED BY <1>1, <2>1, MemoryKept DEF memory
<1>6. pc'[c] # "exited" => stage' = stage
  BY <1>1
<1>7. CommandsInv'
  <2>1. \A n \in Managers : ProcessOf[n] = c => stage'[n] = stage[n] \/ stage'[n] = "exited"
    BY <1>1 DEF AllExited
  <2>2. \A n \in Managers : ProcessOf[n] = c =>
              /\ stage'[n] = "uc_watch" => call'[c].command = WatchCommand(AddressOf(c, local'[n].id))
              /\ stage'[n] = "job" => call'[c].command.type = "SEND_JOB_DESCRIPTOR"
    BY <1>0, <1>1, <1>2, <2>1 DEF CommandsInv
  <2> QED BY <1>0, <1>4, <2>2, CommandsKept
<1>8. TouchedInv'
  BY <1>0, <1>1, <1>5 DEF TouchedInv, memory, AddressOf, PageOf
<1>9. ~ Told(c) /\ \A i : Watching(c, i) => stage[m] = "uc_watch" /\ i = id
  <2>1. ~ Told(c)
    BY <1>2 DEF Told, InProgress
  <2>2. "uc_watch" \in Waiting
    BY DEF Waiting
  <2> QED BY <1>p, <1>0, <1>1, <2>1, <2>2 DEF Watching, ThreadInv
<1>10. \A i : pc'[c] # "exited" => (Watching(c, i)' <=> Watching(c, i))
  BY <1>1, <1>6 DEF Watching
<1>11. ASSUME \A p : Watches(p)' = Watches(p), DOMAIN log \subseteq DOMAIN log',
              stage[m] = "uc_watch" => ~ Told(c)'
       PROVE  SeenInv' /\ OutcomesInv'
  <2>1. SeenInv'
    BY <1>0, <1>1, <1>5, <1>11, KeptFacts DEF SeenInv, AddressOf, PageOf
  <2>2. \A e \in Clients : \A i : pc'[e] # "exited" => Undisturbed(e, i)
    <3> SUFFICES ASSUME NEW e \in Clients, NEW i, pc'[e] # "exited"
                 PROVE  (Watching(e, i)' <=> Watching(e, i)) /\ (Watching(e, i) => (Told(e)' <=> Told(e)))
      BY <1>1, <1>11 DEF Undisturbed, AddressOf, PageOf
    <3> QED BY <1>0, <1>4, <1>9, <1>10, <1>11, OthersUndisturbed
  <2>3. OutcomesInv'
    <3> SUFFICES ASSUME NEW e \in Clients, pc'[e] # "exited", OnePagePerId(e)', NEW i, Knows(e, i)'
                 PROVE  Outcome(e, i)'
      BY DEF OutcomesInv
    <3>1. pc[e] # "exited" /\ OnePagePerId(e) /\ Knows(e, i)
      BY <1>5, KeptFacts DEF MapsKept
    <3>2. Outcome(e, i)
      BY <1>0, <3>1 DEF OutcomesInv
    <3> QED BY <1>11, <2>2, <3>2, OutcomeKept
  <2> QED BY <2>1, <2>3
<1>12. CASE NothingTaken(c)
  <2>1. stage[m] = "uc_watch" => call[c].fn = "write_command_to_device"
    BY <1>0, <1>1 DEF ThreadInv, FunctionOf
  <2>2. \A p : Watches(p)' = Watches(p)
    BY <1>12 DEF NothingTaken, Watches
  <2> QED BY <1>3, <1>7, <1>8, <1>11, <1>12, <2>1, <2>2 DEF NothingTaken, Told, WatchInv
<1>13. CASE CommandTaken(c)
  <2>1. /\ log' = Append(log, call[c].command) /\ call[c].fn = "write_command_to_device"
        /\ pc'[c] = "returned" /\ verdict'[c] /\ Told(c)'
    BY <1>13 DEF CommandTaken, Told
  <2>2. stage[m] \in {"uc_watch", "job"}
    BY <1>0, <1>1, <2>1 DEF ThreadInv, FunctionOf, Waiting
  <2>3. DOMAIN log \subseteq DOMAIN log'
    BY <1>0, <2>1, TakenFacts
  <2>4. CASE stage[m] = "job"
    <3>1. call[c].command.type # "ADD_WATCH_RANGE"
      BY <1>0, <2>4 DEF CommandsInv
    <3>2. \A p : Watches(p)' = Watches(p)
      BY <1>0, <2>1, <3>1, TakenFacts
    <3> QED BY <1>3, <1>7, <1>8, <1>11, <2>3, <2>4, <3>2 DEF WatchInv
  <2>5. CASE stage[m] = "uc_watch"
    <3>1. /\ call[c].command.type = "ADD_WATCH_RANGE"
          /\ call[c].command.body = AddressOf(c, id)
      <4>1. call[c].command = WatchCommand(AddressOf(c, id))
        BY <1>p, <1>0, <2>5 DEF CommandsInv
      <4>2. \A p : WatchCommand(p).type = "ADD_WATCH_RANGE" /\ WatchCommand(p).body = p
        BY DEF WatchCommand
      <4> QED BY <4>1, <4>2
    <3>2. \A p : p # AddressOf(c, id) => Watches(p)' = Watches(p)
      BY <1>0, <2>1, <3>1, TakenFacts
    <3>3. /\ Watches(AddressOf(c, id))' = Watches(AddressOf(c, id)) \cup {Len(log) + 1}
          /\ Len(log) + 1 \in DOMAIN log'
      <4>1. \A p : p = AddressOf(c, id) => /\ Watches(p)' = Watches(p) \cup {Len(log) + 1}
                                           /\ Len(log) + 1 \in DOMAIN log'
        BY <1>0, <2>1, <3>1, TakenFacts
      <4> QED BY <1>1, <4>1 DEF AddressOf, PageOf
    <3>4. Knows(c, id) /\ Watching(c, id)
      BY <1>p, <1>0, <2>5 DEF LocalInv, LocalsOf, Knows, Watching
    <3>5. SeenInv'
      <4> SUFFICES ASSUME NEW p, Watches(p)' # {} \/ p \in unwatched'
                   PROVE  \E e \in Clients : \E i : Knows(e, i)' /\ p = AddressOf(e, i)
        BY DEF SeenInv, AddressOf, PageOf
      <4> QED BY <1>0, <1>1, <1>5, <3>2, <3>4, KeptFacts DEF SeenInv
    <3>6. pc'[c] # "exited" /\ OnePagePerId(c)' /\ Knows(c, id)' => Outcome(c, id)'
      <4> SUFFICES ASSUME OnePagePerId(c)', pc'[c] # "exited" PROVE Outcome(c, id)'
        OBVIOUS
      <4>1. OnePagePerId(c) /\ pc[c] # "exited"
        BY <1>0, <1>5, KeptFacts DEF MapsKept
      <4>2. AddressOf(c, id) \notin unwatched /\ Watches(AddressOf(c, id)) = {}
        BY <1>0, <1>9, <3>4, <4>1 DEF OutcomesInv, Outcome
      <4>3. WatchedOnce(AddressOf(c, id))'
        BY <3>3, <4>2 DEF WatchedOnce, AddressOf, PageOf
      <4>4. Watching(c, id)' /\ Told(c)' /\ AddressOf(c, id)' \notin unwatched'
        BY <1>1, <1>10, <2>1, <3>4, <4>2 DEF AddressOf, PageOf, Watching
      <4> QED BY <4>3, <4>4 DEF Outcome
    <3>7. \A e \in Clients : \A i : pc'[e] # "exited" /\ (e # c \/ i # id) =>
              (Knows(e, i)' => Knows(e, i)) /\ Undisturbed(e, i)
      <4> SUFFICES ASSUME NEW e \in Clients, NEW i, pc'[e] # "exited", e # c \/ i # id
                   PROVE  Undisturbed(e, i)
        BY <1>5
      <4>1. AddressOf(e, i) # AddressOf(c, id)
        BY AddressFacts
      <4>2. Watches(AddressOf(e, i))' = Watches(AddressOf(e, i)) /\ unwatched' = unwatched
        BY <1>1, <3>2, <4>1 DEF AddressOf, PageOf
      <4>3. (Watching(e, i)' <=> Watching(e, i)) /\ (Watching(e, i) => (Told(e)' <=> Told(e)))
        BY <1>0, <1>4, <1>9, <1>10, OthersUndisturbed
      <4> QED BY <4>2, <4>3 DEF Undisturbed, AddressOf, PageOf
    <3>8. OutcomesInv'
      <4> HIDE DEF c
      <4> QED BY <1>0, <1>5, <2>3, <3>6, <3>7, OutcomesKept
    <3> QED BY <1>3, <1>7, <1>8, <3>5, <3>8 DEF WatchInv
  <2> QED BY <2>2, <2>4, <2>5
<1> QED BY <1>3, <1>12, <1>13

(* An id gets its page: the device has not heard of its range, unless      *)
(* another manager had got a page for it before.                           *)
LEMMA AddressedWatchInv ==
    ASSUME MInv, MInv', WatchInv, NEW m \in Managers, UCPageAddressed(m)
    PROVE  WatchInv'
<1> DEFINE c == ProcessOf[m]
           p == PageOf(c, "uc", nextPage[c]["uc"] - 1)
<1>p. PICK id : id = local[m].id
  OBVIOUS
<1>0. /\ MTypeOK /\ ThreadInv /\ EntriesInv /\ PagesInv' /\ c \in Clients
      /\ HeaderInv /\ CommandsInv /\ SeenInv /\ TouchedInv /\ OutcomesInv
  BY ManagerFacts DEF MInv, WatchInv, PagesInv
<1>1. /\ stage[m] = "uc_paddr" /\ Getting(c)
      /\ id \in MmapIds \ DOMAIN ucPtr[m]
      /\ AddressOf(c, id) \in Page /\ p \in Page /\ nextPage[c]["uc"] > 0
      /\ ucPtr' = [ucPtr EXCEPT ![m] = Put(ucPtr[m], id, p)]
      /\ touched' = touched \cup {p} /\ UNCHANGED <<local, unwatched>>
      /\ CallThen(m, "uc_watch", FunctionOf("uc_watch"), 0, WatchCommand(AddressOf(c, id)))
      /\ Others(c) /\ pc'[c] = "open" /\ pc[c] # "exited"
      /\ call'[c] = [fn |-> "write_command_to_device", id |-> 0, command |-> WatchCommand(AddressOf(c, id))]
      /\ stage'[m] = "uc_watch" /\ \A n \in Managers \ {m} : stage'[n] = stage[n]
  BY <1>p, AddressedFacts DEF AddressOf
<1>2. UNCHANGED <<log, header>>
  BY <1>1 DEF CallThen, Enter, driver
<1>3. /\ ucPtr'[m] = Put(ucPtr[m], id, p) /\ \A n \in Managers \ {m} : ucPtr'[n] = ucPtr[n]
      /\ ucPtr'[m][id] = p /\ Has(m, id)' /\ ~ Has(m, id)
  <2>1. ucPtr'[m] = Put(ucPtr[m], id, p) /\ \A n \in Managers \ {m} : ucPtr'[n] = ucPtr[n]
    BY <1>0, <1>1 DEF MTypeOK
  <2> HIDE DEF p
  <2> QED BY <1>1, <2>1, PageAssumption DEF Put, Has
<1>4. /\ \A n \in Managers : \A i : Has(n, i) => Has(n, i)' /\ ucPtr'[n][i] = ucPtr[n][i]
      /\ \A n \in Managers : \A i : Has(n, i)' => Has(n, i) \/ (n = m /\ i = id)
  <2> HIDE DEF p
  <2>1. \A i \in DOMAIN ucPtr[m] : i # id /\ i \in DOMAIN ucPtr'[m] /\ ucPtr'[m][i] = ucPtr[m][i]
    BY <1>1, <1>3 DEF Put
  <2>2. \A i \in DOMAIN ucPtr'[m] : i = id \/ i \in DOMAIN ucPtr[m]
    BY <1>1, <1>3 DEF Put
  <2> QED BY <1>3, <2>1, <2>2 DEF Has
<1>5. MapsKept /\ \A e, i : Knows(e, i)' => Knows(e, i) \/ (e = c /\ i = id)
  <2>1. \A e \in Clients : pc'[e] # "exited" => pc[e] # "exited"
    BY <1>1 DEF Others
  <2> QED BY <1>1, <1>4, <2>1 DEF MapsKept, Knows
<1>6. \A q : Watches(q)' = Watches(q)
  BY <1>2 DEF Watches
<1>7. HeaderInv'
  BY <1>0, <1>1, <1>2, HeadersKept DEF Others
<1>8. CommandsInv'
  <2>1. \A n \in Managers \ {m} : ProcessOf[n] = c => stage'[n] \notin {"uc_watch", "job"}
    BY <1>0, <1>1, OneWaits DEF Siblings, Waiting
  <2>2. \A n \in Managers : ProcessOf[n] = c =>
              /\ stage'[n] = "uc_watch" => call'[c].command = WatchCommand(AddressOf(c, local'[n].id))
              /\ stage'[n] = "job" => call'[c].command.type = "SEND_JOB_DESCRIPTOR"
    BY <1>p, <1>1, <2>1
  <2> QED BY <1>0, <1>1, <2>2, CommandsKept
<1>9. SeenInv'
  <2> SUFFICES ASSUME NEW q, Watches(q)' # {} \/ q \in unwatched'
               PROVE  \E e \in Clients : \E i : Knows(e, i)' /\ q = AddressOf(e, i)
    BY DEF SeenInv, AddressOf, PageOf
  <2> QED BY <1>0, <1>1, <1>5, <1>6, KeptFacts DEF SeenInv
<1>10. AddressOf(c, id) \in touched'
  <2>1. Registered(m, id)' /\ NoneForgotten' /\ EntriesInv'
    BY <1>0, <1>3 DEF PagesInv, EntriesInv, Has
  <2>2. id \in 0 .. Known(c)' - 1
    BY <2>1 DEF Registered
  <2>3. PICK n \in Managers : ProcessOf[n] = c /\ \E i \in DOMAIN ucPtr'[n] : ucPtr'[n][i] = AddressOf(c, id)
    BY <1>0, <1>1, <2>1, <2>2 DEF NoneForgotten, AddressOf
  <2>4. PICK i \in DOMAIN ucPtr'[n] : ucPtr'[n][i] = AddressOf(c, id)
    BY <2>3
  <2>5. ucPtr'[n][i] # NoPage
    BY <1>1, <2>4, PageAssumption
  <2>6. ucPtr'[n][i] \in touched'
    BY <2>1, <2>5 DEF EntriesInv, Registered
  <2> QED BY <2>4, <2>6
<1>11. TouchedInv'
  <2> SUFFICES ASSUME NEW e \in Clients, NEW i, Knows(e, i)' PROVE AddressOf(e, i) \in touched'
    BY DEF TouchedInv, AddressOf, PageOf
  <2> QED BY <1>0, <1>5, <1>10 DEF TouchedInv, MapsKept
<1>12. \A i : Watching(c, i)' <=> i = id
  <2>1. \A n \in Managers \ {m} : ProcessOf[n] = c => stage'[n] # "uc_watch"
    BY <1>0, <1>1, OneWaits DEF Siblings, Waiting
  <2> QED BY <1>p, <1>1, <2>1 DEF Watching
<1>13. pc'[c] # "exited" /\ OnePagePerId(c)' /\ Knows(c, id)' => Outcome(c, id)'
  <2> SUFFICES ASSUME OnePagePerId(c)' PROVE Outcome(c, id)'
    OBVIOUS
  <2>1. ~ Knows(c, id)
    <3> SUFFICES ASSUME NEW n \in Managers, ProcessOf[n] = c, Has(n, id) PROVE FALSE
      BY DEF Knows
    <3>1. n # m /\ Has(n, id)' /\ ucPtr'[n][id] = ucPtr[n][id]
      BY <1>3, <1>4
    <3>2. ucPtr[n][id] = p
      BY <1>1, <1>3, <3>1 DEF OnePagePerId
    <3>3. PICK k \in 0 .. Known(c) - 1 : ucPtr[n][id] = PageOf(c, "uc", k)
      BY <1>0, HasFacts DEF Registered
    <3>4. Known(c) = nextPage[c]["uc"] - 1 /\ nextPage[c]["uc"] \in Nat
      BY <1>0, <1>1, ManagerFacts DEF Known
    <3>5. k = nextPage[c]["uc"] - 1
      <4>1. PageOf(c, "uc", k).number = p.number
        BY <3>2, <3>3
      <4> QED BY <4>1, PageFacts
    <3> QED BY <3>3, <3>4, <3>5
  <2>2. Watches(AddressOf(c, id)) = {} /\ AddressOf(c, id) \notin unwatched
    BY <1>0, <2>1, AddressFacts DEF SeenInv
  <2>3. ~ Told(c)'
    BY <1>1 DEF Told
  <2>4. Watches(AddressOf(c, id))' = {} /\ AddressOf(c, id)' \notin unwatched'
    BY <1>1, <1>6, <2>2 DEF AddressOf, PageOf
  <2> QED BY <1>12, <2>3, <2>4 DEF Outcome
<1>14. \A e \in Clients : \A i : pc'[e] # "exited" /\ (e # c \/ i # id) =>
          (Knows(e, i)' => Knows(e, i)) /\ Undisturbed(e, i)
  <2> SUFFICES ASSUME NEW e \in Clients, NEW i, e # c \/ i # id PROVE Undisturbed(e, i)
    BY <1>5
  <2>1. Watches(AddressOf(e, i))' = Watches(AddressOf(e, i)) /\ unwatched' = unwatched
    BY <1>1, <1>6 DEF AddressOf, PageOf
  <2>2. \A k : ~ Watching(c, k)
    BY <1>0, <1>1, OneWaits DEF Watching, Siblings, Waiting
  <2>3. (Watching(e, i)' <=> Watching(e, i)) /\ (Watching(e, i) => (Told(e)' <=> Told(e)))
    BY <1>0, <1>1, <1>12, <2>2, OthersUndisturbed
  <2> QED BY <2>1, <2>3 DEF Undisturbed, AddressOf, PageOf
<1>15. OutcomesInv'
  <2>1. DOMAIN log \subseteq DOMAIN log'
    BY <1>2
  <2> HIDE DEF c
  <2> QED BY <1>0, <1>5, <1>13, <1>14, <2>1, OutcomesKept
<1> QED BY <1>7, <1>8, <1>9, <1>11, <1>15 DEF WatchInv

(* The answer to the command of a range is lost with the method's return;  *)
(* the history keeps it.                                                   *)
LEMMA ReadyWatchInv ==
    ASSUME MInv, WatchInv, NEW m \in Managers, UCPageReady(m)
    PROVE  WatchInv'
<1> DEFINE c == ProcessOf[m]
<1>p. PICK id : id = local[m].id
  OBVIOUS
<1>0. /\ MTypeOK /\ ThreadInv /\ AnswerInv /\ LocalInv /\ EntriesInv /\ c \in Clients
      /\ HeaderInv /\ CommandsInv /\ SeenInv /\ TouchedInv /\ OutcomesInv
      /\ "uc_watch" \in Waiting /\ "job" \in Waiting /\ "ready" \notin Waiting
  BY ManagerFacts DEF MInv, WatchInv, PagesInv, Waiting
<1>1. /\ stage[m] = "uc_watch" /\ pc[c] = "returned" /\ Resume(c)
      /\ unwatched' = IF verdict[c] THEN unwatched ELSE unwatched \cup {ucPaddr[m][id]}
      /\ UNCHANGED memory /\ Answer(m, ucPtr[m][id])
  BY <1>p DEF UCPageReady, Returned
<1>2. /\ stage' = [stage EXCEPT ![m] = "ready"] /\ stage'[m] = "ready"
      /\ \A n \in Managers \ {m} : stage'[n] = stage[n] /\ local'[n] = local[n]
  BY <1>0, <1>1 DEF Answer, MTypeOK
<1>3. Others(c) /\ pc'[c] = "idle" /\ UNCHANGED <<log, header>>
  BY <1>0, <1>1, <1>2, ResumeFacts DEF Resume, driver
<1>4. Has(m, id) /\ ucPaddr[m][id] = AddressOf(c, id) /\ Knows(c, id)
  <2>1. Has(m, id)
    BY <1>p, <1>0, <1>1 DEF LocalInv, LocalsOf
  <2> QED BY <1>0, <2>1, HasFacts DEF Registered, AddressOf, Knows
<1>5. MapsKept /\ \A e, i : Knows(e, i)' => Knows(e, i)
  <2>1. \A e \in Clients : pc'[e] # "exited" => pc[e] # "exited"
    BY <1>1, <1>3 DEF Others
  <2> QED BY <1>1, <2>1, MemoryKept DEF memory
<1>6. \A q : Watches(q)' = Watches(q)
  BY <1>3 DEF Watches
<1>7. HeaderInv'
  BY <1>0, <1>3, HeadersKept DEF Others
<1>8. \A n \in Managers : ProcessOf[n] = c => /\ stage'[n] \notin {"uc_watch", "job"}
                                              /\ stage[n] = "uc_watch" => n = m
  BY <1>0, <1>1, <1>2, OneWaits DEF Siblings
<1>9. CommandsInv'
  BY <1>0, <1>3, <1>8, CommandsKept
<1>10. SeenInv'
  <2> SUFFICES ASSUME NEW q, Watches(q)' # {} \/ q \in unwatched'
               PROVE  \E e \in Clients : \E i : Knows(e, i)' /\ q = AddressOf(e, i)
    BY DEF SeenInv, AddressOf, PageOf
  <2> QED BY <1>0, <1>1, <1>4, <1>5, <1>6, KeptFacts DEF SeenInv
<1>11. TouchedInv'
  BY <1>0, <1>1, <1>5 DEF TouchedInv, memory, AddressOf, PageOf
<1>12. /\ \A i : Watching(c, i) <=> i = id
       /\ \A i : ~ Watching(c, i)'
  BY <1>p, <1>1, <1>8 DEF Watching
<1>13. pc'[c] # "exited" /\ OnePagePerId(c)' /\ Knows(c, id)' => Outcome(c, id)'
  <2> SUFFICES ASSUME OnePagePerId(c)' PROVE Outcome(c, id)'
    OBVIOUS
  <2>1. OnePagePerId(c) /\ pc[c] # "exited"
    BY <1>1, <1>5, KeptFacts
  <2>2. /\ AddressOf(c, id) \notin unwatched
        /\ IF verdict[c] THEN WatchedOnce(AddressOf(c, id)) ELSE Watches(AddressOf(c, id)) = {}
    BY <1>0, <1>1, <1>4, <1>12, <2>1 DEF OutcomesInv, Outcome, Told
  <2>3. CASE verdict[c]
    <3>1. WatchedOnce(AddressOf(c, id))' /\ AddressOf(c, id)' \notin unwatched'
      BY <1>1, <1>3, <1>6, <2>2, <2>3 DEF WatchedOnce, AddressOf, PageOf
    <3> QED BY <1>12, <3>1 DEF Outcome
  <2>4. CASE ~ verdict[c]
    <3>1. Watches(AddressOf(c, id))' = {} /\ AddressOf(c, id)' \in unwatched'
      BY <1>1, <1>4, <1>6, <2>2, <2>4 DEF AddressOf, PageOf
    <3> QED BY <1>12, <3>1 DEF Outcome
  <2> QED BY <2>3, <2>4
<1>14. \A e \in Clients : \A i : pc'[e] # "exited" /\ (e # c \/ i # id) =>
          (Knows(e, i)' => Knows(e, i)) /\ Undisturbed(e, i)
  <2> SUFFICES ASSUME NEW e \in Clients, NEW i, e # c \/ i # id PROVE Undisturbed(e, i)
    BY <1>5
  <2>1. AddressOf(e, i) # AddressOf(c, id)
    BY AddressFacts
  <2>2. /\ Watches(AddressOf(e, i))' = Watches(AddressOf(e, i))
        /\ AddressOf(e, i) \in unwatched' <=> AddressOf(e, i) \in unwatched
    BY <1>1, <1>4, <1>6, <2>1 DEF AddressOf, PageOf
  <2>3. (Watching(e, i)' <=> Watching(e, i)) /\ (Watching(e, i) => (Told(e)' <=> Told(e)))
    BY <1>0, <1>3, <1>12, OthersUndisturbed
  <2> QED BY <2>2, <2>3 DEF Undisturbed, AddressOf, PageOf
<1>15. OutcomesInv'
  <2>1. DOMAIN log \subseteq DOMAIN log'
    BY <1>3
  <2> HIDE DEF c
  <2> QED BY <1>0, <1>5, <1>13, <1>14, <2>1, OutcomesKept
<1> QED BY <1>7, <1>9, <1>10, <1>11, <1>15 DEF WatchInv

-----------------------------------------------------------------------------
LEMMA InitWatchInv == MInit => WatchInv
<1> SUFFICES ASSUME MInit PROVE WatchInv
  OBVIOUS
<1>1. HeaderInv
  BY DEF MInit, LInit, HeaderInv
<1>2. CommandsInv
  BY DEF MInit, CommandsInv
<1>3. \A c, id : ~ Knows(c, id)
  BY DEF MInit, Knows, Has
<1>4. SeenInv
  BY DEF MInit, LInit, SeenInv, Watches
<1> QED BY <1>1, <1>2, <1>3, <1>4 DEF WatchInv, TouchedInv, OutcomesInv

LEMMA NextWatchInv ==
    ASSUME OneHeader, MInv, MInv', WatchInv, [MNext]_vars
    PROVE  WatchInv'
<1>0. MTypeOK
  BY DEF MInv
<1>1. ASSUME NEW m \in Managers, Progress(m) PROVE WatchInv'
  BY <1>0, <1>1, LowLevelWatchInv, AddressedWatchInv, ReadyWatchInv, MethodStepsQuiet, QuietWatchInv
     DEF Progress
<1>2. ASSUME NEW m \in Managers,
             \/ Construct(m) \/ Destroy(m) \/ \E n \in Managers : Copy(m, n)
             \/ \E id \in MmapIds : GetCachedUCPage(m, id) \/ GetUCPage(m, id)
             \/ GetCachedPerfPage(m) \/ GetPerfPage(m) \/ GetDevicePrefetcherSpecs(m)
             \/ \E j \in JobDescriptors : SendJob(m, j)
      PROVE  WatchInv'
  BY <1>0, <1>2, IdleStepsQuiet, CopyQuiet, MethodStepsQuiet, QuietWatchInv
<1>3. CASE UNCHANGED vars
  <2>1. UNCHANGED <<lvars, stage, local, memory, unwatched>>
    BY <1>3 DEF vars, mvars, memory
  <2>2. HeaderInv' /\ CommandsInv'
    BY <2>1 DEF WatchInv, HeaderInv, Slot, CommandsInv, lvars, AddressOf, PageOf, WatchCommand
  <2>3. /\ \A p : Watches(p)' = Watches(p)
        /\ \A c, id : /\ Knows(c, id)' <=> Knows(c, id)
                      /\ Watching(c, id)' <=> Watching(c, id)
        /\ \A c : (Told(c)' <=> Told(c)) /\ (OnePagePerId(c)' <=> OnePagePerId(c))
    BY <2>1 DEF Watches, Knows, Has, Watching, Told, OnePagePerId, lvars, memory
  <2>4. SeenInv' /\ TouchedInv'
    BY <2>1, <2>3 DEF WatchInv, SeenInv, TouchedInv, memory, AddressOf, PageOf
  <2>5. \A c, id : Undisturbed(c, id)
    BY <2>1, <2>3 DEF Undisturbed, AddressOf, PageOf
  <2>6. OutcomesInv'
    BY <2>1, <2>3, <2>5, OutcomeKept DEF WatchInv, OutcomesInv, lvars
  <2> QED BY <2>2, <2>4, <2>6 DEF WatchInv
<1> QED BY <1>1, <1>2, <1>3 DEF MNext

LEMMA WatchSuffices ==
    ASSUME MInv, WatchInv PROVE WatchedOnceOrNever
<1>1. /\ ThreadInv /\ EntriesInv /\ NumberedById /\ SeenInv /\ TouchedInv /\ OutcomesInv
  BY DEF MInv, PagesInv, WatchInv
<1>2. \A page \in Page : Watches(page) # {} => page \in touched
  BY <1>1 DEF SeenInv, TouchedInv
<1>3. ASSUME NEW m \in Managers, Alive(m), OnePagePerId(ProcessOf[m]), NEW id \in DOMAIN ucPtr[m]
      PROVE  \/ \E n \in Siblings(m) : stage[n] = "uc_watch" /\ local[n].id = id
             \/ /\ ucPtr[m][id] \in unwatched
                /\ Watches(ucPtr[m][id]) = {}
             \/ /\ ucPtr[m][id] \notin unwatched
                /\ \E k \in DOMAIN log : Watches(ucPtr[m][id]) = {k}
  <2>1. ProcessOf[m] \in Clients /\ pc[ProcessOf[m]] # "exited" /\ stage[m] \notin {"destroyed", "exited"}
    BY <1>1, <1>3, ManagerAssumption DEF ThreadInv, Alive, Waiting
  <2>2. ucPtr[m][id] # NoPage
    <3>1. Registered(m, id)
      BY <1>1, <2>1 DEF EntriesInv
    <3>2. PICK k : ucPtr[m][id] = PageOf(ProcessOf[m], "uc", k) /\ k \in 0 .. Known(ProcessOf[m]) - 1
      BY <3>1 DEF Registered
    <3>3. PageOf(ProcessOf[m], "uc", k) \in Page
      <4>1. k \in 0 .. MaxPages
        BY <2>1, <3>2, LimitsAssumption, ManagerFacts DEF Known, MInv, Kind
      <4> QED BY <2>1, <4>1, PageFacts DEF Kind
    <3> QED BY <3>2, <3>3, PageAssumption
  <2>3. ucPtr[m][id] = AddressOf(ProcessOf[m], id)
    BY <1>1, <1>3, <2>1, <2>2 DEF NumberedById, AddressOf
  <2>4. Outcome(ProcessOf[m], id)
    BY <1>1, <1>3, <2>1, <2>2 DEF OutcomesInv, Knows, Has
  <2> QED BY <2>3, <2>4 DEF Outcome, Watching, Siblings, WatchedOnce
<1> QED BY <1>2, <1>3 DEF WatchedOnceOrNever

(* A page whose getUCPagePtr has returned is watched once, or its refusal  *)
(* went unnoticed and it never will be; and no range of a page that has    *)
(* not been faulted in is sent: where the header of a command is not       *)
(* overwritten by another process's (manager.cpp:39-60).                   *)
THEOREM WatchedOnceOrNeverCorrect ==
    ASSUME OneHeader PROVE MSpec => []WatchedOnceOrNever
<1>1. MInit => WatchInv
  BY InitWatchInv
<1>2. MInv /\ MInv' /\ WatchInv /\ [MNext]_vars => WatchInv'
  BY NextWatchInv
<1>3. MInv /\ WatchInv => WatchedOnceOrNever
  BY WatchSuffices
<1> QED BY <1>1, <1>2, <1>3, ManagerInvariant, PTL DEF MSpec
=============================================================================

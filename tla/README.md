# Verification of libpickledevice

libpickledevice is the user-space library of the Pickle prefetcher. An application describes its arrays and which array's
elements index which other array; the library sends that description (a *job*) to the device through the driver
`/dev/hey_pickle`, and gives the application pages that it shares with the device. The GAP-benchmark headers in
`src/include/graphs/gapbs` are the library's client code: graphs and vectors that carry array descriptors, and a frontier queue.

## 1. Inventory

| Part | State | Operations | Works with |
|---|---|---|---|
| `PickleArrayDescriptor` (`include/pickle_job.h:39-150`) | range, element size, access type, addressing mode, own id (0 until first use), id of the array it indexes; the static counter `nextID` | `getArrayId` assigns the id on first use | shared (`shared_ptr`) by vectors, graphs and jobs |
| `PickleJob` (`pickle_job.h:153-232`) | list of descriptors, rename map (id to position, -1 to -1), rename count | `addArrayDescriptor`, `changeAccessTypeByArrayId`, `changeAddressingModeByArrayId`, `getJobDescriptor`, `print` | reads the shared descriptors when it is *sent*, not when it is built |
| graph job wrapper (`wrapper.h`) | none | `createGraphJobUsingIncomingEdges`, `...OutgoingEdges` | builds a job from a graph's descriptors and two optional vectors; rewrites relations other jobs read |
| `CSRGraph` (`graph.h`) | index and neighbors arrays in two directions (the same arrays twice if undirected), counts, four descriptors | constructors, moves, `...IndexedBy`, degrees, neighborhoods, offsets, writers | owns its arrays; four shared descriptors |
| `pvector` (`pvector.h`) | storage, size, capacity, descriptor | constructors, moves, `reserve`, `resize`, `push_back`, `swap`, `leak`, `indexedBy` | owns its storage; the descriptor is set up at construction only |
| low-level calls (`src/pickle_device_low_level.cpp`) | none; each call opens the driver for itself | map a page, map the monitoring page, ask for their physical addresses, write a command, read the specs | the driver, other processes |
| `PickleDeviceManager` (`src/pickle_device_manager.cpp`) | id-to-pointer map, id-to-address map, monitoring page pointer | constructor and implicit copy, `getUCPagePtr`, `getPerfPagePtr`, `sendJob`, `getDevicePrefetcherSpecs`, destructor | one low-level call after another; other managers of the process |
| `SlidingQueue`, `QueueBuffer` (`sliding_queue.h`) | shared array, append position, window; per-thread buffer | `push_back`, `slide_window`, `reset`, `flush`; `fetch_and_add` from `platform_atomics.h` | threads of a parallel region |
| benchmark helpers (`benchmark.h`, `util.h`, `timer.h`) | generators, `TopK`'s list, timers | `PickNext`, `TopK`, printing | graphs, vectors |
| utilities, build, test (`pickle_utils.h`, `Makefile`, `tests`) | none | - | - |

What is hard here:

* **Order of calls.** Ids are assigned by whichever call uses an array first; relations and rename maps hold copies of ids; a
  job reads relations that later calls may have changed.
* **Sharing.** All jobs of a graph share its neighbors descriptor, which every new job of that graph points elsewhere.
* **Interleaving.** A command is two writes, and several processes share the device. Threads flush buffers into one array.
* **Partial failure.** Every system call of a method may fail; some failures return, some exit, one is ignored.
* **Copies.** A process may have several managers, made apart or copied: the driver numbers a process's pages, each manager those it
  asked for, and every destructor unmaps page 0.
* **Ownership.** Moves, growth and swaps move storage while descriptors keep the range they were given.

What makes each part correct:

* descriptors and jobs: ids identify arrays and never change; what the device reads is the chain of arrays that the
  application described, with ids 0, 1, 2, ...; a job with a relation that leaves it is refused;
* wrapper: a fresh job is the chain *selector -> index -> neighbors -> consumer*; building it changes only jobs that list the
  arrays it relates;
* low-level calls: true if and only if the effect happened; commands arrive whole and once; descriptors are closed or accounted for;
* manager: a pointer it hands out is mapped, faulted in, matches the address the device watches, and stays the same; methods end;
* end to end: each job the device takes is the chain that the job had when `sendJob` was called;
* queue: nothing is lost, nothing is seen early, writes stay inside the array and apart from each other;
* graph and vector: every array is freed once, descriptors describe live arrays of the right length; reading a
  graph reaches every neighbor once and nothing else;
* benchmark helpers: `PickNext` ends on every graph that has an edge; `TopK` returns the largest.

## 2. Modules

| Module | Models | State | Actions |
|---|---|---|---|
| `PickleJob` | descriptors and jobs | `heap` (all descriptors and `nextID`), `jobs` | `NewJob`, `AddArrayDescriptor`, `SetIndexedBy`, `ChangeAccessType`, `ChangeAddressingMode` |
| `IndexChains` | what a job promises, without ids (abstract) | `target`, `members`, `access`, `addressing`, `view` | `New`, `Add`, `Index`, `SetAccess`, `SetAddressing` |
| `GraphJob` (extends `PickleJob`) | the wrapper and the relations a graph constructs | and `built` | `ConstructGraph`, `CreateGraphJob`, `Relate`, `Extend` |
| `PickleDeviceLowLevel` | the six low-level functions | per process: `pc`, `call`, `verdict`, `out`, `fds`, `mapped`, `nextPage`; `at` per page; driver: `header`, `log` | one per system call (`Open`, `Mmap`, `IoctlPaddr`, `IoctlSpecs`, `WriteHeader`, `WriteBody`) and its failure (`OpenFails`, `SyscallFails`, `SpecsFails`), entry and return |
| `CommandChannel` | what `write_command_to_device` promises (abstract) | `state`, `wants`, `log` | `Begin`, `Take`, `Refuse`, `Answer` |
| `PickleDeviceManager` (extends `PickleDeviceLowLevel`) | the managers, several in a process | `stage`, `local`, the two maps, `perfPtr`, `touched`, `answer` | `Construct`, `Copy`, `Destroy`, and the code between two low-level calls of each method |
| `PrefetchClient` (`GraphJob` with `PickleDeviceLowLevel`) | an application that builds jobs and sends them | those of both | `Prepare`, `SendJob`, `OtherSends`, `LowLevelStep` |
| `PrefetchService` (`IndexChains` with `CommandChannel`) | what the library promises end to end (abstract) | those of both | `Construct`, `Build`, `Send`, `OthersSend`, `Deliver` |
| `SlidingQueue` | queue, buffers, parallel regions | the queue's four members, `local_queue`, `claim`, `copied`, `pending`, `region` | every operation; a flush is a claim, one step per element, and an end |
| `DoubleBuffer` | what the queue promises (abstract) | `window`, `next`, `held`, `since` | `Append`, `Hold`, `Publish`, `Slide`, `Reset` |
| `PVector` | a vector's storage and descriptor | `start`, `size`, `capacity`, `descriptor` per vector; `memory` of the blocks, `range` of the descriptors | constructors, moves, `Destroy`, `Leak`, `Reserve`, `Resize`, `PushBack`, `Clear`, `Write` (`operator[]`, `fill`), `Swap` |
| `VectorContents` | what a vector promises: a sequence (abstract) | `contents` | `Make`, `Move`, `Resize`, `PushBack`, `Fill`, `Write`, `Swap`, `Destroy` |
| `CSRGraph` | a graph's arrays and the ranges in its descriptors | `arrays`, `directed`, counts and `descriptor` per graph; `freed`, `length` of blocks, `range` of descriptors; `make_inverse`, the template parameter | constructors, moves, `Destroy` |
| `CSRIndex` | reading a graph: degrees, neighborhoods, offsets, index | none | none; operators |
| `Benchmark` (extends `CSRIndex`) | `SourcePicker` and `TopK` over a graph that may be saved and reloaded | `graph`, `source`, and `TopK`'s locals | `Reload`, `PickGiven`, `BeginPick`, `Draw`, `CallTopK`, `TakePair`, `ReturnTopK` |
| `JobProofs`, `PrefetchClientProofs`, `PickleDeviceLowLevelProofs`, `PickleDeviceManagerProofs`, `SlidingQueueProofs`, `PVectorProofs`, `CSRGraphProofs`, `BenchmarkProofs` | theorems, section 4 | | |
| `MC...` | a module for TLC with its instance's values and symmetry | | |

How they correspond to the code:

* **Descriptors are a heap.** Vectors, graphs and jobs hold pointers to the same descriptor, so each operation is an operator
  from heap to heap (`WithId` is `getArrayId`, `IndexedBy` is `indexedBy`), and a function that makes several calls, such as
  the wrapper, is the composition of their operators. The range and the element size of an array stand together as the array
  itself (`region` in a row). A job that is only being read (`getJobDescriptor`) is the operator `JobDescriptor`: `ok` is
  false where `at()` throws. `unassignedID` is 0 and -1ULL is -1; the counter would wrap after 2^64 arrays, which is left out.
* **`CountModulus`** stands for 2^8, the width of the count that precedes the rows.
* **System calls are steps.** `pc` is the system call a function makes next. `Enter` and `Resume` are call and return.
  `leaked` and `unwatched` (and `drifted`, `abandoned` of `PVector`) are history variables; nothing reads them but properties and the actions that write them.
* **`stage`** names the low-level call a method is waiting for. `exit()` is the stage `exited` of every manager of the process: descriptors and
  mappings are gone. `Copy` copies the maps and `perf_page_ptr`, as the compiler's copy constructor does. `Destroy` unmaps what is at the
  address of page 0 (`Munmapped`), which is another page if a copy's destructor has been there before and the address was used again.
* **Pointers** stand as the page that they were returned for. The number that the program holds is `at[page]`: `Mmap` puts a page at an address
  that is new or at any that `munmap` has freed (`Room`), and two pointers of a process are equal if their addresses are. A mapping has one address: that the
  monitoring page is two pages long, and partial overlaps with it, are abstracted.
* **`PrefetchClient`** has `sendJob` read the descriptors at the call, and the two writes follow; a job whose description throws is not sent.
* **Names ending in a description of a fault**, each after a comment "Mutant of ...", are not used by the specification. They
  are what a plausible bug would make of the definition that follows; each is known to break a property.

### Assumptions about what is not in the repository

The driver is external. What the model says of it is what the library relies on:

* the header written at offset 0 and the body written at offset 1 are joined into one command when the body arrives. Where the header waits is the
  constant `HeaderPerOpen`: in the open file, or in one slot for the device. The run `low_level` takes the first; with
  the second, two processes can exchange headers, and the library has nothing that prevents it. `manager` has one process and
  takes the second; `prefetch_client` takes the first;
* a failed or short write takes nothing, and any system call may fail at any time;
* a process's 4096-byte maps are numbered from 0 in the order they are made, and `mmap_id` in the request for an address is such a number. An id
  that does not exist yet makes the request fail, and the manager exits;
* a process may have several managers, constructed or copied at any time, and calls them from one thread.

The graph kernels are external too: they use the queue as GAP kernels do. Appends outside a region are made by one thread; a
thread flushes its buffer before it leaves the region; no element is appended twice between two resets.

Graph builders are external as well: an index array has one entry per node and one more, spanning the neighbors array, which holds every edge of
an undirected graph twice; what saves a graph and loads it at another address calls `VertexOffsets` and `GenIndex`. A graph has
at most 2^31 - 2 nodes, so that the loops that count in `NodeID`, a 32-bit `int`, up to `num_nodes_ + 1` do not overflow (`graph.h:300,311`); offsets are 64 bits wide. The random
generator of `SourcePicker` yields any vertex. A vector is not used after `leak()` except to be destroyed or assigned to, as `pvector.h:118-119` says of the builder.

## 3. Runs

| Run | Instance | Question |
|---|---|---|
| `pickle_job` | 3 arrays, 2 jobs of up to 4 entries together | Does every order of calls keep ids and rename maps in step, is the descriptor right, when is it refused, and do jobs that share arrays implement `IndexChains`? |
| `job_count` | 2 arrays, 1 job of 2 entries, a count modulo 2 (violation) | Is the count the number of rows, as `pickle_job.h:202` has it? |
| `duplicate_array` | 2 arrays, 1 job of 2 entries (violation) | Are the ids always contiguous, as `pickle_job.h:192` has it? |
| `graph_job` | 1 graph (4 arrays), 2 vectors, 1 job of up to 4 entries; the application relates the outgoing index array | When can a fresh graph job be sent, what does it say, what does it disturb? |
| `low_level` | 2 processes, 2 descriptors each, 1 page of a kind, 2 commands | Are commands whole and answered truthfully, and descriptors accounted for, with every failure and interleaving? |
| `manager` | 1 process, 2 managers, ids 0 and 1, 4 descriptors, 2 pages of a kind at new or freed addresses, 2 commands | When are pages usable, at the address the device was told, distinct, watched once, and do methods end? |
| `prefetch_client` | 1 graph, 1 vector, 2 jobs of the outgoing direction, 1 other process, 1 descriptor each, 2 commands | Does the device get, end to end, the chain each job had when it was sent? |
| `sliding_queue` | 2 threads, 4 elements, buffers of 2, array of 4 | Is the queue a double buffer that loses nothing? |
| `pvector` | 2 vectors, blocks of up to 2 elements, 3 blocks | Is every block owned once, are elements kept, does a descriptor follow its storage? |
| `csr_graph` | 3 graphs of up to 1 node and 1 edge, of a type with or without an inverse | Is every array freed once, and does a graph that has arrays have descriptors of them? |
| `benchmark` | every graph of 1 or 2 nodes with degrees 0, 1 and 3 at 2 addresses, every list of up to 3 of the values, k up to 2 | Do reads stay in the neighbors, does `TopK` return the largest, does `PickNext` end? |
| `undirected_count` | 1 graph (violation) | Does writing the neighbors find the number announced? |

Bounds, and why they suffice:

* three arrays and three entries give duplicates, relations inside and outside a job, cycles and self-relations, and chains of the length the
  wrapper builds; four entries over two jobs are a whole chain in one, with an array of the other, or two and two. The theorems
  of section 4 remove the bounds. `ChangeIds` has an id, which is in use by one of the jobs, by both or by none. `job_count` needs no more than one wrap of the count;
* in `graph_job` two vectors are enough for selector and consumer to be equal, different, or those of an earlier job;
  `Relatable` lets the application point an index array anywhere, as the getters of the descriptors allow; neighbors arrays are pointed at
  either vector by earlier jobs, and anywhere in the theorems. `MaxArrays` bounds what it adds to a job. The properties
  `FreshJobSendable`, `FreshJobIsChain` and `OtherJobsKept` quantify over every job that could be built in each reachable state, so `jobs` itself can be small;
* in `low_level` two processes are the fewest that interleave, with both allocators, both address requests, both commands and every failure; the
  descriptor limit is reached, and then `open` fails;
* in `manager` two managers of one process are enough for every disagreement between them: each gets its own page for an id, one is the copy of the other
  before or after it got a page, both are destroyed, or one after the other's page 0 is gone. Two pages let a page be mapped where another was unmapped.
  The last case of `PagesUsable`, two destructors at the address of a third manager's page, takes three managers: it is the theorem's, which has any number. Each of two ids can be asked for in any
  order, by either, and again. What a second process could change is the header, and `low_level` has that;
* in `prefetch_client` two jobs of one graph share its descriptors, so building the second rewrites relations of the first before or after it was sent; with one vector
  as selector, consumer, both or neither, jobs that throw occur. Two commands are the least that tell a job sent twice from two jobs, and the other
  process interleaves with both writes. The other direction is `graph_job`'s, and so are relations that the application sets: `PrefetchClient` assumes there are
  none (`UnrelatedAssumption`), since its jobs walk only the edges that the graphs and the wrapper relate;
* in `benchmark` a degree of 0, 1 and 3 gives isolated vertices, a neighborhood an offset can overrun into the next one, and an odd and even number of ends
  (only an even one can be undirected). Lists of three with `k` up to 2 have ties, negative values, values pushed out, and `k` of 0;
* in `pvector` both vectors can own storage while one of them grows into the third block; freed blocks and descriptors are allocated again. Two
  elements distinguish an empty vector, a full one and one that is neither, and growth from 0 to 1 to 2;
* in `csr_graph` three places allow chains of moves whose members share descriptors, with directed graphs assigned over undirected ones and the other way
  round. Graphs with and without an inverse are of different types and cannot be moved into each other, so a behaviour has one of the two. Sizes only need to tell nodes from edges and an edge from two neighbors;
* in `sliding_queue` two threads claim at the same time, a buffer fills and flushes in the middle of a `push_back`, and the array is exactly full.

Deadlock is not checked where the system may stop: a process that has exited, or one that is stopped by a bound (`low_level`, `manager`).
Symmetry is used for arrays, jobs, processes, threads and elements wherever no property or action names one; it is not used in
`manager`, which checks liveness.

**Fairness.** Two specifications have any. `MSpec`: weak fairness of `Progress(m)`, the steps inside a method. System calls return, and the code
between them runs. It covers every outcome of a call together, so it assumes neither success nor failure. Nothing obliges an
application to call a method. `MethodsEnd` needs it: without it a method could stop between two calls for ever. `BSpec`: weak fairness of each
`Draw(v)`, since `PickNext` loops and its generator, `mt19937`, is seeded once and runs through a period in which every vertex comes up; `PickEnds` needs it for graphs
with few edges, and says that without an edge the loop never ends. No fairness is assumed of `TopK`, queues, vectors or other processes.

**What the properties say.** Each definition has its statement above it. The ones that matter most:

* `RenameInv`: ids are distinct, relations name arrays that exist, and a rename map sends an id to the array's last position in the job;
* `WireFollowsIndexing`, `ThrowsIffDangling`, `ImplementsChains`: the device reads the application's chain or the job is refused, whatever ids were assigned;
* `FreshJobSendable`: a fresh job is sent unless its consumer (or, without one, the neighbors array, still pointing at the *previous* job's
  consumer) relates to an array outside it, or its index array does, which only the application can bring about. The condition is exact, and shows the ways in
  which `sendJob` ends in an exception after legal calls;
* `OtherJobsKept`: which jobs a new one cannot disturb; those that list the neighbors array or the selector can change or become unsendable;
* `ImplementsChannel`, `CommandsWhole`: a command is delivered whole and once exactly when the call answers true;
* `IndexReachesNeighbors`: a graph's index arrays keep leading to its neighbors arrays, whichever jobs are built, unless the application itself points them elsewhere;
* `HeldJobsWalkEdges`, `ImplementsService`: the whole way from graphs to the device. Whatever was rewritten before and after, a job the device holds is
  the chain of the moment it was sent, and does not walk into another job's arrays;
* `FdsAccounted`: the allocators and the query of the specs return with a descriptor open; no other path does;
* `PagesUsable`: a page handed out is mapped and faulted in, but for two cases, both of copies: it is page 0 and another manager's destructor has unmapped it, or two
  destructors have run at one address and the second unmapped what was not its own;
* `AddressesMatch`: an equivalence. The address registered for each id is that of the page the application got if and only if the managers of the process have
  one page for each id, which two managers that are not copies need not;
* `PagesDistinct`: ids do not share pages, with each other or with the monitoring page. They may share a pointer in one case: a destroyed manager had its page of id 0 at this address. Copy a manager,
  destroy it, and ask the copy for another id: the kernel may put that page where the copy's page 0 was, and the copy hands out one pointer for two ids;
* `PointersKept`: a pointer handed out is never replaced;
* `WatchedOnceOrNever`: a refused `ADD_WATCH_RANGE` goes unnoticed, and the page is handed out from then on without the device watching it;
* `ImplementsDoubleBuffer`, `NothingLost`, `ClaimsApart`: the queue, with flushes that interleave. The window slides between parallel regions only, where the kernels call
  `slide_window`; the properties show that this is enough, not that the library would stop a kernel that slides elsewhere;
* `OwnedOnce`, `ArraysOwnedOnce`: no double free, no use after free and no leak, in any order of moves. `ImplementsVectors`: elements are kept through them;
* `DescriptorFollows`, `OwnedDescribed`: moves carry descriptors along, so that the library's additions to these two classes agree with their
  ownership. `drifted` makes the limit explicit: growth, a change of size and `swap` leave the old range in the descriptor, also after the block was freed
  and given to another vector, and a vector that is default-constructed and then resized is never described. So it
  says nothing of what a stale range does, and is not listed as covering that hazard. `OwnedDescribed` includes graphs without an inverse: the descriptors of the incoming
  arrays they lack say null, with the lengths of the outgoing ones;
* `NeighborsReached`, `TopKSoFar`, `PickEnds`: the graph's reading side and the helpers, at their boundaries.

**Disagreements.** `undirected_count`: `WriteOutNeigh` prints "found wrong number of edges" for every undirected graph with an edge, because the
constructor halves the count (`graph.h:184`) that it compares with all the neighbors it wrote (`graph.h:408`); the same count makes the neighbors descriptor cover
the first half of the array, which is what `OwnedDescribed` states.

`job_count`: the comment at `pickle_job.h:202` gives the layout as 8 bits for the number of arrays and then that many rows. The count is `arrays.size()` in a
`uint8_t`, nothing limits the number of arrays, and every row is sent: with 256 arrays the count is 0. `CountModulus` is 2 in this run.

`duplicate_array`: the comment at `pickle_job.h:192` says that the prefetcher assumes ids 0, 1, 2, and so on, and that the library
renames them so. A job to which an array is added twice does not have such ids; the wrapper adds one twice when a vector is both selector and consumer
(`wrapper.h:29,37`).

## 4. Theorems

Checked with TLAPS, for any values of the constants that satisfy the modules' named assumptions. Each component's proofs have a module of
their own, but jobs and the wrapper, which share `JobProofs`. Below, what each establishes and along which argument.

### Jobs: `JobProofs`

For any finite or infinite sets `Arrays` and `Jobs` and any values of the bounds. The inductive invariant is
`TypeOK /\ RenameInv`. `RenameInv` alone is what the run checks, and it needs each of its parts: a rename
map stays right when an array is added because *ids are distinct* (overwriting the entry of one array does not touch another's), and when any call
assigns an id because *assigned ids are kept* (`KeepsIds`); a relation stays right for the second reason. The lemmas follow the operators of the
model: `WithIdFacts`, `IndexedByFacts` and `JobWithFacts` say what one operation does to a heap or a job, `JobKept` and `DstsKept` what survives when ids are kept, and
`NextInv` has one step per action.

| Theorem | States |
|---|---|
| `TypeCorrect`, `RenamesCorrect` | `Spec => []TypeOK`, `Spec => []RenameInv` |
| `ContiguousCorrect` | ids 0, 1, 2, ... unless an array was added twice |
| `FollowsCorrect` | the dst of a row names the row of the array it relates to |
| `ThrowsCorrect` | refused exactly when a relation leaves the job |
| `IdsStableCorrect` | `Spec => IdsStable` |
| `ImplementsChainsCorrect` | `Spec => ImplementsChains`: the refinement that the run `pickle_job` checks |

The refinement rests on two facts about the mapping. `TargetFacts`: under the invariant an id names one array, so what a relation holds and the array it means determine
each other. `LastPosFacts`: the rename map's entry is the last position of the array, which is the abstract row. With them every call
maps to its abstract action (`NextChains`), and what a job sends to its abstract view (`ViewedFromInv`).

### The wrapper: `JobProofs`

The invariant is `TypeOK`, `RenameInv`, `built \subseteq Graphs` and `IndexReachesNeighbors`. A job is built by several calls in a row;
`Sound` is what holds between two of them, `Extends` what they leave alone. `GraphJobFacts` carries both through the composition.

| Theorem | States |
|---|---|
| `GraphRenamesCorrect` | `RenameInv` survives the wrapper |
| `IndexReachesNeighborsCorrect` | an index array leads to its neighbors array until the application points it elsewhere |
| `OtherJobsKeptCorrect` | what the device is told of a job without the neighbors array and the selector of a call is unchanged by it |
| `FreshJobSendableCorrect` | exactly when a fresh job is refused |
| `FreshJobIsChainCorrect` | the rows of a fresh job, in order, and when the last leads on |

### From graphs to the device: `PrefetchClientProofs`

For any graphs, vectors, jobs and other processes. `JobsInv` is the wrapper's invariant with one more part, `JobsFromGraphs`: the index arrays in
jobs are those of graphs that were built, so that they lead to their neighbors arrays. `CallInv` is the little of the low-level calls that a write needs: everyone is in `write_command_to_device` or nowhere, with a
command that is a header and a body, and the header waiting in an open file is of the call in progress. `StepIs` reduces each system call to one of four steps (`Proceeds`, `Refused`,
`Taken`, `Resumed`), and the rest of the proof speaks of these.

`HeldJobsWalkEdgesCorrect` carries *this job walks the edges of graphs* from the moment the job is read (`WireWalksEdges`) through the call to the device (`WalkInv`). Its hypothesis
`OthersWalk` says it of the jobs that other processes send, which the application cannot answer for; the run's other process sends watch ranges. The named assumption
`OtherCommandAssumption` says that other processes' commands too are headers with a body.
The refinement composes two: building a job is the abstract chain's steps one after the other, which needs the intermediate heaps of `createGraphJob...`; a system call
is a step of the channel or a stutter.

| Theorem | States |
|---|---|
| `HeldJobsWalkEdgesCorrect` | `OthersWalk => (CSpec => []HeldJobsWalkEdges)` |
| `ImplementsServiceCorrect` | `CSpec => ImplementsService` |

### Low-level calls: `PickleDeviceLowLevelProofs`

For any number of processes, descriptors, pages and commands. `LInv` has the types, `FdsAccounted` and `OutIsHonest`, and two strengthenings: `RightCall`, that past `open` a
process makes the system calls of its own function, and `PagesMapped`, that the driver's numbers are those of pages mapped. Its first half, `CallsInv`,
leaves out what a destructor's `munmap` ends (`PagesMapped`, `OutIsHonest`), so that the managers' proofs can build on it. `HeaderInv` adds
that the header waiting where the driver keeps it is that of the call in progress; from it come whole commands and the refinement. It holds under `OneHeader`: the driver keeps a header
per open file, or only one process uses the device. Both theorems have that as a hypothesis, because without it, with one slot and two processes, they are false.

| Theorem | States |
|---|---|
| `LowLevelTypeCorrect`, `FdsAccountedCorrect`, `OutIsHonestCorrect` | `LSpec => []...` |
| `CommandsWholeCorrect` | `OneHeader => (LSpec => []CommandsWhole)` |
| `ImplementsChannelCorrect` | `OneHeader => (LSpec => ImplementsChannel)` |

### The managers: `PickleDeviceManagerProofs`

For any processes, any managers in them, constructed, copied and destroyed at any time, and any ids. `MInv` is `CallsInv`, the types, and:

* `ThreadInv`: the call a process is in is that of the one manager with a method in progress;
* `AnswerInv` and `LocalInv`: what a call that succeeds hands out, and what a method's locals hold at each of its calls: a page that was mapped and that no
  manager has yet;
* `PagesInv`: what the managers of a process know. Without it `AddressesMatch` is not inductive: the driver numbers pages in the order they are mapped, and that a new
  page's number is its id follows only from *no numbered page is forgotten* (`NoneForgotten`), *a page has one id* (`OneIdPerPage`), and, if managers do not
  disagree, *pages have the numbers of their ids* (`NumberedById`). A page that is registered is touched and was not known before (`EntriesInv`).

`PagesUsable` and `PagesDistinct` need the addresses as well, which a second layer over `MInv` has. `AddressInv` says of each process: its pages lie at addresses of its own,
and those mapped at different ones (`PlacesOf`); a page that is gone was taken away by the destructor of a manager that had it for id 0, or lay where two destroyed managers
had theirs (`UnmappedOf`); such a destructor did take its page away, and it never comes back (`DestroyedOf`); the monitoring page was given by the kernel (`PerfOf`). Then of two pages
at one address one is not mapped, so a destroyed manager had its page of id 0 there: that is the exception of `PagesDistinct`. Nothing is assumed of where the kernel puts a page but that it
is not on top of one that is mapped (`SyscallAddresses`).

There is a lemma per action; `RegistryKept` covers the steps that register nothing, `RegisterInv` the one that does. The destructor is the one step
that unmaps: `DestroyAddresses` splits on whether it still owns what is at its pointer.

`WatchedOnceOrNever` needs more than where a manager stands with an id: what the *process* has told the device of it. `WatchInv` says, for processes whose managers agree on
pages, that every id a manager knows has an `Outcome`: its range is being sent and no command has it yet, or the command was refused and none ever will, or exactly one has it
(`OutcomesInv`); that the device has heard of no other range (`SeenInv`); and that what a manager is waiting to have written is a command for its own call (`CommandsInv`). A manager asks for each id once, another of the
process that has the page as a copy does not ask again, and a new page is not among the ranges seen. It is proved under `OneHeader`: with two
processes and one slot, TLC finds a header of another process's command in front of a range.

| Theorem | States |
|---|---|
| `ManagerTypeCorrect`, `PagesUsableCorrect`, `PagesDistinctCorrect`, `AddressesMatchCorrect` | `MSpec => []...` |
| `PointersKeptCorrect` | `MSpec => PointersKept` |
| `WatchedOnceOrNeverCorrect` | `OneHeader => (MSpec => []WatchedOnceOrNever)` |

### The queue: `SlidingQueueProofs`

For any threads, any finite set of elements, any `LocalSize` above 0 and an array of at least as many cells as there are elements. The argument counts by sets. `Published` is what was appended and no thread
holds; `Counted` says that `shared_in` is its cardinality, so claims cannot run past the array. `BufferState` ties a buffer to where its thread is, `BuffersApart` has
no element in two places, and `Landing` says that every published element is in its cell or yet to be copied by the thread that claimed it. `ClaimsApart` is needed for that, and
needs `Counted`. In the refinement an element is published by the *claim*, before it is copied: `Copy` and `EndFlush` stutter.

| Theorem | States |
|---|---|
| `QueueTypeCorrect`, `WithinArrayCorrect`, `ClaimsApartCorrect`, `NothingLostCorrect` | `Spec => []...` |
| `ImplementsDoubleBufferCorrect` | `Spec => ImplementsDoubleBuffer` |

### Vectors: `PVectorProofs`

For any vectors, blocks, descriptors and values. `VInv`, which is `VTypeOK`, `OwnedOnce` and `DescriptorFollows`, is inductive as it stands: that a block has one owner
is what lets it be freed (`FreedFacts`), and a descriptor shared after a move construction outlives the vector moved from because it is dropped with its
last holder (`DroppedFacts`).

In the refinement a vector is the first `size` cells of its block (`Contents`). An operation that writes one block leaves every other vector's contents alone because no block has
two owners, and growth copies them before the old block is freed; the cells a new block has beyond `size` are arbitrary, so `resize` to a larger size
is the abstract one, which leaves the new elements open. `NullAssumption` says that what stands for "no vector" is not a sequence of elements.

| Theorem | States |
|---|---|
| `VectorTypeCorrect`, `OwnedOnceCorrect`, `DescriptorFollowsCorrect` | `VSpec => []...` |
| `ImplementsVectorsCorrect` | `VSpec => ImplementsVectors` |

### Graphs: `CSRGraphProofs`

For any places, descriptors and sizes, with and without an inverse. `CInv` has the types, `OwnedInv` and `DescribedInv`. `OwnedInv` is `ArraysOwnedOnce` with what it rests on (`ArraysOf`): a graph has
all its arrays, those of the outgoing direction, or none, the names it deletes are of different blocks, and the two others, if it is undirected, are names of the same blocks; so each deletion frees
a block once (`ReleaseFacts`). `DescribedInv` adds to `OwnedDescribed` that a descriptor lives as long as a graph holds it. Move assignment and destruction share
`GiveUpFacts`. Which blocks an allocation takes is left open but for their being free, and so is whether there are any.

| Theorem | States |
|---|---|
| `ArraysOwnedOnceCorrect`, `OwnedDescribedCorrect` | `CSpec => []...` |

### The benchmark helpers and reading a graph: `BenchmarkProofs`

For any values, any lists and any `k`, and for graphs of any size at any address. Facts about all numbers are proved without an induction rule, which would take a predicate as
a parameter: `EveryNumber` says that a *set* that has 0 and with `n` also `n + 1` has every number, from `LeastNumber`, that a set of numbers that is not
empty has a least (which the library's theorems on well-founded relations give).

`TopK`: `Selecting` is the loop's invariant. `PassedOver` is the property itself, what was passed over is not larger than what is kept, and to be inductive it needs `LastIsMin`,
that `min_so_far` is the smallest value kept *if any is*, and `AllKept`, that while there is room nothing was passed over, which is why the first value of `min_so_far`, 0, and the value
`back()` reads for `k = 0` do not matter. `OrderExists` shows that a pair appended to a list in order can be put in its place, without which the sorted list would be no list at all;
`SortedFacts` that sorting loses nothing.

Reading: `WellIndexed` says that an index begins at the neighbors array, never goes down, and spans an even number of neighbors in an undirected graph. A built graph has such an index
(`IndexOfFacts`: the sums exist and rise), reloading keeps it, and every neighbor is then reached from the last vertex whose neighborhood does not begin behind it (`CellReached`).

| Theorem | States |
|---|---|
| `TopKSoFarCorrect`, `NeighborsReachedCorrect` | `BSpec => []...` |

### Only model-checked

Liveness, `MethodsEnd` and `PickEnds`, is beyond the prover and stays with TLC. Every other property of a passing run is stated by a theorem above; three, about commands and watched ranges,
under `OneHeader`, and one under `OthersWalk`.

## 5. Not modelled, and the plan

Left out for good: printing and logging (`print`, `getTuple`, which has no caller, the graph writers' text), timers and the benchmark driver's trial loop, the build, the one test (it prints the specs),
and what `getDevicePrefetcherSpecs` copies from one record to another. `compare_and_swap` has no caller. `pvector::num` is written and never read. `SlidingQueue::indexedBy` does not
compile if it is instantiated.

Left out because the code promises nothing about them, or leaves them undefined:

* a manager assigned to another one, a queue or buffer copied, calls of one process's managers or of the job functions from two threads (`nextID` and the maps are plain
  members);
* `QueueBuffer` of size 0, and `SourcePicker` over a graph without nodes, where the standard distribution has no range;
* a graph of 2^31 - 1 or more nodes, whose loops overflow `NodeID`. What `back()` reads of an empty vector (`benchmark.h:90`, `k = 0`), undefined too, is
  any value in the model: `TopK` returns the same whichever it is.

The order of the work, most important first; all of it is done:

1. `PickleJob`, `IndexChains`: the core, since everything the library sends comes from it.
2. `GraphJob`: the client of the core, and the source of its shared state.
3. `PickleDeviceLowLevel`, `CommandChannel`, then `PickleDeviceManager` over it.
4. `SlidingQueue`, `DoubleBuffer`: the one concurrent data structure.
5. `JobProofs`.
6. `PVector`, `VectorContents`: each block freed once; when a descriptor describes what its vector holds.
7. `CSRGraph`: ownership under moves and assignment, directed and not; the ranges against the arrays.
8. `CSRIndex`, `Benchmark`: reading a graph, and the helpers, against what they promise.
9. `PrefetchClient`, `PrefetchService`: graph jobs composed with the device; copies of managers.
10. Proofs of all components: jobs and their refinement, wrapper, low-level calls, managers, queue, vectors and their refinement, graphs, the way from graphs to the
    device, and the helpers.

Hazards that no property covers are listed with a note in `PROJECT.json`: division by a zero element size in formatting code, and the cases without
a defined outcome above.

---------------------------- MODULE PrefetchService ----------------------------
(***************************************************************************)
(* What the library as a whole promises an application that builds jobs    *)
(* from graphs and sends them: the device takes, or does not take, the     *)
(* chain of arrays the job had when it was sent.  It is IndexChains for    *)
(* the application's part and CommandChannel for the device's; ids, rename *)
(* maps, system calls and headers are PrefetchClient's.                    *)
(***************************************************************************)
EXTENDS IndexChains

CONSTANTS
    Clients,        \* the processes that use the device
    App,            \* the one whose jobs are modelled
    Command,        \* the commands of the others
    NoCommand,
    NameLength,     \* the bytes of a kernel's name
    Graphs,         \* the graphs, and the index and neighbors array they
    IndexOf,        \* have in each direction
    NeighborsOf

VARIABLES state, wants, log

Channel == INSTANCE CommandChannel

svars == <<state, wants, log, avars>>

(* A job on the wire: a byte, seven words for each row, and the name.      *)
ChainCommand(rows) ==
    [type |-> "SEND_JOB_DESCRIPTOR", length |-> 1 + 56 * Len(rows) + NameLength, body |-> rows]

SInit == Init /\ Channel!Init

Direction == {"in", "out"}

(* A new graph: its index arrays lead to their neighbors arrays.           *)
Construct(g) ==
    /\ target' = [a \in Arrays |->
                    IF \E d \in Direction : a = IndexOf[g][d]
                    THEN NeighborsOf[g][CHOOSE d \in Direction : a = IndexOf[g][d]]
                    ELSE target[a]]
    /\ UNCHANGED <<members, access, addressing>>
    /\ Viewed

(* The array a after those of s, if there is one.                          *)
Then(s, a) == IF a = Null THEN s ELSE Append(s, a)

(* Job j becomes selector -> index -> neighbors -> consumer; a selector or *)
(* consumer that is Null is left out, and relations it would have set stay *)
(* as they were.                                                           *)
Build(j, index, neighbors, sel, cons) ==
    /\ members' = [members EXCEPT ![j] =
                    Then(Then(<<index, neighbors>>, sel), cons)]
    /\ target' = [a \in Arrays |-> CASE a = neighbors /\ cons # Null -> cons
                                     [] a = sel -> index
                                     [] OTHER -> target[a]]
    /\ UNCHANGED <<access, addressing>>
    /\ Viewed

(* The description sent is that of the moment of the call.                 *)
Send(j) ==
    /\ view[j].ok
    /\ Channel!Begin(App, ChainCommand(view[j].rows))
    /\ UNCHANGED avars

OthersSend ==
    /\ \E c \in Clients \ {App}, m \in Command : Channel!Begin(c, m)
    /\ UNCHANGED avars

(* A command goes its way while nothing of the application's changes.      *)
Deliver ==
    /\ \E c \in Clients : Channel!Take(c) \/ Channel!Refuse(c) \/ Channel!Answer(c)
    /\ UNCHANGED avars

(* The application waits for its call.                                     *)
Changes ==
    /\ state[App] = "idle"
    /\ UNCHANGED <<state, wants, log>>
    /\ \/ \E g \in Graphs : Construct(g)
       \/ \E j \in Jobs, g \in Graphs, d \in Direction, sel, cons \in Arrays \cup {Null} :
             Build(j, IndexOf[g][d], NeighborsOf[g][d], sel, cons)
       \/ \E j \in Jobs, a \in Arrays : Add(j, a)
       \/ \E d, b \in Arrays : Index(d, b)

SNext == Deliver \/ OthersSend \/ (\E j \in Jobs : Send(j)) \/ Changes

SSpec == SInit /\ [][SNext]_svars
=============================================================================

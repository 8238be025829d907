---------------------------- MODULE CommandChannel ----------------------------
(***************************************************************************)
(* What write_command_to_device promises its callers: a call either hands  *)
(* the device one whole command and answers true, or hands it nothing and  *)
(* answers false.  PickleDeviceLowLevel implements it with two writes.     *)
(***************************************************************************)
EXTENDS Sequences

CONSTANTS Clients, Command, NoCommand

VARIABLES
    state,      \* state[c]: where c's call stands
    wants,      \* wants[c]: the command of c's call, NoCommand between calls
    log         \* the commands the device has taken, in order

cvars == <<state, wants, log>>

Init ==
    /\ state = [c \in Clients |-> "idle"]
    /\ wants = [c \in Clients |-> NoCommand]
    /\ log = <<>>

Begin(c, m) ==
    /\ state[c] = "idle"
    /\ state' = [state EXCEPT ![c] = "pending"]
    /\ wants' = [wants EXCEPT ![c] = m]
    /\ UNCHANGED log

Take(c) ==
    /\ state[c] = "pending"
    /\ state' = [state EXCEPT ![c] = "true"]
    /\ log' = Append(log, wants[c])
    /\ UNCHANGED wants

Refuse(c) ==
    /\ state[c] = "pending"
    /\ state' = [state EXCEPT ![c] = "false"]
    /\ UNCHANGED <<wants, log>>

Answer(c) ==
    /\ state[c] \in {"true", "false"}
    /\ state' = [state EXCEPT ![c] = "idle"]
    /\ wants' = [wants EXCEPT ![c] = NoCommand]
    /\ UNCHANGED log

Next ==
    \E c \in Clients :
        \/ \E m \in Command : Begin(c, m)
        \/ Take(c)
        \/ Refuse(c)
        \/ Answer(c)

Spec == Init /\ [][Next]_cvars
=============================================================================

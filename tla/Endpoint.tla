------------------------------- MODULE Endpoint -------------------------------
(***************************************************************************)
(* What the server promises every client about its connection, with        *)
(* handlers, sockets, broadcasts and the registry left out: a client is    *)
(* admitted with the default settings; while it is served, each of its     *)
(* commands changes one setting of its own and nothing else does; once it  *)
(* is dropped it is not served again until its connection is over, and     *)
(* what it had set is forgotten.                                           *)
(***************************************************************************)
CONSTANTS Client,           \* who may connect
          Intervals,        \* the refresh intervals a client can ask for
          DefaultInterval   \* the one it starts with

VARIABLES status,       \* of each client: "over", "served" or "dropped"
          settings      \* what is in force for it

vars == <<status, settings>>

Defaults == [paused |-> FALSE, interval |-> DefaultInterval]

TypeOK ==
    /\ status \in [Client -> {"over", "served", "dropped"}]
    /\ settings \in [Client -> [paused : BOOLEAN, interval : Intervals]]

Init ==
    /\ status = [c \in Client |-> "over"]
    /\ settings = [c \in Client |-> Defaults]

Admit(c) ==
    /\ status[c] = "over"
    /\ status' = [status EXCEPT ![c] = "served"]
    /\ UNCHANGED settings

Command(c) ==
    /\ status[c] = "served"
    /\ \/ \E p \in BOOLEAN : settings' = [settings EXCEPT ![c].paused = p]
       \/ \E i \in Intervals : settings' = [settings EXCEPT ![c].interval = i]
    /\ UNCHANGED status

\* Clients leave for a state in which nothing is in force for them.
Leave(clients, to) ==
    /\ status' = [c \in Client |-> IF c \in clients THEN to ELSE status[c]]
    /\ settings' = [c \in Client |-> IF c \in clients THEN Defaults ELSE settings[c]]

\* Sends to any number of clients fail.
Drop == \E clients \in SUBSET {c \in Client : status[c] = "served"} :
           Leave(clients, "dropped")

\* Any number of connections end.
End == \E clients \in SUBSET Client : Leave(clients, "over")

Next == End \/ Drop \/ \E c \in Client : Admit(c) \/ Command(c)

Spec == Init /\ [][Next]_vars
=============================================================================

------------------------------ MODULE SleepWake -------------------------------
(***************************************************************************)
(* What ConnectionManager promises the rest of CloudDate about sleep mode, *)
(* with timers, events, sockets and broadcasts left out: visitors come and *)
(* go, the system may fall asleep only while nobody visits, a producer may *)
(* block only while the system is asleep, and an arrival wakes the system  *)
(* and releases every blocked producer in the same step.                   *)
(***************************************************************************)
CONSTANTS Visitor,      \* who may visit
          Producer      \* the collection loops that sleep with the system

VARIABLES visitors,     \* who is visiting
          mode,         \* "asleep" or "awake"
          blocked       \* the producers that wait for a wake-up

vars == <<visitors, mode, blocked>>

TypeOK ==
    /\ visitors \subseteq Visitor
    /\ mode \in {"asleep", "awake"}
    /\ blocked \subseteq Producer

Init ==
    /\ visitors = {}
    /\ mode = "asleep"
    /\ blocked = {}

Arrive(v) ==
    /\ v \in Visitor \ visitors
    /\ visitors' = visitors \cup {v}
    /\ mode' = "awake"
    /\ blocked' = {}

Depart ==
    /\ visitors' \in SUBSET visitors
    /\ UNCHANGED <<mode, blocked>>

FallAsleep ==
    /\ visitors = {}
    /\ mode' = "asleep"
    /\ UNCHANGED <<visitors, blocked>>

Block(p) ==
    /\ mode = "asleep"
    /\ blocked' = blocked \cup {p}
    /\ UNCHANGED <<visitors, mode>>

\* Producers that are cancelled give up waiting.
GiveUp ==
    /\ blocked' \in SUBSET blocked
    /\ UNCHANGED <<visitors, mode>>

Next ==
    \/ \E v \in Visitor : Arrive(v)
    \/ Depart
    \/ FallAsleep
    \/ \E p \in Producer : Block(p)
    \/ GiveUp

Spec == Init /\ [][Next]_vars
=============================================================================

-------------------------- MODULE ConnectionManager ---------------------------
(***************************************************************************)
(* The connection registry, the sleep timer, the wake event and the        *)
(* broadcast of server/connection_manager.py.                              *)
(*                                                                         *)
(* One asyncio event loop runs everything, so a step is what runs between  *)
(* two awaits that can suspend.  No section under self._lock awaits, hence *)
(* the lock is never held across a suspension and never contended: the     *)
(* bodies of connect, disconnect and of the sleep countdown are one step   *)
(* each.  A broadcast is not: it suspends in every send_json, and whatever *)
(* else runs there changes the registry under it.                          *)
(***************************************************************************)
EXTENDS Integers, FiniteSetsExt

CONSTANTS MaxConns,         \* bound on the number of connections ever made
          Loops,            \* the tasks that wait for a wake-up and broadcast
          SleepDelay,       \* SLEEP_DELAY, in ticks of the countdown
          Intervals,        \* refresh intervals a client can ask for
          DefaultInterval,  \* the 2.0 s of connect
          MayNotEncode      \* the loops whose payload may fail to encode

ASSUME ManagerAssumption ==
    /\ MaxConns \in Nat
    /\ SleepDelay \in Nat
    /\ Intervals \subseteq Nat
    /\ DefaultInterval \in Intervals
    /\ MayNotEncode \subseteq Loops

\* ws_{counter}: ids grow, so the insertion order of the dicts is their order.
ConnId == 1..MaxConns
NoConn == 0
NoCountdown == -1

VARIABLES
    connCounter,    \* _conn_counter
    connections,    \* the keys of _connections
    intervals,      \* _intervals
    paused,         \* _paused
    isSleeping,     \* _is_sleeping
    wakeEvent,      \* whether _wake_event is set
    waiters,        \* the loops blocked in _wake_event.wait()
    countdown,      \* ticks left in _sleep_timer_task, NoCountdown if done
    socket,         \* the websocket of a connection, as the server sees it
    broadcasting,   \* the loops inside broadcast()
    targets,        \* the targets a broadcast has yet to reach
    broken,         \* disconnected: the targets whose send raised
    inFlight,       \* the connection whose send_json a broadcast awaits
    encodable       \* whether the message of a broadcast can be encoded

registry == <<connections, intervals, paused>>
sleepVars == <<isSleeping, wakeEvent, waiters>>
castVars == <<broadcasting, targets, broken, inFlight, encodable>>
managerVars ==
    <<connCounter, registry, sleepVars, countdown, socket, castVars>>

ManagerTypeOK ==
    /\ connCounter \in 0..MaxConns
    /\ connections \subseteq 1..connCounter
    /\ intervals \in [connections -> Intervals]
    /\ paused \in [connections -> BOOLEAN]
    /\ isSleeping \in BOOLEAN
    /\ wakeEvent \in BOOLEAN
    /\ waiters \subseteq Loops
    /\ countdown \in {NoCountdown} \cup 0..SleepDelay
    /\ socket \in [ConnId -> {"none", "open", "closed"}]
    /\ broadcasting \subseteq Loops
    /\ targets \in [Loops -> SUBSET ConnId]
    /\ broken \in [Loops -> SUBSET ConnId]
    /\ inFlight \in [Loops -> {NoConn} \cup ConnId]
    /\ encodable \in [Loops -> BOOLEAN]

ManagerInit ==
    /\ connCounter = 0
    /\ connections = {}
    /\ intervals = [c \in {} |-> DefaultInterval]
    /\ paused = [c \in {} |-> FALSE]
    /\ isSleeping = TRUE
    /\ wakeEvent = FALSE
    /\ waiters = {}
    /\ countdown = NoCountdown
    /\ socket = [c \in ConnId |-> "none"]
    /\ broadcasting = {}
    /\ targets = [l \in Loops |-> {}]
    /\ broken = [l \in Loops |-> {}]
    /\ inFlight = [l \in Loops |-> NoConn]
    /\ encodable = [l \in Loops |-> TRUE]

-----------------------------------------------------------------------------
(* The registry *)

IsPaused(c) == c \in DOMAIN paused /\ paused[c]

\* Mutant: an arrival leaves a pending countdown running.
CancelCountdown_Missing == UNCHANGED countdown

CancelCountdown == countdown' = NoCountdown

\* Mutant: an arrival that cancels a countdown does not look at the flag.
WakeUp_ElseBranch ==
    IF countdown # NoCountdown
    THEN UNCHANGED sleepVars
    ELSE isSleeping' = FALSE /\ wakeEvent' = TRUE /\ waiters' = {}

\* Mutant: the flag is lowered and the event not set.
WakeUp_FlagOnly == isSleeping' = FALSE /\ UNCHANGED <<wakeEvent, waiters>>

\* set() makes every waiter runnable at once.
WakeUp ==
    /\ isSleeping' = FALSE
    /\ IF isSleeping
       THEN wakeEvent' = TRUE /\ waiters' = {}
       ELSE UNCHANGED <<wakeEvent, waiters>>

\* connect(): register the client, cancel a pending countdown, wake everyone
\* if asleep.  The handshake was awaited before the lock was taken, so the
\* client may have left by the time it is registered.
Connect(state) ==
    LET c == connCounter + 1 IN
    /\ connCounter < MaxConns
    /\ connCounter' = c
    /\ connections' = connections \cup {c}
    /\ intervals' = [x \in connections \cup {c} |->
                        IF x = c THEN DefaultInterval ELSE intervals[x]]
    /\ paused' = [x \in connections \cup {c} |->
                        IF x = c THEN FALSE ELSE paused[x]]
    /\ CancelCountdown
    /\ WakeUp
    /\ socket' = [socket EXCEPT ![c] = state]
    /\ UNCHANGED castVars

\* Mutant: the number of connections is tested before they are removed.
CountdownWithout_TooEarly(S) ==
    IF connections = {} THEN SleepDelay ELSE countdown

\* _start_sleep_timer() if nobody is left: a pending timer starts afresh.
CountdownWithout(S) ==
    IF connections \ S = {} THEN SleepDelay ELSE countdown

\* disconnect() for each of a set of ids, in a row: forget them, present or
\* not, and (re)start the countdown if nobody is left.
Unregister(S) ==
    /\ connections' = connections \ S
    /\ intervals' = Restrict(intervals, DOMAIN intervals \ S)
    /\ paused' = Restrict(paused, DOMAIN paused \ S)
    /\ countdown' = CountdownWithout(S)
    /\ UNCHANGED <<connCounter, sleepVars, socket>>

Disconnect(c) ==
    /\ Unregister({c})
    /\ UNCHANGED castVars

\* Mutant: a client can only ask for more.
SetInterval_OnlyFaster(c, i) ==
    /\ intervals' = [x \in DOMAIN intervals |->
                        IF x = c /\ i < intervals[x] THEN i ELSE intervals[x]]
    /\ UNCHANGED <<connCounter, connections, paused, sleepVars, countdown,
                   socket, castVars>>

\* Mutant: a client that was dropped is registered again.
SetInterval_Registers(c, i) ==
    /\ connections' = connections \cup {c}
    /\ intervals' = [x \in connections' |-> IF x = c THEN i ELSE intervals[x]]
    /\ paused' = [x \in connections' |-> IsPaused(x)]
    /\ UNCHANGED <<connCounter, sleepVars, countdown, socket, castVars>>

\* set_interval()
SetInterval(c, i) ==
    /\ intervals' = [x \in DOMAIN intervals |-> IF x = c THEN i ELSE intervals[x]]
    /\ UNCHANGED <<connCounter, connections, paused, sleepVars, countdown,
                   socket, castVars>>

\* Mutant: a client that was dropped gets an entry of its own again.
SetPaused_Unguarded(c, p) ==
    /\ paused' = [x \in DOMAIN paused \cup {c} |-> IF x = c THEN p ELSE paused[x]]
    /\ UNCHANGED <<connCounter, connections, intervals, sleepVars, countdown,
                   socket, castVars>>

\* set_paused()
SetPaused(c, p) ==
    /\ paused' = [x \in DOMAIN paused |-> IF x = c THEN p ELSE paused[x]]
    /\ UNCHANGED <<connCounter, connections, intervals, sleepVars, countdown,
                   socket, castVars>>

\* send_to(): a failing send drops the client.
SendTo(c) ==
    IF c \in connections /\ socket[c] = "closed"
    THEN Disconnect(c)
    ELSE UNCHANGED managerVars

\* The peer closes, the transport is lost, or the endpoint has returned and
\* the server closes what it left open.
SocketCloses(c) ==
    /\ socket[c] = "open"
    /\ socket' = [socket EXCEPT ![c] = "closed"]
    /\ UNCHANGED <<connCounter, registry, sleepVars, countdown, castVars>>

-----------------------------------------------------------------------------
(* Sleep and wake *)

CountdownTick ==
    /\ countdown > 0
    /\ countdown' = countdown - 1
    /\ UNCHANGED <<connCounter, registry, sleepVars, socket, castVars>>

\* Mutant: the event stays set from the last wake-up.
CountdownFires_KeepsEvent ==
    /\ countdown = 0
    /\ countdown' = NoCountdown
    /\ isSleeping' = (isSleeping \/ connections = {})
    /\ UNCHANGED <<connCounter, registry, wakeEvent, waiters, socket, castVars>>

\* _sleep_countdown() after its sleep.
CountdownFires ==
    /\ countdown = 0
    /\ countdown' = NoCountdown
    /\ IF connections = {}
       THEN isSleeping' = TRUE /\ wakeEvent' = FALSE
       ELSE UNCHANGED <<isSleeping, wakeEvent>>
    /\ UNCHANGED <<connCounter, registry, waiters, socket, castVars>>

\* wait_for_wake()
WaitForWake(l) ==
    /\ l \notin waiters \cup broadcasting
    /\ waiters' = IF wakeEvent THEN waiters ELSE waiters \cup {l}
    /\ UNCHANGED <<connCounter, registry, isSleeping, wakeEvent, countdown,
                   socket, castVars>>

-----------------------------------------------------------------------------
(* broadcast(), from its snapshot of the targets to its clean-up *)

StartBroadcast(l, canEncode) ==
    /\ l \notin waiters \cup broadcasting
    /\ canEncode \/ l \in MayNotEncode
    /\ broadcasting' = broadcasting \cup {l}
    /\ targets' = [targets EXCEPT ![l] = connections]
    /\ encodable' = [encodable EXCEPT ![l] = canEncode]
    /\ UNCHANGED <<connCounter, registry, sleepVars, countdown, socket,
                   broken, inFlight>>

\* The loop of broadcast() runs on to its next target c.
Reaches(l, c) ==
    /\ l \in broadcasting
    /\ inFlight[l] = NoConn
    /\ c \in targets[l]
    /\ \A d \in targets[l] : c <= d
    /\ targets' = [targets EXCEPT ![l] = @ \ {c}]
    /\ UNCHANGED <<connCounter, registry, sleepVars, countdown, socket,
                   broadcasting, encodable>>

\* Mutant: a target that has paused since the snapshot counts as failed.
SkipTarget_CountsAsFailed(l, c) ==
    /\ Reaches(l, c)
    /\ IsPaused(c) \/ c \notin connections
    /\ broken' = [broken EXCEPT ![l] = @ \cup {c}]
    /\ UNCHANGED inFlight

SkipTarget(l, c) ==
    /\ Reaches(l, c)
    /\ IsPaused(c) \/ c \notin connections
    /\ UNCHANGED <<broken, inFlight>>

SendRaises(l, c) ==
    /\ Reaches(l, c)
    /\ ~IsPaused(c) /\ c \in connections
    /\ socket[c] = "closed" \/ ~encodable[l]
    /\ broken' = [broken EXCEPT ![l] = @ \cup {c}]
    /\ UNCHANGED inFlight

\* Mutant: a target that has paused since the snapshot is sent the frame.
SendFrame_PauseIgnored(l, c) ==
    /\ Reaches(l, c)
    /\ c \in connections /\ socket[c] = "open" /\ encodable[l]
    /\ inFlight' = [inFlight EXCEPT ![l] = c]
    /\ UNCHANGED broken

\* The frame is written; send_json now awaits the transport's drain.
SendFrame(l, c) ==
    /\ Reaches(l, c)
    /\ ~IsPaused(c) /\ c \in connections
    /\ socket[c] = "open" /\ encodable[l]
    /\ inFlight' = [inFlight EXCEPT ![l] = c]
    /\ UNCHANGED broken

\* The drain ends, or raises if the connection was lost meanwhile.
DrainEnds(l) ==
    /\ inFlight[l] # NoConn
    /\ inFlight' = [inFlight EXCEPT ![l] = NoConn]
    /\ \/ UNCHANGED broken
       \/ /\ socket[inFlight[l]] = "closed"
          /\ broken' = [broken EXCEPT ![l] = @ \cup {inFlight[l]}]
    /\ UNCHANGED <<connCounter, registry, sleepVars, countdown, socket,
                   broadcasting, targets, encodable>>

\* The clean-up of the targets that failed.
FinishBroadcast(l) ==
    /\ l \in broadcasting
    /\ targets[l] = {} /\ inFlight[l] = NoConn
    /\ IF broken[l] = {}
       THEN UNCHANGED <<connCounter, registry, sleepVars, countdown, socket>>
       ELSE Unregister(broken[l])
    /\ broadcasting' = broadcasting \ {l}
    /\ broken' = [broken EXCEPT ![l] = {}]
    /\ UNCHANGED <<targets, inFlight, encodable>>

\* The task is cancelled in whatever call it is suspended in; CancelledError
\* is no Exception, so broadcast() neither catches it nor cleans up.
CancelCalls(S) ==
    /\ waiters' = waiters \ S
    /\ broadcasting' = broadcasting \ S
    /\ targets' = [l \in Loops |-> IF l \in S THEN {} ELSE targets[l]]
    /\ broken' = [l \in Loops |-> IF l \in S THEN {} ELSE broken[l]]
    /\ inFlight' = [l \in Loops |-> IF l \in S THEN NoConn ELSE inFlight[l]]
    /\ UNCHANGED <<connCounter, registry, isSleeping, wakeEvent, countdown,
                   socket, encodable>>

-----------------------------------------------------------------------------

RegistryStep ==
    \/ \E state \in {"open", "closed"} : Connect(state)
    \/ \E c \in 1..connCounter :
          \/ Disconnect(c)
          \/ SendTo(c)
          \/ SocketCloses(c)
          \/ \E i \in Intervals : SetInterval(c, i)
          \/ \E p \in BOOLEAN : SetPaused(c, p)

SleepStep ==
    \/ CountdownTick
    \/ CountdownFires
    \/ \E l \in Loops : WaitForWake(l)

BroadcastStep ==
    \E l \in Loops :
       \/ \E canEncode \in BOOLEAN : StartBroadcast(l, canEncode)
       \/ \E c \in ConnId : SkipTarget(l, c) \/ SendRaises(l, c) \/ SendFrame(l, c)
       \/ DrainEnds(l)
       \/ FinishBroadcast(l)

ManagerNext ==
    \/ RegistryStep
    \/ SleepStep
    \/ BroadcastStep
    \/ \E S \in SUBSET Loops : CancelCalls(S)

ManagerSpec == ManagerInit /\ [][ManagerNext]_managerVars

-----------------------------------------------------------------------------
(* Properties *)

\* The system sleeps only when nobody is registered: an arrival cancels the
\* pending countdown and wakes the system, and a countdown that fires looks
\* at the registry again (lines 64-73, 101-104).
SleepsOnlyWhenIdle == isSleeping => connections = {}

\* With nobody registered the system sleeps or is on its way to: every path
\* that empties the registry, a failed send in a broadcast included, leaves
\* a countdown running (lines 86-95, 144-145).
IdleMeansCountdown == connections = {} => isSleeping \/ countdown # NoCountdown

\* No countdown outlives an arrival: one that did could put the system to
\* sleep SLEEP_DELAY after an old departure instead of the last (lines 65-67).
CountdownOnlyWhenIdle == countdown # NoCountdown => connections = {}

\* A loop blocked in wait_for_wake waits for an arrival that is still to
\* come, never for one that has passed: the event agrees with the flag the
\* loop tested before it waited (lines 70-72, 103-104, 109-111).
NoLostWake == /\ waiters # {} => isSleeping
              /\ wakeEvent = ~isSleeping

\* The four steps of the countdown, the event, the flag and the registry
\* amount to the one contract of SleepWake, in every interleaving with the
\* broadcasts that also remove clients.
SleepContract == INSTANCE SleepWake WITH
    Visitor <- ConnId, Producer <- Loops,
    visitors <- connections, blocked <- waiters,
    mode <- IF isSleeping THEN "asleep" ELSE "awake"
SleepWakeContract == SleepContract!Spec
=============================================================================

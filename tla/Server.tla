-------------------------------- MODULE Server --------------------------------
(***************************************************************************)
(* The CloudDate server: the handler of every WebSocket (server/main.py)   *)
(* and the two collection loops (server/scheduler.py) around the           *)
(* ConnectionManager they share.                                           *)
(*                                                                         *)
(* Every step of the manager belongs here to a step of a handler, of a     *)
(* loop, of the sleep timer or of the network.  The loops collect in       *)
(* executor threads, so anything may happen between the start and the end  *)
(* of a collection; the 0.5 s and 1 s a loop settles after a wake-up are   *)
(* part of that span.                                                      *)
(***************************************************************************)
EXTENDS ConnectionManager

CONSTANTS Periods,      \* the collection periods of the slow tiers, in ticks
          Cycle,        \* a common multiple of Periods: tick counts modulo it
          BufferSize    \* RING_BUFFER_SIZE and SLOW_BUFFER_SIZE, per loop

ASSUME ServerAssumption ==
    /\ Loops \subseteq {"fast", "slow"}
    /\ Cycle \in Nat \ {0}
    /\ Periods \subseteq 1..Cycle
    /\ \A p \in Periods : Cycle % p = 0
    /\ BufferSize \in [Loops -> Nat \ {0}]

VARIABLES
    handler,        \* where websocket_endpoint is, per connection
    loop,           \* where _fast_loop and _slow_loop are
    tick,           \* tick of _slow_loop, modulo Cycle
    samples,        \* the number of entries in each ring buffer
    running,        \* _running
    \* Auxiliary variables: no action of the code depends on them.
    acked,          \* the settings each client was last told are in force
    sinceAsleep,    \* samples a loop has stored since the system fell asleep
    age,            \* slow payloads since the last with the tier of a period
    wakePending     \* no slow collection has begun since the last wake-up

auxVars == <<acked, sinceAsleep, age, wakePending>>
loopVars == <<loop, tick, samples>>
vars == <<managerVars, handler, loopVars, running, auxVars>>

HandlerPc == {"none", "sysinfo", "hello", "listening", "done"}
LoopPc == {"start", "waiting", "collecting", "sending", "pausing", "error",
           "stopped"}
Settings == [interval : Intervals, paused : BOOLEAN]

TypeOK ==
    /\ ManagerTypeOK
    /\ handler \in [ConnId -> HandlerPc]
    /\ loop \in [Loops -> LoopPc]
    /\ tick \in 0..Cycle - 1
    /\ \A l \in Loops : samples[l] \in 0..BufferSize[l]
    /\ running \in BOOLEAN
    /\ acked \in [ConnId -> Settings]
    /\ sinceAsleep \in [Loops -> Nat]
    /\ age \in [Periods -> 0..Cycle]
    /\ wakePending \in BOOLEAN

Init ==
    /\ ManagerInit
    /\ handler = [c \in ConnId |-> "none"]
    /\ loop = [l \in Loops |-> "start"]
    /\ tick = 0
    /\ samples = [l \in Loops |-> 0]
    /\ running = TRUE
    /\ acked = [c \in ConnId |-> [interval |-> DefaultInterval, paused |-> FALSE]]
    /\ sinceAsleep = [l \in Loops |-> 0]
    /\ age = [p \in Periods |-> 0]
    /\ wakePending = FALSE

-----------------------------------------------------------------------------
(* websocket_endpoint(), one task per connection *)

\* A client connects; its handler registers it and starts to collect the
\* system information in an executor thread.
ClientConnects(state) ==
    /\ running
    /\ Connect(state)
    /\ handler' = [handler EXCEPT ![connCounter + 1] = "sysinfo"]
    /\ wakePending' = (wakePending \/ isSleeping)
    /\ sinceAsleep' = IF isSleeping THEN [l \in Loops |-> 0] ELSE sinceAsleep
    /\ UNCHANGED <<loopVars, running, acked, age>>

HandlerMoves(c, from, to) ==
    /\ handler[c] = from
    /\ handler' = [handler EXCEPT ![c] = to]
    /\ UNCHANGED <<loopVars, running, auxVars>>

SysInfoSent(c) ==
    /\ HandlerMoves(c, "sysinfo", "hello")
    /\ SendTo(c)

\* The history is sent only when there is one.
HistorySent(c) ==
    /\ HandlerMoves(c, "hello", "listening")
    /\ IF \E l \in Loops : l = "fast" /\ samples[l] > 0
       THEN SendTo(c)
       ELSE UNCHANGED managerVars

Delivers(c) == c \in connections /\ socket[c] = "open"

\* A command changes one setting and answers in the same step.  Frames the
\* peer sent before it left are still read: the answer then fails, and drops
\* the client together with what the command had set.
HandleCommand(c, change, settings) ==
    /\ handler[c] = "listening"
    /\ IF c \in connections /\ socket[c] = "closed" THEN Disconnect(c) ELSE change
    /\ acked' = IF Delivers(c) THEN [acked EXCEPT ![c] = settings] ELSE acked
    /\ UNCHANGED <<handler, loopVars, running, sinceAsleep, age, wakePending>>

HandleSetInterval(c, i) ==
    HandleCommand(c, SetInterval(c, i), [acked[c] EXCEPT !.interval = i])

HandlePause(c) ==
    HandleCommand(c, SetPaused(c, TRUE), [acked[c] EXCEPT !.paused = TRUE])

HandleResume(c) ==
    HandleCommand(c, SetPaused(c, FALSE), [acked[c] EXCEPT !.paused = FALSE])

\* ping, and a message that is no JSON or carries no number: an answer only.
HandleOther(c) ==
    /\ handler[c] = "listening"
    /\ SendTo(c)
    /\ UNCHANGED <<handler, loopVars, running, auxVars>>

\* Mutant: the handler removes its connection without disconnect().
HandlerExits_DirectPop(c) ==
    /\ HandlerMoves(c, "listening", "done")
    /\ socket[c] = "closed"
    /\ connections' = connections \ {c}
    /\ UNCHANGED <<connCounter, intervals, paused, sleepVars, countdown, socket,
                   castVars>>

\* receive_text() raises WebSocketDisconnect.
HandlerExits(c) ==
    /\ HandlerMoves(c, "listening", "done")
    /\ socket[c] = "closed"
    /\ Disconnect(c)

\* Mutant: no finally.
HandlerFails_NoFinally(c) ==
    /\ \E from \in {"sysinfo", "listening"} : HandlerMoves(c, from, "done")
    /\ UNCHANGED managerVars

\* Any other exception: collect_system_info fails, or a message is JSON but
\* no object.
HandlerFails(c) ==
    /\ \E from \in {"sysinfo", "listening"} : HandlerMoves(c, from, "done")
    /\ Disconnect(c)

SocketGoes(c) ==
    /\ SocketCloses(c)
    /\ UNCHANGED <<handler, loopVars, running, auxVars>>

-----------------------------------------------------------------------------
(* _fast_loop() and _slow_loop() *)

\* Between two iterations, and before the first: wait if the system sleeps,
\* else collect.
TopOfLoop(l) ==
    IF isSleeping
    THEN /\ loop' = [loop EXCEPT ![l] = "waiting"]
         /\ WaitForWake(l)
         /\ UNCHANGED wakePending
    ELSE /\ loop' = [loop EXCEPT ![l] = "collecting"]
         /\ UNCHANGED managerVars
         /\ wakePending' = (wakePending /\ l # "slow")

LoopStarts(l) ==
    /\ loop[l] = "start"
    /\ TopOfLoop(l)
    /\ UNCHANGED <<handler, tick, samples, running, acked, sinceAsleep, age>>

\* wait_for_wake() returns: the slow loop restarts its tiers.
LoopWakes(l) ==
    /\ loop[l] = "waiting"
    /\ l \notin waiters
    /\ loop' = [loop EXCEPT ![l] = "collecting"]
    /\ tick' = IF l = "slow" THEN 0 ELSE tick
    /\ wakePending' = (wakePending /\ l # "slow")
    /\ UNCHANGED <<managerVars, handler, samples, running, acked,
                   sinceAsleep, age>>

\* The tiers of an iteration.
Due == {p \in Periods : tick % p = 0}

\* The collectors run in turn and the sample goes to the ring buffer.
StoreSample(l) ==
    /\ samples' = [samples EXCEPT ![l] = IF @ = BufferSize[l] THEN @ ELSE @ + 1]
    /\ sinceAsleep' = [sinceAsleep EXCEPT ![l] = IF isSleeping THEN @ + 1 ELSE @]

\* Every collector due has answered: store the sample, start the broadcast.
LoopCollects(l, canEncode) ==
    /\ loop[l] = "collecting"
    /\ StartBroadcast(l, canEncode)
    /\ loop' = [loop EXCEPT ![l] = "sending"]
    /\ StoreSample(l)
    /\ age' = IF l = "slow"
              THEN [p \in Periods |-> IF p \in Due THEN 0 ELSE age[p] + 1]
              ELSE age
    /\ UNCHANGED <<handler, tick, running, acked, wakePending>>

\* Mutant: an exception ends the loop.
LoopFails_Ends(l) ==
    /\ loop[l] = "collecting"
    /\ loop' = [loop EXCEPT ![l] = "stopped"]
    /\ UNCHANGED <<managerVars, handler, tick, samples, running, auxVars>>

\* One collector raises: the whole iteration is lost.
LoopFails(l) ==
    /\ loop[l] = "collecting"
    /\ loop' = [loop EXCEPT ![l] = "error"]
    /\ UNCHANGED <<managerVars, handler, tick, samples, running, auxVars>>

LoopSends(l) ==
    /\ loop[l] = "sending"
    /\ \/ \E c \in ConnId : SkipTarget(l, c) \/ SendRaises(l, c) \/ SendFrame(l, c)
       \/ DrainEnds(l)
    /\ UNCHANGED <<handler, loopVars, running, auxVars>>

LoopSent(l) ==
    /\ loop[l] = "sending"
    /\ FinishBroadcast(l)
    /\ loop' = [loop EXCEPT ![l] = "pausing"]
    /\ UNCHANGED <<handler, tick, samples, running, auxVars>>

NextTick(l) == IF l = "slow" THEN (tick + 1) % Cycle ELSE tick

\* The nap ends.  It lasts the interval less what the wall clock advanced in
\* the iteration, and a clock that is set makes it shorter or longer: the model
\* leaves its length open.
LoopNaps(l) ==
    /\ loop[l] = "pausing"
    /\ tick' = NextTick(l)
    /\ TopOfLoop(l)
    /\ UNCHANGED <<handler, samples, running, acked, sinceAsleep, age>>

\* Mutant: the tick advances after a failure too.
LoopRetries_CountsTick(l) ==
    /\ loop[l] = "error"
    /\ TopOfLoop(l)
    /\ tick' = NextTick(l)
    /\ UNCHANGED <<handler, samples, running, acked, sinceAsleep, age>>

\* The sleep in the exception handler ends; the tick has not advanced.
LoopRetries(l) ==
    /\ loop[l] = "error"
    /\ TopOfLoop(l)
    /\ UNCHANGED <<handler, tick, samples, running, acked, sinceAsleep, age>>

-----------------------------------------------------------------------------
(* The sleep timer and the shutdown *)

TimerTicks ==
    /\ CountdownTick
    /\ UNCHANGED <<handler, loopVars, running, auxVars>>

TimerFires ==
    /\ CountdownFires
    /\ UNCHANGED <<handler, loopVars, running, auxVars>>

\* Mutant: a cancelled wait or broadcast leaves behind what it had set up.
Stop_LeavesCalls ==
    /\ running
    /\ \A c \in ConnId : handler[c] \in {"none", "done"}
    /\ running' = FALSE
    /\ loop' = [l \in Loops |-> "stopped"]
    /\ UNCHANGED <<managerVars, handler, tick, samples, auxVars>>

\* The lifespan ends, after every handler has: both loops are cancelled.
Stop ==
    /\ running
    /\ \A c \in ConnId : handler[c] \in {"none", "done"}
    /\ running' = FALSE
    /\ loop' = [l \in Loops |-> "stopped"]
    /\ CancelCalls(Loops)
    /\ UNCHANGED <<handler, tick, samples, auxVars>>

-----------------------------------------------------------------------------

HandlerStep(c) ==
    \/ SysInfoSent(c)
    \/ HistorySent(c)
    \/ \E i \in Intervals : HandleSetInterval(c, i)
    \/ HandlePause(c)
    \/ HandleResume(c)
    \/ HandleOther(c)
    \/ HandlerExits(c)
    \/ HandlerFails(c)

LoopStep(l) ==
    \/ LoopStarts(l)
    \/ LoopWakes(l)
    \/ \E canEncode \in BOOLEAN : LoopCollects(l, canEncode)
    \/ LoopFails(l)
    \/ LoopSends(l)
    \/ LoopSent(l)
    \/ LoopNaps(l)
    \/ LoopRetries(l)

Next ==
    \/ \E state \in {"open", "closed"} : ClientConnects(state)
    \/ \E c \in ConnId : HandlerStep(c) \/ SocketGoes(c)
    \/ \E l \in Loops : LoopStep(l)
    \/ TimerTicks
    \/ TimerFires
    \/ Stop

Spec == Init /\ [][Next]_vars

\* The event loop runs every task that can run, and the executor answers.
\* A send_json ends because the transport drains or, when the peer no longer
\* reads, because uvicorn's keepalive ping times out and closes it.
\* Commands, departures, failures and the shutdown are nobody's duty; but a
\* collector that is asked again and again does not fail for ever.
HandlerProgress(c) == SysInfoSent(c) \/ HistorySent(c) \/ HandlerExits(c)

Fairness ==
    /\ \A c \in ConnId : WF_vars(HandlerProgress(c))
    /\ \A l \in Loops :
          /\ WF_vars(LoopStep(l))
          /\ SF_vars(\E canEncode \in BOOLEAN : LoopCollects(l, canEncode))
    /\ WF_vars(TimerTicks \/ TimerFires)

LiveSpec == Spec /\ Fairness

-----------------------------------------------------------------------------
(* Properties *)

\* Whatever way a handler ends, it leaves nothing in the registry: a client
\* left behind would keep the server awake and be sent frames for ever
\* (main.py lines 181-186).  Nor does a loop that is cancelled at shutdown leave
\* a waiter or a send under way in the manager (scheduler.py lines 49-56).
NothingLeftBehind ==
    /\ \A c \in connections : handler[c] \in {"sysinfo", "hello", "listening"}
    /\ \A l \in Loops :
          /\ l \in waiters => loop[l] = "waiting"
          /\ l \in broadcasting \/ inFlight[l] # NoConn => loop[l] = "sending"

\* What a registered client was last told is in force: no failed answer, no
\* removal by a broadcast and no command of another client comes in between.
AckedInForce ==
    \A c \in connections : /\ intervals[c] = acked[c].interval
                           /\ paused[c] = acked[c].paused

\* A client that was told "paused" is sent no further frame, even by a
\* broadcast that had listed it among its targets before the pause
\* (connection_manager.py lines 129-134).
NoFrameAfterPauseAck ==
    [][\A l \in Loops, c \in ConnId :
          inFlight'[l] = c /\ inFlight[l] # c => ~acked[c].paused]_vars

\* A client that is still there is not dropped: who leaves the registry has a
\* closed socket, or a handler that ends in this step, or was sent a payload
\* that does not encode.  A pause, a slow drain, a neighbour whose send failed or
\* a failure of an earlier broadcast costs nobody else the registration
\* (connection_manager.py lines 126-145, 153-163).
OnlyLostAreDropped ==
    [][\A c \in connections :
          \/ c \in connections'
          \/ socket[c] = "closed"
          \/ handler'[c] = "done"
          \/ \E l \in Loops : ~encodable[l] /\ c \in broken[l]]_vars

\* Falling asleep stops the collection: a loop completes the iteration it is
\* in and stores nothing after that until the next wake-up.
OneSampleAsleep == \A l \in Loops : sinceAsleep[l] <= 1

\* Of any p successive slow payloads one carries the tier of period p,
\* through failed iterations, sleeps and wake-ups (scheduler.py 145-170, 209).
TiersOnTime == \A p \in Periods : age[p] < p

\* The handlers, the loops and the shutdown use the manager only through its
\* operations, so that what holds of ConnectionManager holds here.
ManagerContract == ManagerSpec

\* However handlers, commands, broadcasts that clean up and failing answers
\* meet, each client has the connection of Endpoint: settings change by its own
\* commands alone, and one that was dropped is never served again
\* (main.py lines 137-186, connection_manager.py lines 52-95, 144-163).
EndpointView == INSTANCE Endpoint WITH
    Client <- ConnId,
    status <- [c \in ConnId |-> IF c \in connections THEN "served"
                                ELSE IF handler[c] \in {"none", "done"} THEN "over"
                                ELSE "dropped"],
    settings <- [c \in ConnId |->
                    IF c \in connections
                    THEN [paused |-> paused[c], interval |-> intervals[c]]
                    ELSE [paused |-> FALSE, interval |-> DefaultInterval]]
EndpointContract == EndpointView!Spec

\* Every client that stays registered and unpaused is sent a frame by every
\* loop, and by the slow loop one with every tier: no lost wake-up, failed
\* collection, broken neighbour or slow peer stops a loop or a tier for good.
ClientsAreFed ==
    \A c \in ConnId, l \in Loops, p \in Periods :
       c \in connections ~> \/ inFlight[l] = c /\ (l = "slow" => age[p] = 0)
                            \/ c \notin connections \/ IsPaused(c)
                            \/ ~running

\* A client whose socket is lost does not stay in the registry, wherever its
\* handler and the broadcasts are at that moment.
LostClientsAreDropped ==
    \A c \in ConnId :
       c \in connections /\ socket[c] = "closed" ~> c \notin connections

\* A server that everybody leaves falls asleep, although late disconnects of
\* clients already dropped keep restarting the countdown.
AbandonedServerSleeps ==
    connections = {} ~> isSleeping \/ connections # {}

\* From a wake-up on, the first collection the slow loop begins collects
\* every tier: "Reset so first wake does a full collection" (scheduler.py
\* line 139).
FirstCollectionIsFull ==
    [][wakePending /\ ~wakePending' => tick' = 0]_vars

\* The system sleeps only when no clients are connected
\* (connection_manager.py line 4, README line 17).
SleepsOnlyWithoutClients ==
    isSleeping => \A c \in ConnId :
                     ~(handler[c] = "listening" /\ socket[c] = "open")
=============================================================================

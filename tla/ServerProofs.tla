------------------------------ MODULE ServerProofs -----------------------------
(***************************************************************************)
(* Proofs about Server, for any number of connections, any loops, periods, *)
(* buffers and intervals.                                                  *)
(***************************************************************************)
EXTENDS Server, ConnectionManagerProofs, NumberLemmas

\* An id that was not given out yet belongs to nobody.
FreshIds ==
    \A c \in ConnId : c > connCounter =>
       /\ handler[c] = "none"
       /\ socket[c] = "none"
       /\ acked[c] = [interval |-> DefaultInterval, paused |-> FALSE]

\* Where the slow loop has still to collect the tiers of its tick, and where it
\* has collected them.
BeforeCollection == {"start", "waiting", "collecting", "error"}
AfterCollection == {"sending", "pausing"}

\* A tier of period p is never older than the remainder of the tick by p: each
\* tick ages it by one, and it is collected anew when the remainder is 0.  The
\* reset after a wake-up brings that moment forward, a failure repeats a tick.
TiersInv ==
    \A p \in Periods :
       /\ age[p] < p
       /\ "slow" \in Loops =>
             /\ loop["slow"] \in AfterCollection => age[p] <= tick % p
             /\ loop["slow"] \in BeforeCollection =>
                   tick % p = 0 \/ age[p] < tick % p

RegisteredAreServed ==
    \A c \in connections : handler[c] \in {"sysinfo", "hello", "listening"}

\* Whoever is registered has a socket and a handler, and was told what is in
\* force.
RegistryInv ==
    /\ \A c \in connections : socket[c] # "none"
    /\ RegisteredAreServed
    /\ AckedInForce

\* Where a loop is that has stored its one sample since the system fell asleep:
\* past the collection, or blocked until the next arrival.
PastCollection(l) ==
    \/ loop[l] \in AfterCollection \cup {"stopped"}
    \/ loop[l] = "waiting" /\ l \in waiters

AsleepInv ==
    \A l \in Loops :
       \/ sinceAsleep[l] = 0
       \/ sinceAsleep[l] = 1 /\ isSleeping /\ PastCollection(l)

\* The calls of the manager under way are those the loops are in.
CallsInv ==
    \A l \in Loops :
       /\ l \in waiters => loop[l] = "waiting"
       /\ l \in broadcasting => loop[l] = "sending"

\* A send under way and failed targets belong to a broadcast; if its message can
\* be encoded, the targets that failed are lost.
CastInv ==
    \A l \in Loops :
       /\ inFlight[l] # NoConn \/ broken[l] # {} => l \in broadcasting
       /\ encodable[l] => \A c \in broken[l] : socket[c] = "closed"

\* The inductive invariant of the server.
ServerInv ==
    /\ TypeOK
    /\ SleepInv
    /\ FreshIds
    /\ TiersInv
    /\ RegistryInv
    /\ AsleepInv
    /\ CallsInv
    /\ CastInv

\* A step that at most removes clients from the registry.
OnlyForgets ==
    /\ connections' \subseteq connections
    /\ \A c \in connections' : intervals'[c] = intervals[c] /\ paused'[c] = paused[c]

-----------------------------------------------------------------------------
(* The server uses the manager only through its operations *)

LEMMA HandlerUsesManager ==
  ASSUME TypeOK, FreshIds, NEW c \in ConnId, HandlerStep(c)
  PROVE  [ManagerNext]_managerVars
<1>1. c \in 1..connCounter
  <2>1. handler[c] # "none"
    BY DEF HandlerStep, SysInfoSent, HistorySent, HandleSetInterval, HandlePause,
       HandleResume, HandleOther, HandlerExits, HandlerFails, HandleCommand, HandlerMoves
  <2>. QED
    BY <2>1, ManagerAssumption DEF FreshIds, TypeOK, ManagerTypeOK, ConnId
<1>. USE <1>1 DEF ManagerNext, RegistryStep
<1>2. CASE SysInfoSent(c) \/ HistorySent(c) \/ HandleOther(c)
  BY <1>2 DEF SysInfoSent, HistorySent, HandleOther
<1>3. ASSUME NEW i \in Intervals, HandleSetInterval(c, i)
      PROVE  ManagerNext
  BY <1>3 DEF HandleSetInterval, HandleCommand
<1>4. CASE HandlePause(c) \/ HandleResume(c)
  BY <1>4 DEF HandlePause, HandleResume, HandleCommand
<1>5. CASE HandlerExits(c) \/ HandlerFails(c)
  BY <1>5 DEF HandlerExits, HandlerFails
<1>. QED
  BY <1>2, <1>3, <1>4, <1>5 DEF HandlerStep

LEMMA LoopUsesManager ==
  ASSUME NEW l \in Loops, LoopStep(l)
  PROVE  [ManagerNext]_managerVars
<1>. USE DEF ManagerNext, SleepStep, BroadcastStep
<1>1. CASE LoopStarts(l) \/ LoopNaps(l) \/ LoopRetries(l)
  BY <1>1 DEF LoopStarts, LoopNaps, LoopRetries, TopOfLoop
<1>2. CASE LoopWakes(l) \/ LoopFails(l)
  BY <1>2 DEF LoopWakes, LoopFails
<1>3. ASSUME NEW canEncode \in BOOLEAN, LoopCollects(l, canEncode)
      PROVE  ManagerNext
  BY <1>3 DEF LoopCollects
<1>4. CASE LoopSends(l) \/ LoopSent(l)
  BY <1>4 DEF LoopSends, LoopSent
<1>. QED
  BY <1>1, <1>2, <1>3, <1>4 DEF LoopStep

LEMMA NextUsesManager ==
  TypeOK /\ FreshIds /\ [Next]_vars => [ManagerNext]_managerVars
<1>. SUFFICES ASSUME TypeOK, FreshIds, [Next]_vars
              PROVE  [ManagerNext]_managerVars
  OBVIOUS
<1>. USE DEF ManagerNext, RegistryStep, SleepStep
<1>1. ASSUME NEW state \in {"open", "closed"}, ClientConnects(state)
      PROVE  ManagerNext
  BY <1>1 DEF ClientConnects
<1>2. ASSUME NEW c \in ConnId, HandlerStep(c)
      PROVE  [ManagerNext]_managerVars
  BY <1>2, HandlerUsesManager
<1>3. ASSUME NEW c \in ConnId, SocketGoes(c)
      PROVE  ManagerNext
  <2>1. c \in 1..connCounter
    BY <1>3, ManagerAssumption
    DEF SocketGoes, SocketCloses, FreshIds, TypeOK, ManagerTypeOK, ConnId
  <2>. QED
    BY <1>3, <2>1 DEF SocketGoes
<1>4. ASSUME NEW l \in Loops, LoopStep(l)
      PROVE  [ManagerNext]_managerVars
  BY <1>4, LoopUsesManager
<1>5. CASE TimerTicks \/ TimerFires
  BY <1>5 DEF TimerTicks, TimerFires
<1>6. CASE Stop
  BY <1>6 DEF Stop
<1>7. CASE UNCHANGED vars
  BY <1>7 DEF vars
<1>. QED
  BY <1>1, <1>2, <1>3, <1>4, <1>5, <1>6, <1>7 DEF Next

-----------------------------------------------------------------------------
(* Ids are given out once *)

\* The manager opens no socket but that of a new id.
LEMMA ManagerKeepsLaterSockets ==
  ASSUME ManagerTypeOK, [ManagerNext]_managerVars
  PROVE  /\ connCounter <= connCounter'
         /\ \A c \in ConnId : c > connCounter' => socket'[c] = socket[c]
<1>. USE ManagerAssumption DEF ManagerTypeOK
<1>1. ASSUME NEW state \in {"open", "closed"}, Connect(state)
      PROVE  /\ connCounter <= connCounter'
             /\ \A c \in ConnId : c > connCounter' => socket'[c] = socket[c]
  BY <1>1 DEF Connect, ConnId
<1>2. ASSUME NEW c \in 1..connCounter, SocketCloses(c)
      PROVE  /\ connCounter = connCounter'
             /\ \A d \in ConnId : d > connCounter' => socket'[d] = socket[d]
  BY <1>2 DEF SocketCloses, ConnId
<1>3. ASSUME NEW c \in 1..connCounter, Disconnect(c) \/ SendTo(c)
      PROVE  UNCHANGED <<connCounter, socket>>
  BY <1>3 DEF SendTo, Disconnect, Unregister, managerVars
<1>4. ASSUME NEW c, (\E i : SetInterval(c, i)) \/ (\E p : SetPaused(c, p))
      PROVE  UNCHANGED <<connCounter, socket>>
  BY <1>4 DEF SetInterval, SetPaused
<1>5. CASE SleepStep
  BY <1>5 DEF SleepStep, CountdownTick, CountdownFires, WaitForWake
<1>6. CASE BroadcastStep
  BY <1>6 DEF BroadcastStep, StartBroadcast, SkipTarget, SendRaises, SendFrame,
     Reaches, DrainEnds, FinishBroadcast, Unregister
<1>7. CASE \/ \E S \in SUBSET Loops : CancelCalls(S)
           \/ UNCHANGED managerVars
  BY <1>7 DEF CancelCalls, managerVars
<1>. QED
  BY <1>1, <1>2, <1>3, <1>4, <1>5, <1>6, <1>7 DEF ManagerNext, RegistryStep

\* What a step of the server does to handlers and acknowledgements: a new id
\* gets a handler, and other changes are those of handlers under way.
LEMMA NextKeepsFreshIds ==
  TypeOK /\ FreshIds /\ [Next]_vars => FreshIds'
<1>. SUFFICES ASSUME TypeOK, FreshIds, [Next]_vars
              PROVE  FreshIds'
  OBVIOUS
<1>1. ManagerTypeOK /\ [ManagerNext]_managerVars
  BY NextUsesManager DEF TypeOK
<1>0. connCounter \in Nat /\ connCounter' \in Nat
  BY <1>1, NextTypeOK, ManagerAssumption DEF ManagerTypeOK
<1>2. /\ connCounter <= connCounter'
      /\ \A c \in ConnId : c > connCounter' => socket'[c] = socket[c]
  BY <1>1, ManagerKeepsLaterSockets
<1>. USE ManagerAssumption DEF TypeOK, ManagerTypeOK, ConnId
<1>3. ASSUME NEW state \in {"open", "closed"}, ClientConnects(state)
      PROVE  FreshIds'
  BY <1>2, <1>3 DEF ClientConnects, Connect, FreshIds
<1>4. ASSUME NEW c \in ConnId, HandlerStep(c)
      PROVE  FreshIds'
  <2>0. handler[c] # "none"
    BY <1>4 DEF HandlerStep, SysInfoSent, HistorySent, HandleSetInterval,
       HandlePause, HandleResume, HandleOther, HandlerExits, HandlerFails,
       HandleCommand, HandlerMoves
  <2>1. c <= connCounter
    BY <1>0, <2>0 DEF FreshIds
  <2>2. \A d \in ConnId : d # c => handler'[d] = handler[d] /\ acked'[d] = acked[d]
    BY <1>4 DEF HandlerStep, SysInfoSent, HistorySent, HandleSetInterval,
       HandlePause, HandleResume, HandleOther, HandlerExits, HandlerFails,
       HandleCommand, HandlerMoves, auxVars
  <2>. QED
    <3>. SUFFICES ASSUME NEW d \in ConnId, d > connCounter'
                  PROVE  /\ handler'[d] = "none" /\ socket'[d] = "none"
                         /\ acked'[d] = [interval |-> DefaultInterval, paused |-> FALSE]
      BY DEF FreshIds
    <3>1. d > connCounter /\ d # c
      BY <1>2, <1>0, <2>1
    <3>. QED
      BY <1>2, <2>2, <3>1 DEF FreshIds
<1>5. ASSUME UNCHANGED <<handler, acked>>
      PROVE  FreshIds'
  BY <1>2, <1>0, <1>5 DEF FreshIds
<1>6. ASSUME NEW c \in ConnId, SocketGoes(c)
      PROVE  UNCHANGED <<handler, acked>>
  BY <1>6 DEF SocketGoes, auxVars
<1>7. ASSUME NEW l \in Loops, LoopStep(l)
      PROVE  UNCHANGED <<handler, acked>>
  BY <1>7 DEF LoopStep, LoopStarts, LoopWakes, LoopCollects, LoopFails, LoopSends,
     LoopSent, LoopNaps, LoopRetries, auxVars
<1>8. CASE TimerTicks \/ TimerFires \/ Stop \/ UNCHANGED vars
  BY <1>5, <1>8 DEF TimerTicks, TimerFires, Stop, vars, auxVars
<1>. QED
  BY <1>3, <1>4, <1>5, <1>6, <1>7, <1>8 DEF Next

-----------------------------------------------------------------------------
(* The tiers of the slow loop *)

LEMMA PeriodsAreNumbers ==
  ASSUME TypeOK, NEW p \in Periods
  PROVE  /\ p \in Nat \ {0} /\ p <= Cycle
         /\ Cycle \in Nat \ {0} /\ Cycle % p = 0
         /\ tick \in 0..Cycle - 1 /\ tick \in Nat
         /\ tick % p \in 0..p - 1
         /\ age[p] \in Nat
<1>1. /\ p \in Nat \ {0} /\ p <= Cycle
      /\ Cycle \in Nat \ {0} /\ Cycle % p = 0
  BY ServerAssumption
<1>2. tick \in 0..Cycle - 1 /\ tick \in Nat /\ age[p] \in Nat
  BY <1>1 DEF TypeOK
<1>. QED
  BY <1>1, <1>2, QuotientAndRemainder

\* Whatever leaves the tick, the ages and the side of the collection alone.
LEMMA SameSideKeepsTiers ==
  ASSUME TiersInv, UNCHANGED <<age, tick>>,
         "slow" \in Loops =>
            /\ loop'["slow"] \in AfterCollection => loop["slow"] \in AfterCollection
            /\ loop'["slow"] \in BeforeCollection => loop["slow"] \in BeforeCollection
  PROVE  TiersInv'
  BY DEF TiersInv

LEMMA CollectionKeepsTiers ==
  ASSUME TypeOK, TiersInv, "slow" \in Loops,
         NEW canEncode \in BOOLEAN, LoopCollects("slow", canEncode)
  PROVE  TiersInv'
<1>. SUFFICES ASSUME NEW p \in Periods
              PROVE  age'[p] < p /\ age'[p] <= tick % p
  <2>1. tick' = tick /\ loop'["slow"] = "sending"
    BY DEF LoopCollects, TypeOK
  <2>. QED
    BY <2>1 DEF TiersInv, BeforeCollection
<1>1. age'[p] = IF tick % p = 0 THEN 0 ELSE age[p] + 1
  BY DEF LoopCollects, Due
<1>2. tick % p = 0 \/ age[p] < tick % p
  BY DEF LoopCollects, TiersInv, BeforeCollection
<1>. QED
  BY <1>1, <1>2, PeriodsAreNumbers

LEMMA NapKeepsTiers ==
  ASSUME TypeOK, TiersInv, "slow" \in Loops, LoopNaps("slow")
  PROVE  TiersInv'
<1>. SUFFICES ASSUME NEW p \in Periods
              PROVE  age[p] < p /\ (tick' % p = 0 \/ age[p] < tick' % p)
  <2>1. age' = age /\ loop'["slow"] \in {"waiting", "collecting"}
    BY DEF LoopNaps, TopOfLoop, TypeOK
  <2>. QED
    BY <2>1 DEF TiersInv, AfterCollection
<1>1. age[p] < p /\ age[p] <= tick % p
  BY DEF LoopNaps, TiersInv, AfterCollection
<1>2. tick' % p = (tick + 1) % p
  <2>1. tick' = (tick + 1) % Cycle
    BY DEF LoopNaps, NextTick
  <2>. QED
    BY <2>1, PeriodsAreNumbers, CycleKeepsRemainders
<1>3. (tick + 1) % p = 0 \/ (tick + 1) % p = (tick % p) + 1
  BY PeriodsAreNumbers, RemainderCountsOn
<1>. QED
  BY <1>1, <1>2, <1>3, PeriodsAreNumbers

LEMMA NextKeepsTiers ==
  TypeOK /\ TiersInv /\ [Next]_vars => TiersInv'
<1>. SUFFICES ASSUME TypeOK, TiersInv, [Next]_vars
              PROVE  TiersInv'
  OBVIOUS
<1>1. ASSUME UNCHANGED <<age, tick, loop>>
      PROVE  TiersInv'
  BY <1>1, SameSideKeepsTiers
<1>2. ASSUME NEW state \in {"open", "closed"}, ClientConnects(state)
      PROVE  UNCHANGED <<age, tick, loop>>
  BY <1>2 DEF ClientConnects, loopVars
<1>3. ASSUME NEW c \in ConnId, HandlerStep(c) \/ SocketGoes(c)
      PROVE  UNCHANGED <<age, tick, loop>>
  BY <1>3 DEF HandlerStep, SysInfoSent, HistorySent, HandleSetInterval,
     HandlePause, HandleResume, HandleOther, HandlerExits, HandlerFails,
     HandleCommand, HandlerMoves, SocketGoes, loopVars, auxVars
<1>4. ASSUME NEW l \in Loops, LoopStep(l), l # "slow"
      PROVE  TiersInv'
  <2>1. UNCHANGED <<age, tick>> /\ ("slow" \in Loops => loop'["slow"] = loop["slow"])
    BY <1>4 DEF LoopStep, LoopStarts, LoopWakes, LoopCollects, LoopFails, LoopSends,
       LoopSent, LoopNaps, LoopRetries, TopOfLoop, NextTick, loopVars, auxVars, TypeOK
  <2>. QED
    BY <2>1, SameSideKeepsTiers
<1>5. ASSUME "slow" \in Loops, LoopStep("slow")
      PROVE  TiersInv'
  <2>1. CASE LoopStarts("slow") \/ LoopRetries("slow") \/ LoopFails("slow")
    <3>1. /\ UNCHANGED <<age, tick>>
          /\ loop["slow"] \in BeforeCollection /\ loop'["slow"] \in BeforeCollection
      BY <1>5, <2>1
      DEF LoopStarts, LoopRetries, LoopFails, TopOfLoop, BeforeCollection, auxVars, TypeOK
    <3>. QED
      BY <3>1, SameSideKeepsTiers DEF BeforeCollection, AfterCollection
  <2>2. CASE LoopSends("slow") \/ LoopSent("slow")
    <3>1. /\ UNCHANGED <<age, tick>>
          /\ loop["slow"] \in AfterCollection /\ loop'["slow"] \in AfterCollection
      BY <1>5, <2>2 DEF LoopSends, LoopSent, AfterCollection, loopVars, auxVars, TypeOK
    <3>. QED
      BY <3>1, SameSideKeepsTiers DEF BeforeCollection, AfterCollection
  <2>3. CASE LoopWakes("slow")
    <3>1. age' = age /\ tick' = 0 /\ loop'["slow"] = "collecting"
      BY <1>5, <2>3 DEF LoopWakes, TypeOK
    <3>2. \A p \in Periods : 0 % p = 0
      BY PeriodsAreNumbers
    <3>. QED
      BY <3>1, <3>2 DEF TiersInv, AfterCollection
  <2>. QED
    BY <1>5, <2>1, <2>2, <2>3, CollectionKeepsTiers, NapKeepsTiers DEF LoopStep
<1>6. CASE TimerTicks \/ TimerFires \/ UNCHANGED vars
  BY <1>1, <1>6 DEF TimerTicks, TimerFires, vars, loopVars, auxVars
<1>7. CASE Stop
  BY <1>7, SameSideKeepsTiers DEF Stop, auxVars, BeforeCollection, AfterCollection
<1>. QED
  BY <1>1, <1>2, <1>3, <1>4, <1>5, <1>6, <1>7 DEF Next

-----------------------------------------------------------------------------
(* Type correctness *)

LEMMA HandlerKeepsTypes ==
  ASSUME TypeOK, ManagerTypeOK', NEW c \in ConnId, HandlerStep(c)
  PROVE  TypeOK'
<1>. USE DEF TypeOK
<1>1. UNCHANGED <<loop, tick, samples, running, sinceAsleep, age, wakePending>>
  BY DEF HandlerStep, SysInfoSent, HistorySent, HandleSetInterval, HandlePause,
     HandleResume, HandleOther, HandlerExits, HandlerFails, HandleCommand,
     HandlerMoves, loopVars, auxVars
<1>2. handler' \in [ConnId -> HandlerPc]
  BY DEF HandlerStep, SysInfoSent, HistorySent, HandleSetInterval, HandlePause,
     HandleResume, HandleOther, HandlerExits, HandlerFails, HandleCommand,
     HandlerMoves, HandlerPc
<1>3. acked' \in [ConnId -> Settings]
  <2>1. acked[c] \in Settings
    OBVIOUS
  <2>2. \A i \in Intervals : [acked[c] EXCEPT !.interval = i] \in Settings
    BY <2>1 DEF Settings
  <2>3. \A p \in BOOLEAN : [acked[c] EXCEPT !.paused = p] \in Settings
    BY <2>1 DEF Settings
  <2>4. ASSUME NEW settings \in Settings, NEW change,
               HandleCommand(c, change, settings)
        PROVE  acked' \in [ConnId -> Settings]
    BY <2>4 DEF HandleCommand
  <2>5. CASE \E i \in Intervals : HandleSetInterval(c, i)
    BY <2>2, <2>5 DEF HandleSetInterval, HandleCommand
  <2>6. CASE HandlePause(c) \/ HandleResume(c)
    BY <2>3, <2>6 DEF HandlePause, HandleResume, HandleCommand
  <2>7. CASE \/ SysInfoSent(c) \/ HistorySent(c) \/ HandleOther(c)
             \/ HandlerExits(c) \/ HandlerFails(c)
    BY <2>7 DEF SysInfoSent, HistorySent, HandleOther, HandlerExits, HandlerFails,
       HandlerMoves, auxVars
  <2>. QED
    BY <2>5, <2>6, <2>7 DEF HandlerStep
<1>. QED
  BY <1>1, <1>2, <1>3

LEMMA LoopKeepsTypes ==
  ASSUME TypeOK, TiersInv, ManagerTypeOK', NEW l \in Loops, LoopStep(l)
  PROVE  TypeOK'
<1>. USE ServerAssumption DEF TypeOK
<1>0. Cycle \in Nat /\ (tick + 1) % Cycle \in 0..Cycle - 1
  BY QuotientAndRemainder
<1>1. ASSUME TopOfLoop(l)
      PROVE  loop' \in [Loops -> LoopPc] /\ wakePending' \in BOOLEAN
  BY <1>1 DEF TopOfLoop, LoopPc
<1>2. CASE LoopStarts(l) \/ LoopRetries(l)
  BY <1>1, <1>2 DEF LoopStarts, LoopRetries
<1>3. CASE LoopNaps(l)
  BY <1>0, <1>1, <1>3 DEF LoopNaps, NextTick
<1>4. CASE LoopWakes(l)
  <2>1. tick' \in 0..Cycle - 1
    BY <1>0, <1>4 DEF LoopWakes
  <2>. QED
    BY <1>4, <2>1 DEF LoopWakes, LoopPc
<1>5. CASE LoopFails(l)
  BY <1>5 DEF LoopFails, LoopPc, auxVars
<1>6. ASSUME NEW canEncode \in BOOLEAN, LoopCollects(l, canEncode)
      PROVE  TypeOK'
  <2>1. age' \in [Periods -> 0..Cycle]
    <3>1. ASSUME NEW p \in Periods
          PROVE  age[p] \in 0..Cycle /\ age[p] + 1 \in 0..Cycle /\ 0 \in 0..Cycle
      BY PeriodsAreNumbers DEF TiersInv
    <3>. QED
      BY <1>6, <3>1 DEF LoopCollects
  <2>2. loop' \in [Loops -> LoopPc]
    BY <1>6 DEF LoopCollects, LoopPc
  <2>3. \A k \in Loops : samples'[k] \in 0..BufferSize[k]
    <3>. SUFFICES ASSUME NEW k \in Loops PROVE samples'[k] \in 0..BufferSize[k]
      OBVIOUS
    <3>1. BufferSize[k] \in Nat \ {0} /\ samples[k] \in 0..BufferSize[k]
      OBVIOUS
    <3>2. samples'[k] \in {samples[k], IF samples[k] = BufferSize[k]
                                       THEN samples[k] ELSE samples[k] + 1}
      BY <1>6 DEF LoopCollects, StoreSample
    <3>. QED
      BY <3>1, <3>2
  <2>4. sinceAsleep' \in [Loops -> Nat]
    BY <1>6 DEF LoopCollects, StoreSample
  <2>. QED
    BY <1>6, <2>1, <2>2, <2>3, <2>4 DEF LoopCollects
<1>7. CASE LoopSends(l)
  BY <1>7 DEF LoopSends, loopVars, auxVars
<1>8. CASE LoopSent(l)
  BY <1>8 DEF LoopSent, LoopPc, auxVars
<1>. QED
  BY <1>2, <1>3, <1>4, <1>5, <1>6, <1>7, <1>8 DEF LoopStep

LEMMA NextKeepsTypes ==
  TypeOK /\ FreshIds /\ TiersInv /\ [Next]_vars => TypeOK'
<1>. SUFFICES ASSUME TypeOK, FreshIds, TiersInv, [Next]_vars
              PROVE  TypeOK'
  OBVIOUS
<1>1. ManagerTypeOK'
  BY NextUsesManager, NextTypeOK DEF TypeOK
<1>. USE DEF TypeOK
<1>2. ASSUME NEW state \in {"open", "closed"}, ClientConnects(state)
      PROVE  TypeOK'
  BY <1>1, <1>2 DEF ClientConnects, HandlerPc, loopVars
<1>3. ASSUME NEW c \in ConnId, HandlerStep(c)
      PROVE  TypeOK'
  BY <1>1, <1>3, HandlerKeepsTypes
<1>4. ASSUME NEW c \in ConnId, SocketGoes(c)
      PROVE  TypeOK'
  BY <1>1, <1>4 DEF SocketGoes, loopVars, auxVars
<1>5. ASSUME NEW l \in Loops, LoopStep(l)
      PROVE  TypeOK'
  BY <1>1, <1>5, LoopKeepsTypes
<1>6. CASE TimerTicks \/ TimerFires \/ UNCHANGED vars
  BY <1>1, <1>6 DEF TimerTicks, TimerFires, vars, loopVars, auxVars
<1>7. CASE Stop
  BY <1>1, <1>7 DEF Stop, LoopPc, auxVars
<1>. QED
  BY <1>2, <1>3, <1>4, <1>5, <1>6, <1>7 DEF Next

-----------------------------------------------------------------------------
(* The registry, the handlers and what clients were told *)

LEMMA UnregisterOnlyForgets ==
  ASSUME ManagerTypeOK, NEW S, Unregister(S)
  PROVE  OnlyForgets /\ connections' = connections \ S /\ UNCHANGED socket
  BY DEF ManagerTypeOK, Unregister, OnlyForgets, Restrict

LEMMA ForgettingKeepsRegistry ==
  ASSUME TypeOK, RegistryInv, OnlyForgets, UNCHANGED <<handler, acked>>,
         \A c \in ConnId : socket[c] # "none" => socket'[c] # "none"
  PROVE  RegistryInv'
<1>1. connections \subseteq ConnId
  BY ManagerAssumption DEF TypeOK, ManagerTypeOK, ConnId
<1>. QED
  BY <1>1 DEF RegistryInv, RegisteredAreServed, AckedInForce, OnlyForgets

LEMMA LoopOnlyForgets ==
  ASSUME TypeOK, NEW l \in Loops, LoopStep(l)
  PROVE  OnlyForgets /\ UNCHANGED <<handler, acked, socket>>
<1>. USE DEF OnlyForgets, registry
<1>1. CASE LoopStarts(l) \/ LoopNaps(l) \/ LoopRetries(l)
  BY <1>1 DEF LoopStarts, LoopNaps, LoopRetries, TopOfLoop, WaitForWake, managerVars
<1>2. CASE LoopWakes(l) \/ LoopFails(l)
  BY <1>2 DEF LoopWakes, LoopFails, managerVars, auxVars
<1>3. ASSUME NEW canEncode \in BOOLEAN, LoopCollects(l, canEncode)
      PROVE  OnlyForgets /\ UNCHANGED <<handler, acked, socket>>
  BY <1>3 DEF LoopCollects, StartBroadcast
<1>4. CASE LoopSends(l)
  BY <1>4 DEF LoopSends, SkipTarget, SendRaises, SendFrame, Reaches, DrainEnds, auxVars
<1>5. CASE LoopSent(l)
  <2>1. UNCHANGED <<handler, acked>> /\ FinishBroadcast(l)
    BY <1>5 DEF LoopSent, auxVars
  <2>2. CASE broken[l] = {}
    BY <2>1, <2>2 DEF FinishBroadcast
  <2>3. CASE broken[l] # {}
    BY <2>1, <2>3, UnregisterOnlyForgets DEF FinishBroadcast, TypeOK
  <2>. QED
    BY <2>1, <2>2, <2>3
<1>. QED
  BY <1>1, <1>2, <1>3, <1>4, <1>5 DEF LoopStep

LEMMA SendToOnlyForgets ==
  ASSUME TypeOK, NEW c, SendTo(c)
  PROVE  OnlyForgets /\ UNCHANGED socket
<1>1. CASE Disconnect(c)
  BY <1>1, UnregisterOnlyForgets DEF Disconnect, TypeOK
<1>2. CASE UNCHANGED managerVars
  BY <1>2 DEF managerVars, registry, OnlyForgets
<1>. QED
  BY <1>1, <1>2 DEF SendTo

\* The command of a client whose answer was delivered is in force; one whose
\* answer failed has cost the client its registration.
LEMMA CommandKeepsRegistry ==
  ASSUME TypeOK, RegistryInv, NEW c \in ConnId,
         HandlePause(c) \/ HandleResume(c) \/ \E i \in Intervals : HandleSetInterval(c, i)
  PROVE  RegistryInv'
<1>0. /\ UNCHANGED handler /\ acked \in [ConnId -> Settings]
      /\ socket \in [ConnId -> {"none", "open", "closed"}]
      /\ connections \subseteq ConnId
      /\ DOMAIN intervals = connections /\ DOMAIN paused = connections
  <2>1. UNCHANGED handler
    BY DEF HandlePause, HandleResume, HandleSetInterval, HandleCommand
  <2>. QED
    BY <2>1, ManagerAssumption DEF TypeOK, ManagerTypeOK, ConnId
<1>1. CASE c \in connections /\ socket[c] = "closed"
  <2>1. Disconnect(c) /\ UNCHANGED acked
    BY <1>1 DEF HandlePause, HandleResume, HandleSetInterval, HandleCommand, Delivers
  <2>2. OnlyForgets /\ UNCHANGED socket
    BY <2>1, UnregisterOnlyForgets DEF Disconnect, TypeOK
  <2>. QED
    BY <1>0, <2>1, <2>2, ForgettingKeepsRegistry
<1>2. CASE c \notin connections
  <2>1. /\ UNCHANGED acked
        /\ \/ SetPaused(c, TRUE)
           \/ SetPaused(c, FALSE)
           \/ \E i \in Intervals : SetInterval(c, i)
    BY <1>2 DEF HandlePause, HandleResume, HandleSetInterval, HandleCommand, Delivers
  <2>2. UNCHANGED socket /\ OnlyForgets
    BY <1>0, <1>2, <2>1 DEF SetPaused, SetInterval, OnlyForgets
  <2>3. UNCHANGED <<handler, acked>>
    BY <1>2 DEF HandlePause, HandleResume, HandleSetInterval, HandleCommand, Delivers
  <2>. QED
    BY <2>2, <2>3, ForgettingKeepsRegistry
<1>3. CASE c \in connections /\ socket[c] # "closed"
  <2>1. Delivers(c)
    BY <1>0, <1>3 DEF Delivers, RegistryInv
  <2>2. ASSUME NEW i \in Intervals, HandleSetInterval(c, i)
        PROVE  /\ UNCHANGED <<connections, socket, paused>>
               /\ intervals' = [x \in connections |-> IF x = c THEN i ELSE intervals[x]]
               /\ acked' = [acked EXCEPT ![c] = [acked[c] EXCEPT !.interval = i]]
    BY <1>0, <1>3, <2>1, <2>2 DEF HandleSetInterval, HandleCommand, SetInterval
  <2>3. ASSUME NEW p \in BOOLEAN, SetPaused(c, p),
               acked' = [acked EXCEPT ![c] = [acked[c] EXCEPT !.paused = p]]
        PROVE  RegistryInv'
    <3>1. /\ UNCHANGED <<connections, socket, intervals>>
          /\ paused' = [x \in connections |-> IF x = c THEN p ELSE paused[x]]
      BY <1>0, <2>3 DEF SetPaused
    <3>2. \A x \in connections : paused'[x] = acked'[x].paused
      BY <1>0, <2>3, <3>1 DEF RegistryInv, AckedInForce, Settings
    <3>3. \A x \in connections : acked'[x].interval = acked[x].interval
      BY <1>0, <2>3 DEF Settings
    <3>. QED
      BY <1>0, <3>1, <3>2, <3>3 DEF RegistryInv, RegisteredAreServed, AckedInForce
  <2>4. CASE \E i \in Intervals : HandleSetInterval(c, i)
    <3>1. PICK i \in Intervals : HandleSetInterval(c, i)
      BY <2>4
    <3>2. \A x \in connections : /\ intervals'[x] = acked'[x].interval
                                 /\ acked'[x].paused = acked[x].paused
      BY <1>0, <2>2, <3>1 DEF RegistryInv, AckedInForce, Settings
    <3>. QED
      BY <1>0, <2>2, <3>1, <3>2 DEF RegistryInv, RegisteredAreServed, AckedInForce
  <2>5. CASE HandlePause(c) \/ HandleResume(c)
    BY <1>3, <2>1, <2>3, <2>5 DEF HandlePause, HandleResume, HandleCommand
  <2>. QED
    BY <2>4, <2>5
<1>. QED
  BY <1>1, <1>2, <1>3

LEMMA HandlerKeepsRegistry ==
  ASSUME TypeOK, RegistryInv, NEW c \in ConnId, HandlerStep(c)
  PROVE  RegistryInv'
<1>0. connections \subseteq ConnId
  BY ManagerAssumption DEF TypeOK, ManagerTypeOK, ConnId
<1>1. CASE SysInfoSent(c) \/ HistorySent(c)
  <2>1. OnlyForgets /\ UNCHANGED <<acked, socket>>
    BY <1>1, SendToOnlyForgets
    DEF SysInfoSent, HistorySent, HandlerMoves, auxVars, managerVars, registry, OnlyForgets
  <2>2. /\ handler'[c] \in {"hello", "listening"}
        /\ \A d \in ConnId : d # c => handler'[d] = handler[d]
    BY <1>1 DEF SysInfoSent, HistorySent, HandlerMoves, TypeOK
  <2>. QED
    BY <1>0, <2>1, <2>2
    DEF OnlyForgets, RegistryInv, RegisteredAreServed, AckedInForce
<1>2. CASE HandleOther(c)
  BY <1>2, SendToOnlyForgets, ForgettingKeepsRegistry DEF HandleOther, auxVars
<1>3. CASE HandlerExits(c) \/ HandlerFails(c)
  <2>1. Disconnect(c) /\ UNCHANGED acked
    BY <1>3 DEF HandlerExits, HandlerFails, HandlerMoves, auxVars
  <2>2. OnlyForgets /\ connections' = connections \ {c} /\ UNCHANGED socket
    BY <2>1, UnregisterOnlyForgets DEF Disconnect, TypeOK
  <2>3. \A d \in ConnId : d # c => handler'[d] = handler[d]
    BY <1>3 DEF HandlerExits, HandlerFails, HandlerMoves, TypeOK
  <2>. QED
    BY <1>0, <2>1, <2>2, <2>3
    DEF OnlyForgets, RegistryInv, RegisteredAreServed, AckedInForce
<1>. QED
  BY <1>1, <1>2, <1>3, CommandKeepsRegistry DEF HandlerStep

LEMMA ArrivalKeepsRegistry ==
  ASSUME TypeOK, FreshIds, RegistryInv,
         NEW state \in {"open", "closed"}, ClientConnects(state)
  PROVE  RegistryInv'
<1>. DEFINE new == connCounter + 1
<1>1. new \in ConnId /\ new \notin connections /\ connections \subseteq ConnId /\ new > connCounter
  BY ManagerAssumption DEF ClientConnects, Connect, TypeOK, ManagerTypeOK, ConnId
<1>2. /\ connections' = connections \cup {new}
      /\ intervals' = [x \in connections \cup {new} |->
                          IF x = new THEN DefaultInterval ELSE intervals[x]]
      /\ paused' = [x \in connections \cup {new} |-> IF x = new THEN FALSE ELSE paused[x]]
      /\ socket' = [socket EXCEPT ![new] = state]
      /\ handler' = [handler EXCEPT ![new] = "sysinfo"]
      /\ acked' = acked
  BY DEF ClientConnects, Connect
<1>3. acked[new] = [interval |-> DefaultInterval, paused |-> FALSE]
  BY <1>1 DEF FreshIds
<1>4. /\ socket \in [ConnId -> {"none", "open", "closed"}]
      /\ handler \in [ConnId -> HandlerPc]
  BY DEF TypeOK, ManagerTypeOK
<1>. HIDE DEF new
<1>5. \A c \in connections' : socket'[c] # "none"
  BY <1>1, <1>2, <1>4 DEF RegistryInv
<1>6. RegisteredAreServed'
  BY <1>1, <1>2, <1>4 DEF RegistryInv, RegisteredAreServed
<1>7. AckedInForce'
  <2>. SUFFICES ASSUME NEW c \in connections'
                PROVE  intervals'[c] = acked'[c].interval /\ paused'[c] = acked'[c].paused
    BY DEF AckedInForce
  <2>1. CASE c = new
    <3>1. acked'[c].interval = DefaultInterval /\ acked'[c].paused = FALSE
      BY <1>2, <1>3, <2>1
    <3>2. intervals'[c] = DefaultInterval /\ paused'[c] = FALSE
      BY <1>2, <2>1
    <3>. QED
      BY <3>1, <3>2
  <2>2. CASE c # new
    BY <1>2, <2>2 DEF RegistryInv, AckedInForce
  <2>. QED
    BY <2>1, <2>2
<1>. QED
  BY <1>5, <1>6, <1>7 DEF RegistryInv

LEMMA NextKeepsRegistry ==
  TypeOK /\ FreshIds /\ RegistryInv /\ [Next]_vars => RegistryInv'
<1>. SUFFICES ASSUME TypeOK, FreshIds, RegistryInv, [Next]_vars
              PROVE  RegistryInv'
  OBVIOUS
<1>1. ASSUME NEW state \in {"open", "closed"}, ClientConnects(state)
      PROVE  RegistryInv'
  BY <1>1, ArrivalKeepsRegistry
<1>2. ASSUME NEW c \in ConnId, HandlerStep(c)
      PROVE  RegistryInv'
  BY <1>2, HandlerKeepsRegistry
<1>3. ASSUME NEW c \in ConnId, SocketGoes(c)
      PROVE  RegistryInv'
  <2>1. OnlyForgets /\ UNCHANGED <<handler, acked>>
    BY <1>3 DEF SocketGoes, SocketCloses, registry, auxVars, OnlyForgets
  <2>2. \A d \in ConnId : socket[d] # "none" => socket'[d] # "none"
    BY <1>3 DEF SocketGoes, SocketCloses, TypeOK, ManagerTypeOK
  <2>. QED
    BY <2>1, <2>2, ForgettingKeepsRegistry
<1>4. ASSUME NEW l \in Loops, LoopStep(l)
      PROVE  RegistryInv'
  BY <1>4, LoopOnlyForgets, ForgettingKeepsRegistry
<1>5. CASE TimerTicks \/ TimerFires \/ Stop \/ UNCHANGED vars
  <2>1. OnlyForgets /\ UNCHANGED <<handler, acked, socket>>
    BY <1>5 DEF TimerTicks, CountdownTick, TimerFires, CountdownFires, Stop,
       CancelCalls, vars, managerVars, registry, auxVars, OnlyForgets
  <2>. QED
    BY <2>1, ForgettingKeepsRegistry
<1>. QED
  BY <1>1, <1>2, <1>3, <1>4, <1>5 DEF Next

-----------------------------------------------------------------------------
(* Collection while asleep *)

LEMMA RemovalKeepsAsleep ==
  ASSUME AsleepInv, UNCHANGED <<isSleeping, waiters, loop, sinceAsleep>>
  PROVE  AsleepInv'
  BY DEF AsleepInv, PastCollection

LEMMA LoopKeepsAsleep ==
  ASSUME TypeOK, SleepInv, AsleepInv, NEW l \in Loops, LoopStep(l)
  PROVE  AsleepInv'
<1>1. UNCHANGED isSleeping /\ waiters \subseteq waiters'
  BY DEF LoopStep, LoopStarts, LoopWakes, LoopCollects, LoopFails, LoopSends,
     LoopSent, LoopNaps, LoopRetries, TopOfLoop, WaitForWake, StartBroadcast,
     SkipTarget, SendRaises, SendFrame, Reaches, DrainEnds, FinishBroadcast,
     Unregister, managerVars, sleepVars
<1>2. \A k \in Loops : k # l => loop'[k] = loop[k] /\ sinceAsleep'[k] = sinceAsleep[k]
  BY DEF LoopStep, LoopStarts, LoopWakes, LoopCollects, LoopFails, LoopSends,
     LoopSent, LoopNaps, LoopRetries, TopOfLoop, StoreSample, loopVars, auxVars, TypeOK
<1>3. SUFFICES \/ sinceAsleep'[l] = 0
               \/ sinceAsleep'[l] = 1 /\ isSleeping' /\ PastCollection(l)'
  BY <1>1, <1>2 DEF AsleepInv, PastCollection
<1>4. \/ sinceAsleep[l] = 0
      \/ sinceAsleep[l] = 1 /\ isSleeping /\ PastCollection(l)
  BY DEF AsleepInv
<1>5. CASE LoopStarts(l) \/ LoopRetries(l) \/ LoopFails(l) \/ LoopWakes(l)
  BY <1>4, <1>5
  DEF LoopStarts, LoopRetries, LoopFails, LoopWakes, PastCollection,
      AfterCollection, auxVars
<1>6. CASE LoopNaps(l)
  <2>1. sinceAsleep' = sinceAsleep
    BY <1>6 DEF LoopNaps
  <2>2. isSleeping => loop'[l] = "waiting" /\ l \in waiters'
    BY <1>6 DEF LoopNaps, TopOfLoop, WaitForWake, SleepInv, NoLostWake, TypeOK
  <2>. QED
    BY <1>1, <1>4, <2>1, <2>2 DEF PastCollection
<1>7. ASSUME NEW canEncode \in BOOLEAN, LoopCollects(l, canEncode)
      PROVE  \/ sinceAsleep'[l] = 0
             \/ sinceAsleep'[l] = 1 /\ isSleeping' /\ PastCollection(l)'
  <2>1. sinceAsleep[l] = 0
    BY <1>4, <1>7 DEF LoopCollects, PastCollection, AfterCollection
  <2>2. sinceAsleep'[l] = (IF isSleeping THEN 1 ELSE 0) /\ loop'[l] = "sending"
    BY <1>7, <2>1 DEF LoopCollects, StoreSample, TypeOK
  <2>. QED
    BY <1>1, <2>2 DEF PastCollection, AfterCollection
<1>8. CASE LoopSends(l)
  BY <1>1, <1>4, <1>8 DEF LoopSends, PastCollection, loopVars, auxVars
<1>9. CASE LoopSent(l)
  BY <1>1, <1>4, <1>9 DEF LoopSent, PastCollection, AfterCollection, auxVars, TypeOK
<1>. QED
  BY <1>5, <1>6, <1>7, <1>8, <1>9 DEF LoopStep

LEMMA NextKeepsAsleep ==
  TypeOK /\ SleepInv /\ AsleepInv /\ [Next]_vars => AsleepInv'
<1>. SUFFICES ASSUME TypeOK, SleepInv, AsleepInv, [Next]_vars
              PROVE  AsleepInv'
  OBVIOUS
<1>1. ASSUME NEW state \in {"open", "closed"}, ClientConnects(state)
      PROVE  AsleepInv'
  BY <1>1 DEF ClientConnects, AsleepInv
<1>2. ASSUME NEW c \in ConnId, HandlerStep(c)
      PROVE  AsleepInv'
  <2>1. UNCHANGED <<isSleeping, waiters, loop, sinceAsleep>>
    BY <1>2 DEF HandlerStep, SysInfoSent, HistorySent, HandleSetInterval,
       HandlePause, HandleResume, HandleOther, HandlerExits, HandlerFails,
       HandleCommand, HandlerMoves, SendTo, SetInterval, SetPaused, Disconnect,
       Unregister, managerVars, sleepVars, loopVars, auxVars
  <2>. QED
    BY <2>1, RemovalKeepsAsleep
<1>3. ASSUME NEW c \in ConnId, SocketGoes(c)
      PROVE  AsleepInv'
  BY <1>3, RemovalKeepsAsleep DEF SocketGoes, SocketCloses, sleepVars, loopVars, auxVars
<1>4. ASSUME NEW l \in Loops, LoopStep(l)
      PROVE  AsleepInv'
  BY <1>4, LoopKeepsAsleep
<1>5. CASE TimerTicks \/ UNCHANGED vars
  BY <1>5, RemovalKeepsAsleep
  DEF TimerTicks, CountdownTick, vars, managerVars, sleepVars, loopVars, auxVars
<1>6. CASE TimerFires
  BY <1>6 DEF TimerFires, CountdownFires, AsleepInv, PastCollection, loopVars, auxVars
<1>7. CASE Stop
  BY <1>7 DEF Stop, CancelCalls, AsleepInv, PastCollection, auxVars
<1>. QED
  BY <1>1, <1>2, <1>3, <1>4, <1>5, <1>6, <1>7 DEF Next

-----------------------------------------------------------------------------
(* Calls under way *)

LEMMA LoopKeepsCalls ==
  ASSUME TypeOK, CallsInv, NEW l \in Loops, LoopStep(l)
  PROVE  CallsInv'
<1>1. \A k \in Loops : k # l => /\ loop'[k] = loop[k]
                                /\ k \in waiters' => k \in waiters
                                /\ k \in broadcasting' => k \in broadcasting
  BY DEF LoopStep, LoopStarts, LoopWakes, LoopCollects, LoopFails, LoopSends,
     LoopSent, LoopNaps, LoopRetries, TopOfLoop, WaitForWake, StartBroadcast,
     SkipTarget, SendRaises, SendFrame, Reaches, DrainEnds, FinishBroadcast,
     Unregister, managerVars, castVars, sleepVars, loopVars, TypeOK
<1>2. SUFFICES /\ l \in waiters' => loop'[l] = "waiting"
               /\ l \in broadcasting' => loop'[l] = "sending"
  BY <1>1 DEF CallsInv
<1>3. CASE LoopStarts(l) \/ LoopNaps(l) \/ LoopRetries(l)
  BY <1>3 DEF LoopStarts, LoopNaps, LoopRetries, TopOfLoop, WaitForWake, managerVars,
     castVars, sleepVars, CallsInv, TypeOK
<1>4. CASE LoopWakes(l) \/ LoopFails(l)
  BY <1>4 DEF LoopWakes, LoopFails, managerVars, castVars, sleepVars, CallsInv, TypeOK
<1>5. ASSUME NEW canEncode \in BOOLEAN, LoopCollects(l, canEncode)
      PROVE  /\ l \in waiters' => loop'[l] = "waiting"
             /\ l \in broadcasting' => loop'[l] = "sending"
  BY <1>5 DEF LoopCollects, StartBroadcast, sleepVars, TypeOK
<1>6. CASE LoopSends(l)
  BY <1>6 DEF LoopSends, SkipTarget, SendRaises, SendFrame, Reaches, DrainEnds,
     sleepVars, loopVars, CallsInv
<1>7. CASE LoopSent(l)
  BY <1>7 DEF LoopSent, FinishBroadcast, Unregister, sleepVars, CallsInv, TypeOK
<1>. QED
  BY <1>3, <1>4, <1>5, <1>6, <1>7 DEF LoopStep

LEMMA NextKeepsCalls ==
  TypeOK /\ CallsInv /\ [Next]_vars => CallsInv'
<1>. SUFFICES ASSUME TypeOK, CallsInv, [Next]_vars
              PROVE  CallsInv'
  OBVIOUS
<1>1. ASSUME UNCHANGED <<loop, broadcasting>>, waiters' \subseteq waiters
      PROVE  CallsInv'
  BY <1>1 DEF CallsInv
<1>2. ASSUME NEW state \in {"open", "closed"}, ClientConnects(state)
      PROVE  CallsInv'
  BY <1>1, <1>2 DEF ClientConnects, Connect, WakeUp, castVars, loopVars
<1>3. ASSUME NEW c \in ConnId, HandlerStep(c)
      PROVE  UNCHANGED <<loop, broadcasting, waiters>>
  BY <1>3 DEF HandlerStep, SysInfoSent, HistorySent, HandleSetInterval,
     HandlePause, HandleResume, HandleOther, HandlerExits, HandlerFails,
     HandleCommand, HandlerMoves, SendTo, SetInterval, SetPaused, Disconnect,
     Unregister, managerVars, castVars, sleepVars, loopVars
<1>4. ASSUME NEW c \in ConnId, SocketGoes(c)
      PROVE  UNCHANGED <<loop, broadcasting, waiters>>
  BY <1>4 DEF SocketGoes, SocketCloses, castVars, sleepVars, loopVars
<1>5. CASE TimerTicks \/ TimerFires \/ UNCHANGED vars
  BY <1>1, <1>5 DEF TimerTicks, CountdownTick, TimerFires, CountdownFires, vars,
     managerVars, castVars, sleepVars, loopVars
<1>6. CASE Stop
  BY <1>6 DEF Stop, CancelCalls, CallsInv
<1>. QED
  BY <1>1, <1>2, <1>3, <1>4, <1>5, <1>6, LoopKeepsCalls DEF Next

\* Sockets do not open again, but an id gets one when it is given out.
LEMMA ClosedStayClosed ==
  ASSUME TypeOK, FreshIds, [Next]_vars
  PROVE  \A c \in ConnId : socket[c] = "closed" => socket'[c] = "closed"
<1>0. ManagerTypeOK /\ [ManagerNext]_managerVars
  BY NextUsesManager DEF TypeOK
<1>. USE DEF ManagerTypeOK
<1>1. ASSUME NEW state \in {"open", "closed"}, Connect(state)
      PROVE  \A c \in ConnId : socket[c] = "closed" => socket'[c] = "closed"
  <2>1. connCounter + 1 \in ConnId /\ connCounter + 1 > connCounter
    BY <1>0, <1>1, ManagerAssumption DEF Connect, ConnId
  <2>2. socket[connCounter + 1] = "none"
    BY <2>1 DEF FreshIds
  <2>. QED
    BY <1>0, <1>1, <2>2 DEF Connect
<1>2. ASSUME NEW c, SocketCloses(c)
      PROVE  \A d \in ConnId : socket[d] = "closed" => socket'[d] = "closed"
  BY <1>0, <1>2 DEF SocketCloses
<1>3. ASSUME NEW c, Disconnect(c) \/ SendTo(c) \/ (\E i : SetInterval(c, i))
                                  \/ (\E p : SetPaused(c, p))
      PROVE  UNCHANGED socket
  BY <1>3 DEF SendTo, Disconnect, Unregister, SetInterval, SetPaused, managerVars
<1>4. CASE SleepStep
  BY <1>4 DEF SleepStep, CountdownTick, CountdownFires, WaitForWake
<1>5. CASE BroadcastStep
  BY <1>5 DEF BroadcastStep, StartBroadcast, SkipTarget, SendRaises, SendFrame,
     Reaches, DrainEnds, FinishBroadcast, Unregister
<1>6. CASE \/ \E S \in SUBSET Loops : CancelCalls(S)
           \/ UNCHANGED managerVars
  BY <1>6 DEF CancelCalls, managerVars
<1>. QED
  BY <1>0, <1>1, <1>2, <1>3, <1>4, <1>5, <1>6 DEF ManagerNext, RegistryStep

\* What a broadcast finds broken although it can encode, it finds closed.
LEMMA NextKeepsCasts ==
  ASSUME TypeOK, FreshIds, CastInv, [Next]_vars
  PROVE  CastInv'
<1>0. /\ ManagerTypeOK /\ [ManagerNext]_managerVars
      /\ \A c \in ConnId : socket[c] = "closed" => socket'[c] = "closed"
  BY NextUsesManager, ClosedStayClosed DEF TypeOK
<1>. USE DEF ManagerTypeOK
<1>1. ASSUME UNCHANGED <<broken, inFlight, broadcasting, encodable>>
      PROVE  CastInv'
  BY <1>0, <1>1 DEF CastInv
<1>2. CASE RegistryStep
  BY <1>1, <1>2 DEF RegistryStep, Connect, SendTo, Disconnect, SocketCloses,
     SetInterval, SetPaused, castVars, managerVars
<1>3. CASE SleepStep
  BY <1>1, <1>3 DEF SleepStep, CountdownTick, CountdownFires, WaitForWake, castVars
<1>4. ASSUME NEW k \in Loops, NEW canEncode \in BOOLEAN, StartBroadcast(k, canEncode)
      PROVE  CastInv'
  BY <1>0, <1>4 DEF StartBroadcast, CastInv
<1>5. ASSUME NEW k \in Loops, NEW d \in ConnId,
             SkipTarget(k, d) \/ SendRaises(k, d) \/ SendFrame(k, d)
      PROVE  CastInv'
  BY <1>0, <1>5 DEF SkipTarget, SendRaises, SendFrame, Reaches, CastInv
<1>6. ASSUME NEW k \in Loops, DrainEnds(k)
      PROVE  CastInv'
  BY <1>0, <1>6 DEF DrainEnds, CastInv, NoConn
<1>7. ASSUME NEW k \in Loops, FinishBroadcast(k)
      PROVE  CastInv'
  BY <1>0, <1>7 DEF FinishBroadcast, CastInv
<1>8. ASSUME NEW S \in SUBSET Loops, CancelCalls(S)
      PROVE  CastInv'
  BY <1>0, <1>8 DEF CancelCalls, CastInv
<1>9. CASE UNCHANGED managerVars
  BY <1>1, <1>9 DEF managerVars, castVars
<1>. QED
  BY <1>0, <1>2, <1>3, <1>4, <1>5, <1>6, <1>7, <1>8, <1>9 DEF ManagerNext, BroadcastStep

\* Only clients that are lost, whose handler ends or whose payload did not encode
\* leave the registry.
LEMMA OnlyLostAreForgotten ==
  ASSUME TypeOK, CastInv, Next, NEW c \in connections, c \notin connections'
  PROVE  \/ socket[c] = "closed"
         \/ handler'[c] = "done"
         \/ \E l \in Loops : ~encodable[l] /\ c \in broken[l]
<1>0. connections \subseteq ConnId
  BY ManagerAssumption DEF TypeOK, ManagerTypeOK, ConnId
<1>1. ASSUME NEW d, SendTo(d)
      PROVE  socket[c] = "closed"
  BY <1>1 DEF SendTo, Disconnect, Unregister, managerVars, registry
<1>2. ASSUME NEW d \in ConnId, HandlerStep(d)
      PROVE  socket[c] = "closed" \/ handler'[c] = "done"
  <2>1. CASE SysInfoSent(d) \/ HistorySent(d) \/ HandleOther(d)
    BY <1>1, <2>1 DEF SysInfoSent, HistorySent, HandleOther, managerVars, registry
  <2>2. CASE HandlePause(d) \/ HandleResume(d) \/ \E i \in Intervals : HandleSetInterval(d, i)
    BY <2>2 DEF HandlePause, HandleResume, HandleSetInterval, HandleCommand,
       Disconnect, Unregister, SetPaused, SetInterval
  <2>3. CASE HandlerExits(d) \/ HandlerFails(d)
    <3>1. c = d
      BY <2>3 DEF HandlerExits, HandlerFails, Disconnect, Unregister
    <3>. QED
      BY <1>0, <2>3, <3>1 DEF HandlerExits, HandlerFails, HandlerMoves, TypeOK
  <2>. QED
    BY <1>2, <2>1, <2>2, <2>3 DEF HandlerStep
<1>3. ASSUME NEW l \in Loops, LoopSent(l)
      PROVE  socket[c] = "closed" \/ (~encodable[l] /\ c \in broken[l])
  <2>1. c \in broken[l]
    BY <1>3 DEF LoopSent, FinishBroadcast, Unregister, registry
  <2>. QED
    BY <2>1 DEF CastInv
<1>4. ASSUME NEW l \in Loops, LoopStep(l)
      PROVE  socket[c] = "closed" \/ (~encodable[l] /\ c \in broken[l])
  <2>1. ~LoopSent(l) => UNCHANGED connections
    BY <1>4 DEF LoopStep, LoopStarts, LoopWakes, LoopCollects, LoopFails, LoopSends,
       LoopNaps, LoopRetries, TopOfLoop, WaitForWake, StartBroadcast, SkipTarget,
       SendRaises, SendFrame, Reaches, DrainEnds, managerVars, registry
  <2>. QED
    BY <1>3, <2>1
<1>5. ASSUME \/ \E state \in {"open", "closed"} : ClientConnects(state)
             \/ \E d \in ConnId : SocketGoes(d)
             \/ TimerTicks \/ TimerFires \/ Stop
      PROVE  FALSE
  BY <1>5 DEF ClientConnects, Connect, SocketGoes, SocketCloses, TimerTicks,
     CountdownTick, TimerFires, CountdownFires, Stop, CancelCalls, registry
<1>. QED
  BY <1>2, <1>4, <1>5 DEF Next

-----------------------------------------------------------------------------
(* The invariant and what follows from it *)

LEMMA InitServerInv == Init => ServerInv
<1>. SUFFICES ASSUME Init PROVE ServerInv
  OBVIOUS
<1>. USE ManagerAssumption, ServerAssumption
<1>1. ManagerTypeOK /\ SleepInv
  BY InitTypeOK, InitSleepInv DEF Init
<1>2. TypeOK
  <2>1. [interval |-> DefaultInterval, paused |-> FALSE] \in Settings
    BY DEF Settings
  <2>2. tick \in 0..Cycle - 1 /\ age \in [Periods -> 0..Cycle]
    BY DEF Init
  <2>3. \A l \in Loops : samples[l] \in 0..BufferSize[l]
    BY DEF Init
  <2>. QED
    BY <1>1, <2>1, <2>2, <2>3 DEF Init, TypeOK, HandlerPc, LoopPc
<1>3. FreshIds
  BY DEF Init, ManagerInit, FreshIds
<1>4. TiersInv
  <2>1. \A p \in Periods : p \in Nat \ {0} /\ 0 % p = 0
    BY <1>2, PeriodsAreNumbers
  <2>. QED
    BY <2>1 DEF Init, TiersInv, AfterCollection
<1>5. RegistryInv /\ AsleepInv
  BY DEF Init, ManagerInit, RegistryInv, RegisteredAreServed, AckedInForce, AsleepInv
<1>6. CallsInv /\ CastInv
  BY DEF Init, ManagerInit, CallsInv, CastInv
<1>. QED
  BY <1>1, <1>2, <1>3, <1>4, <1>5, <1>6 DEF ServerInv

LEMMA NextServerInv == ServerInv /\ [Next]_vars => ServerInv'
<1>. SUFFICES ASSUME ServerInv, [Next]_vars PROVE ServerInv'
  OBVIOUS
<1>1. TypeOK' /\ TiersInv'
  BY NextKeepsTypes, NextKeepsTiers DEF ServerInv
<1>2. SleepInv'
  BY NextUsesManager, NextSleepInv DEF ServerInv, TypeOK
<1>3. FreshIds' /\ RegistryInv' /\ AsleepInv'
  BY NextKeepsFreshIds, NextKeepsRegistry, NextKeepsAsleep DEF ServerInv
<1>4. CallsInv' /\ CastInv'
  BY NextKeepsCalls, NextKeepsCasts DEF ServerInv
<1>. QED
  BY <1>1, <1>2, <1>3, <1>4 DEF ServerInv

THEOREM ServerInvariant == Spec => []ServerInv
  BY InitServerInv, NextServerInv, PTL DEF Spec

\* The types of the server's state; the ages of the tiers stay below their
\* bound by TiersInv.
THEOREM ServerTypeCorrect == Spec => []TypeOK
  BY ServerInvariant, PTL DEF ServerInv

\* Handlers, loops, timer and shutdown use the manager only through its
\* operations and on ids it has given out.
THEOREM UsesManager == Spec => ManagerContract
<1>1. Init => ManagerInit
  BY DEF Init
<1>2. ServerInv /\ [Next]_vars => [ManagerNext]_managerVars
  BY NextUsesManager DEF ServerInv
<1>. QED
  BY <1>1, <1>2, ServerInvariant, PTL DEF Spec, ManagerContract, ManagerSpec

\* Hence the whole server, with its handlers and loops, keeps the contract of
\* sleep mode.
THEOREM ServerImplementsSleepWake == Spec => SleepWakeContract
  BY UsesManager, ImplementsSleepWake, PTL DEF ManagerContract

\* Whatever way a handler ends, it leaves nothing in the registry, and a loop
\* that is cancelled leaves no waiter and no send.
THEOREM NothingStays == Spec => []NothingLeftBehind
<1>1. ServerInv => NothingLeftBehind
  BY DEF ServerInv, RegistryInv, RegisteredAreServed, CallsInv, CastInv, NothingLeftBehind
<1>. QED
  BY <1>1, ServerInvariant, PTL

\* What a registered client was last told is in force.
THEOREM ToldIsInForce == Spec => []AckedInForce
  BY ServerInvariant, PTL DEF ServerInv, RegistryInv

\* A loop stores at most one sample after the system has fallen asleep.
THEOREM SleepStopsCollection == Spec => []OneSampleAsleep
<1>1. ServerInv => OneSampleAsleep
  BY DEF ServerInv, AsleepInv, OneSampleAsleep
<1>. QED
  BY <1>1, ServerInvariant, PTL

\* Of any p successive slow payloads one carries the tier of period p.
THEOREM TiersStayOnTime == Spec => []TiersOnTime
<1>1. ServerInv => TiersOnTime
  BY DEF ServerInv, TiersInv, TiersOnTime
<1>. QED
  BY <1>1, ServerInvariant, PTL

\* No frame is begun for a client that was told "paused": a frame begins only
\* for a registered client whose flag is down, and what it was told is its flag.
THEOREM PausedAreLeftAlone == Spec => NoFrameAfterPauseAck
<1>1. ASSUME ServerInv, Next, NEW l \in Loops, NEW c \in ConnId,
             inFlight'[l] = c, inFlight[l] # c
      PROVE  ~acked[c].paused
  <2>1. PICK k \in Loops : SendFrame(k, c)
    <3>1. inFlight' # inFlight /\ inFlight'[l] \in ConnId /\ inFlight'[l] # NoConn
      BY <1>1, ManagerAssumption DEF ConnId, NoConn
    <3>2. UNCHANGED inFlight \/ Stop \/ \E k \in Loops : LoopSends(k)
      BY <1>1
      DEF Next, ClientConnects, Connect, HandlerStep, SysInfoSent, HistorySent,
          HandleSetInterval, HandlePause, HandleResume, HandleOther, HandlerExits,
          HandlerFails, HandleCommand, SendTo, SetInterval, SetPaused, Disconnect,
          SocketGoes, SocketCloses, LoopStep, LoopStarts, LoopWakes, LoopCollects,
          LoopFails, LoopSent, LoopNaps, LoopRetries, TopOfLoop, WaitForWake,
          StartBroadcast, FinishBroadcast, TimerTicks, TimerFires, CountdownTick,
          CountdownFires, managerVars, castVars
    <3>3. ~Stop
      BY <3>1 DEF Stop, CancelCalls
    <3>4. PICK k \in Loops : LoopSends(k)
      BY <3>1, <3>2, <3>3
    <3>5. PICK d \in ConnId : SendFrame(k, d)
      BY <1>1, <3>1, <3>4 DEF LoopSends, SkipTarget, SendRaises, DrainEnds, ServerInv, TypeOK, ManagerTypeOK
    <3>6. d = c
      BY <1>1, <3>5 DEF SendFrame, ServerInv, TypeOK, ManagerTypeOK
    <3>. QED
      BY <3>5, <3>6
  <2>2. c \in connections /\ ~IsPaused(c)
    BY <2>1 DEF SendFrame
  <2>3. paused[c] = acked[c].paused /\ c \in DOMAIN paused
    BY <1>1, <2>2 DEF ServerInv, RegistryInv, AckedInForce, TypeOK, ManagerTypeOK
  <2>. QED
    BY <2>2, <2>3 DEF IsPaused
<1>2. ServerInv /\ [Next]_vars
      => [\A l \in Loops, c \in ConnId :
             inFlight'[l] = c /\ inFlight[l] # c => ~acked[c].paused]_vars
  BY <1>1
<1>. QED
  BY <1>2, ServerInvariant, PTL DEF Spec, NoFrameAfterPauseAck

-----------------------------------------------------------------------------
(* The server implements Endpoint *)

\* Whoever is dropped while its handler goes on is a client that was served.
LEMMA ForgettingImplementsEndpoint ==
  ASSUME TypeOK, RegistryInv, OnlyForgets,
         \A c \in ConnId : handler'[c] \in {"none", "done"}
                              <=> handler[c] \in {"none", "done"}
  PROVE  EndpointView!Drop
<1>. DEFINE gone == connections \ connections'
<1>1. connections \subseteq ConnId
  BY ManagerAssumption DEF TypeOK, ManagerTypeOK, ConnId
<1>2. \A c \in connections : handler[c] \notin {"none", "done"}
  BY DEF RegistryInv, RegisteredAreServed
<1>3. EndpointView!Leave(gone, "dropped")
  BY <1>1, <1>2 DEF OnlyForgets, EndpointView!Leave, EndpointView!Defaults
<1>. QED
  BY <1>1, <1>3 DEF EndpointView!Drop

\* A handler that ends takes its own client along and no other.
LEMMA EndImplementsEndpoint ==
  ASSUME TypeOK, NEW c \in ConnId, HandlerExits(c) \/ HandlerFails(c)
  PROVE  EndpointView!End
<1>1. OnlyForgets /\ connections' = connections \ {c}
  <2>1. Disconnect(c)
    BY DEF HandlerExits, HandlerFails
  <2>. QED
    BY <2>1, UnregisterOnlyForgets DEF Disconnect, TypeOK
<1>2. handler'[c] = "done" /\ \A d \in ConnId \ {c} : handler'[d] = handler[d]
  BY DEF HandlerExits, HandlerFails, HandlerMoves, TypeOK
<1>3. EndpointView!Leave({c}, "over")
  BY <1>1, <1>2 DEF OnlyForgets, EndpointView!Leave, EndpointView!Defaults
<1>. QED
  BY <1>3 DEF EndpointView!End

\* A new id had neither handler nor settings.
LEMMA ArrivalImplementsEndpoint ==
  ASSUME TypeOK, FreshIds, NEW state \in {"open", "closed"}, ClientConnects(state)
  PROVE  \E c \in ConnId : EndpointView!Admit(c)
<1>0. connCounter + 1 \in ConnId
  BY ManagerAssumption DEF ClientConnects, Connect, TypeOK, ManagerTypeOK, ConnId
<1>. PICK new \in ConnId : new = connCounter + 1
  BY <1>0
<1>1. /\ new \in ConnId /\ new \notin connections /\ new > connCounter
      /\ connections \subseteq ConnId
  BY ManagerAssumption DEF ClientConnects, Connect, TypeOK, ManagerTypeOK, ConnId
<1>2. /\ connections' = connections \cup {new}
      /\ intervals' = [x \in connections \cup {new} |->
                          IF x = new THEN DefaultInterval ELSE intervals[x]]
      /\ paused' = [x \in connections \cup {new} |-> IF x = new THEN FALSE ELSE paused[x]]
      /\ handler' = [handler EXCEPT ![new] = "sysinfo"]
  BY DEF ClientConnects, Connect
<1>3. handler[new] = "none" /\ handler \in [ConnId -> HandlerPc]
  BY <1>1 DEF FreshIds, TypeOK
<1>4. EndpointView!Admit(new)
  BY <1>1, <1>2, <1>3 DEF EndpointView!Admit
<1>. QED
  BY <1>1, <1>4

\* A command changes one setting of its sender, if it is still registered; when
\* the answer fails, the sender is dropped instead.
LEMMA CommandImplementsEndpoint ==
  ASSUME TypeOK, RegistryInv, NEW c \in ConnId,
         HandlePause(c) \/ HandleResume(c) \/ \E i \in Intervals : HandleSetInterval(c, i)
  PROVE  EndpointView!Next
<1>0. UNCHANGED handler /\ DOMAIN intervals = connections /\ DOMAIN paused = connections
  BY DEF HandlePause, HandleResume, HandleSetInterval, HandleCommand, TypeOK, ManagerTypeOK
<1>1. CASE ~(c \in connections /\ socket[c] # "closed")
  <2>1. OnlyForgets
    <3>1. CASE c \in connections
      BY <1>1, <3>1, UnregisterOnlyForgets
      DEF HandlePause, HandleResume, HandleSetInterval, HandleCommand, Disconnect, TypeOK
    <3>2. CASE c \notin connections
      BY <1>0, <3>2 DEF HandlePause, HandleResume, HandleSetInterval, HandleCommand,
         SetPaused, SetInterval, OnlyForgets
    <3>. QED
      BY <3>1, <3>2
  <2>. QED
    BY <1>0, <2>1, ForgettingImplementsEndpoint DEF EndpointView!Next
<1>2. CASE c \in connections /\ socket[c] # "closed"
  <2>1. ASSUME NEW p \in BOOLEAN, SetPaused(c, p) PROVE EndpointView!Command(c)
    <3>1. /\ UNCHANGED <<connections, intervals, handler>>
          /\ paused' = [x \in connections |-> IF x = c THEN p ELSE paused[x]]
      BY <1>0, <2>1 DEF SetPaused
    <3>. QED
      BY <1>2, <3>1 DEF EndpointView!Command
  <2>2. ASSUME NEW i \in Intervals, SetInterval(c, i) PROVE EndpointView!Command(c)
    <3>1. /\ UNCHANGED <<connections, paused, handler>>
          /\ intervals' = [x \in connections |-> IF x = c THEN i ELSE intervals[x]]
      BY <1>0, <2>2 DEF SetInterval
    <3>. QED
      BY <1>2, <3>1 DEF EndpointView!Command
  <2>3. \/ SetPaused(c, TRUE) \/ SetPaused(c, FALSE)
        \/ \E i \in Intervals : SetInterval(c, i)
    BY <1>2 DEF HandlePause, HandleResume, HandleSetInterval, HandleCommand
  <2>. QED
    BY <2>1, <2>2, <2>3 DEF EndpointView!Next
<1>. QED
  BY <1>1, <1>2

LEMMA StepImplementsEndpoint ==
  TypeOK /\ FreshIds /\ RegistryInv /\ [Next]_vars
  => [EndpointView!Next]_(EndpointView!vars)
<1>. SUFFICES ASSUME TypeOK, FreshIds, RegistryInv, [Next]_vars
              PROVE  EndpointView!Next
  OBVIOUS
<1>. USE DEF EndpointView!Next
<1>1. ASSUME NEW state \in {"open", "closed"}, ClientConnects(state)
      PROVE  EndpointView!Next
  BY <1>1, ArrivalImplementsEndpoint
<1>2. ASSUME NEW c \in ConnId, SysInfoSent(c) \/ HistorySent(c) \/ HandleOther(c)
      PROVE  EndpointView!Drop
  <2>1. OnlyForgets
    BY <1>2, SendToOnlyForgets
    DEF SysInfoSent, HistorySent, HandleOther, managerVars, registry, OnlyForgets
  <2>2. \A d \in ConnId : handler'[d] \in {"none", "done"}
                             <=> handler[d] \in {"none", "done"}
    BY <1>2 DEF SysInfoSent, HistorySent, HandleOther, HandlerMoves, TypeOK
  <2>. QED
    BY <2>1, <2>2, ForgettingImplementsEndpoint
<1>3. ASSUME NEW c \in ConnId, HandlerStep(c)
      PROVE  EndpointView!Next
  BY <1>2, <1>3, CommandImplementsEndpoint, EndImplementsEndpoint DEF HandlerStep
<1>4. ASSUME OnlyForgets, UNCHANGED handler
      PROVE  EndpointView!Next
  BY <1>4, ForgettingImplementsEndpoint
<1>5. ASSUME NEW l \in Loops, LoopStep(l)
      PROVE  EndpointView!Next
  BY <1>4, <1>5, LoopOnlyForgets
<1>6. ASSUME \/ \E c \in ConnId : SocketGoes(c)
             \/ TimerTicks \/ TimerFires \/ Stop \/ UNCHANGED vars
      PROVE  EndpointView!Next
  <2>1. OnlyForgets /\ UNCHANGED handler
    BY <1>6 DEF SocketGoes, SocketCloses, TimerTicks, CountdownTick, TimerFires,
       CountdownFires, Stop, CancelCalls, vars, managerVars, registry, OnlyForgets
  <2>. QED
    BY <1>4, <2>1
<1>. QED
  BY <1>1, <1>3, <1>5, <1>6 DEF Next

\* Each client has the connection of Endpoint, whatever the handlers, the
\* broadcasts and the other clients do: nothing but its own commands changes
\* its settings, and once dropped it is never served again.
THEOREM ServerImplementsEndpoint == Spec => EndpointContract
<1>1. Init => EndpointView!Init
  BY DEF Init, ManagerInit, EndpointView!Init, EndpointView!Defaults
<1>2. ServerInv /\ [Next]_vars => [EndpointView!Next]_(EndpointView!vars)
  BY StepImplementsEndpoint DEF ServerInv
<1>. QED
  BY <1>1, <1>2, ServerInvariant, PTL DEF Spec, EndpointContract, EndpointView!Spec

-----------------------------------------------------------------------------
(* Which clients the server may forget *)

\* Nobody leaves the registry who is still there: the targets a broadcast cleans
\* up are those whose send has failed, and nothing but a lost socket or the
\* payload makes one fail.
THEOREM OnlyTheLostLeave == Spec => OnlyLostAreDropped
<1>1. ServerInv /\ [Next]_vars
      => [\A c \in connections :
            \/ c \in connections'
            \/ socket[c] = "closed"
            \/ handler'[c] = "done"
            \/ \E l \in Loops : ~encodable[l] /\ c \in broken[l]]_vars
  BY OnlyLostAreForgotten DEF ServerInv
<1>. QED
  BY <1>1, ServerInvariant, PTL DEF Spec, OnlyLostAreDropped

\* While every payload can be encoded, whoever has a handler and an open socket
\* is registered.
OpenInv ==
    /\ \A l \in Loops : encodable[l]
    /\ \A c \in ConnId :
          handler[c] \notin {"none", "done"} /\ socket[c] = "open" => c \in connections

\* Handlers start with a registration, and sockets open with one.
LEMMA OnlyArrivalsOpen ==
  ASSUME TypeOK, FreshIds, [Next]_vars, NEW c \in ConnId,
         handler'[c] \notin {"none", "done"}, socket'[c] = "open"
  PROVE  \/ c \in connections'
         \/ handler[c] \notin {"none", "done"} /\ socket[c] = "open"
<1>. USE DEF TypeOK, ManagerTypeOK
<1>1. ASSUME NEW state \in {"open", "closed"}, ClientConnects(state)
      PROVE  \/ c \in connections'
             \/ handler[c] \notin {"none", "done"} /\ socket[c] = "open"
  BY <1>1 DEF ClientConnects, Connect
<1>2. ASSUME NEW d \in ConnId, HandlerStep(d)
      PROVE  handler[c] \notin {"none", "done"} /\ socket[c] = "open"
  <2>1. UNCHANGED socket
    BY <1>2 DEF HandlerStep, SysInfoSent, HistorySent, HandleSetInterval, HandlePause,
       HandleResume, HandleOther, HandlerExits, HandlerFails, HandleCommand, SendTo,
       SetInterval, SetPaused, Disconnect, Unregister, managerVars
  <2>2. handler[c] \notin {"none", "done"}
    BY <1>2 DEF HandlerStep, SysInfoSent, HistorySent, HandleSetInterval, HandlePause,
       HandleResume, HandleOther, HandlerExits, HandlerFails, HandleCommand, HandlerMoves
  <2>. QED
    BY <2>1, <2>2
<1>3. ASSUME NEW d \in ConnId, SocketGoes(d)
      PROVE  handler[c] \notin {"none", "done"} /\ socket[c] = "open"
  BY <1>3 DEF SocketGoes, SocketCloses
<1>4. ASSUME NEW l \in Loops, LoopStep(l)
      PROVE  UNCHANGED <<handler, socket>>
  BY <1>4, LoopOnlyForgets
<1>5. CASE TimerTicks \/ TimerFires \/ Stop \/ UNCHANGED vars
  BY <1>5 DEF TimerTicks, CountdownTick, TimerFires, CountdownFires, Stop, CancelCalls,
     vars, managerVars
<1>. QED
  BY <1>1, <1>2, <1>3, <1>4, <1>5 DEF Next

\* The system sleeps in front of a connected client only if a payload may not
\* encode: then, and only then, is a broadcast's error no lost connection
\* (connection_manager.py lines 4, 139-145).
THEOREM OnlyPayloadsHideClients ==
  ASSUME MayNotEncode = {}
  PROVE  Spec => []SleepsOnlyWithoutClients
<1>1. Init => OpenInv
  BY DEF Init, ManagerInit, OpenInv
<1>2. ServerInv /\ OpenInv /\ [Next]_vars => OpenInv'
  <2>. SUFFICES ASSUME ServerInv, OpenInv, [Next]_vars PROVE OpenInv'
    OBVIOUS
  <2>0. TypeOK /\ FreshIds /\ broken' \in [Loops -> SUBSET ConnId]
    BY NextServerInv DEF ServerInv, TypeOK, ManagerTypeOK
  <2>1. \A l \in Loops : encodable'[l]
    <3>1. ManagerTypeOK /\ [ManagerNext]_managerVars
      BY <2>0, NextUsesManager DEF TypeOK
    <3>. USE DEF OpenInv, ManagerTypeOK
    <3>2. CASE RegistryStep \/ SleepStep \/ UNCHANGED managerVars
      BY <3>2 DEF RegistryStep, Connect, SendTo, Disconnect, SocketCloses,
         SetInterval, SetPaused, SleepStep, CountdownTick, CountdownFires,
         WaitForWake, castVars, managerVars
    <3>3. CASE BroadcastStep \/ \E S \in SUBSET Loops : CancelCalls(S)
      BY <3>1, <3>3 DEF BroadcastStep, StartBroadcast, SkipTarget, SendRaises,
         SendFrame, Reaches, DrainEnds, FinishBroadcast, CancelCalls
    <3>. QED
      BY <3>1, <3>2, <3>3 DEF ManagerNext
  <2>2. ASSUME NEW c \in ConnId, handler'[c] \notin {"none", "done"}, socket'[c] = "open"
        PROVE  c \in connections'
    <3>1. CASE handler[c] \notin {"none", "done"} /\ socket[c] = "open"
      <4>1. c \in connections
        BY <3>1 DEF OpenInv
      <4>2. CASE Next
        BY <2>0, <2>2, <3>1, <4>1, <4>2, OnlyLostAreForgotten DEF ServerInv, OpenInv
      <4>3. CASE UNCHANGED vars
        BY <4>1, <4>3 DEF vars, managerVars, registry
      <4>. QED
        BY <4>2, <4>3
    <3>2. CASE ~(handler[c] \notin {"none", "done"} /\ socket[c] = "open")
      BY <2>0, <2>2, <3>2, OnlyArrivalsOpen
    <3>. QED
      BY <3>1, <3>2
  <2>. QED
    BY <2>1, <2>2 DEF OpenInv
<1>3. ServerInv /\ OpenInv => SleepsOnlyWithoutClients
  BY DEF ServerInv, SleepInv, SleepsOnlyWhenIdle, OpenInv, SleepsOnlyWithoutClients
<1>. QED
  BY <1>1, <1>2, <1>3, ServerInvariant, PTL DEF Spec
=============================================================================

------------------------ MODULE ConnectionManagerProofs -----------------------
(***************************************************************************)
(* Proofs about ConnectionManager for any number of connections and loops  *)
(* and any delay.                                                          *)
(***************************************************************************)
EXTENDS ConnectionManager, TLAPS

\* What an idle system and a sleeping one have in common: neither flag,
\* event, countdown nor registry can be understood without the others.
SleepInv ==
    /\ SleepsOnlyWhenIdle
    /\ IdleMeansCountdown
    /\ CountdownOnlyWhenIdle
    /\ NoLostWake

-----------------------------------------------------------------------------
(* Type correctness *)

LEMMA InitTypeOK == ManagerInit => ManagerTypeOK
<1> SUFFICES ASSUME ManagerInit PROVE ManagerTypeOK
  OBVIOUS
<1> USE ManagerAssumption DEF ManagerInit
<1>1. connCounter \in 0..MaxConns /\ connections \subseteq 1..connCounter
  OBVIOUS
<1>2. intervals \in [connections -> Intervals]
  OBVIOUS
<1>3. paused \in [connections -> BOOLEAN]
  OBVIOUS
<1>4. countdown \in {NoCountdown} \cup 0..SleepDelay
  OBVIOUS
<1>5. /\ socket \in [ConnId -> {"none", "open", "closed"}]
      /\ targets \in [Loops -> SUBSET ConnId]
      /\ broken \in [Loops -> SUBSET ConnId]
      /\ inFlight \in [Loops -> {NoConn} \cup ConnId]
      /\ encodable \in [Loops -> BOOLEAN]
  OBVIOUS
<1> QED
  BY <1>1, <1>2, <1>3, <1>4, <1>5 DEF ManagerTypeOK

\* Removing ids keeps both dicts on the domain of the registry.
LEMMA UnregisterTypeOK ==
  ASSUME ManagerTypeOK, NEW S, Unregister(S)
  PROVE  /\ connections' \subseteq 1..connCounter'
         /\ intervals' \in [connections' -> Intervals]
         /\ paused' \in [connections' -> BOOLEAN]
         /\ countdown' \in {NoCountdown} \cup 0..SleepDelay
         /\ UNCHANGED <<connCounter, isSleeping, wakeEvent, waiters, socket>>
<1> USE ManagerAssumption DEF ManagerTypeOK, Unregister, CountdownWithout
<1>1. connections' \subseteq 1..connCounter' /\ UNCHANGED connCounter
  OBVIOUS
<1>2. intervals' = [c \in connections' |-> intervals[c]]
  BY DEF Restrict
<1>3. paused' = [c \in connections' |-> paused[c]]
  BY DEF Restrict
<1>4. /\ countdown' \in {NoCountdown} \cup 0..SleepDelay
      /\ UNCHANGED <<isSleeping, wakeEvent, waiters, socket>>
  BY DEF sleepVars
<1> QED
  BY <1>1, <1>2, <1>3, <1>4

LEMMA ConnectTypeOK ==
  ASSUME ManagerTypeOK, NEW state \in {"open", "closed"}, Connect(state)
  PROVE  ManagerTypeOK'
<1> USE ManagerAssumption DEF ManagerTypeOK, Connect, CancelCountdown, WakeUp
<1> DEFINE c == connCounter + 1
<1>1. connCounter' \in 0..MaxConns /\ connections' \subseteq 1..connCounter'
  OBVIOUS
<1>2. intervals' \in [connections' -> Intervals]
  OBVIOUS
<1>3. paused' \in [connections' -> BOOLEAN]
  OBVIOUS
<1>4. /\ isSleeping' \in BOOLEAN /\ wakeEvent' \in BOOLEAN
      /\ waiters' \subseteq Loops
      /\ countdown' \in {NoCountdown} \cup 0..SleepDelay
  OBVIOUS
<1>5. socket' \in [ConnId -> {"none", "open", "closed"}]
  BY DEF ConnId
<1> QED
  BY <1>1, <1>2, <1>3, <1>4, <1>5 DEF castVars

LEMMA NextTypeOK == ManagerTypeOK /\ [ManagerNext]_managerVars => ManagerTypeOK'
<1> SUFFICES ASSUME ManagerTypeOK, [ManagerNext]_managerVars
             PROVE  ManagerTypeOK'
  OBVIOUS
<1> USE ManagerAssumption DEF ManagerTypeOK, registry, sleepVars, castVars, NoConn
<1>1. ASSUME NEW state \in {"open", "closed"}, Connect(state)
      PROVE  ManagerTypeOK'
  BY <1>1, ConnectTypeOK
<1>2. ASSUME NEW c \in 1..connCounter, Disconnect(c)
      PROVE  ManagerTypeOK'
  BY <1>2, UnregisterTypeOK DEF Disconnect
<1>3. ASSUME NEW c \in 1..connCounter, SendTo(c)
      PROVE  ManagerTypeOK'
  BY <1>3, <1>2 DEF SendTo, managerVars
<1>4. ASSUME NEW c \in 1..connCounter, SocketCloses(c)
      PROVE  ManagerTypeOK'
  BY <1>4 DEF SocketCloses
<1>5. ASSUME NEW c \in 1..connCounter, NEW i \in Intervals, SetInterval(c, i)
      PROVE  ManagerTypeOK'
  BY <1>5 DEF SetInterval
<1>6. ASSUME NEW c \in 1..connCounter, NEW p \in BOOLEAN, SetPaused(c, p)
      PROVE  ManagerTypeOK'
  BY <1>6 DEF SetPaused
<1>7. ASSUME CountdownTick
      PROVE  ManagerTypeOK'
  BY <1>7 DEF CountdownTick, NoCountdown
<1>8. ASSUME CountdownFires
      PROVE  ManagerTypeOK'
  BY <1>8 DEF CountdownFires
<1>9. ASSUME NEW l \in Loops, WaitForWake(l)
      PROVE  ManagerTypeOK'
  BY <1>9 DEF WaitForWake
<1>10. ASSUME NEW l \in Loops, NEW canEncode \in BOOLEAN, StartBroadcast(l, canEncode)
       PROVE  ManagerTypeOK'
  BY <1>10 DEF StartBroadcast, ConnId
<1>11. ASSUME NEW l \in Loops, NEW c \in ConnId,
              SkipTarget(l, c) \/ SendRaises(l, c) \/ SendFrame(l, c)
       PROVE  ManagerTypeOK'
  <2>1. targets' \in [Loops -> SUBSET ConnId]
    BY <1>11 DEF SkipTarget, SendRaises, SendFrame, Reaches
  <2>2. broken' \in [Loops -> SUBSET ConnId]
    BY <1>11 DEF SkipTarget, SendRaises, SendFrame
  <2>3. inFlight' \in [Loops -> {NoConn} \cup ConnId]
    BY <1>11 DEF SkipTarget, SendRaises, SendFrame
  <2> QED
    BY <1>11, <2>1, <2>2, <2>3 DEF SkipTarget, SendRaises, SendFrame, Reaches
<1>12. ASSUME NEW l \in Loops, DrainEnds(l)
       PROVE  ManagerTypeOK'
  BY <1>12 DEF DrainEnds
<1>13. ASSUME NEW l \in Loops, FinishBroadcast(l)
       PROVE  ManagerTypeOK'
  <2>1. CASE broken[l] = {}
    BY <1>13, <2>1 DEF FinishBroadcast
  <2>2. CASE broken[l] # {}
    BY <1>13, <2>2, UnregisterTypeOK DEF FinishBroadcast, Unregister
  <2> QED
    BY <2>1, <2>2
<1>14. ASSUME NEW S \in SUBSET Loops, CancelCalls(S)
       PROVE  ManagerTypeOK'
  BY <1>14 DEF CancelCalls
<1>15. CASE UNCHANGED managerVars
  BY <1>15 DEF managerVars
<1> QED
  BY <1>1, <1>2, <1>3, <1>4, <1>5, <1>6, <1>7, <1>8, <1>9, <1>10, <1>11,
     <1>12, <1>13, <1>14, <1>15
  DEF ManagerNext, RegistryStep, SleepStep, BroadcastStep

\* The manager's variables keep their types; in particular the three dicts
\* never disagree on the ids they hold, whoever removes one and when.
THEOREM ManagerTypeCorrect == ManagerSpec => []ManagerTypeOK
  BY InitTypeOK, NextTypeOK, PTL DEF ManagerSpec

-----------------------------------------------------------------------------
(* Sleep and wake *)

\* Which steps touch what SleepInv speaks of: most leave it all alone.
idleVars == <<connections, isSleeping, wakeEvent, waiters, countdown>>

LEMMA IdleUnchanged ==
  ASSUME SleepInv, UNCHANGED idleVars
  PROVE  SleepInv'
  BY DEF SleepInv, SleepsOnlyWhenIdle, IdleMeansCountdown,
         CountdownOnlyWhenIdle, NoLostWake, idleVars

\* Removing any ids keeps SleepInv: what is left is empty and counts down, or
\* was not empty before and has no countdown.
LEMMA UnregisterSleepInv ==
  ASSUME ManagerTypeOK, SleepInv, NEW S, Unregister(S)
  PROVE  SleepInv'
<1> USE ManagerAssumption DEF ManagerTypeOK, SleepInv, NoCountdown
<1>1. SleepsOnlyWhenIdle' /\ NoLostWake'
  BY DEF Unregister, SleepsOnlyWhenIdle, NoLostWake, sleepVars
<1>2. IdleMeansCountdown'
  <2>1. connections' = {} => countdown' = SleepDelay
    BY DEF Unregister, CountdownWithout
  <2> QED
    BY <2>1 DEF IdleMeansCountdown
<1>3. CountdownOnlyWhenIdle'
  BY DEF Unregister, CountdownWithout, CountdownOnlyWhenIdle
<1> QED
  BY <1>1, <1>2, <1>3

LEMMA NextSleepInv ==
  ManagerTypeOK /\ SleepInv /\ [ManagerNext]_managerVars => SleepInv'
<1> SUFFICES ASSUME ManagerTypeOK, SleepInv, [ManagerNext]_managerVars
             PROVE  SleepInv'
  OBVIOUS
<1> USE ManagerAssumption
<1>1. ASSUME NEW state \in {"open", "closed"}, Connect(state)
      PROVE  SleepInv'
  BY <1>1 DEF Connect, CancelCountdown, WakeUp, SleepInv, SleepsOnlyWhenIdle, IdleMeansCountdown,
     CountdownOnlyWhenIdle, NoLostWake, ManagerTypeOK, NoCountdown
<1>2. ASSUME NEW c, Disconnect(c)
      PROVE  SleepInv'
  BY <1>2, UnregisterSleepInv DEF Disconnect
<1>3. ASSUME NEW c, SendTo(c)
      PROVE  SleepInv'
  BY <1>2, <1>3, IdleUnchanged DEF SendTo, managerVars, idleVars, registry, sleepVars
<1>4. ASSUME NEW c, SocketCloses(c) \/ (\E i : SetInterval(c, i))
                                    \/ (\E p : SetPaused(c, p))
      PROVE  SleepInv'
  BY <1>4, IdleUnchanged
  DEF SocketCloses, SetInterval, SetPaused, idleVars, registry, sleepVars
<1>5. ASSUME CountdownTick
      PROVE  SleepInv'
  BY <1>5 DEF CountdownTick, SleepInv, SleepsOnlyWhenIdle, IdleMeansCountdown,
     CountdownOnlyWhenIdle, NoLostWake, ManagerTypeOK, NoCountdown, registry, sleepVars
<1>6. ASSUME CountdownFires
      PROVE  SleepInv'
  <2>1. connections = {}
    BY <1>6 DEF CountdownFires, SleepInv, CountdownOnlyWhenIdle, NoCountdown
  <2> QED
    BY <1>6, <2>1 DEF CountdownFires, SleepInv, SleepsOnlyWhenIdle,
       IdleMeansCountdown, CountdownOnlyWhenIdle, NoLostWake, registry
<1>7. ASSUME NEW l \in Loops, WaitForWake(l)
      PROVE  SleepInv'
  BY <1>7 DEF WaitForWake, SleepInv, SleepsOnlyWhenIdle, IdleMeansCountdown,
     CountdownOnlyWhenIdle, NoLostWake, registry
<1>8. ASSUME NEW l \in Loops, \/ \E canEncode : StartBroadcast(l, canEncode)
                              \/ \E c \in ConnId : \/ SkipTarget(l, c)
                                                   \/ SendRaises(l, c)
                                                   \/ SendFrame(l, c)
                              \/ DrainEnds(l)
      PROVE  SleepInv'
  BY <1>8, IdleUnchanged
  DEF StartBroadcast, SkipTarget, SendRaises, SendFrame, Reaches, DrainEnds,
      idleVars, registry, sleepVars
<1>9. ASSUME NEW l \in Loops, FinishBroadcast(l)
      PROVE  SleepInv'
  BY <1>9, IdleUnchanged, UnregisterSleepInv
  DEF FinishBroadcast, idleVars, registry, sleepVars
<1>10. ASSUME NEW S \in SUBSET Loops, CancelCalls(S)
       PROVE  SleepInv'
  BY <1>10 DEF CancelCalls, SleepInv, SleepsOnlyWhenIdle, IdleMeansCountdown,
     CountdownOnlyWhenIdle, NoLostWake, registry
<1>11. CASE UNCHANGED managerVars
  BY <1>11, IdleUnchanged DEF managerVars, idleVars, registry, sleepVars
<1> QED
  BY <1>1, <1>2, <1>3, <1>4, <1>5, <1>6, <1>7, <1>8, <1>9, <1>10, <1>11
  DEF ManagerNext, RegistryStep, SleepStep, BroadcastStep

LEMMA InitSleepInv == ManagerInit => SleepInv
  BY DEF ManagerInit, SleepInv, SleepsOnlyWhenIdle, IdleMeansCountdown,
         CountdownOnlyWhenIdle, NoLostWake

THEOREM ManagerInvariant == ManagerSpec => [](ManagerTypeOK /\ SleepInv)
<1>1. ManagerInit => ManagerTypeOK /\ SleepInv
  BY InitTypeOK, InitSleepInv
<1>2. ManagerTypeOK /\ SleepInv /\ [ManagerNext]_managerVars
      => (ManagerTypeOK /\ SleepInv)'
  BY NextTypeOK, NextSleepInv
<1> QED
  BY <1>1, <1>2, PTL DEF ManagerSpec

\* The system never sleeps on a registered client.
THEOREM NeverSleepsOnClients == ManagerSpec => []SleepsOnlyWhenIdle
  BY ManagerInvariant, PTL DEF SleepInv

\* An idle system sleeps or counts down: it never stays awake for nobody.
THEOREM IdleCountsDown == ManagerSpec => []IdleMeansCountdown
  BY ManagerInvariant, PTL DEF SleepInv

\* No countdown runs while anybody is registered.
THEOREM ArrivalCancelsCountdown == ManagerSpec => []CountdownOnlyWhenIdle
  BY ManagerInvariant, PTL DEF SleepInv

\* No loop ever waits for a wake-up that has already happened.
THEOREM WakeIsNeverLost == ManagerSpec => []NoLostWake
  BY ManagerInvariant, PTL DEF SleepInv

-----------------------------------------------------------------------------
(* ConnectionManager implements SleepWake *)

LEMMA StepImplementsSleepWake ==
  ManagerTypeOK /\ SleepInv /\ ManagerTypeOK' /\ [ManagerNext]_managerVars
  => [SleepContract!Next]_(SleepContract!vars)
<1> SUFFICES ASSUME ManagerTypeOK, SleepInv, ManagerTypeOK',
                    [ManagerNext]_managerVars
             PROVE  [SleepContract!Next]_(SleepContract!vars)
  OBVIOUS
<1> USE ManagerAssumption
<1>1. ASSUME UNCHANGED idleVars
      PROVE  UNCHANGED SleepContract!vars
  BY <1>1 DEF idleVars, SleepContract!vars
<1>2. ASSUME NEW S, Unregister(S)
      PROVE  SleepContract!Depart
  BY <1>2 DEF Unregister, SleepContract!Depart, sleepVars
<1>3. ASSUME NEW state \in {"open", "closed"}, Connect(state)
      PROVE  SleepContract!Arrive(connCounter + 1)
  <2>1. connCounter + 1 \in ConnId \ connections
    BY <1>3 DEF Connect, ManagerTypeOK, ConnId
  <2>2. waiters' = {}
    BY <1>3 DEF Connect, CancelCountdown, WakeUp, SleepInv, NoLostWake
  <2> QED
    BY <1>3, <2>1, <2>2 DEF Connect, CancelCountdown, WakeUp, SleepContract!Arrive
<1>4. ASSUME NEW c, Disconnect(c)
      PROVE  SleepContract!Depart
  BY <1>2, <1>4 DEF Disconnect
<1>5. ASSUME NEW c, SendTo(c)
      PROVE  SleepContract!Depart \/ UNCHANGED SleepContract!vars
  BY <1>1, <1>4, <1>5 DEF SendTo, managerVars, idleVars, registry, sleepVars
<1>6. ASSUME NEW c, SocketCloses(c) \/ (\E i : SetInterval(c, i))
                                    \/ (\E p : SetPaused(c, p))
      PROVE  UNCHANGED SleepContract!vars
  BY <1>1, <1>6
  DEF SocketCloses, SetInterval, SetPaused, idleVars, registry, sleepVars
<1>7. ASSUME CountdownTick
      PROVE  UNCHANGED SleepContract!vars
  BY <1>7 DEF CountdownTick, SleepContract!vars, registry, sleepVars
<1>8. ASSUME CountdownFires
      PROVE  SleepContract!FallAsleep
  <2>1. connections = {}
    BY <1>8 DEF CountdownFires, SleepInv, CountdownOnlyWhenIdle, NoCountdown
  <2> QED
    BY <1>8, <2>1 DEF CountdownFires, SleepContract!FallAsleep, registry
<1>9. ASSUME NEW l \in Loops, WaitForWake(l)
      PROVE  SleepContract!Block(l) \/ UNCHANGED SleepContract!vars
  <2>1. CASE wakeEvent
    BY <1>9, <2>1 DEF WaitForWake, SleepContract!vars, registry
  <2>2. CASE ~wakeEvent
    BY <1>9, <2>2 DEF WaitForWake, SleepContract!Block, registry, SleepInv,
       NoLostWake, ManagerTypeOK
  <2> QED
    BY <2>1, <2>2
<1>10. ASSUME NEW l \in Loops, \/ \E canEncode : StartBroadcast(l, canEncode)
                               \/ \E c \in ConnId : \/ SkipTarget(l, c)
                                                    \/ SendRaises(l, c)
                                                    \/ SendFrame(l, c)
                               \/ DrainEnds(l)
       PROVE  UNCHANGED SleepContract!vars
  BY <1>1, <1>10
  DEF StartBroadcast, SkipTarget, SendRaises, SendFrame, Reaches, DrainEnds,
      idleVars, registry, sleepVars
<1>11. ASSUME NEW l \in Loops, FinishBroadcast(l)
       PROVE  SleepContract!Depart \/ UNCHANGED SleepContract!vars
  BY <1>1, <1>2, <1>11 DEF FinishBroadcast, idleVars, registry, sleepVars
<1>12. ASSUME NEW S \in SUBSET Loops, CancelCalls(S)
       PROVE  SleepContract!GiveUp
  BY <1>12 DEF CancelCalls, SleepContract!GiveUp, registry
<1>13. CASE UNCHANGED managerVars
  BY <1>1, <1>13 DEF managerVars, idleVars, registry, sleepVars
<1>14. \A state : Connect(state) => connCounter + 1 \in ConnId
  BY DEF ManagerTypeOK, Connect, ConnId
<1> QED
  BY <1>3, <1>4, <1>5, <1>6, <1>7, <1>8, <1>9, <1>10, <1>11, <1>12, <1>13, <1>14
  DEF ManagerNext, RegistryStep, SleepStep, BroadcastStep, SleepContract!Next

\* The registry, the countdown and the event together implement the sleep
\* mode: clients come and go, the system falls asleep only while there are
\* none, and an arrival wakes it and releases every loop at once.
THEOREM ImplementsSleepWake == ManagerSpec => SleepWakeContract
<1>1. ManagerInit => SleepContract!Init
  BY DEF ManagerInit, SleepContract!Init
<1> QED
  BY <1>1, StepImplementsSleepWake, ManagerInvariant, PTL
  DEF ManagerSpec, SleepWakeContract, SleepContract!Spec
=============================================================================

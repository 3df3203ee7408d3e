---------------------------- MODULE SlowFeedProofs ----------------------------
(***************************************************************************)
(* Proofs about SlowFeed, for any containers, periods, cache span and      *)
(* bounds of the clock: a list of services served from the cache is        *)
(* recent, the page follows what Docker lists, and Docker is given up only  *)
(* when it is down.                                                        *)
(*                                                                         *)
(* The first speaks of the age of the list, which the code never sees;     *)
(* CacheInv relates it to the clock, the stamp, and what a running call    *)
(* will stamp.  The second counts payloads; PanelInv relates the count to  *)
(* the tick of the loop and to what it has collected so far.               *)
(***************************************************************************)
EXTENDS SlowFeed, SlowListsProofs, NumberLemmas

CallStages == {"idle", "asked", "answered"}

CacheTypes ==
    /\ clock \in Nat
    /\ servicesCacheTime \in Nat \cup {None}
    /\ cacheAge \in Nat
    /\ back \in Nat
    /\ call \in [at : CallStages, start : Nat, age : Nat, back : Nat]

\* The wall clock shows the age of an answer, less what it was set back: of
\* the one that is cached, and of the one a running call may have.
CacheClock ==
    servicesCacheTime # None => cacheAge <= clock - servicesCacheTime + back

CallClock == call.age <= clock - call.start + call.back

CacheInv == CacheTypes /\ CacheClock /\ CallClock

-----------------------------------------------------------------------------

\* A second shows on the clock and in the ages alike; a clock set back hides
\* one, a clock set ahead shows one that did not pass.
LEMMA ClockKeepsCache ==
    ASSUME CacheInv, SecondPasses \/ ClockSetAhead \/ ClockSetBack
    PROVE  CacheInv'
<1>1. CASE SecondPasses
  <2>1. call' \in [at : CallStages, start : Nat, age : Nat, back : Nat] /\ CallClock'
    <3>1. CASE call.at = "answered"
      BY <1>1, <3>1 DEF SecondPasses, CacheInv, CacheTypes, CallClock
    <3>2. CASE call.at # "answered"
      BY <1>1, <3>2 DEF SecondPasses, CacheInv, CacheTypes, CallClock
    <3>. QED
      BY <3>1, <3>2
  <2>. QED
    BY <1>1, <2>1 DEF SecondPasses, CacheInv, CacheTypes, CacheClock, None
<1>2. CASE ClockSetBack
  <2>1. call' \in [at : CallStages, start : Nat, age : Nat, back : Nat] /\ CallClock'
    <3>1. CASE call = Idle
      BY <1>2, <3>1 DEF ClockSetBack, CacheInv, CacheTypes, CallClock, Idle
    <3>2. CASE call # Idle
      BY <1>2, <3>2 DEF ClockSetBack, CacheInv, CacheTypes, CallClock
    <3>. QED
      BY <3>1, <3>2
  <2>. QED
    BY <1>2, <2>1 DEF ClockSetBack, CacheInv, CacheTypes, CacheClock, None
<1>3. CASE ClockSetAhead
  BY <1>3
  DEF ClockSetAhead, cacheVars, serviceVars, CacheInv, CacheTypes, CacheClock,
      CallClock, None
<1>. QED
  BY <1>1, <1>2, <1>3

\* A call of collect_services stamps what it stores with its own start.
LEMMA CallKeepsCache ==
    ASSUME CacheInv, CollectServices
    PROVE  CacheInv'
<1>. USE DEF CacheInv, CacheTypes, CacheClock, CallClock, CallStages
<1>0. clock' = clock
  BY DEF CollectServices, clockVars
<1>1. CASE ServicesCached
  BY <1>0, <1>1 DEF ServicesCached, cacheVars
<1>2. CASE ServicesAsk
  <2>1. call' \in {Idle, [at |-> "asked", start |-> clock, age |-> 0, back |-> 0]}
    BY <1>2 DEF ServicesAsk
  <2>. QED
    BY <1>0, <1>2, <2>1 DEF ServicesAsk, cacheVars, Idle
<1>3. CASE ServicesAnswered
  BY <1>0, <1>3 DEF ServicesAnswered, cacheVars
<1>4. CASE ServicesFail
  BY <1>0, <1>4 DEF ServicesFail, cacheVars, Idle
<1>5. CASE ServicesReturn
  BY <1>0, <1>5 DEF ServicesReturn, Idle
<1>. QED
  BY <1>1, <1>2, <1>3, <1>4, <1>5 DEF CollectServices

\* A call that raises leaves the cache alone.
LEMMA RaisingKeepsCache ==
    ASSUME CacheInv, ServicesRaise
    PROVE  CacheInv'
  BY DEF ServicesRaise, clockVars, cacheVars, CacheInv, CacheTypes, CacheClock,
         CallClock, CallStages, Idle

\* The clock shows the age of the cached answer in every reachable state.
THEOREM CacheInvariant == SlowFeedSpec => []CacheInv
<1>1. SlowFeedInit => CacheInv
  BY DEF SlowFeedInit, SlowInit, CacheInv, CacheTypes, CacheClock, CallClock,
         CallStages, Idle, None
<1>2. CacheInv /\ [SlowFeedNext]_slowFeedVars => CacheInv'
  <2>. SUFFICES ASSUME CacheInv, [SlowFeedNext]_slowFeedVars
                PROVE  CacheInv'
    OBVIOUS
  <2>1. CASE SecondPasses \/ ClockSetAhead \/ ClockSetBack
    BY <2>1, ClockKeepsCache
  <2>2. CASE CollectServices
    BY <2>2, CallKeepsCache
  <2>3. CASE UNCHANGED <<clock, cacheVars, call>>
    BY <2>3 DEF cacheVars, CacheInv, CacheTypes, CacheClock, CallClock
  <2>4. CASE HostChanges
    BY <2>1, <2>3, <2>4
    DEF HostChanges, DockerChanges, SystemdChanges, clockVars, serviceVars
  <2>5. CASE DueServices
    BY <2>2, <2>3, <2>5 DEF DueServices, slowVars, clockVars, serviceVars
  <2>6. CASE IterationFails
    BY <2>3, <2>6, RaisingKeepsCache DEF IterationFails, slowVars, clockVars, serviceVars
  <2>7. CASE Begins \/ DueDocker \/ Sends \/ UNCHANGED slowFeedVars
    BY <2>3, <2>7
    DEF Begins, DueDocker, Sends, CollectDocker, slowFeedVars, slowVars, clockVars,
        serviceVars
  <2>. QED
    BY <2>4, <2>5, <2>6, <2>7 DEF SlowFeedNext
<1>. QED
  BY <1>1, <1>2, PTL DEF SlowFeedSpec

\* A list served from the cache is less than CacheSpan old, and older only by
\* what the clock was set back (services.py lines 133-136, 155-156).
THEOREM CachedListIsRecent == SlowFeedSpec => []CacheIsRecent
<1>1. CacheInv => CacheIsRecent
  BY SlowAssumption DEF CacheInv, CacheTypes, CacheClock, CacheIsRecent, Fresh
<1>. QED
  BY <1>1, CacheInvariant, PTL

-----------------------------------------------------------------------------
(* Types *)

DockerTypes ==
    /\ daemon \in BOOLEAN /\ containers \subseteq Containers
    /\ dockerClient \in BOOLEAN /\ dockerAvailable \in Known
    /\ dockerAvailable = "yes" => dockerClient
    /\ dockerShown \subseteq Containers

\* The part of SlowTypeOK about the clock and the services.
ServiceTypes ==
    /\ clock \in 0..MaxClock /\ setBacks \in 0..MaxSetBacks
    /\ systemd \in BOOLEAN /\ available \in Known
    /\ servicesCacheTime \in 0..MaxClock \cup {None}
    /\ call \in [at : CallStages, start : 0..MaxClock,
                 age : 0..MaxAge, back : 0..MaxSetBacks]
    /\ servicesShown \in {"nothing", "list"}
    /\ cacheAge \in 0..MaxAge /\ back \in 0..MaxSetBacks

\* No age is more than the time that passed, whatever the clock shows.
AgesFit ==
    /\ cacheAge <= clock + setBacks /\ call.age <= clock + setBacks
    /\ back <= setBacks /\ call.back <= setBacks

ServiceInv == ServiceTypes /\ AgesFit

IterTypes ==
    /\ tick \in 0..ServicesEvery - 1
    /\ step \in {"top", "docker", "services", "send"}
    /\ collected \subseteq {"docker", "services"}
    /\ panel \subseteq Containers
    /\ settled \in [Containers -> 0..DockerEvery + 1]

LEMMA TypesSplit == SlowFeedTypeOK <=> DockerTypes /\ ServiceTypes /\ IterTypes
  BY DEF SlowFeedTypeOK, SlowTypeOK, DockerTypes, ServiceTypes, IterTypes, CallStages

\* A collection of Docker, or a change of it, leaves the rest alone.
LEMMA DockerKeepsTypes ==
    ASSUME DockerTypes, CollectDocker \/ DockerChanges
    PROVE  DockerTypes'
<1>1. CASE CollectDocker
  <2>1. UNCHANGED <<daemon, containers>>
    BY <1>1 DEF CollectDocker
  <2>2. CASE DockerGone
    BY <2>1, <2>2 DEF DockerGone, DockerTypes
  <2>3. CASE DockerConnectFails
    BY <2>1, <2>3 DEF DockerConnectFails, DockerTypes, Known
  <2>4. CASE DockerLists
    BY <2>1, <2>4 DEF DockerLists, DockerTypes, Known
  <2>5. CASE DockerListFails
    BY <2>1, <2>5 DEF DockerListFails, DockerTypes, Known
  <2>. QED
    BY <1>1, <2>2, <2>3, <2>4, <2>5 DEF CollectDocker
<1>2. CASE DockerChanges
  <2>1. UNCHANGED <<dockerClient, dockerAvailable, dockerShown>>
    BY <1>2 DEF DockerChanges
  <2>2. daemon' \in BOOLEAN /\ containers' \subseteq Containers
    BY <1>2 DEF DockerChanges, DockerTypes
  <2>. QED
    BY <2>1, <2>2 DEF DockerTypes
<1>. QED
  BY <1>1, <1>2

LEMMA ClockTypes ==
    ASSUME ServiceInv
    PROVE  /\ MaxClock \in Nat /\ MaxSetBacks \in Nat
           /\ MaxAge \in Nat /\ MaxAge = MaxClock + MaxSetBacks
           /\ clock \in Nat /\ setBacks \in Nat /\ clock <= MaxClock
           /\ setBacks <= MaxSetBacks /\ cacheAge \in Nat /\ back \in Nat
           /\ call.at \in CallStages /\ call.start \in 0..MaxClock
           /\ call.age \in Nat /\ call.back \in Nat
           /\ call = [at |-> call.at, start |-> call.start, age |-> call.age,
                      back |-> call.back]
           /\ Idle \in [at : CallStages, start : 0..MaxClock,
                        age : 0..MaxAge, back : 0..MaxSetBacks]
<1>1. MaxClock \in Nat /\ MaxSetBacks \in Nat /\ MaxAge \in Nat
  BY SlowAssumption DEF MaxAge
<1>. QED
  BY <1>1 DEF ServiceInv, ServiceTypes, MaxAge, Idle, CallStages

\* A second adds to the ages what it adds to the clock.
LEMMA SecondKeepsServices ==
    ASSUME ServiceInv, SecondPasses
    PROVE  ServiceInv'
<1>. DEFINE next == [call EXCEPT !.age = @ + 1]
<1>1. /\ clock < MaxClock /\ clock' = clock + 1
      /\ cacheAge' = IF servicesCacheTime = None THEN 0 ELSE cacheAge + 1
      /\ call' = IF call.at = "answered" THEN next ELSE call
      /\ UNCHANGED <<setBacks, servicesCacheTime, back, systemd, available, servicesShown>>
  BY DEF SecondPasses
<1>2. /\ next.at = call.at /\ next.start = call.start /\ next.back = call.back
      /\ next.age = call.age + 1
      /\ next = [at |-> next.at, start |-> next.start, age |-> next.age,
                 back |-> next.back]
  BY ClockTypes
<1>. HIDE DEF next
<1>3. clock' + setBacks = clock + setBacks + 1 /\ clock' + setBacks <= MaxAge
  BY <1>1, ClockTypes
<1>4. /\ cacheAge <= clock + setBacks /\ call.age <= clock + setBacks
      /\ back <= setBacks /\ call.back <= setBacks
  BY DEF ServiceInv, AgesFit
<1>5. cacheAge' \in 0..MaxAge /\ cacheAge' <= clock' + setBacks
  BY <1>1, <1>3, <1>4, ClockTypes
<1>6. /\ call'.age \in 0..MaxAge /\ call'.age <= clock' + setBacks
      /\ call'.back \in 0..MaxSetBacks /\ call'.back <= setBacks
      /\ call'.at \in CallStages /\ call'.start \in 0..MaxClock
      /\ call' = [at |-> call'.at, start |-> call'.start, age |-> call'.age,
                  back |-> call'.back]
  <2>1. CASE call.at = "answered"
    <3>1. call' = next
      BY <1>1, <2>1
    <3>2. call.age + 1 \in 0..MaxAge /\ call.age + 1 <= clock' + setBacks
      BY <1>1, <1>3, <1>4, ClockTypes
    <3>3. call.back \in 0..MaxSetBacks
      BY <1>4, ClockTypes
    <3>. QED
      BY <1>2, <1>4, <3>1, <3>2, <3>3, ClockTypes
  <2>2. CASE call.at # "answered"
    <3>1. call.age \in 0..MaxAge /\ call.age <= clock' + setBacks
      BY <1>1, <1>3, <1>4, ClockTypes
    <3>. QED
      BY <1>1, <1>4, <2>2, <3>1, ClockTypes
  <2>. QED
    BY <2>1, <2>2
<1>7. clock' \in 0..MaxClock
  BY <1>1, ClockTypes
<1>8. ServiceTypes'
  BY <1>1, <1>5, <1>6, <1>7 DEF ServiceInv, ServiceTypes
<1>9. AgesFit'
  BY <1>1, <1>4, <1>5, <1>6 DEF AgesFit
<1>. QED
  BY <1>8, <1>9 DEF ServiceInv

\* Setting the clock back leaves the time that passed as it is.
LEMMA SetBackKeepsServices ==
    ASSUME ServiceInv, ClockSetBack
    PROVE  ServiceInv'
<1>. DEFINE next == [call EXCEPT !.back = @ + 1]
<1>1. /\ clock > 0 /\ setBacks < MaxSetBacks /\ clock' = clock - 1
      /\ setBacks' = setBacks + 1
      /\ back' = IF servicesCacheTime = None THEN 0 ELSE back + 1
      /\ call' = IF call = Idle THEN Idle ELSE next
      /\ UNCHANGED <<servicesCacheTime, cacheAge, systemd, available, servicesShown>>
  BY DEF ClockSetBack
<1>2. /\ next.at = call.at /\ next.start = call.start /\ next.age = call.age
      /\ next.back = call.back + 1
      /\ next = [at |-> next.at, start |-> next.start, age |-> next.age,
                 back |-> next.back]
  BY ClockTypes
<1>. HIDE DEF next
<1>3. clock' + setBacks' = clock + setBacks /\ clock + setBacks <= MaxAge
  BY <1>1, ClockTypes
<1>4. /\ cacheAge <= clock + setBacks /\ call.age <= clock + setBacks
      /\ back <= setBacks /\ call.back <= setBacks
  BY DEF ServiceInv, AgesFit
<1>5. back' \in 0..MaxSetBacks /\ back' <= setBacks'
  BY <1>1, <1>4, ClockTypes
<1>6. /\ call'.age \in 0..MaxAge /\ call'.age <= clock' + setBacks'
      /\ call'.back \in 0..MaxSetBacks /\ call'.back <= setBacks'
      /\ call'.at \in CallStages /\ call'.start \in 0..MaxClock
      /\ call' = [at |-> call'.at, start |-> call'.start, age |-> call'.age,
                  back |-> call'.back]
  <2>1. call.age \in 0..MaxAge
    BY <1>3, <1>4, ClockTypes
  <2>2. CASE call = Idle
    BY <1>1, <1>3, <1>4, <2>1, <2>2, ClockTypes DEF Idle
  <2>3. CASE call # Idle
    <3>1. call' = next
      BY <1>1, <2>3
    <3>2. call.back + 1 \in 0..MaxSetBacks /\ call.back + 1 <= setBacks'
      BY <1>1, <1>4, ClockTypes
    <3>. QED
      BY <1>2, <1>3, <1>4, <2>1, <3>1, <3>2, ClockTypes
  <2>. QED
    BY <2>2, <2>3
<1>7. clock' \in 0..MaxClock /\ setBacks' \in 0..MaxSetBacks
  BY <1>1, ClockTypes
<1>8. ServiceTypes'
  BY <1>1, <1>5, <1>6, <1>7 DEF ServiceInv, ServiceTypes
<1>9. AgesFit'
  BY <1>1, <1>3, <1>4, <1>5, <1>6 DEF AgesFit
<1>. QED
  BY <1>8, <1>9 DEF ServiceInv

\* A clock set ahead leaves more room to the ages.
LEMMA SetAheadKeepsServices ==
    ASSUME ServiceInv, ClockSetAhead
    PROVE  ServiceInv'
<1>1. /\ clock < MaxClock /\ clock' = clock + 1
      /\ UNCHANGED <<setBacks, servicesCacheTime, cacheAge, back, systemd, available,
                     call, servicesShown>>
  BY DEF ClockSetAhead, cacheVars, serviceVars
<1>2. clock' \in 0..MaxClock /\ clock + setBacks <= clock' + setBacks
  BY <1>1, ClockTypes
<1>3. ServiceTypes'
  BY <1>1, <1>2 DEF ServiceInv, ServiceTypes
<1>4. AgesFit'
  <2>1. /\ cacheAge <= clock + setBacks /\ call.age <= clock + setBacks
        /\ back <= setBacks /\ call.back <= setBacks
    BY DEF ServiceInv, AgesFit
  <2>2. cacheAge <= clock' + setBacks /\ call.age <= clock' + setBacks
    BY <1>1, <2>1, ClockTypes
  <2>. QED
    BY <1>1, <2>1, <2>2 DEF AgesFit
<1>. QED
  BY <1>3, <1>4 DEF ServiceInv

\* A call stamps the list with a time it has seen, and an age it counted.
LEMMA CallKeepsServices ==
    ASSUME ServiceInv, CollectServices
    PROVE  ServiceInv'
<1>0. /\ UNCHANGED <<clock, setBacks>>
      /\ cacheAge <= clock + setBacks /\ call.age <= clock + setBacks
      /\ back <= setBacks /\ call.back <= setBacks
      /\ clock \in 0..MaxClock /\ setBacks \in 0..MaxSetBacks
  BY DEF CollectServices, clockVars, ServiceInv, ServiceTypes, AgesFit
<1>1. CASE ServicesCached
  <2>1. UNCHANGED <<cacheAge, back, servicesCacheTime, systemd, available, call>>
    BY <1>1 DEF ServicesCached, cacheVars
  <2>. QED
    BY <1>0, <1>1, <2>1 DEF ServicesCached, ServiceInv, ServiceTypes, AgesFit
<1>2. CASE ServicesAsk
  <2>. DEFINE asked == [at |-> "asked", start |-> clock, age |-> 0, back |-> 0]
  <2>1. /\ UNCHANGED <<cacheAge, back, servicesCacheTime, systemd>>
        /\ available' \in Known /\ call' \in {Idle, asked}
        /\ servicesShown' \in {servicesShown, "nothing"}
    BY <1>2 DEF ServicesAsk, cacheVars
  <2>2. call'.age = 0 /\ call'.back = 0
    BY <2>1 DEF Idle
  <2>3. call' \in [at : CallStages, start : 0..MaxClock, age : 0..MaxAge, back : 0..MaxSetBacks]
    <3>1. 0 \in 0..MaxAge /\ 0 \in 0..MaxSetBacks /\ "asked" \in CallStages
      BY ClockTypes DEF CallStages
    <3>2. asked \in [at : CallStages, start : 0..MaxClock, age : 0..MaxAge,
                     back : 0..MaxSetBacks]
      BY <1>0, <3>1
    <3>. HIDE DEF asked
    <3>. QED
      BY <2>1, <3>2, ClockTypes
  <2>. HIDE DEF asked
  <2>4. 0 <= clock + setBacks /\ 0 <= setBacks
    BY ClockTypes
  <2>5. ServiceTypes'
    BY <1>0, <2>1, <2>3 DEF ServiceInv, ServiceTypes
  <2>6. AgesFit'
    BY <1>0, <2>1, <2>2, <2>4 DEF AgesFit
  <2>. QED
    BY <2>5, <2>6 DEF ServiceInv
<1>3. CASE ServicesAnswered
  <2>1. /\ UNCHANGED <<cacheAge, back, servicesCacheTime, systemd, available, servicesShown>>
        /\ call' = [call EXCEPT !.at = "answered"]
    BY <1>3 DEF ServicesAnswered, cacheVars
  <2>. QED
    BY <1>0, <2>1 DEF ServiceInv, ServiceTypes, AgesFit, CallStages
<1>4. CASE ServicesFail
  <2>1. /\ UNCHANGED <<cacheAge, back, servicesCacheTime, systemd, available>>
        /\ call' = Idle /\ servicesShown' = "nothing"
    BY <1>4 DEF ServicesFail, cacheVars
  <2>2. Idle.age = 0 /\ Idle.back = 0 /\ 0 <= clock + setBacks /\ 0 <= setBacks
    BY ClockTypes DEF Idle
  <2>. QED
    BY <1>0, <2>1, <2>2, ClockTypes DEF ServiceInv, ServiceTypes, AgesFit
<1>5. CASE ServicesReturn
  <2>1. /\ UNCHANGED <<systemd, available>> /\ call' = Idle /\ servicesShown' = "list"
        /\ servicesCacheTime' = call.start /\ cacheAge' = call.age /\ back' = call.back
    BY <1>5 DEF ServicesReturn
  <2>2. Idle.age = 0 /\ Idle.back = 0 /\ 0 <= clock + setBacks /\ 0 <= setBacks
    BY ClockTypes DEF Idle
  <2>3. call.start \in 0..MaxClock /\ call.age \in 0..MaxAge /\ call.back \in 0..MaxSetBacks
    BY DEF ServiceInv, ServiceTypes
  <2>. QED
    BY <1>0, <2>1, <2>2, <2>3, ClockTypes DEF ServiceInv, ServiceTypes, AgesFit
<1>. QED
  BY <1>1, <1>2, <1>3, <1>4, <1>5 DEF CollectServices

LEMMA RaisingKeepsServices ==
    ASSUME ServiceInv, ServicesRaise
    PROVE  ServiceInv'
<1>1. /\ UNCHANGED <<clock, setBacks, cacheAge, back, servicesCacheTime, systemd,
                     available, servicesShown>>
      /\ call' = Idle
  BY DEF ServicesRaise, clockVars, cacheVars
<1>2. Idle.age = 0 /\ Idle.back = 0 /\ 0 <= clock + setBacks /\ 0 <= setBacks
  BY ClockTypes DEF Idle
<1>. QED
  BY <1>1, <1>2, ClockTypes DEF ServiceInv, ServiceTypes, AgesFit

-----------------------------------------------------------------------------
(* The iterations *)

\* The payloads a page may take before it shows what is there: those after
\* the last one with a list of containers.
Allowed(t) == IF t % DockerEvery = 0 THEN DockerEvery ELSE t % DockerEvery

\* On a page that shows other containers than there are, no more payloads have
\* counted than the tick allows, and none where the list just collected is as
\* wrong; a tick of the Docker tier lists them before the payload goes out.
PanelInv ==
    /\ step \in {"services", "send"} /\ tick % DockerEvery = 0 => "docker" \in collected
    /\ \A c \in Containers :
          /\ ~(c \in panel <=> c \in containers) => settled[c] <= Allowed(tick)
          /\ "docker" \in collected /\ ~(c \in dockerShown <=> c \in containers) =>
                settled[c] = 0

\* The inductive invariant of the slow collectors, besides CacheInv.
SlowInv == DockerTypes /\ ServiceInv /\ IterTypes /\ PanelInv

\* Between two listings every tick allows one payload more.
LEMMA AllowedGrows ==
    ASSUME NEW t \in 0..ServicesEvery - 1
    PROVE  /\ Allowed(t) \in 1..DockerEvery
           /\ Allowed((t + 1) % ServicesEvery) \in 1..DockerEvery
           /\ t % DockerEvery # 0 =>
                 Allowed(t) + 1 <= Allowed((t + 1) % ServicesEvery)
           /\ Allowed(0) = DockerEvery
           /\ (t + 1) % ServicesEvery \in 0..ServicesEvery - 1
<1>. DEFINE next == (t + 1) % ServicesEvery
            u == t + 1
<1>0. /\ DockerEvery \in Nat \ {0} /\ ServicesEvery \in Nat \ {0}
      /\ ServicesEvery % DockerEvery = 0 /\ t \in Nat /\ u \in Nat
  BY SlowFeedAssumption
<1>1. next \in 0..ServicesEvery - 1
  <2>. HIDE DEF u
  <2>1. u % ServicesEvery \in 0..ServicesEvery - 1
    BY <1>0, QuotientAndRemainder
  <2>. QED
    BY <2>1 DEF u
<1>2. next % DockerEvery = u % DockerEvery
  BY <1>0, CycleKeepsRemainders
<1>3. t % DockerEvery \in 0..DockerEvery - 1 /\ next % DockerEvery \in 0..DockerEvery - 1
  <2>1. next \in Nat
    BY <1>0, <1>1
  <2>. HIDE DEF next
  <2>. QED
    BY <1>0, <2>1, QuotientAndRemainder
<1>4. IF t % DockerEvery = DockerEvery - 1 THEN u % DockerEvery = 0
      ELSE u % DockerEvery = (t % DockerEvery) + 1
  BY <1>0, RemainderCountsOn
<1>5. 0 % DockerEvery = 0
  BY <1>0
<1>. HIDE DEF next, u
<1>6. /\ Allowed(t) \in 1..DockerEvery /\ Allowed(next) \in 1..DockerEvery
      /\ t % DockerEvery # 0 => Allowed(t) + 1 <= Allowed(next)
      /\ Allowed(0) = DockerEvery
  BY <1>0, <1>2, <1>3, <1>4, <1>5 DEF Allowed
<1>. QED
  BY <1>1, <1>6 DEF next

\* The count of payloads stops one above the bound.
LEMMA OneMoreCounts ==
    ASSUME NEW n \in 0..DockerEvery + 1
    PROVE  /\ Min({n + 1, DockerEvery + 1}) \in 0..DockerEvery + 1
           /\ Min({n + 1, DockerEvery + 1}) <= n + 1
<1>. DEFINE S == {n + 1, DockerEvery + 1}
<1>1. DockerEvery \in Nat /\ S \in SUBSET Nat /\ S # {}
  BY SlowFeedAssumption
<1>2. n + 1 \in S /\ DockerEvery + 1 \in S
  OBVIOUS
<1>. HIDE DEF S
<1>3. Min(S) \in Nat /\ Min(S) <= n + 1 /\ Min(S) <= DockerEvery + 1
  BY <1>1, <1>2, MinIsLeast
<1>. QED
  BY <1>1, <1>3 DEF S

\* What a collection shows is there when it is collected.
LEMMA ListedAreThere ==
    ASSUME CollectDocker
    PROVE  dockerShown' \subseteq containers
  BY DEF CollectDocker, DockerGone, DockerConnectFails, DockerLists, DockerListFails

LEMMA InitMakesSlow == SlowFeedInit => SlowInv
<1>. SUFFICES ASSUME SlowFeedInit PROVE SlowInv
  OBVIOUS
<1>1. SlowInit /\ tick = 0 /\ step = "top" /\ collected = {} /\ panel = {}
      /\ settled = [c \in Containers |-> 0]
  BY DEF SlowFeedInit
<1>2. /\ DockerEvery \in Nat \ {0} /\ ServicesEvery \in Nat \ {0}
      /\ MaxClock \in Nat /\ MaxSetBacks \in Nat /\ MaxAge \in Nat
  BY SlowAssumption, SlowFeedAssumption DEF MaxAge
<1>3. DockerTypes
  BY <1>1 DEF SlowInit, DockerTypes, Known
<1>4. ServiceInv
  BY <1>1, <1>2 DEF SlowInit, ServiceInv, ServiceTypes, AgesFit, Known, Idle, CallStages
<1>5. IterTypes
  BY <1>1, <1>2 DEF IterTypes
<1>6. PanelInv
  <2>1. 0 <= Allowed(0)
    BY <1>2, AllowedGrows
  <2>. QED
    BY <1>1, <2>1 DEF PanelInv
<1>. QED
  BY <1>3, <1>4, <1>5, <1>6 DEF SlowInv

LEMMA IdleKeepsServices == ASSUME ServiceInv, UNCHANGED <<clockVars, cacheVars, serviceVars>>
                           PROVE  ServiceInv'
  BY DEF clockVars, cacheVars, serviceVars, ServiceInv, ServiceTypes, AgesFit

LEMMA IdleKeepsDocker == ASSUME DockerTypes, UNCHANGED dockerVars PROVE DockerTypes'
  BY DEF dockerVars, DockerTypes

\* The host changes: what comes or goes is counted anew.
LEMMA HostKeepsSlow ==
    ASSUME SlowInv, HostChanges
    PROVE  SlowInv'
<1>0. DockerTypes /\ ServiceInv /\ IterTypes /\ PanelInv
  BY DEF SlowInv
<1>1. /\ settled' = [c \in Containers |->
                        IF (c \in containers) # (c \in containers') THEN 0
                        ELSE settled[c]]
      /\ UNCHANGED <<tick, step, collected, panel>>
  BY DEF HostChanges, iterVars
<1>2. DockerTypes' /\ ServiceInv' /\ UNCHANGED dockerShown
  <2>1. CASE DockerChanges
    BY <1>0, <2>1, DockerKeepsTypes, IdleKeepsServices DEF DockerChanges
  <2>2. CASE SystemdChanges
    <3>1. ServiceInv'
      BY <1>0, <2>2
      DEF SystemdChanges, clockVars, cacheVars, ServiceInv, ServiceTypes, AgesFit
    <3>. QED
      BY <1>0, <2>2, <3>1, IdleKeepsDocker DEF SystemdChanges, dockerVars
  <2>3. CASE SecondPasses
    BY <1>0, <2>3, SecondKeepsServices, IdleKeepsDocker DEF SecondPasses, dockerVars
  <2>4. CASE ClockSetBack
    BY <1>0, <2>4, SetBackKeepsServices, IdleKeepsDocker DEF ClockSetBack, dockerVars
  <2>5. CASE ClockSetAhead
    BY <1>0, <2>5, SetAheadKeepsServices, IdleKeepsDocker DEF ClockSetAhead, dockerVars
  <2>. QED
    BY <2>1, <2>2, <2>3, <2>4, <2>5 DEF HostChanges
<1>3. 0 \in 0..DockerEvery + 1
  BY SlowFeedAssumption
<1>4. IterTypes'
  BY <1>0, <1>1, <1>3 DEF IterTypes
<1>5. \A c \in Containers : \/ settled'[c] = 0
                            \/ /\ c \in containers <=> c \in containers'
                               /\ settled'[c] = settled[c]
  BY <1>1, Zenon
<1>6. 0 <= Allowed(tick)
  BY <1>0, AllowedGrows, SlowFeedAssumption DEF IterTypes
<1>7. PanelInv'
  BY <1>0, <1>1, <1>2, <1>5, <1>6 DEF PanelInv, Allowed
<1>. QED
  BY <1>2, <1>4, <1>7 DEF SlowInv

LEMMA BeginningKeepsSlow ==
    ASSUME SlowInv, Begins
    PROVE  SlowInv'
<1>0. DockerTypes /\ ServiceInv /\ IterTypes /\ PanelInv
  BY DEF SlowInv
<1>1. /\ tick' \in {tick, 0} /\ step' = "docker" /\ collected' = {}
      /\ UNCHANGED <<dockerVars, clockVars, cacheVars, serviceVars, panel, settled>>
      /\ UNCHANGED <<containers, dockerShown>>
  BY DEF Begins, slowVars, pageVars, dockerVars
<1>2. IterTypes'
  BY <1>0, <1>1, SlowFeedAssumption DEF IterTypes
<1>3. /\ Allowed(tick) <= Allowed(tick') /\ Allowed(tick) \in Nat
      /\ Allowed(tick') \in Nat
  BY <1>0, <1>1, AllowedGrows, SlowFeedAssumption DEF IterTypes
<1>4. \A c \in Containers : settled[c] \in Nat
  BY <1>0, SlowFeedAssumption DEF IterTypes
<1>5. \A c \in Containers : settled[c] <= Allowed(tick) => settled[c] <= Allowed(tick')
  BY <1>3, <1>4
<1>6. PanelInv'
  BY <1>0, <1>1, <1>5 DEF PanelInv, Allowed
<1>. QED
  BY <1>0, <1>1, <1>2, <1>6, IdleKeepsDocker, IdleKeepsServices DEF SlowInv

\* What a listing leaves out is counted anew: what it shows is there.
LEMMA DockerKeepsSlow ==
    ASSUME SlowInv, DueDocker
    PROVE  SlowInv'
<1>0. DockerTypes /\ ServiceInv /\ IterTypes /\ PanelInv
  BY DEF SlowInv
<1>1. /\ step = "docker" /\ step' = "services" /\ UNCHANGED <<tick, panel>>
  BY DEF DueDocker
<1>2. CASE tick % DockerEvery = 0
  <2>1. /\ CollectDocker /\ collected' = collected \cup {"docker"}
        /\ settled' = [c \in Containers |->
                          IF c \in containers \ dockerShown' THEN 0 ELSE settled[c]]
    BY <1>2 DEF DueDocker
  <2>2. UNCHANGED <<containers, clockVars, cacheVars, serviceVars>>
    BY <2>1 DEF CollectDocker
  <2>3. 0 \in 0..DockerEvery + 1 /\ 0 <= Allowed(tick)
    BY <1>0, AllowedGrows, SlowFeedAssumption DEF IterTypes
  <2>4. DockerTypes' /\ ServiceInv' /\ IterTypes'
    BY <1>0, <1>1, <2>1, <2>2, <2>3, DockerKeepsTypes, IdleKeepsServices DEF IterTypes
  <2>5. \A c \in Containers :
           /\ settled'[c] \in {0, settled[c]}
           /\ ~(c \in dockerShown' <=> c \in containers) => settled'[c] = 0
    BY <2>1, ListedAreThere
  <2>6. PanelInv'
    BY <1>0, <1>1, <2>1, <2>2, <2>3, <2>5 DEF PanelInv, Allowed
  <2>. QED
    BY <2>4, <2>6 DEF SlowInv
<1>3. CASE tick % DockerEvery # 0
  <2>1. UNCHANGED <<dockerVars, clockVars, cacheVars, serviceVars, collected, settled>>
        /\ UNCHANGED <<containers, dockerShown>>
    BY <1>3 DEF DueDocker, slowVars, dockerVars
  <2>2. IterTypes' /\ PanelInv'
    BY <1>0, <1>1, <1>3, <2>1 DEF IterTypes, PanelInv, Allowed
  <2>. QED
    BY <1>0, <2>1, <2>2, IdleKeepsDocker, IdleKeepsServices DEF SlowInv
<1>. QED
  BY <1>2, <1>3

LEMMA ServicesKeepSlow ==
    ASSUME SlowInv, DueServices
    PROVE  SlowInv'
<1>0. DockerTypes /\ ServiceInv /\ IterTypes /\ PanelInv
  BY DEF SlowInv
<1>1. /\ step = "services" /\ step' \in {"services", "send"}
      /\ collected' \in {collected, collected \cup {"services"}}
      /\ UNCHANGED <<tick, panel, settled>>
  BY DEF DueServices, pageVars
<1>2. UNCHANGED <<dockerVars, containers, dockerShown>> /\ ServiceInv'
  <2>1. CASE CollectServices
    BY <1>0, <2>1, CallKeepsServices DEF CollectServices, dockerVars
  <2>2. CASE UNCHANGED slowVars
    BY <1>0, <2>2, IdleKeepsServices DEF slowVars, dockerVars
  <2>. QED
    BY <2>1, <2>2 DEF DueServices
<1>3. IterTypes'
  BY <1>0, <1>1 DEF IterTypes
<1>4. PanelInv'
  BY <1>0, <1>1, <1>2 DEF PanelInv, Allowed
<1>. QED
  BY <1>0, <1>2, <1>3, <1>4, IdleKeepsDocker DEF SlowInv

\* A payload with a list shows what was listed; one without counts one more,
\* and the next tick allows it.
LEMMA SendingKeepsSlow ==
    ASSUME SlowInv, Sends
    PROVE  SlowInv'
<1>0. DockerTypes /\ ServiceInv /\ IterTypes /\ PanelInv
  BY DEF SlowInv
<1>1. /\ step = "send" /\ step' = "top" /\ collected' = {}
      /\ tick' = (tick + 1) % ServicesEvery
      /\ TakesPayload \/ MissesPayload
      /\ UNCHANGED <<dockerVars, clockVars, cacheVars, serviceVars, containers, dockerShown>>
  BY DEF Sends, slowVars, dockerVars
<1>. DEFINE more(c) == Min({settled[c] + 1, DockerEvery + 1})
<1>2. ASSUME NEW c \in Containers
      PROVE  /\ settled[c] \in Nat /\ more(c) \in 0..DockerEvery + 1
             /\ more(c) <= settled[c] + 1
             /\ settled'[c] \in {0, more(c)}
             /\ 0 \in 0..DockerEvery + 1
  <2>1. settled[c] \in 0..DockerEvery + 1 /\ DockerEvery \in Nat
    BY <1>0, SlowFeedAssumption DEF IterTypes
  <2>2. more(c) \in 0..DockerEvery + 1 /\ more(c) <= settled[c] + 1
    BY <2>1, OneMoreCounts
  <2>3. settled'[c] \in {0, more(c)}
    BY <1>1 DEF TakesPayload, MissesPayload, OneMore
  <2>. QED
    BY <2>1, <2>2, <2>3
<1>. HIDE DEF more
<1>3. settled' \in [Containers -> 0..DockerEvery + 1]
  <2>1. settled' = [c \in Containers |-> settled'[c]]
    BY <1>1 DEF TakesPayload, MissesPayload, OneMore
  <2>2. \A c \in Containers : settled'[c] \in 0..DockerEvery + 1
    BY <1>2
  <2>. QED
    BY <2>1, <2>2
<1>4. panel' \subseteq Containers
  BY <1>0, <1>1 DEF TakesPayload, MissesPayload, DockerTypes, IterTypes
<1>5. tick \in 0..ServicesEvery - 1 /\ tick' \in 0..ServicesEvery - 1
  BY <1>0, <1>1, AllowedGrows DEF IterTypes
<1>6. IterTypes'
  BY <1>1, <1>3, <1>4, <1>5 DEF IterTypes
<1>7. ASSUME NEW c \in Containers, ~(c \in panel' <=> c \in containers)
      PROVE  settled'[c] <= Allowed(tick')
  <2>1. Allowed(tick') \in 1..DockerEvery /\ Allowed(tick) \in 1..DockerEvery
        /\ DockerEvery \in Nat
    BY <1>1, <1>5, AllowedGrows, SlowFeedAssumption
  <2>2. CASE settled'[c] = 0
    BY <2>1, <2>2
  <2>3. CASE settled'[c] # 0 /\ "docker" \in collected
    <3>1. TakesPayload
      BY <1>1, <2>3 DEF MissesPayload
    <3>2. settled[c] = 0
      BY <1>0, <1>7, <2>3, <3>1 DEF TakesPayload, PanelInv
    <3>3. settled'[c] <= 1
      BY <1>2, <2>3, <3>2
    <3>. QED
      BY <1>2, <2>1, <3>3
  <2>4. CASE settled'[c] # 0 /\ "docker" \notin collected
    <3>1. panel' = panel /\ tick % DockerEvery # 0
      BY <1>0, <1>1, <2>4 DEF TakesPayload, MissesPayload, PanelInv
    <3>2. settled[c] <= Allowed(tick) /\ Allowed(tick) + 1 <= Allowed(tick')
      BY <1>0, <1>1, <1>5, <1>7, <3>1, AllowedGrows DEF PanelInv
    <3>3. /\ settled'[c] = more(c) /\ more(c) \in Nat
          /\ more(c) <= settled[c] + 1 /\ settled[c] \in Nat
      BY <1>2, <2>1, <2>4
    <3>. QED
      BY <2>1, <3>2, <3>3
  <2>. QED
    BY <2>2, <2>3, <2>4
<1>8. PanelInv'
  BY <1>1, <1>7 DEF PanelInv
<1>. QED
  BY <1>0, <1>1, <1>6, <1>8, IdleKeepsDocker, IdleKeepsServices DEF SlowInv

LEMMA NextKeepsSlow == SlowInv /\ [SlowFeedNext]_slowFeedVars => SlowInv'
<1>. SUFFICES ASSUME SlowInv, [SlowFeedNext]_slowFeedVars PROVE SlowInv'
  OBVIOUS
<1>1. CASE IterationFails \/ UNCHANGED slowFeedVars
  <2>1. /\ UNCHANGED <<dockerVars, containers, dockerShown, tick, collected, panel,
                       settled>>
        /\ step' = step \/ step' = "top"
    BY <1>1 DEF IterationFails, ServicesRaise, slowFeedVars, slowVars, dockerVars,
                iterVars, pageVars
  <2>2. IterTypes' /\ PanelInv'
    BY <2>1 DEF SlowInv, IterTypes, PanelInv, Allowed
  <2>3. ServiceInv'
    <3>1. CASE ServicesRaise
      BY <3>1, RaisingKeepsServices DEF SlowInv
    <3>2. CASE UNCHANGED slowVars
      BY <3>2, IdleKeepsServices DEF SlowInv, slowVars
    <3>. QED
      BY <1>1, <3>1, <3>2 DEF IterationFails, slowFeedVars
  <2>. QED
    BY <2>1, <2>2, <2>3, IdleKeepsDocker DEF SlowInv
<1>. QED
  BY <1>1, HostKeepsSlow, BeginningKeepsSlow, DockerKeepsSlow, ServicesKeepSlow,
     SendingKeepsSlow DEF SlowFeedNext

\* The count of missed listings agrees with the tick in every reachable state.
THEOREM SlowInvariant == SlowFeedSpec => []SlowInv
  BY InitMakesSlow, NextKeepsSlow, PTL DEF SlowFeedSpec

\* The clock bounds every age, and Docker is available only with a client.
THEOREM SlowTypeCorrect == SlowFeedSpec => []SlowFeedTypeOK
<1>1. SlowInv => SlowFeedTypeOK
  BY TypesSplit DEF SlowInv, ServiceInv
<1>. QED
  BY <1>1, SlowInvariant, PTL

\* A page that takes every payload shows what came, and no longer what went,
\* with the next listing, and keeps what every listing shows, whatever fails
\* meanwhile (scheduler.py lines 145-170, app.js line 84).
THEOREM PanelFollows == SlowFeedSpec => []PageFollowsDocker
<1>1. SlowInv => PageFollowsDocker
  <2>. SUFFICES ASSUME SlowInv, NEW c \in Containers, settled[c] > DockerEvery
                PROVE  c \in panel <=> c \in containers
    BY DEF PageFollowsDocker
  <2>1. /\ Allowed(tick) \in 1..DockerEvery
        /\ settled[c] \in Nat /\ DockerEvery \in Nat
    BY AllowedGrows, SlowFeedAssumption DEF SlowInv, IterTypes
  <2>2. ~(settled[c] <= Allowed(tick))
    BY <2>1
  <2>. QED
    BY <2>2 DEF SlowInv, PanelInv
<1>. QED
  BY <1>1, SlowInvariant, PTL

\* A container removed in the middle of a listing does not end the Docker
\* monitoring, a connection tried without a daemon does, and for good: nothing
\* but the start of the process sets _docker_available again (docker_stats.py
\* lines 21-22, 32-37, 108-113).  It is why DockerIsFound fails.
THEOREM DockerIsGivenUp ==
    SlowFeedSpec =>
       [][/\ dockerAvailable # "no" /\ dockerAvailable' = "no" => ~daemon
          /\ dockerAvailable = "no" => dockerAvailable' = "no"]_slowFeedVars
<1>. DEFINE Step == /\ dockerAvailable # "no" /\ dockerAvailable' = "no" => ~daemon
                    /\ dockerAvailable = "no" => dockerAvailable' = "no"
<1>1. [SlowFeedNext]_slowFeedVars => Step
  <2>. SUFFICES ASSUME [SlowFeedNext]_slowFeedVars PROVE Step
    OBVIOUS
  <2>1. CASE CollectDocker
    BY <2>1 DEF CollectDocker, DockerGone, DockerConnectFails, DockerLists,
                DockerListFails
  <2>2. ~CollectDocker => UNCHANGED dockerAvailable
    BY DEF SlowFeedNext, HostChanges, DockerChanges, SystemdChanges, SecondPasses,
           ClockSetAhead, ClockSetBack, Begins, DueDocker, DueServices,
           CollectServices, ServicesRaise, IterationFails, Sends, slowFeedVars, slowVars, dockerVars
  <2>. QED
    BY <2>1, <2>2
<1>. QED
  BY <1>1, PTL DEF SlowFeedSpec

-----------------------------------------------------------------------------

\* Every payload is true of what the host answered, whatever ALERT_DISK is
\* (process.py lines 19-39, services.py lines 90-153, disk.py lines 18-40,
\* scheduler.py lines 176-184).
THEOREM PayloadTrue == SlowFeedSpec => []PayloadIsTrue
<1>1. PayloadIsTrue
  BY TopList, UnitList, DiskList DEF PayloadIsTrue
<1>. QED
  BY <1>1, PTL
=============================================================================

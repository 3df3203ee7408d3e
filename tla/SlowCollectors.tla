---------------------------- MODULE SlowCollectors ----------------------------
(***************************************************************************)
(* The slow collectors that remember: collect_docker                       *)
(* (server/collectors/docker_stats.py), which keeps a client and whether   *)
(* Docker is available, and collect_services                               *)
(* (server/collectors/services.py), which keeps the way to reach systemctl *)
(* and the last list for a minute.  Only the slow loop calls them, one     *)
(* call after the other; what they ask may come and go at any time.        *)
(***************************************************************************)
EXTENDS Integers

CONSTANTS Containers,   \* container ids
          CacheSpan,    \* the 60 seconds a list of services is kept
          MaxClock,     \* bound on the wall clock, in seconds
          MaxSetBacks   \* bound on how often the clock is set back

ASSUME SlowAssumption ==
    /\ CacheSpan \in Nat \ {0}
    /\ MaxClock \in Nat
    /\ MaxSetBacks \in Nat

VARIABLES
    daemon,             \* whether the Docker daemon can be reached
    containers,         \* the containers it has
    dockerClient,       \* _docker_client is not None
    dockerAvailable,    \* _docker_available
    dockerShown,        \* what collect_docker returned last
    clock,              \* time.time()
    setBacks,           \* how often the clock was set back
    systemd,            \* whether systemctl answers
    available,          \* _available
    servicesCacheTime,  \* _services_cache_time, or None without a cache
    call,               \* where the running collect_services is
    servicesShown,      \* what collect_services returned last
    \* Auxiliary variables: no action of the code depends on them.
    cacheAge,           \* seconds since systemctl gave the cached list
    back                \* seconds the clock was set back since its stamp

dockerVars == <<daemon, containers, dockerClient, dockerAvailable, dockerShown>>
clockVars == <<clock, setBacks>>
cacheVars == <<servicesCacheTime, cacheAge, back>>
serviceVars == <<systemd, available, call, servicesShown>>
slowVars == <<dockerVars, clockVars, cacheVars, serviceVars>>

None == -1

\* None, True and False of the two availability flags.
Known == {"unknown", "yes", "no"}

Idle == [at |-> "idle", start |-> 0, age |-> 0, back |-> 0]
MaxAge == MaxClock + MaxSetBacks

SlowTypeOK ==
    /\ daemon \in BOOLEAN
    /\ containers \subseteq Containers
    /\ dockerClient \in BOOLEAN
    /\ dockerAvailable \in Known
    /\ dockerAvailable = "yes" => dockerClient
    /\ dockerShown \subseteq Containers
    /\ clock \in 0..MaxClock
    /\ setBacks \in 0..MaxSetBacks
    /\ systemd \in BOOLEAN
    /\ available \in Known
    /\ servicesCacheTime \in 0..MaxClock \cup {None}
    /\ call \in [at : {"idle", "asked", "answered"}, start : 0..MaxClock,
                 age : 0..MaxAge, back : 0..MaxSetBacks]
    /\ servicesShown \in {"nothing", "list"}
    /\ cacheAge \in 0..MaxAge
    /\ back \in 0..MaxSetBacks

SlowInit ==
    /\ daemon \in BOOLEAN
    /\ containers = Containers
    /\ dockerClient = FALSE
    /\ dockerAvailable = "unknown"
    /\ dockerShown = {}
    /\ clock = 0
    /\ setBacks = 0
    /\ systemd \in BOOLEAN
    /\ available = "unknown"
    /\ servicesCacheTime = None
    /\ call = Idle
    /\ servicesShown = "nothing"
    /\ cacheAge = 0
    /\ back = 0

-----------------------------------------------------------------------------
(* The host *)

DockerChanges ==
    /\ \/ daemon' = ~daemon /\ UNCHANGED containers
       \/ containers' \in SUBSET Containers /\ UNCHANGED daemon
    /\ UNCHANGED <<dockerClient, dockerAvailable, dockerShown, clockVars,
                   cacheVars, serviceVars>>

SystemdChanges ==
    /\ systemd' = ~systemd
    /\ UNCHANGED <<dockerVars, clockVars, cacheVars, available, call, servicesShown>>

SecondPasses ==
    /\ clock < MaxClock
    /\ clock' = clock + 1
    /\ cacheAge' = IF servicesCacheTime = None THEN 0 ELSE cacheAge + 1
    /\ call' = IF call.at = "answered" THEN [call EXCEPT !.age = @ + 1] ELSE call
    /\ UNCHANGED <<dockerVars, setBacks, servicesCacheTime, back, systemd, available,
                   servicesShown>>

\* Nothing keeps the wall clock from being set, ahead or back.
ClockSetAhead ==
    /\ clock < MaxClock
    /\ clock' = clock + 1
    /\ UNCHANGED <<dockerVars, setBacks, cacheVars, serviceVars>>

ClockSetBack ==
    /\ clock > 0 /\ setBacks < MaxSetBacks
    /\ clock' = clock - 1
    /\ setBacks' = setBacks + 1
    /\ back' = IF servicesCacheTime = None THEN 0 ELSE back + 1
    /\ call' = IF call = Idle THEN Idle ELSE [call EXCEPT !.back = @ + 1]
    /\ UNCHANGED <<dockerVars, servicesCacheTime, cacheAge, systemd, available,
                   servicesShown>>

-----------------------------------------------------------------------------
(* collect_docker() *)

DockerGone ==
    /\ dockerAvailable = "no"
    /\ dockerShown' = {}
    /\ UNCHANGED <<dockerClient, dockerAvailable>>

\* from_env() or ping() raises: the client is assigned between the two.
DockerConnectFails ==
    /\ dockerAvailable # "no" /\ ~dockerClient
    /\ ~daemon
    /\ dockerClient' \in BOOLEAN
    /\ dockerAvailable' = "no"
    /\ dockerShown' = {}

\* A client, new or kept, and a listing that goes through.
DockerLists ==
    /\ dockerAvailable # "no"
    /\ daemon
    /\ dockerClient' = TRUE
    /\ dockerAvailable' = IF dockerClient THEN dockerAvailable ELSE "yes"
    /\ dockerShown' = containers

\* Mutant: only the client is reset.
DockerListFails_KeepsFlag ==
    /\ dockerAvailable # "no"
    /\ daemon \/ dockerClient
    /\ dockerClient' = FALSE
    /\ dockerAvailable' = "yes"
    /\ \E read \in SUBSET containers : dockerShown' = read

\* A client, but the listing breaks off: the daemon is gone, or a container
\* or its image was removed meanwhile.  What was read is returned.
DockerListFails ==
    /\ dockerAvailable # "no"
    /\ daemon \/ dockerClient
    /\ dockerClient' = FALSE
    /\ dockerAvailable' = "unknown"
    /\ \E read \in SUBSET containers :
          /\ daemon \/ read = {}
          /\ dockerShown' = read

CollectDocker ==
    /\ DockerGone \/ DockerConnectFails \/ DockerLists \/ DockerListFails
    /\ UNCHANGED <<daemon, containers, clockVars, cacheVars, serviceVars>>

-----------------------------------------------------------------------------
(* collect_services() *)

Fresh == servicesCacheTime # None /\ clock - servicesCacheTime < CacheSpan

\* A fresh list is returned as it is.
ServicesCached ==
    /\ call = Idle
    /\ Fresh
    /\ servicesShown' = "list"
    /\ UNCHANGED <<cacheVars, systemd, available, call>>

\* Else ask systemctl, after finding a way to reach it on the first call;
\* a failed search is never repeated.
ServicesAsk ==
    /\ call = Idle
    /\ ~Fresh
    /\ \E found \in Known \ {"unknown"} :
          /\ available # "unknown" => found = available
          /\ available = "unknown" /\ ~systemd => found = "no"
          /\ available' = found
          /\ call' = IF found = "yes"
                     THEN [at |-> "asked", start |-> clock, age |-> 0, back |-> 0]
                     ELSE Idle
          /\ servicesShown' = IF found = "yes" THEN servicesShown ELSE "nothing"
    /\ UNCHANGED <<cacheVars, systemd>>

\* systemctl reads the states of the units.
ServicesAnswered ==
    /\ call.at = "asked"
    /\ systemd
    /\ call' = [call EXCEPT !.at = "answered"]
    /\ UNCHANGED <<cacheVars, systemd, available, servicesShown>>

\* A timeout, an OSError or another return code: an empty list, not kept.
ServicesFail ==
    /\ call.at # "idle"
    /\ call' = Idle
    /\ servicesShown' = "nothing"
    /\ UNCHANGED <<cacheVars, systemd, available>>

\* Output that does not decode is not caught: collect_services() raises.
ServicesRaise ==
    /\ call.at # "idle"
    /\ call' = Idle
    /\ UNCHANGED <<dockerVars, clockVars, cacheVars, systemd, available, servicesShown>>

\* Mutant: the list is stamped when it is stored.
ServicesReturn_StampsEnd ==
    /\ call.at = "answered"
    /\ call' = Idle
    /\ servicesShown' = "list"
    /\ servicesCacheTime' = clock
    /\ cacheAge' = call.age
    /\ back' = call.back
    /\ UNCHANGED <<systemd, available>>

\* The list is kept, stamped with the time the call began.
ServicesReturn ==
    /\ call.at = "answered"
    /\ call' = Idle
    /\ servicesShown' = "list"
    /\ servicesCacheTime' = call.start
    /\ cacheAge' = call.age
    /\ back' = call.back
    /\ UNCHANGED <<systemd, available>>

CollectServices ==
    /\ \/ ServicesCached
       \/ ServicesAsk
       \/ ServicesAnswered
       \/ ServicesFail
       \/ ServicesReturn
    /\ UNCHANGED <<dockerVars, clockVars>>

-----------------------------------------------------------------------------
(* Properties *)

\* "Returns None if Docker is not available" (docker_stats.py line 18), and
\* only then: a Docker that can be reached from some moment on is used again.
DockerIsFound == <>[]daemon => []<>(dockerAvailable = "yes")

\* A list served from the cache is less than CacheSpan old, however long the
\* query took that filled it; each second the wall clock is set back since the
\* stamp makes it one more, and no other (services.py lines 133-136, 155-156).
CacheIsRecent == Fresh => cacheAge < CacheSpan + back
=============================================================================

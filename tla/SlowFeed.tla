-------------------------------- MODULE SlowFeed --------------------------------
(***************************************************************************)
(* The way of a slow payload: one iteration of _slow_loop                  *)
(* (server/scheduler.py) asks Docker and systemctl when their tiers are    *)
(* due, while the host goes on changing; the payload carries what was      *)
(* collected and nothing else, and a page that takes it replaces the       *)
(* panels it has a list for (handleSlowMetrics, web/js/app.js).            *)
(***************************************************************************)
EXTENDS SlowCollectors, SlowLists

CONSTANTS DockerEvery,      \* docker is collected every 3 ticks
          ServicesEvery     \* services every 12

ASSUME SlowFeedAssumption ==
    /\ DockerEvery \in Nat \ {0}
    /\ ServicesEvery \in Nat \ {0}
    /\ ServicesEvery % DockerEvery = 0

VARIABLES
    tick,       \* tick of _slow_loop, modulo ServicesEvery
    step,       \* where the iteration is
    collected,  \* the keys of slow_data besides processes
    panel,      \* the containers in the page's table
    \* Auxiliary variable: no action of the code depends on it.
    settled     \* payloads in a row the page took since a container came or
                \* went, or since a listing left out one that is there

iterVars == <<tick, step, collected>>
pageVars == <<panel, settled>>
slowFeedVars == <<slowVars, iterVars, pageVars>>

SlowFeedTypeOK ==
    /\ SlowTypeOK
    /\ tick \in 0..ServicesEvery - 1
    /\ step \in {"top", "docker", "services", "send"}
    /\ collected \subseteq {"docker", "services"}
    /\ panel \subseteq Containers
    /\ settled \in [Containers -> 0..DockerEvery + 1]

SlowFeedInit ==
    /\ SlowInit
    /\ tick = 0
    /\ step = "top"
    /\ collected = {}
    /\ panel = {}
    /\ settled = [c \in Containers |-> 0]

-----------------------------------------------------------------------------

HostChanges ==
    /\ \/ DockerChanges \/ SystemdChanges
       \/ SecondPasses \/ ClockSetAhead \/ ClockSetBack
    /\ settled' = [c \in Containers |->
                      IF (c \in containers) # (c \in containers') THEN 0 ELSE settled[c]]
    /\ UNCHANGED <<iterVars, panel>>

\* An iteration begins, after a sleep with tick 0; processes, temperatures and
\* disks are collected as well, and change nothing.
Begins ==
    /\ step = "top"
    /\ tick' \in {tick, 0}
    /\ step' = "docker"
    /\ collected' = {}
    /\ UNCHANGED <<slowVars, pageVars>>

DueDocker ==
    /\ step = "docker"
    /\ IF tick % DockerEvery = 0
       THEN /\ CollectDocker
            /\ collected' = collected \cup {"docker"}
            /\ settled' = [c \in Containers |->
                              IF c \in containers \ dockerShown' THEN 0 ELSE settled[c]]
       ELSE UNCHANGED <<slowVars, collected, settled>>
    /\ step' = "services"
    /\ UNCHANGED <<tick, panel>>

\* collect_services() runs until it returns.
DueServices ==
    /\ step = "services"
    /\ IF tick % ServicesEvery = 0
       THEN /\ CollectServices
            /\ step' = IF call' = Idle THEN "send" ELSE "services"
            /\ collected' = IF call' = Idle THEN collected \cup {"services"}
                                            ELSE collected
       ELSE /\ step' = "send"
            /\ UNCHANGED <<slowVars, collected>>
    /\ UNCHANGED <<tick, pageVars>>

\* A collector raises, one without a state or collect_services(): the
\* iteration is lost with what it collected, and repeated with the same tick.
IterationFails ==
    /\ step \in {"docker", "services"}
    /\ \/ call = Idle /\ UNCHANGED slowVars
       \/ ServicesRaise
    /\ step' = "top"
    /\ UNCHANGED <<tick, collected, pageVars>>

OneMore == settled' = [c \in Containers |-> Min({settled[c] + 1, DockerEvery + 1})]

\* Mutant: an empty list is taken for a tier that was not collected.
TakesPayload_SkipsEmpty ==
    /\ panel' = IF "docker" \in collected /\ dockerShown # {} THEN dockerShown ELSE panel
    /\ OneMore

\* handleSlowMetrics(): an empty list is a list, a tier left out is none.
TakesPayload ==
    /\ panel' = IF "docker" \in collected THEN dockerShown ELSE panel
    /\ OneMore

\* A page that is paused or has no connection misses the payload.
MissesPayload ==
    /\ settled' = [c \in Containers |-> 0]
    /\ UNCHANGED panel

Sends ==
    /\ step = "send"
    /\ TakesPayload \/ MissesPayload
    /\ step' = "top"
    /\ tick' = (tick + 1) % ServicesEvery
    /\ collected' = {}
    /\ UNCHANGED slowVars

SlowFeedNext ==
    \/ HostChanges
    \/ Begins
    \/ DueDocker
    \/ DueServices
    \/ IterationFails
    \/ Sends

SlowFeedSpec == SlowFeedInit /\ [][SlowFeedNext]_slowFeedVars

\* The loop runs on; neither another collector nor a listing fails for ever.
SlowFeedLiveSpec ==
    /\ SlowFeedSpec
    /\ WF_slowFeedVars(Begins \/ DueDocker \/ DueServices \/ Sends)
    /\ SF_slowFeedVars(DueDocker)
    /\ SF_slowFeedVars(DueDocker /\ DockerLists)

-----------------------------------------------------------------------------
(* Properties *)

\* A page that takes every payload shows a container that came, and no longer
\* one that went, with the next listing at the latest; one that is there stays
\* on the page as long as no listing leaves it out, and one that is gone stays
\* away, whatever becomes of Docker, of the listing or of other collectors
\* meanwhile (scheduler.py lines 145-170, app.js line 84).
PageFollowsDocker ==
    \A c \in Containers :
       settled[c] > DockerEvery => (c \in panel <=> c \in containers)

\* What a payload lists besides containers is true of what the host answered,
\* in the right order, and nothing that matters is cut off (process.py lines
\* 19-39, services.py lines 90-153, disk.py lines 18-40).
PayloadIsTrue == step = "send" => TopIsTrue /\ UnitsInOrder /\ DisksAreTrue
=============================================================================

------------------------------ MODULE MCSlowFeed ------------------------------
(* A small instance of SlowFeed for TLC. *)
EXTENDS SlowFeed

\* Up to three processes; the first may end or deny what is asked of it.
MCReadings == [cpu : {0, 1}, mem : {0, 1}, ended : {FALSE}]
MCAnyReadings == [cpu : {Denied, 0, 1}, mem : {Denied, 0, 1}, ended : BOOLEAN]
MCWithPid(r, i) == [pid |-> i, cpu |-> r.cpu, mem |-> r.mem, ended |-> r.ended]
MCProcessAnswers ==
    {<<>>} \cup
    {[i \in 1..3 |-> MCWithPid(<<a, b, c>>[i], i)] :
        a \in MCAnyReadings, b \in MCAnyReadings, c \in MCReadings}

\* Up to three units in any states, in any order of their names.
MCUnit == [load : {"loaded", "not-found", "masked"},
           active : {"active", "failed", "activating", "inactive", "reloading"}]
MCUnitAnswers ==
    {<<>>} \cup
    {[i \in 1..3 |-> [name |-> 4 - i, load |-> <<a, b, c>>[i].load,
                      active |-> <<a, b, c>>[i].active]] :
        a \in MCUnit, b \in MCUnit, c \in [load : {"loaded"}, active : {"active", "failed"}]}

\* Two mounts around both thresholds, pseudo or unreadable.
MCDisk == [fstype : {"ext4", "tmpfs"}, percent : {Denied, 79, 80, 89, 90}]
MCPartitions ==
    {[i \in 1..2 |-> [mount |-> i, fstype |-> <<a, b>>[i].fstype,
                      percent |-> <<a, b>>[i].percent]] :
        a \in MCDisk, b \in MCDisk}
=============================================================================

------------------------------- MODULE SlowLists -------------------------------
(***************************************************************************)
(* The lists of the slow payload that are computed from one answer of the  *)
(* host: the top processes (server/collectors/process.py), the units       *)
(* (server/collectors/services.py), the disks and their alerts             *)
(* (server/collectors/disk.py, server/scheduler.py, web/js/app.js).        *)
(* Answers are sequences in the order of the host; percentages are the     *)
(* rounded ones.                                                           *)
(***************************************************************************)
EXTENDS Integers, SequencesExt

CONSTANTS ProcessLimit,     \* PROCESS_LIMIT
          AlertDisk,        \* ALERT_DISK_PERCENT
          ProcessAnswers,   \* what psutil may list: processes,
          Partitions,       \* mounted file systems,
          UnitAnswers       \* and systemctl: units

ASSUME SlowListsAssumption ==
    /\ ProcessLimit \in Nat
    /\ AlertDisk \in Nat

\* What psutil gives for a value it may not read.
Denied == -1

\* psutil lists a process once; names are numbers, in alphabetical order.
Process == [pid : Nat, cpu : Nat \cup {Denied}, mem : Nat \cup {Denied},
            ended : BOOLEAN]
Unit == [name : Nat, load : STRING, active : STRING]
Disk == [mount : Nat, fstype : STRING, percent : Nat \cup {Denied}]

ASSUME AnswersAssumption ==
    /\ ProcessAnswers \subseteq Seq(Process)
    /\ \A iter \in ProcessAnswers : \A i, j \in DOMAIN iter :
          iter[i].pid = iter[j].pid => i = j
    /\ UnitAnswers \subseteq Seq(Unit)
    /\ Partitions \subseteq Seq(Disk)

-----------------------------------------------------------------------------
(* Lists *)

\* The positions `kept` of a list in the order given by First.
Arranged(kept, First(_, _)) ==
    CHOOSE order \in [1..Cardinality(kept) -> kept] :
       \A i, j \in DOMAIN order : i < j => First(order[i], order[j])

\* What is left of a list, in the order of the list.
Filtered(seq, kept) ==
    LET order == Arranged(kept, <)
    IN  [k \in DOMAIN order |-> seq[order[k]]]

\* A Python sort by a key: elements with equal keys keep their order.
SortedBy(seq, Before(_, _)) ==
    LET First(i, j) == \/ Before(seq[i], seq[j])
                       \/ (i < j /\ ~Before(seq[j], seq[i]))
        order == Arranged(DOMAIN seq, First)
    IN  [k \in DOMAIN order |-> seq[order[k]]]

-----------------------------------------------------------------------------
(* collect_processes() *)

Outranks(p, q) == p.cpu > q.cpu \/ (p.cpu = q.cpu /\ p.mem > q.mem)

\* An unreadable memory share counts as none; without a CPU share a process
\* is left out, like one that has ended since it was listed.
Readable(iter) == {i \in DOMAIN iter : ~iter[i].ended /\ iter[i].cpu # Denied}

WithMem(p) == [p EXCEPT !.mem = IF @ = Denied THEN 0 ELSE @]

ReadProcesses(iter) ==
    LET read == Filtered(iter, Readable(iter))
    IN  [i \in DOMAIN read |-> WithMem(read[i])]

\* Mutant: the list is cut before it is sorted.
TopProcesses_CutFirst(iter) ==
    LET read == ReadProcesses(iter)
    IN  SortedBy(SubSeq(read, 1, Min({ProcessLimit, Len(read)})), Outranks)

TopProcesses(iter) ==
    LET sorted == SortedBy(ReadProcesses(iter), Outranks)
    IN  SubSeq(sorted, 1, Min({ProcessLimit, Len(sorted)}))

-----------------------------------------------------------------------------
(* _parse_units() and the sort of collect_services() *)

States == <<"active", "failed", "activating", "deactivating", "inactive">>

\* priority.get(active, 5)
Priority(unit) ==
    IF \E i \in DOMAIN States : States[i] = unit.active
    THEN (CHOOSE i \in DOMAIN States : States[i] = unit.active) - 1
    ELSE 5

ParseUnits(answer) ==
    Filtered(answer, {i \in DOMAIN answer :
                         \/ answer[i].load \notin {"not-found", "masked"}
                         \/ answer[i].active # "inactive"})

SortUnits(units) ==
    SortedBy(units, LAMBDA u, v : \/ Priority(u) < Priority(v)
                                  \/ (/\ Priority(u) = Priority(v)
                                      /\ u.name < v.name))

-----------------------------------------------------------------------------
(* collect_disk_usage(), the disk alerts of _slow_loop(), updateDiskBars() *)

Pseudo == {"squashfs", "tmpfs", "devtmpfs", "overlay"}

\* A mount that cannot be read is left out, the others stay.
DiskUsage(partitions) ==
    Filtered(partitions, {i \in DOMAIN partitions :
                             /\ partitions[i].fstype \notin Pseudo
                             /\ partitions[i].percent # Denied})

DiskAlerts(disks) ==
    {disks[i].mount : i \in {j \in DOMAIN disks : disks[j].percent >= AlertDisk}}

\* The page compares with a threshold of its own.
MarkedDisks(disks) ==
    {disks[i].mount : i \in {j \in DOMAIN disks : disks[j].percent >= 90}}

-----------------------------------------------------------------------------
(* Properties *)

\* Of the processes that could be read the table has the most, and none that
\* another left out outranks, in their order; one that ends or denies its
\* values takes no other with it (process.py lines 20-39).
TopIsTrue ==
    \A iter \in ProcessAnswers :
       LET top == TopProcesses(iter)
           pids == {top[i].pid : i \in DOMAIN top}
       IN  /\ Cardinality(pids) = Len(top)
           /\ Len(top) = Min({ProcessLimit, Cardinality(Readable(iter))})
           /\ pids \subseteq {iter[i].pid : i \in Readable(iter)}
           /\ \A i, j \in DOMAIN top : i < j => ~Outranks(top[j], top[i])
           /\ \A i \in DOMAIN top, j \in Readable(iter) :
                 iter[j].pid \notin pids => ~Outranks(WithMem(iter[j]), top[i])

\* "Active/running services first, then failed, then inactive"
\* (services.py line 128): nothing comes before an active unit but active
\* ones, and before a failed unit but these two; no unit that runs or failed
\* is left out, its file missing or masked.
UnitsInOrder ==
    \A answer \in UnitAnswers :
       LET units == SortUnits(ParseUnits(answer))
           After(state) ==
              CASE state = "active" -> {"active"}
                [] state = "failed" -> {"active", "failed"}
                [] OTHER -> {unit.active : unit \in Range(answer)}
       IN  /\ \A i, j \in DOMAIN units :
                 i < j => units[i].active \in After(units[j].active)
           /\ \A i \in DOMAIN answer :
                 answer[i].active # "inactive" =>
                    \E j \in DOMAIN units : units[j] = answer[i]
           /\ Len(units) <= Len(answer)

\* The server alerts for the disks filled up to its threshold, and for no
\* other mount; the page marks those filled to 90 percent, whatever is set for
\* the alerts.  A mount that cannot be read hides no other (disk.py lines
\* 18-40, scheduler.py lines 176-184, app.js line 212).
DisksAreTrue ==
    \A partitions \in Partitions :
       LET disks == DiskUsage(partitions)
           Filled(limit) ==
              {partitions[i].mount :
                  i \in {j \in DOMAIN partitions : /\ partitions[j].fstype \notin Pseudo
                                                  /\ partitions[j].percent >= limit}}
       IN  /\ DiskAlerts(disks) = Filled(AlertDisk)
           /\ MarkedDisks(disks) = Filled(90)
=============================================================================

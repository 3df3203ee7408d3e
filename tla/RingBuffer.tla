------------------------------ MODULE RingBuffer ------------------------------
(***************************************************************************)
(* server/ring_buffer.py: a deque(maxlen) of stamped entries behind a      *)
(* lock.  Every method holds the lock from start to end, so each is one    *)
(* step; the stamp is read before the lock is taken, from a wall clock     *)
(* that may be set back.                                                   *)
(***************************************************************************)
EXTENDS Integers, SequencesExt

CONSTANTS MaxSize,      \* max_size
          MaxAppends,   \* bound on the number of entries ever appended
          Stamps        \* the readings of the wall clock

ASSUME RingAssumption ==
    /\ MaxSize \in Nat \ {0}
    /\ MaxAppends \in Nat
    /\ Stamps \subseteq Nat

VARIABLES buffer,       \* _buffer
          appended,     \* entries appended so far: names the next one
          log           \* every entry since the last clear (auxiliary)

ringVars == <<buffer, appended, log>>

Entries == [timestamp : Stamps, data : 1..MaxAppends]

RingTypeOK ==
    /\ buffer \in Seq(Entries)
    /\ Len(buffer) <= MaxSize
    /\ appended \in 0..MaxAppends
    /\ log \in Seq(Entries)

RingInit ==
    /\ buffer = <<>>
    /\ appended = 0
    /\ log = <<>>

\* What a bounded deque keeps of a sequence: the right end.
LastOf(s, n) == SubSeq(s, Len(s) - n + 1, Len(s))

\* Mutant: a full buffer drops the new entry.
Push_KeepsOldest(s, e) == IF Len(s) < MaxSize THEN s \o <<e>> ELSE s

\* deque.append at maxlen drops from the left.
Push(s, e) == IF Len(s) < MaxSize THEN s \o <<e>> ELSE Tail(s) \o <<e>>

\* append()
AppendEntry(stamp) ==
    /\ appended < MaxAppends
    /\ appended' = appended + 1
    /\ LET entry == [timestamp |-> stamp, data |-> appended + 1]
       IN  /\ buffer' = Push(buffer, entry)
           /\ log' = log \o <<entry>>

\* clear(), and what a new process begins with.
ClearAll ==
    /\ buffer' = <<>>
    /\ log' = <<>>
    /\ UNCHANGED appended

\* The Python slice s[k:].
SliceFrom(s, k) ==
    LET start == IF k >= 0 THEN k ELSE IF Len(s) + k > 0 THEN Len(s) + k ELSE 0
    IN  SubSeq(s, start + 1, Len(s))

\* Mutant: the entry being appended is left out.
GetLatest_WithoutNewest(n) ==
    IF n >= Len(buffer) THEN buffer ELSE SubSeq(buffer, Len(buffer) - n, Len(buffer) - 1)

\* get_latest(n), for any integer a request may carry.
GetLatest(n) == IF n >= Len(buffer) THEN buffer ELSE SliceFrom(buffer, -n)

\* get_since(t)
GetSince(t) == SelectSeq(buffer, LAMBDA e : e.timestamp >= t)

-----------------------------------------------------------------------------
(* Properties *)

\* How many entries the buffer should hold.
Held == IF Len(log) < MaxSize THEN Len(log) ELSE MaxSize

\* After any sequence of appends and clears get_latest answers a request for n
\* points, n at least 1, with the newest n in order, or with all that fit the
\* buffer: nothing else is evicted and nothing is evicted early (lines 27-35).
\* Whatever n a request carries (main.py line 94), the answer ends with the
\* newest entry and leaves none out before it, or is empty.
\* get_since answers from the same entries, sorted by their stamps or not
\* (lines 37-43).
LatestAreTheNewest ==
    /\ \A n \in 1..MaxSize + 1 :
          GetLatest(n) = LastOf(log, IF n < Held THEN n ELSE Held)
    /\ \A n \in (-MaxSize)..0 : \E k \in 0..Held : GetLatest(n) = LastOf(log, k)
    /\ \A t \in Stamps :
          GetSince(t) = SelectSeq(LastOf(log, Held), LAMBDA e : e.timestamp >= t)
=============================================================================

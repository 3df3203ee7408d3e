---------------------------- MODULE SlowListsProofs ----------------------------
(***************************************************************************)
(* Proofs about SlowLists, for answers of any length and any limit: the    *)
(* top list holds the processes that rank highest, units come in the order *)
(* of their states, and the two disk thresholds pick the disks they should.*)
(*                                                                         *)
(* A list is built by picking the positions it keeps in some order.  All   *)
(* rests on one fact about finite sets: one with a strict total order can  *)
(* be counted through in that order (CountThrough).                        *)
(***************************************************************************)
EXTENDS SlowLists, FiniteSetTheorems, FunctionTheorems, TLAPS

\* R orders S strictly and totally.
Orders(R, S) ==
    /\ \A x \in S : <<x, x>> \notin R
    /\ \A x, y \in S : x # y => <<x, y>> \in R \/ <<y, x>> \in R
    /\ \A x, y, z \in S : <<x, y>> \in R /\ <<y, z>> \in R => <<x, z>> \in R

\* f counts through S in the order of R.
CountsThrough(f, S, R) ==
    /\ f \in [1..Cardinality(S) -> S]
    /\ \A i, j \in 1..Cardinality(S) : i < j => <<f[i], f[j]>> \in R

-----------------------------------------------------------------------------
(* Counting through a finite set *)

LEMMA IntervalIsFinite ==
    ASSUME NEW n \in Nat
    PROVE  IsFiniteSet(1..n) /\ Cardinality(1..n) = n
<1>1. 1 \in Int /\ n \in Int
  OBVIOUS
<1>. QED
  BY <1>1, FS_Interval

\* The place of an element is the number of those before it, and one more: no
\* two share a place, so that every place is taken.
LEMMA CountThrough ==
    ASSUME NEW S, IsFiniteSet(S), NEW R, Orders(R, S)
    PROVE  \E f : CountsThrough(f, S, R)
<1>. DEFINE n == Cardinality(S)
            Before(x) == {y \in S : <<y, x>> \in R}
            place == [x \in S |-> Cardinality(Before(x)) + 1]
<1>1. n \in Nat
  BY FS_CardinalityType
<1>2. \A x \in S : /\ Before(x) \in SUBSET (S \ {x})
                   /\ IsFiniteSet(Before(x))
                   /\ Cardinality(Before(x)) \in Nat
  <2>. SUFFICES ASSUME NEW x \in S
                PROVE  /\ Before(x) \in SUBSET (S \ {x})
                       /\ IsFiniteSet(Before(x))
                       /\ Cardinality(Before(x)) \in Nat
    OBVIOUS
  <2>1. Before(x) \in SUBSET (S \ {x}) /\ Before(x) \in SUBSET S
    BY DEF Orders
  <2>2. IsFiniteSet(Before(x))
    BY <2>1, FS_Subset
  <2>. QED
    BY <2>1, <2>2, FS_CardinalityType
<1>3. \A x, y \in S : <<x, y>> \in R => place[x] < place[y]
  <2>. SUFFICES ASSUME NEW x \in S, NEW y \in S, <<x, y>> \in R
                PROVE  place[x] < place[y]
    OBVIOUS
  <2>1. Before(x) \in SUBSET Before(y)
    BY DEF Orders
  <2>2. x \in Before(y) /\ x \notin Before(x)
    BY DEF Orders
  <2>3. Before(x) # Before(y)
    BY <2>2
  <2>. HIDE DEF Before
  <2>4. /\ Cardinality(Before(x)) <= Cardinality(Before(y))
        /\ Cardinality(Before(x)) # Cardinality(Before(y))
    BY <1>2, <2>1, <2>3, FS_Subset
  <2>. QED
    BY <1>2, <2>4
<1>4. place \in [S -> 1..n]
  <2>. SUFFICES ASSUME NEW x \in S
                PROVE  Cardinality(Before(x)) + 1 \in 1..n
    OBVIOUS
  <2>1. IsFiniteSet(S \ {x}) /\ Cardinality(S \ {x}) = n - 1
    BY FS_RemoveElement
  <2>. HIDE DEF Before
  <2>2. Cardinality(Before(x)) <= n - 1
    BY <1>2, <2>1, FS_Subset
  <2>. HIDE DEF n
  <2>. QED
    BY <1>1, <1>2, <2>2
<1>. HIDE DEF place, Before
<1>5. \A x, y \in S : x # y => place[x] # place[y]
  <2>. SUFFICES ASSUME NEW x \in S, NEW y \in S, x # y
                PROVE  place[x] # place[y]
    OBVIOUS
  <2>1. place[x] \in Nat /\ place[y] \in Nat
    BY <1>1, <1>4
  <2>2. place[x] < place[y] \/ place[y] < place[x]
    BY <1>3 DEF Orders
  <2>. QED
    BY <2>1, <2>2
<1>6. place \in Injection(S, 1..n)
  BY <1>4, <1>5 DEF Injection, IsInjective
<1>7. place \in Surjection(S, 1..n)
  <2>1. IsFiniteSet(1..n) /\ Cardinality(1..n) = n
    BY <1>1, IntervalIsFinite
  <2>. QED
    BY <1>6, <2>1, FS_Injection
<1>. DEFINE f == [i \in 1..n |-> CHOOSE x \in S : place[x] = i]
<1>8. \A i \in 1..n : f[i] \in S /\ place[f[i]] = i
  BY <1>7 DEF Surjection
<1>. HIDE DEF f
<1>9. ASSUME NEW i \in 1..n, NEW j \in 1..n, i < j
      PROVE  <<f[i], f[j]>> \in R
  <2>1. f[i] # f[j] /\ ~(place[f[j]] < place[f[i]])
    BY <1>1, <1>8, <1>9
  <2>. QED
    BY <1>3, <1>8, <2>1 DEF Orders
<1>10. f \in [1..n -> S]
  BY <1>8 DEF f
<1>. QED
  BY <1>9, <1>10 DEF CountsThrough

\* Whoever counts through in order meets everyone, and no one twice.
LEMMA CountingIsBijective ==
    ASSUME NEW S, IsFiniteSet(S), NEW R, Orders(R, S),
           NEW f, CountsThrough(f, S, R)
    PROVE  f \in Bijection(1..Cardinality(S), S)
<1>. DEFINE n == Cardinality(S)
<1>1. n \in Nat
  BY FS_CardinalityType
<1>2. ASSUME NEW i \in 1..n, NEW j \in 1..n, i # j PROVE f[i] # f[j]
  <2>1. i < j \/ j < i
    BY <1>1, <1>2
  <2>. QED
    BY <2>1 DEF CountsThrough, Orders
<1>3. f \in Injection(1..n, S)
  BY <1>2 DEF CountsThrough, Injection, IsInjective
<1>4. f \in Surjection(1..n, S)
  <2>1. Cardinality(1..n) = n
    BY <1>1, IntervalIsFinite
  <2>. QED
    BY <1>3, <2>1, FS_Injection
<1>. QED
  BY <1>3, <1>4 DEF Bijection

-----------------------------------------------------------------------------
(* Filtered and sorted lists *)

\* What is left keeps its order, each element once and none is lost.
LEMMA FilteredKeeps ==
    ASSUME NEW T, NEW seq \in Seq(T), NEW kept \in SUBSET DOMAIN seq
    PROVE  \E order \in Bijection(1..Cardinality(kept), kept) :
              /\ Cardinality(kept) \in Nat
              /\ Cardinality(kept) <= Len(seq)
              /\ Filtered(seq, kept) = [k \in 1..Cardinality(kept) |-> seq[order[k]]]
              /\ Filtered(seq, kept) \in Seq(T)
              /\ Len(Filtered(seq, kept)) = Cardinality(kept)
<1>. DEFINE n == Cardinality(kept)
            R == {p \in kept \X kept : p[1] < p[2]}
            IsOrder(f) == /\ f \in [1..n -> kept]
                          /\ \A i, j \in DOMAIN f : i < j => f[i] < f[j]
            order == CHOOSE f : IsOrder(f)
<1>1. /\ Len(seq) \in Nat
      /\ DOMAIN seq = 1..Len(seq)
      /\ IsFiniteSet(DOMAIN seq)
      /\ Cardinality(DOMAIN seq) = Len(seq)
  <2>1. Len(seq) \in Nat /\ DOMAIN seq = 1..Len(seq)
    OBVIOUS
  <2>2. IsFiniteSet(1..Len(seq)) /\ Cardinality(1..Len(seq)) = Len(seq)
    BY <2>1, IntervalIsFinite
  <2>. QED
    BY <2>1, <2>2
<1>2. IsFiniteSet(kept) /\ n \in Nat /\ n <= Len(seq)
  BY <1>1, FS_Subset, FS_CardinalityType
<1>3. \A x, y \in kept : <<x, y>> \in R <=> x < y
  OBVIOUS
<1>4. kept \in SUBSET Int
  BY <1>1
<1>. HIDE DEF R
<1>5. Orders(R, kept)
  BY <1>3, <1>4 DEF Orders
<1>6. PICK f : CountsThrough(f, kept, R)
  BY <1>2, <1>5, CountThrough
<1>7. IsOrder(f)
  BY <1>3, <1>6 DEF CountsThrough
<1>8. IsOrder(order)
  BY <1>7
<1>9. Filtered(seq, kept) = [k \in 1..n |-> seq[order[k]]]
  <2>1. Arranged(kept, <) = order
    BY Zenon DEF Arranged
  <2>. QED
    BY <1>8, <2>1, Zenon DEF Filtered
<1>. HIDE DEF order
<1>10. CountsThrough(order, kept, R)
  BY <1>3, <1>8 DEF CountsThrough
<1>11. order \in Bijection(1..n, kept)
  BY <1>2, <1>5, <1>10, CountingIsBijective
<1>12. Filtered(seq, kept) \in Seq(T) /\ Len(Filtered(seq, kept)) = n
  <2>1. \A k \in 1..n : seq[order[k]] \in T
    BY <1>1, <1>8
  <2>. HIDE DEF n
  <2>. QED
    BY <1>2, <1>9, <2>1
<1>. QED
  BY <1>2, <1>9, <1>11, <1>12

\* Positions sorted by a relation B on the elements at them: a permutation of
\* which none comes after one that B wants behind it.
LEMMA SortOrder ==
    ASSUME NEW n \in Nat, NEW B \in SUBSET (Nat \X Nat),
           \A i, j \in 1..n : <<i, j>> \in B => <<j, i>> \notin B,
           \A i, j, k \in 1..n :
              <<i, k>> \in B => <<i, j>> \in B \/ <<j, k>> \in B
    PROVE  \E f \in [1..n -> 1..n] : \A i, j \in DOMAIN f :
              i < j => \/ <<f[i], f[j]>> \in B
                       \/ (f[i] < f[j] /\ <<f[j], f[i]>> \notin B)
<1>. DEFINE R == {p \in (1..n) \X (1..n) :
                     \/ p \in B
                     \/ (p[1] < p[2] /\ <<p[2], p[1]>> \notin B)}
<1>1. \A i, j \in 1..n : <<i, j>> \in R <=> \/ <<i, j>> \in B
                                            \/ (i < j /\ <<j, i>> \notin B)
  OBVIOUS
<1>. HIDE DEF R
<1>2. Orders(R, 1..n)
  <2>1. ASSUME NEW i \in 1..n, NEW j \in 1..n, i # j
        PROVE  <<i, j>> \in R \/ <<j, i>> \in R
    <3>1. i < j \/ j < i
      BY <2>1
    <3>. QED
      BY <1>1, <3>1
  <2>2. ASSUME NEW i \in 1..n, NEW j \in 1..n, NEW k \in 1..n,
               <<i, j>> \in R, <<j, k>> \in R
        PROVE  <<i, k>> \in R
    <3>1. CASE <<i, j>> \in B \/ <<j, k>> \in B
      BY <1>1, <2>2, <3>1
    <3>2. CASE <<i, j>> \notin B /\ <<j, k>> \notin B
      <4>1. i < j /\ <<j, i>> \notin B /\ j < k /\ <<k, j>> \notin B
        BY <1>1, <2>2, <3>2
      <4>2. i < k
        BY <4>1
      <4>3. <<k, i>> \notin B
        BY <4>1
      <4>. QED
        BY <1>1, <4>2, <4>3
    <3>. QED
      BY <3>1, <3>2
  <2>3. \A i \in 1..n : <<i, i>> \notin R
    BY <1>1
  <2>. QED
    BY <2>1, <2>2, <2>3 DEF Orders
<1>3. IsFiniteSet(1..n) /\ Cardinality(1..n) = n
  BY IntervalIsFinite
<1>4. PICK f : CountsThrough(f, 1..n, R)
  BY <1>2, <1>3, CountThrough
<1>. QED
  BY <1>1, <1>3, <1>4 DEF CountsThrough

\* Any such permutation is one: nobody is lost or doubled.
LEMMA SortOrderIsBijective ==
    ASSUME NEW n \in Nat, NEW B \in SUBSET (Nat \X Nat),
           \A i, j \in 1..n : <<i, j>> \in B => <<j, i>> \notin B,
           NEW f \in [1..n -> 1..n],
           \A i, j \in 1..n :
              i < j => \/ <<f[i], f[j]>> \in B
                       \/ (f[i] < f[j] /\ <<f[j], f[i]>> \notin B)
    PROVE  f \in Bijection(1..n, 1..n)
<1>1. ASSUME NEW i \in 1..n, NEW j \in 1..n, i # j PROVE f[i] # f[j]
  <2>1. f[i] \in 1..n /\ f[j] \in 1..n /\ <<f[i], f[i]>> \notin B
    OBVIOUS
  <2>2. CASE i < j
    BY <2>1, <2>2
  <2>3. CASE j < i
    BY <2>1, <2>3
  <2>. QED
    BY <1>1, <2>2, <2>3
<1>2. f \in Injection(1..n, 1..n)
  BY <1>1 DEF Injection, IsInjective
<1>3. IsFiniteSet(1..n)
  BY IntervalIsFinite
<1>. QED
  BY <1>2, <1>3, FS_Injection DEF Bijection

-----------------------------------------------------------------------------
(* Processes *)

LEMMA OutranksIsWeakOrder ==
    /\ \A p, q \in Process : Outranks(p, q) => ~Outranks(q, p)
    /\ \A p, q, r \in Process : Outranks(p, r) => Outranks(p, q) \/ Outranks(q, r)
  BY DEF Outranks, Process, Denied

LEMMA ProcessesSorted ==
    ASSUME NEW read \in Seq(Process)
    PROVE  \E f \in Bijection(1..Len(read), 1..Len(read)) :
              /\ SortedBy(read, Outranks) = [k \in 1..Len(read) |-> read[f[k]]]
              /\ \A i, j \in 1..Len(read) :
                    i < j => ~Outranks(read[f[j]], read[f[i]])
<1>. DEFINE n == Len(read)
            B == {p \in (1..n) \X (1..n) : Outranks(read[p[1]], read[p[2]])}
            Sorts(f) == /\ f \in [1..n -> 1..n]
                        /\ \A i, j \in DOMAIN f : i < j =>
                              \/ Outranks(read[f[i]], read[f[j]])
                              \/ (f[i] < f[j] /\ ~Outranks(read[f[j]], read[f[i]]))
            order == CHOOSE f : Sorts(f)
<1>1. n \in Nat /\ DOMAIN read = 1..n /\ \A i \in 1..n : read[i] \in Process
  OBVIOUS
<1>2. Cardinality(1..n) = n
  BY <1>1, IntervalIsFinite
<1>3. /\ B \in SUBSET (Nat \X Nat)
      /\ \A i, j \in 1..n : <<i, j>> \in B <=> Outranks(read[i], read[j])
  BY <1>1
<1>. HIDE DEF n, B
<1>4. /\ \A i, j \in 1..n : <<i, j>> \in B => <<j, i>> \notin B
      /\ \A i, j, k \in 1..n :
            <<i, k>> \in B => <<i, j>> \in B \/ <<j, k>> \in B
  BY <1>1, <1>3, OutranksIsWeakOrder
<1>5. \E f : Sorts(f)
  <2>1. PICK f \in [1..n -> 1..n] : \A i, j \in DOMAIN f :
              i < j => \/ <<f[i], f[j]>> \in B
                       \/ (f[i] < f[j] /\ <<f[j], f[i]>> \notin B)
    BY <1>1, <1>3, <1>4, SortOrder
  <2>. QED
    BY <1>3, <2>1
<1>6. Sorts(order)
  BY <1>5
<1>7. SortedBy(read, Outranks) = [k \in 1..n |-> read[order[k]]]
  <2>. SUFFICES Arranged(DOMAIN read,
                   LAMBDA i, j : \/ Outranks(read[i], read[j])
                                 \/ (i < j /\ ~Outranks(read[j], read[i]))) = order
    BY <1>6, Zenon DEF SortedBy
  <2>. QED
    BY <1>1, <1>2, Zenon DEF Arranged
<1>. HIDE DEF order
<1>8. \A i, j \in 1..n :
         i < j => \/ <<order[i], order[j]>> \in B
                  \/ (order[i] < order[j] /\ <<order[j], order[i]>> \notin B)
  BY <1>3, <1>6
<1>9. order \in Bijection(1..n, 1..n)
  BY <1>1, <1>3, <1>4, <1>6, <1>8, SortOrderIsBijective
<1>10. \A i, j \in 1..n : i < j => ~Outranks(read[order[j]], read[order[i]])
  BY <1>3, <1>4, <1>6, <1>8
<1>. QED
  BY <1>7, <1>9, <1>10 DEF n

LEMMA LimitIsLeast ==
    ASSUME NEW a \in Nat, NEW b \in Nat
    PROVE  Min({a, b}) = IF a <= b THEN a ELSE b
<1>. DEFINE m == IF a <= b THEN a ELSE b
<1>1. /\ m \in {a, b}
      /\ \A y \in {a, b} : m <= y
      /\ \A x \in {a, b} : (\A y \in {a, b} : x <= y) => x = m
  OBVIOUS
<1>. HIDE DEF m
<1>2. Min({a, b}) = m
  BY <1>1, Zenon DEF Min
<1>. QED
  BY <1>2 DEF m

\* The table is a part of the answer: the positions g counts through are those
\* that could be read, by rank, and the table shows the first of them.
LEMMA TopByRank ==
    ASSUME NEW iter \in Seq(Process)
    PROVE  LET n == Cardinality(Readable(iter))
               m == Min({ProcessLimit, n})
           IN  /\ n \in Nat
               /\ m \in Nat
               /\ m <= n
               /\ \E g \in Bijection(1..n, Readable(iter)) :
                     /\ TopProcesses(iter) = [k \in 1..m |-> WithMem(iter[g[k]])]
                     /\ \A i, j \in 1..n : i < j =>
                           ~Outranks(WithMem(iter[g[j]]), WithMem(iter[g[i]]))
<1>. DEFINE kept == Readable(iter)
            n == Cardinality(kept)
            m == Min({ProcessLimit, n})
            read == ReadProcesses(iter)
<1>1. kept \in SUBSET DOMAIN iter
  BY DEF Readable
<1>2. PICK o \in Bijection(1..n, kept) :
         /\ n \in Nat
         /\ Filtered(iter, kept) = [k \in 1..n |-> iter[o[k]]]
         /\ Filtered(iter, kept) \in Seq(Process)
         /\ Len(Filtered(iter, kept)) = n
  BY <1>1, FilteredKeeps
<1>3. \A i \in 1..n : o[i] \in kept /\ iter[o[i]] \in Process
  <2>1. \A i \in 1..n : o[i] \in kept
    BY <1>2 DEF Bijection, Injection
  <2>. QED
    BY <1>1, <2>1
<1>4. \A p \in Process : WithMem(p) \in Process
  BY DEF WithMem, Process, Denied
<1>5. read = [k \in 1..n |-> WithMem(iter[o[k]])]
  BY <1>2, Zenon DEF ReadProcesses
<1>. HIDE DEF kept, n, read
<1>6. read \in Seq(Process) /\ Len(read) = n
  <2>1. \A k \in 1..n : WithMem(iter[o[k]]) \in Process
    BY <1>3, <1>4
  <2>. QED
    BY <1>2, <1>5, <2>1
<1>7. PICK f \in Bijection(1..n, 1..n) :
         /\ SortedBy(read, Outranks) = [k \in 1..n |-> read[f[k]]]
         /\ \A i, j \in 1..n : i < j => ~Outranks(read[f[j]], read[f[i]])
  BY <1>6, ProcessesSorted
<1>. DEFINE g == [k \in 1..n |-> o[f[k]]]
<1>8. \A k \in 1..n : f[k] \in 1..n
  BY <1>7 DEF Bijection, Injection
<1>9. g \in Bijection(1..n, kept)
  <2>1. g \in [1..n -> kept]
    BY <1>3, <1>8
  <2>2. g \in Injection(1..n, kept)
    BY <1>2, <1>7, <1>8, <2>1 DEF Bijection, Injection, IsInjective
  <2>3. g \in Surjection(1..n, kept)
    <3>. SUFFICES ASSUME NEW t \in kept
                  PROVE  \E k \in 1..n : g[k] = t
      BY <2>1 DEF Surjection
    <3>1. PICK i \in 1..n : o[i] = t
      BY <1>2 DEF Bijection, Surjection
    <3>2. PICK k \in 1..n : f[k] = i
      BY <1>7 DEF Bijection, Surjection
    <3>. QED
      BY <3>1, <3>2
  <2>. QED
    BY <2>2, <2>3 DEF Bijection
<1>10. \A k \in 1..n : read[f[k]] = WithMem(iter[g[k]])
  BY <1>5, <1>8
<1>11. m \in Nat /\ m <= n
  BY <1>2, LimitIsLeast, SlowListsAssumption
<1>. HIDE DEF m, g
<1>12. TopProcesses(iter) = [k \in 1..m |-> WithMem(iter[g[k]])]
  <2>. DEFINE sorted == SortedBy(read, Outranks)
  <2>1. sorted = [k \in 1..n |-> WithMem(iter[g[k]])]
    BY <1>7, <1>10
  <2>2. sorted \in Seq(Process) /\ Len(sorted) = n
    <3>1. \A k \in 1..n : read[f[k]] \in Process
      BY <1>6, <1>8
    <3>2. sorted = [k \in 1..n |-> read[f[k]]]
      BY <1>7
    <3>. HIDE DEF sorted
    <3>. QED
      BY <1>2, <3>1, <3>2
  <2>3. TopProcesses(iter) = SubSeq(sorted, 1, m)
    BY <2>2, Zenon DEF TopProcesses, read, m
  <2>. HIDE DEF sorted
  <2>4. SubSeq(sorted, 1, m) = [k \in 1..m |-> sorted[k]]
    BY <1>2, <1>11, <2>2
  <2>5. \A k \in 1..m : k \in 1..n
    BY <1>2, <1>11
  <2>. QED
    BY <2>1, <2>3, <2>4, <2>5
<1>13. \A i, j \in 1..n :
          i < j => ~Outranks(WithMem(iter[g[j]]), WithMem(iter[g[i]]))
  BY <1>7, <1>10
<1>. QED
  BY <1>2, <1>9, <1>11, <1>12, <1>13 DEF kept, n, m

\* The table shows the processes that rank highest, each once, and as many as
\* it has room for (process.py lines 19-39).
THEOREM TopList == TopIsTrue
<1>. SUFFICES ASSUME NEW iter \in ProcessAnswers
              PROVE  LET top == TopProcesses(iter)
                         pids == {top[i].pid : i \in DOMAIN top}
                     IN  /\ Cardinality(pids) = Len(top)
                         /\ Len(top) = Min({ProcessLimit, Cardinality(Readable(iter))})
                         /\ pids \subseteq {iter[i].pid : i \in Readable(iter)}
                         /\ \A i, j \in DOMAIN top : i < j => ~Outranks(top[j], top[i])
                         /\ \A i \in DOMAIN top, j \in Readable(iter) :
                               iter[j].pid \notin pids =>
                                  ~Outranks(WithMem(iter[j]), top[i])
  BY Zenon DEF TopIsTrue
<1>. DEFINE kept == Readable(iter)
            n == Cardinality(kept)
            m == Min({ProcessLimit, n})
            top == TopProcesses(iter)
            pids == {top[i].pid : i \in DOMAIN top}
<1>1. /\ iter \in Seq(Process)
      /\ \A i, j \in DOMAIN iter : iter[i].pid = iter[j].pid => i = j
  BY AnswersAssumption
<1>2. PICK g \in Bijection(1..n, kept) :
         /\ n \in Nat
         /\ m \in Nat
         /\ m <= n
         /\ top = [k \in 1..m |-> WithMem(iter[g[k]])]
         /\ \A i, j \in 1..n : i < j =>
               ~Outranks(WithMem(iter[g[j]]), WithMem(iter[g[i]]))
  BY <1>1, TopByRank
<1>3. kept \in SUBSET DOMAIN iter /\ \A i \in kept : iter[i] \in Process
  <2>1. kept \in SUBSET DOMAIN iter
    BY DEF Readable
  <2>. QED
    BY <1>1, <2>1
<1>. HIDE DEF kept, n, m, top
<1>4. DOMAIN top = 1..m /\ Len(top) = m
  BY <1>2
<1>5. \A k \in 1..m : k \in 1..n /\ g[k] \in kept
  <2>1. \A k \in 1..m : k \in 1..n
    BY <1>2
  <2>. QED
    BY <1>2, <2>1 DEF Bijection, Injection
<1>6. \A k \in 1..m : top[k].pid = iter[g[k]].pid
  <2>1. \A p \in Process : WithMem(p).pid = p.pid
    BY DEF WithMem, Process
  <2>. QED
    BY <1>2, <1>3, <1>5, <2>1
<1>7. Cardinality(pids) = m
  <2>. DEFINE h == [k \in 1..m |-> top[k].pid]
  <2>1. h \in [1..m -> pids]
    BY <1>4
  <2>2. \A i, j \in 1..m : h[i] = h[j] => i = j
    <3>. SUFFICES ASSUME NEW i \in 1..m, NEW j \in 1..m, h[i] = h[j]
                  PROVE  i = j
      OBVIOUS
    <3>1. iter[g[i]].pid = iter[g[j]].pid
      BY <1>6
    <3>2. g[i] = g[j]
      BY <1>1, <1>3, <1>5, <3>1
    <3>. QED
      BY <1>2, <1>5, <3>2 DEF Bijection, Injection, IsInjective
  <2>3. \A t \in pids : \E k \in 1..m : h[k] = t
    BY <1>4
  <2>. HIDE DEF h
  <2>4. h \in Bijection(1..m, pids)
    BY <2>1, <2>2, <2>3 DEF Bijection, Injection, Surjection, IsInjective
  <2>. QED
    BY <1>2, <2>4, IntervalIsFinite, FS_Bijection DEF ExistsBijection
<1>8. pids \subseteq {iter[i].pid : i \in kept}
  BY <1>4, <1>5, <1>6
<1>9. \A i, j \in DOMAIN top : i < j => ~Outranks(top[j], top[i])
  BY <1>2, <1>4, <1>5
<1>10. ASSUME NEW i \in DOMAIN top, NEW j \in kept, iter[j].pid \notin pids
       PROVE  ~Outranks(WithMem(iter[j]), top[i])
  <2>1. PICK k \in 1..n : g[k] = j
    BY <1>2 DEF Bijection, Surjection
  <2>2. k \notin 1..m
    BY <1>4, <1>6, <1>10, <2>1
  <2>3. i \in 1..m /\ i \in 1..n /\ i < k
    BY <1>2, <1>4, <1>5, <2>2
  <2>. QED
    BY <1>2, <2>1, <2>3
<1>. QED
  BY <1>4, <1>7, <1>8, <1>9, <1>10 DEF m, n, kept, top

-----------------------------------------------------------------------------
(* Units *)

LEMMA PriorityOfStates ==
    ASSUME NEW unit \in Unit
    PROVE  /\ Priority(unit) \in 0..5
           /\ Priority(unit) = 0 <=> unit.active = "active"
           /\ Priority(unit) = 1 <=> unit.active = "failed"
<1>. DEFINE state == unit.active
            i == CHOOSE i \in DOMAIN States : States[i] = state
<1>1. DOMAIN States = 1..5 /\ States[1] = "active" /\ States[2] = "failed"
  BY DEF States
<1>2. CASE \E k \in DOMAIN States : States[k] = state
  <2>1. i \in 1..5 /\ States[i] = state
    BY <1>1, <1>2
  <2>2. /\ \A k \in 1..5 : States[k] = "active" <=> k = 1
        /\ \A k \in 1..5 : States[k] = "failed" <=> k = 2
    BY DEF States
  <2>3. Priority(unit) = i - 1
    BY <1>2, Zenon DEF Priority
  <2>. HIDE DEF i
  <2>. QED
    BY <2>1, <2>2, <2>3
<1>3. CASE ~\E k \in DOMAIN States : States[k] = state
  <2>1. Priority(unit) = 5
    BY <1>3, Zenon DEF Priority
  <2>2. state # "active" /\ state # "failed"
    BY <1>1, <1>3
  <2>. QED
    BY <2>1, <2>2
<1>. QED
  BY <1>2, <1>3

\* The key of the sort of collect_services().
Precedes(u, v) == \/ Priority(u) < Priority(v)
                  \/ (Priority(u) = Priority(v) /\ u.name < v.name)

LEMMA PrecedesIsWeakOrder ==
    /\ \A u, v \in Unit : Precedes(u, v) => ~Precedes(v, u)
    /\ \A u, v, w \in Unit : Precedes(u, w) => Precedes(u, v) \/ Precedes(v, w)
<1>1. \A u \in Unit : Priority(u) \in Int /\ u.name \in Int
  <2>. SUFFICES ASSUME NEW u \in Unit
                PROVE  Priority(u) \in Int /\ u.name \in Int
    OBVIOUS
  <2>1. Priority(u) \in 0..5
    BY PriorityOfStates
  <2>2. u.name \in Nat
    BY DEF Unit
  <2>. QED
    BY <2>1, <2>2
<1>. QED
  BY <1>1 DEF Precedes

LEMMA UnitsSorted ==
    ASSUME NEW units \in Seq(Unit)
    PROVE  \E f \in Bijection(1..Len(units), 1..Len(units)) :
              /\ SortUnits(units) = [k \in 1..Len(units) |-> units[f[k]]]
              /\ \A i, j \in 1..Len(units) :
                    i < j => ~Precedes(units[f[j]], units[f[i]])
<1>. DEFINE n == Len(units)
            B == {p \in (1..n) \X (1..n) : Precedes(units[p[1]], units[p[2]])}
            Sorts(f) == /\ f \in [1..n -> 1..n]
                        /\ \A i, j \in DOMAIN f : i < j =>
                              \/ Precedes(units[f[i]], units[f[j]])
                              \/ (f[i] < f[j] /\ ~Precedes(units[f[j]], units[f[i]]))
            order == CHOOSE f : Sorts(f)
<1>1. n \in Nat /\ DOMAIN units = 1..n /\ \A i \in 1..n : units[i] \in Unit
  OBVIOUS
<1>2. Cardinality(1..n) = n
  BY <1>1, IntervalIsFinite
<1>3. /\ B \in SUBSET (Nat \X Nat)
      /\ \A i, j \in 1..n : <<i, j>> \in B <=> Precedes(units[i], units[j])
  BY <1>1
<1>. HIDE DEF n, B
<1>4. /\ \A i, j \in 1..n : <<i, j>> \in B => <<j, i>> \notin B
      /\ \A i, j, k \in 1..n :
            <<i, k>> \in B => <<i, j>> \in B \/ <<j, k>> \in B
  BY <1>1, <1>3, PrecedesIsWeakOrder
<1>5. \E f : Sorts(f)
  <2>1. PICK f \in [1..n -> 1..n] : \A i, j \in DOMAIN f :
              i < j => \/ <<f[i], f[j]>> \in B
                       \/ (f[i] < f[j] /\ <<f[j], f[i]>> \notin B)
    BY <1>1, <1>3, <1>4, SortOrder
  <2>. QED
    BY <1>3, <2>1
<1>6. Sorts(order)
  BY <1>5
<1>7. SortUnits(units) = [k \in 1..n |-> units[order[k]]]
  <2>1. Arranged(DOMAIN units,
           LAMBDA i, j : \/ Precedes(units[i], units[j])
                         \/ (i < j /\ ~Precedes(units[j], units[i]))) = order
    BY <1>1, <1>2, Zenon DEF Arranged
  <2>. QED
    BY <1>6, <2>1, Zenon DEF SortUnits, SortedBy, Precedes
<1>. HIDE DEF order
<1>8. \A i, j \in 1..n :
         i < j => \/ <<order[i], order[j]>> \in B
                  \/ (order[i] < order[j] /\ <<order[j], order[i]>> \notin B)
  BY <1>3, <1>6
<1>9. order \in Bijection(1..n, 1..n)
  BY <1>1, <1>3, <1>4, <1>6, <1>8, SortOrderIsBijective
<1>10. \A i, j \in 1..n : i < j => ~Precedes(units[order[j]], units[order[i]])
  BY <1>3, <1>4, <1>6, <1>8
<1>. QED
  BY <1>7, <1>9, <1>10 DEF n

\* Active units come first, then those that failed; of the units that run or
\* failed none is left out (services.py lines 90-153).
THEOREM UnitList == UnitsInOrder
<1>. SUFFICES ASSUME NEW answer \in UnitAnswers
              PROVE  LET units == SortUnits(ParseUnits(answer))
                         After(state) ==
                            CASE state = "active" -> {"active"}
                              [] state = "failed" -> {"active", "failed"}
                              [] OTHER -> {unit.active : unit \in Range(answer)}
                     IN  /\ \A i, j \in DOMAIN units :
                               i < j => units[i].active \in After(units[j].active)
                         /\ \A i \in DOMAIN answer :
                               answer[i].active # "inactive" =>
                                  \E j \in DOMAIN units : units[j] = answer[i]
                         /\ Len(units) <= Len(answer)
  BY Zenon DEF UnitsInOrder
<1>. DEFINE kept == {i \in DOMAIN answer :
                        \/ answer[i].load \notin {"not-found", "masked"}
                        \/ answer[i].active # "inactive"}
            n == Cardinality(kept)
            parsed == ParseUnits(answer)
            units == SortUnits(parsed)
<1>1. answer \in Seq(Unit)
  BY AnswersAssumption
<1>2. PICK o \in Bijection(1..n, kept) :
         /\ n \in Nat
         /\ n <= Len(answer)
         /\ parsed = [k \in 1..n |-> answer[o[k]]]
         /\ parsed \in Seq(Unit)
         /\ Len(parsed) = n
  <2>1. kept \in SUBSET DOMAIN answer
    OBVIOUS
  <2>2. parsed = Filtered(answer, kept)
    BY Zenon DEF ParseUnits
  <2>. HIDE DEF kept, parsed
  <2>. QED
    BY <1>1, <2>1, <2>2, FilteredKeeps
<1>3. PICK f \in Bijection(1..n, 1..n) :
         /\ units = [k \in 1..n |-> parsed[f[k]]]
         /\ \A i, j \in 1..n : i < j => ~Precedes(parsed[f[j]], parsed[f[i]])
  <2>. HIDE DEF parsed, n
  <2>1. \E f \in Bijection(1..Len(parsed), 1..Len(parsed)) :
           /\ SortUnits(parsed) = [k \in 1..Len(parsed) |-> parsed[f[k]]]
           /\ \A i, j \in 1..Len(parsed) :
                 i < j => ~Precedes(parsed[f[j]], parsed[f[i]])
    BY <1>2, UnitsSorted
  <2>. QED
    BY <1>2, <2>1
<1>4. \A k \in 1..n : /\ f[k] \in 1..n
                      /\ o[f[k]] \in kept
                      /\ units[k] = answer[o[f[k]]]
                      /\ units[k] = parsed[f[k]]
                      /\ units[k] \in Unit
  <2>1. \A k \in 1..n : f[k] \in 1..n /\ o[k] \in kept
    BY <1>2, <1>3 DEF Bijection, Injection
  <2>2. \A i \in kept : answer[i] \in Unit
    BY <1>1
  <2>. HIDE DEF kept, n, parsed, units
  <2>. QED
    BY <1>2, <1>3, <2>1, <2>2
<1>5. \A i \in kept : i \in DOMAIN answer
  OBVIOUS
<1>6. \A i \in DOMAIN answer : answer[i].active # "inactive" => i \in kept
  OBVIOUS
<1>. HIDE DEF kept, n, parsed, units
<1>7. DOMAIN units = 1..n /\ Len(units) = n
  BY <1>2, <1>3
<1>8. ASSUME NEW i \in 1..n, NEW j \in 1..n, i < j
      PROVE  /\ units[j].active = "active" => units[i].active = "active"
             /\ units[j].active = "failed" => units[i].active \in {"active", "failed"}
             /\ units[i].active \in {unit.active : unit \in Range(answer)}
  <2>1. ~Precedes(units[j], units[i])
    BY <1>3, <1>4, <1>8
  <2>2. /\ units[i] \in Unit /\ units[j] \in Unit
        /\ units[i].name \in Nat /\ units[j].name \in Nat
    BY <1>4 DEF Unit
  <2>3. /\ Priority(units[i]) \in 0..5 /\ Priority(units[j]) \in 0..5
        /\ Priority(units[i]) <= Priority(units[j])
    BY <2>1, <2>2, PriorityOfStates DEF Precedes
  <2>4. /\ units[j].active = "active" => Priority(units[i]) = 0
        /\ units[j].active = "failed" => Priority(units[i]) \in {0, 1}
    BY <2>2, <2>3, PriorityOfStates
  <2>5. units[i] \in Range(answer)
    BY <1>4, <1>5, Zenon DEF Range
  <2>. QED
    BY <2>2, <2>4, <2>5, PriorityOfStates
<1>9. ASSUME NEW i \in DOMAIN answer, answer[i].active # "inactive"
      PROVE  \E j \in DOMAIN units : units[j] = answer[i]
  <2>1. PICK l \in 1..n : o[l] = i
    BY <1>2, <1>6, <1>9 DEF Bijection, Surjection
  <2>2. PICK k \in 1..n : f[k] = l
    BY <1>3 DEF Bijection, Surjection
  <2>. QED
    BY <1>4, <1>7, <2>1, <2>2
<1>10. Len(units) <= Len(answer)
  BY <1>2, <1>7
<1>. DEFINE After(state) ==
               CASE state = "active" -> {"active"}
                 [] state = "failed" -> {"active", "failed"}
                 [] OTHER -> {unit.active : unit \in Range(answer)}
<1>11. \A i, j \in DOMAIN units :
          i < j => units[i].active \in After(units[j].active)
  <2>. SUFFICES ASSUME NEW i \in 1..n, NEW j \in 1..n, i < j
                PROVE  units[i].active \in After(units[j].active)
    BY <1>7
  <2>1. CASE units[j].active = "active"
    BY <1>8, <2>1
  <2>2. CASE units[j].active = "failed"
    BY <1>8, <2>2
  <2>3. CASE units[j].active # "active" /\ units[j].active # "failed"
    BY <1>8, <2>3
  <2>. QED
    BY <2>1, <2>2, <2>3
<1>. QED
  BY <1>9, <1>10, <1>11, Zenon DEF units, parsed

-----------------------------------------------------------------------------
(* Disks *)

\* A threshold picks the same mounts from the list of disks as from what the
\* host answered.
LEMMA ThresholdsPick ==
    ASSUME NEW partitions \in Partitions, NEW limit \in Nat
    PROVE  LET disks == DiskUsage(partitions)
           IN  {disks[i].mount : i \in {j \in DOMAIN disks : disks[j].percent >= limit}}
               = {partitions[i].mount :
                     i \in {j \in DOMAIN partitions :
                              /\ partitions[j].fstype \notin Pseudo
                              /\ partitions[j].percent >= limit}}
<1>. DEFINE kept == {i \in DOMAIN partitions :
                        /\ partitions[i].fstype \notin Pseudo
                        /\ partitions[i].percent # Denied}
            n == Cardinality(kept)
            disks == DiskUsage(partitions)
            above == {j \in DOMAIN disks : disks[j].percent >= limit}
            real == {j \in DOMAIN partitions : /\ partitions[j].fstype \notin Pseudo
                                              /\ partitions[j].percent >= limit}
<1>1. PICK o \in Bijection(1..n, kept) :
         disks = [k \in 1..n |-> partitions[o[k]]]
  <2>1. partitions \in Seq(Disk)
    BY AnswersAssumption
  <2>2. kept \in SUBSET DOMAIN partitions
    OBVIOUS
  <2>3. disks = Filtered(partitions, kept)
    BY Zenon DEF DiskUsage
  <2>. HIDE DEF kept, disks
  <2>. QED
    BY <2>1, <2>2, <2>3, FilteredKeeps
<1>2. real \in SUBSET kept
  BY DEF Denied
<1>3. \A j \in kept : j \in real <=> partitions[j].percent >= limit
  OBVIOUS
<1>. HIDE DEF kept, n, disks, real
<1>4. \A k \in 1..n : o[k] \in kept /\ disks[k] = partitions[o[k]]
  BY <1>1 DEF Bijection, Injection
<1>5. DOMAIN disks = 1..n
  BY <1>1
<1>6. \A k \in above : o[k] \in real /\ disks[k] = partitions[o[k]]
  BY <1>3, <1>4, <1>5
<1>7. \A j \in real : \E k \in above : disks[k] = partitions[j]
  <2>. SUFFICES ASSUME NEW j \in real
                PROVE  \E k \in above : disks[k] = partitions[j]
    OBVIOUS
  <2>1. PICK k \in 1..n : o[k] = j
    BY <1>1, <1>2 DEF Bijection, Surjection
  <2>. QED
    BY <1>2, <1>3, <1>4, <1>5, <2>1
<1>. HIDE DEF above
<1>8. {disks[i].mount : i \in above} = {partitions[i].mount : i \in real}
  BY <1>6, <1>7
<1>. QED
  BY <1>8, Zenon DEF above, real, disks

\* For any ALERT_DISK the server alerts for the disks at least that full, the
\* page marks those at 90 percent, and no mount is left out of either because
\* another could not be read (disk.py lines 18-40, scheduler.py lines 176-184,
\* app.js line 212).
THEOREM DiskList == DisksAreTrue
<1>1. AlertDisk \in Nat /\ 90 \in Nat
  BY SlowListsAssumption
<1>. SUFFICES ASSUME NEW partitions \in Partitions
              PROVE  LET disks == DiskUsage(partitions)
                         Filled(limit) ==
                            {partitions[i].mount :
                                i \in {j \in DOMAIN partitions :
                                         /\ partitions[j].fstype \notin Pseudo
                                         /\ partitions[j].percent >= limit}}
                     IN  /\ DiskAlerts(disks) = Filled(AlertDisk)
                         /\ MarkedDisks(disks) = Filled(90)
  BY Zenon DEF DisksAreTrue
<1>. QED
  BY <1>1, ThresholdsPick DEF DiskAlerts, MarkedDisks
=============================================================================

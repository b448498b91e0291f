-------------------------- MODULE ValidateCmd_proofs --------------------------
(***************************************************************************)
(* The command that collects, proved for every pool, every input and every *)
(* interleaving, in three parts: what the reorder buffer does with any     *)
(* sequence of results; what the exit code and --fail-fast promise; and the*)
(* report, for inputs whose sources have distinct labels.                  *)
(***************************************************************************)
EXTENDS ValidateCmd, ValidateSources_proofs, WellFoundedInduction

-----------------------------------------------------------------------------
(***************************************************************************)
(* I. The reorder buffer: what it keeps, what it writes and in which order,*)
(* for every sequence of results. Nothing here knows of goroutines or      *)
(* channels; the parts below cite NewGathers, AddFinalGathers,             *)
(* AddEntryGathers and FlushRemainingGathers.                              *)
(***************************************************************************)
(* Natural numbers: least elements, and induction over a set.              *)

LEMMA ByIndexWellFounded == IsWellFoundedOn(ByIndex, Nat)
BY NatLessThanWellFounded DEF OpToRel, ByIndex

LEMMA NatInductive ==
  ASSUME NEW S, S \subseteq Nat, 0 \in S, \A n \in S : n + 1 \in S
  PROVE  \A n \in Nat : n \in S
<1> DEFINE T == Nat \ S
<1>1. SUFFICES ASSUME T # {} PROVE FALSE
  OBVIOUS
<1>2. PICK x \in T : \A y \in T : <<y, x>> \notin ByIndex
  BY <1>1, WFMin, ByIndexWellFounded
<1>3. x # 0 /\ x - 1 \in Nat
  BY Z3
<1>4. <<x - 1, x>> \in ByIndex
  BY <1>3 DEF ByIndex
<1>5. x - 1 \in S
  BY <1>2, <1>3, <1>4
<1>6. x - 1 + 1 \in S
  BY <1>5
<1> QED BY <1>2, <1>3, <1>6

\* Min is what it says on every set of naturals with an element.
LEMMA MinIsLeast ==
  ASSUME NEW S, S \subseteq Nat, S # {}
  PROVE  Min(S) \in S /\ \A y \in S : Min(S) <= y
<1>1. PICK x \in S : \A y \in S : <<y, x>> \notin ByIndex
  BY WFMin, ByIndexWellFounded
<1>2. ASSUME NEW y \in S
      PROVE  x <= y
  <2>1. x \in Nat /\ y \in Nat /\ ~(y < x)
    BY <1>1 DEF ByIndex
  <2> QED BY <2>1
<1> QED BY <1>2 DEF Min

\* A finite set leaves a gap in an interval with one element more.
LEMMA GapExists ==
  ASSUME NEW D, IsFiniteSet(D), NEW a \in Nat
  PROVE  \E n \in a .. a + Cardinality(D) : n \notin D
<1> SUFFICES ASSUME a .. a + Cardinality(D) \subseteq D PROVE FALSE
  OBVIOUS
<1>1. Cardinality(D) \in Nat
  BY FS_CardinalityType
<1>2. PICK b \in Nat : b = a + Cardinality(D)
  BY <1>1
<1>3. Cardinality(a .. b) = IF a > b THEN 0 ELSE b - a + 1
  BY FS_Interval
<1>4. Cardinality(a .. b) <= Cardinality(D)
  BY <1>2, FS_Subset
<1> QED BY <1>1, <1>2, <1>3, <1>4

\* The first gap: everything before it is there.
LEMMA FirstGap ==
  ASSUME NEW D, IsFiniteSet(D), NEW a \in Nat, NEW g,
         g = Min({n \in a .. a + Cardinality(D) : n \notin D})
  PROVE  /\ g \in Nat /\ a <= g /\ g \notin D
         /\ \A n \in a .. g - 1 : n \in D
<1> DEFINE S == {n \in a .. a + Cardinality(D) : n \notin D}
<1>1. Cardinality(D) \in Nat
  BY FS_CardinalityType
<1>2. S \subseteq Nat /\ S # {}
  BY <1>1, GapExists
<1>3. g \in S /\ \A y \in S : g <= y
  BY <1>2, MinIsLeast
<1>4. g \in Nat /\ a <= g /\ g <= a + Cardinality(D) /\ g \notin D
  BY <1>1, <1>3
<1>5. ASSUME NEW n \in a .. g - 1, n \notin D
      PROVE  FALSE
  <2>1. n \in a .. a + Cardinality(D)
    BY <1>1, <1>4
  <2>2. g <= n
    BY <1>3, <1>5, <2>1
  <2> QED BY <1>4, <2>2
<1> QED BY <1>4, <1>5

-----------------------------------------------------------------------------
(* Sorting.                                                                 *)

StrictOrder(R, S) ==
  /\ \A x \in S : <<x, x>> \notin R
  /\ \A x, y, z \in S : <<x, y>> \in R /\ <<y, z>> \in R => <<x, z>> \in R
  /\ \A x, y \in S : x = y \/ <<x, y>> \in R \/ <<y, x>> \in R

\* q holds the elements of S and nothing else, in the order R.
Enumerates(q, S, R) ==
  /\ q \in Seq(S)
  /\ \A x \in S : \E k \in DOMAIN q : q[k] = x
  /\ \A k, m \in DOMAIN q : k < m => <<q[k], q[m]>> \in R

LEMMA SortedEnumerates ==
  ASSUME NEW S, IsFiniteSet(S), NEW R, StrictOrder(R, S)
  PROVE  Enumerates(Sorted(S, R), S, R)
<1> DEFINE Below(x) == {y \in S : <<y, x>> \in R}
           n == Cardinality(S)
           T == 0 .. n - 1
           rank == [x \in S |-> Cardinality(Below(x))]
           q == Sorted(S, R)
<1>1. n \in Nat
  BY FS_CardinalityType
<1>2. \A x \in S : IsFiniteSet(Below(x)) /\ Cardinality(Below(x)) \in Nat
  <2> TAKE x \in S
  <2>1. IsFiniteSet(Below(x))
    BY FS_Subset
  <2> QED BY <2>1, FS_CardinalityType
<1>3. ASSUME NEW x \in S, NEW y \in S, <<x, y>> \in R
      PROVE  rank[x] < rank[y]
  <2>1. Below(x) \subseteq Below(y) /\ x \in Below(y) /\ x \notin Below(x)
    BY <1>3 DEF StrictOrder
  <2>2. /\ Cardinality(Below(x)) <= Cardinality(Below(y))
        /\ Cardinality(Below(y)) = Cardinality(Below(x)) => Below(y) = Below(x)
    BY <1>2, <2>1, FS_Subset
  <2> QED BY <1>2, <2>1, <2>2
<1>4. \A x \in S : rank[x] \in T
  <2> TAKE x \in S
  <2>1. Below(x) \subseteq S /\ x \notin Below(x)
    BY DEF StrictOrder
  <2>2. Cardinality(Below(x)) <= n /\ (n = Cardinality(Below(x)) => Below(x) = S)
    BY <2>1, FS_Subset
  <2> QED BY <1>1, <1>2, <2>1, <2>2
<1>5. \A x, y \in S : rank[x] = rank[y] => x = y
  <2> SUFFICES ASSUME NEW x \in S, NEW y \in S, rank[x] = rank[y], x # y PROVE FALSE
    OBVIOUS
  <2>1. <<x, y>> \in R \/ <<y, x>> \in R
    BY DEF StrictOrder
  <2>2. rank[x] < rank[y] \/ rank[y] < rank[x]
    BY <1>3, <2>1
  <2> QED BY <1>2, <2>2
<1>6. \A k \in T : \E x \in S : rank[x] = k
  <2>1. rank \in Injection(S, T)
    BY <1>4, <1>5 DEF Injection, IsInjective
  <2>2. IsFiniteSet(T) /\ Cardinality(T) = n
    <3>1. IsFiniteSet(T) /\ Cardinality(T) = IF 0 > n - 1 THEN 0 ELSE n - 1 - 0 + 1
      BY <1>1, FS_Interval
    <3> QED BY <1>1, <3>1
  <2>3. rank \in Surjection(S, T)
    BY <2>1, <2>2, FS_Injection
  <2> QED BY <2>3 DEF Surjection
<1>7. \A k \in 1 .. n : q[k] \in S /\ rank[q[k]] = k - 1
  <2> TAKE k \in 1 .. n
  <2>1. \E x \in S : Cardinality(Below(x)) = k - 1
    <3>1. k - 1 \in T
      BY <1>1
    <3> QED BY <1>6, <3>1
  <2>2. q[k] = CHOOSE x \in S : Cardinality(Below(x)) = k - 1
    BY DEF Sorted
  <2> QED BY <2>1, <2>2
<1>8. q \in Seq(S) /\ DOMAIN q = 1 .. n
  <2>1. q \in [1 .. n -> S]
    BY <1>7 DEF Sorted
  <2> QED BY <1>1, <2>1, SeqDef
<1>9. ASSUME NEW x \in S
      PROVE  \E k \in DOMAIN q : q[k] = x
  <2>1. PICK k \in 1 .. n : rank[x] = k - 1
    <3>1. rank[x] + 1 \in 1 .. n /\ rank[x] = (rank[x] + 1) - 1
      BY <1>1, <1>2, <1>4
    <3> QED BY <3>1
  <2>2. q[k] \in S /\ rank[q[k]] = k - 1
    BY <1>7
  <2>3. q[k] = x
    <3> HIDE DEF rank, q
    <3> QED BY <1>5, <2>1, <2>2
  <2> QED BY <1>8, <2>3
<1>10. ASSUME NEW k \in DOMAIN q, NEW m \in DOMAIN q, k < m
       PROVE  <<q[k], q[m]>> \in R
  <2>1. rank[q[k]] = k - 1 /\ rank[q[m]] = m - 1 /\ q[k] \in S /\ q[m] \in S
    BY <1>7, <1>8
  <2>2. k \in 1 .. n /\ m \in 1 .. n /\ k - 1 < m - 1
    BY <1>1, <1>8, <1>10
  <2>3. q[k] # q[m] /\ ~(rank[q[m]] < rank[q[k]])
    <3> HIDE DEF rank, q
    <3> QED BY <1>1, <2>1, <2>2
  <2> QED BY <1>3, <2>1, <2>3 DEF StrictOrder
<1> QED BY <1>8, <1>9, <1>10 DEF Enumerates

-----------------------------------------------------------------------------
(* What the operations leave alone.                                         *)

Fields == {"nValid", "nInvalid", "nSkipped", "bufs", "order", "completed", "current", "out", "panic"}

\* What c has written stands in d, and d writes on.
Grows(c, d) == \A k \in DOMAIN c.out : k \in DOMAIN d.out /\ d.out[k] = c.out[k]

\* d differs from c at most in what is written and what waits in the buffers.
Keeps(c, d) ==
  /\ DOMAIN d = DOMAIN c /\ DOMAIN d.bufs = DOMAIN c.bufs
  /\ d.nValid = c.nValid /\ d.nInvalid = c.nInvalid /\ d.nSkipped = c.nSkipped
  /\ d.order = c.order /\ d.completed = c.completed
  /\ d.current = c.current /\ d.panic = c.panic

LEMMA GrowsTransitive ==
  ASSUME NEW c, NEW d, NEW e, Grows(c, d), Grows(d, e)
  PROVE  Grows(c, e)
BY DEF Grows

LEMMA KeepsItself == \A c : Keeps(c, c)
BY DEF Keeps

LEMMA KeepsTransitive ==
  ASSUME NEW c, NEW d, NEW e, Keeps(c, d), Keeps(d, e)
  PROVE  Keeps(c, e)
BY DEF Keeps

LEMMA FlushContiguousKeeps ==
  ASSUME NEW c, DOMAIN c = Fields, NEW l
  PROVE  Keeps(c, FlushContiguous(c, l))
BY DEF FlushContiguous, WriteAll, Keeps, Fields

LEMMA FlushRemainingKeeps ==
  ASSUME NEW c, DOMAIN c = Fields, NEW l
  PROVE  Keeps(c, FlushRemaining(c, l))
BY DEF FlushRemaining, WriteAll, Keeps, Fields

LEMMA FlushSourceKeeps ==
  ASSUME NEW c, DOMAIN c = Fields, NEW l
  PROVE  Keeps(c, FlushSource(c, l))
<1> DEFINE d == FlushContiguous(c, l)
<1>1. Keeps(c, d)
  BY FlushContiguousKeeps
<1>2. DOMAIN d = Fields
  BY <1>1 DEF Keeps
<1>3. Keeps(d, FlushRemaining(d, l))
  <2> HIDE DEF d
  <2> QED BY <1>2, FlushRemainingKeeps
<1> QED BY <1>1, <1>3, KeepsTransitive DEF FlushSource

\* FlushEach is the loop it says: there is a state of the collector before
\* the first source and after each one.
LEMMA FlushEachLoops ==
  ASSUME NEW c, NEW ls, Len(ls) \in Nat
  PROVE  \E after :
           /\ after[0] = c
           /\ \A n \in 1 .. Len(ls) : after[n] = FlushSource(after[n - 1], ls[n])
           /\ FlushEach(c, ls) = after[Len(ls)]
<1> DEFINE IsLoop(g, n) ==
             g = [k \in 0 .. n |-> IF k = 0 THEN c ELSE FlushSource(g[k - 1], ls[k])]
           S == {n \in Nat : \E g : IsLoop(g, n)}
<1>1. 0 \in S
  <2>1. IsLoop([k \in 0 .. 0 |-> c], 0)
    OBVIOUS
  <2> QED BY <2>1
<1>2. ASSUME NEW n \in S
      PROVE  n + 1 \in S
  <2>1. PICK g : IsLoop(g, n)
    OBVIOUS
  <2> DEFINE h == [k \in 0 .. n + 1 |-> IF k = n + 1 THEN FlushSource(g[n], ls[n + 1]) ELSE g[k]]
  <2>2. \A k \in 0 .. n : g[k] = IF k = 0 THEN c ELSE FlushSource(g[k - 1], ls[k])
    BY <2>1
  <2>3. \A k \in 0 .. n + 1 : h[k] = IF k = 0 THEN c ELSE FlushSource(h[k - 1], ls[k])
    <3> SUFFICES ASSUME NEW k \in 0 .. n + 1
                 PROVE  h[k] = IF k = 0 THEN c ELSE FlushSource(h[k - 1], ls[k])
      OBVIOUS
    <3>1. CASE k = n + 1
      BY <3>1
    <3>2. CASE k \in 0 .. n
      <4>1. h[k] = g[k] /\ (k # 0 => h[k - 1] = g[k - 1])
        BY <3>2
      <4> HIDE DEF h
      <4> QED BY <2>2, <3>2, <4>1
    <3> QED BY <3>1, <3>2
  <2>4. IsLoop(h, n + 1)
    BY <2>3
  <2>5. n + 1 \in Nat /\ \E e : IsLoop(e, n + 1)
    <3> HIDE DEF h, IsLoop
    <3> QED BY <2>4
  <2> QED BY <2>5
<1>3. Len(ls) \in S
  <2> HIDE DEF S
  <2>1. S \subseteq Nat
    BY DEF S
  <2> QED BY <1>1, <1>2, <2>1, NatInductive
<1> DEFINE f == CHOOSE g : IsLoop(g, Len(ls))
<1>4. IsLoop(f, Len(ls))
  BY <1>3
<1>5. FlushEach(c, ls) = f[Len(ls)]
  BY DEF FlushEach
<1>6. f[0] = c /\ \A n \in 1 .. Len(ls) : f[n] = FlushSource(f[n - 1], ls[n])
  <2> HIDE DEF f
  <2> QED BY <1>4
<1> HIDE DEF f
<1> QED BY <1>5, <1>6

LEMMA FlushEachKeeps ==
  ASSUME NEW c, DOMAIN c = Fields, NEW ls, Len(ls) \in Nat
  PROVE  Keeps(c, FlushEach(c, ls))
<1>1. PICK after : /\ after[0] = c
                   /\ \A n \in 1 .. Len(ls) : after[n] = FlushSource(after[n - 1], ls[n])
                   /\ FlushEach(c, ls) = after[Len(ls)]
  BY FlushEachLoops
<1> DEFINE S == {n \in Nat : n <= Len(ls) => Keeps(c, after[n])}
<1>2. 0 \in S
  BY <1>1, KeepsItself
<1>3. ASSUME NEW n \in S
      PROVE  n + 1 \in S
  <2> SUFFICES ASSUME n + 1 <= Len(ls) PROVE Keeps(c, after[n + 1])
    OBVIOUS
  <2>1. Keeps(c, after[n])
    OBVIOUS
  <2>2. after[n + 1] = FlushSource(after[n], ls[n + 1])
    BY <1>1
  <2>3. DOMAIN after[n] = Fields
    BY <2>1 DEF Keeps
  <2> QED BY <2>1, <2>2, <2>3, FlushSourceKeeps, KeepsTransitive
<1>4. Len(ls) \in S
  <2> HIDE DEF S
  <2>1. S \subseteq Nat
    BY DEF S
  <2> QED BY <1>2, <1>3, <2>1, NatInductive
<1> QED BY <1>1, <1>4

LEMMA TryAdvanceKeeps ==
  ASSUME NEW c, DOMAIN c = Fields, Len(c.order) \in Nat, c.current \in Nat,
         c.current <= Len(c.order) + 1
  PROVE  LET d == TryAdvance(c)
         IN  /\ StopAt(c) \in c.current .. Len(c.order) + 1
             /\ Keeps(c, [d EXCEPT !.current = c.current]) /\ d.current = StopAt(c)
             /\ DOMAIN d = Fields
<1> DEFINE S == {k \in c.current .. Len(c.order) :
                   c.order[k] = NoLabel \/ c.order[k] \notin c.completed} \cup {Len(c.order) + 1}
           stop == StopAt(c)
           ls == SubSeq(c.order, c.current, stop - 1)
           passed == FlushEach(c, ls)
           begun == IF stop \in DOMAIN c.order /\ c.order[stop] # NoLabel
                    THEN FlushContiguous(passed, c.order[stop]) ELSE passed
<1>1. S \subseteq Nat /\ S # {}
  OBVIOUS
<1>2. stop \in S
  BY <1>1, MinIsLeast DEF StopAt
<1>3. stop \in c.current .. Len(c.order) + 1
  <2> HIDE DEF stop
  <2> QED BY <1>2
<1>4. Len(ls) \in Nat
  <2> HIDE DEF stop
  <2> QED BY <1>3
<1>5. Keeps(c, passed)
  <2> HIDE DEF ls
  <2> QED BY <1>4, FlushEachKeeps
<1>6. Keeps(c, begun)
  <2> HIDE DEF passed, stop
  <2>1. DOMAIN passed = Fields
    BY <1>5 DEF Keeps
  <2> QED BY <1>5, <2>1, FlushContiguousKeeps, KeepsTransitive
<1>7. TryAdvance(c) = [begun EXCEPT !.current = stop]
  BY DEF TryAdvance
<1> HIDE DEF begun
<1>8. DOMAIN begun = Fields
  BY <1>6 DEF Keeps
<1> HIDE DEF stop
<1>9. /\ Keeps(c, [TryAdvance(c) EXCEPT !.current = c.current])
      /\ TryAdvance(c).current = stop /\ DOMAIN TryAdvance(c) = Fields
  BY <1>6, <1>7, <1>8 DEF Keeps, Fields
<1> QED BY <1>3, <1>9 DEF stop

-----------------------------------------------------------------------------
(* What the operations write.                                               *)

BufFields == {"next", "pending", "nilMap"}
BufferType(b) ==
  /\ DOMAIN b = BufFields
  /\ b.next \in Nat \ {0} /\ b.nilMap \in BOOLEAN
  /\ IsFiniteSet(DOMAIN b.pending) /\ DOMAIN b.pending \subseteq Nat

\* No buffer but l's differs between c and d.
OnlyBuffer(c, d, l) == \A m \in DOMAIN c.bufs : m # l => d.bufs[m] = c.bufs[m]

LEMMA FlushContiguousWrites ==
  ASSUME NEW c, DOMAIN c = Fields, NEW l \in DOMAIN c.bufs, BufferType(c.bufs[l])
  PROVE  LET b == c.bufs[l]
             d == FlushContiguous(c, l)
             e == d.bufs[l]
         IN  /\ OnlyBuffer(c, d, l) /\ BufferType(e) /\ e.nilMap = b.nilMap
             /\ b.next <= e.next /\ e.next \notin DOMAIN b.pending
             /\ \A n \in b.next .. e.next - 1 : n \in DOMAIN b.pending
             /\ DOMAIN e.pending = DOMAIN b.pending \ (b.next .. e.next - 1)
             /\ \A n \in DOMAIN e.pending : e.pending[n] = b.pending[n]
             /\ d.out = c.out \o [k \in 1 .. e.next - b.next |-> b.pending[b.next + k - 1]]
<1> DEFINE b == c.bufs[l]
           gap == Min({n \in b.next .. b.next + Cardinality(DOMAIN b.pending) : n \notin DOMAIN b.pending})
           rest == Without(b.pending, b.next .. gap - 1)
           ds == [k \in 1 .. gap - b.next |-> b.next + k - 1]
           d == FlushContiguous(c, l)
           e == d.bufs[l]
<1>1. /\ gap \in Nat /\ b.next <= gap /\ gap \notin DOMAIN b.pending
      /\ \A n \in b.next .. gap - 1 : n \in DOMAIN b.pending
  BY FirstGap DEF BufferType
<1>2. d = [WriteAll(c, l, ds) EXCEPT !.bufs[l].next = gap, !.bufs[l].pending = rest]
  BY DEF FlushContiguous
<1>3. /\ DOMAIN rest = DOMAIN b.pending \ (b.next .. gap - 1)
      /\ \A n \in DOMAIN rest : rest[n] = b.pending[n]
  BY DEF Without
<1>4. IsFiniteSet(DOMAIN rest) /\ DOMAIN rest \subseteq Nat
  BY <1>3, FS_Subset DEF BufferType
<1>5. [k \in DOMAIN ds |-> b.pending[ds[k]]] =
        [k \in 1 .. gap - b.next |-> b.pending[b.next + k - 1]]
  OBVIOUS
<1>6. d.out = c.out \o [k \in 1 .. gap - b.next |-> b.pending[b.next + k - 1]]
  <2>1. WriteAll(c, l, ds).out = c.out \o [k \in DOMAIN ds |-> b.pending[ds[k]]]
    BY DEF WriteAll, Fields
  <2>2. d.out = WriteAll(c, l, ds).out
    <3> HIDE DEF gap, rest, ds
    <3> QED BY <1>2
  <2> QED BY <1>5, <2>1, <2>2
<1>7. WriteAll(c, l, ds).bufs = c.bufs /\ DOMAIN WriteAll(c, l, ds) = Fields
  BY DEF WriteAll, Fields
<1>8. /\ OnlyBuffer(c, d, l) /\ DOMAIN e = BufFields
      /\ e.next = gap /\ e.pending = rest /\ e.nilMap = b.nilMap
  <2> HIDE DEF gap, rest, ds
  <2> QED BY <1>2, <1>7 DEF BufferType, OnlyBuffer, Fields, BufFields
<1> HIDE DEF gap, rest, d
<1>9. BufferType(e)
  BY <1>1, <1>4, <1>8 DEF BufferType
<1> QED BY <1>1, <1>3, <1>6, <1>8, <1>9 DEF d

\* The values of f at the arguments ds.
At(f, ds) == [k \in DOMAIN ds |-> f[ds[k]]]

\* d is c with everything in l's buffer written, by the DocIndexes ds.
Drains(c, d, l, ds) ==
  /\ OnlyBuffer(c, d, l) /\ BufferType(d.bufs[l])
  /\ d.bufs[l].next = c.bufs[l].next /\ DOMAIN d.bufs[l].pending = {}
  /\ Enumerates(ds, DOMAIN c.bufs[l].pending, ByIndex)
  /\ d.out = c.out \o At(c.bufs[l].pending, ds)

LEMMA FlushRemainingWrites ==
  ASSUME NEW c, DOMAIN c = Fields, NEW l \in DOMAIN c.bufs, BufferType(c.bufs[l]),
         NEW T, c.out \in Seq(T)
  PROVE  \E ds : Drains(c, FlushRemaining(c, l), l, ds)
<1> DEFINE b == c.bufs[l]
           d == FlushRemaining(c, l)
           e == d.bufs[l]
           ds == Sorted(DOMAIN b.pending, ByIndex)
<1>1. Enumerates(ds, DOMAIN b.pending, ByIndex)
  <2>1. StrictOrder(ByIndex, DOMAIN b.pending)
    BY DEF StrictOrder, ByIndex, BufferType
  <2> QED BY <2>1, SortedEnumerates DEF BufferType
<1>2. CASE DOMAIN b.pending = {}
  <2>1. d = c
    BY <1>2 DEF FlushRemaining
  <2>2. ds \in Seq({})
    BY <1>1, <1>2 DEF Enumerates
  <2>3. ds = <<>>
    BY <2>2
  <2>4. At(b.pending, ds) = <<>>
    BY <2>3 DEF At
  <2>5. c.out \o <<>> = c.out
    BY ConcatEmptySeq
  <2> HIDE DEF d, ds
  <2>6. c.out \o At(b.pending, ds) = c.out
    BY <2>4, <2>5
  <2>7. Drains(c, d, l, ds)
    BY <1>1, <1>2, <2>1, <2>6 DEF OnlyBuffer, Drains
  <2> QED BY <2>7 DEF d
<1>3. CASE DOMAIN b.pending # {}
  <2>1. d = [WriteAll(c, l, ds) EXCEPT !.bufs[l].pending = <<>>, !.bufs[l].nilMap = TRUE]
    BY <1>3 DEF FlushRemaining
  <2>2. /\ WriteAll(c, l, ds).out = c.out \o At(b.pending, ds)
        /\ WriteAll(c, l, ds).bufs = c.bufs /\ DOMAIN WriteAll(c, l, ds) = Fields
    BY DEF WriteAll, Fields, At
  <2> HIDE DEF ds
  <2>3. d.out = c.out \o At(b.pending, ds)
    <3>1. d.out = WriteAll(c, l, ds).out
      BY <2>1
    <3> QED BY <2>2, <3>1
  <2>4. /\ OnlyBuffer(c, d, l) /\ DOMAIN e = BufFields
        /\ e.next = b.next /\ e.pending = <<>> /\ e.nilMap = TRUE
    BY <2>1, <2>2 DEF BufferType, OnlyBuffer, Fields, BufFields
  <2>5. DOMAIN e.pending = {}
    BY <2>4
  <2>6. BufferType(e)
    <3> HIDE DEF e
    <3> QED BY <2>4, <2>5, FS_EmptySet DEF BufferType
  <2> HIDE DEF d
  <2>7. Drains(c, d, l, ds)
    BY <1>1, <2>3, <2>4, <2>5, <2>6 DEF Drains
  <2> QED BY <2>7 DEF d
<1> QED BY <1>2, <1>3

-----------------------------------------------------------------------------
(* The collector's invariant. G is the set of results and sentinels it was  *)
(* given, lab the labels of the sources, p the source that is being written:*)
(* the ones before it are written, the ones after it wait. X holds the      *)
(* labels whose entries may stand anywhere: none while the stream lasts, "" *)
(* once the flush at its end has come to slots that no result has filled.   *)

Entries(G) == {r \in G : ~r.final}

\* Sources have labels of their own, and G has one result for a document; of
\* the empty path it has at most the error.
Received(G, lab) ==
  /\ DOMAIN lab \subseteq Nat \ {0}
  /\ \A s \in DOMAIN lab : 1 .. s \subseteq DOMAIN lab
  /\ \A s, t \in DOMAIN lab : lab[s] = lab[t] => s = t
  /\ \A r \in G : r.src \in DOMAIN lab /\ r.label = lab[r.src] /\ r.doc \in Nat
  /\ \A r \in Entries(G) : r.label = NoLabel => r.doc = 0
  /\ \A x, y \in Entries(G) : x.src = y.src /\ x.doc = y.doc => x = y

\* What waits in a buffer is a result of its source, under its DocIndex.
Buffers(c, G) ==
  /\ DOMAIN c = Fields
  /\ \A l \in DOMAIN c.bufs :
       /\ \E r \in Entries(G) : r.label = l
       /\ BufferType(c.bufs[l])
       /\ \A n \in DOMAIN c.bufs[l].pending :
            /\ c.bufs[l].pending[n] \in Entries(G)
            /\ c.bufs[l].pending[n].label = l /\ c.bufs[l].pending[n].doc = n

\* Every result is written or waits, none does both, and none is written twice.
NothingLost(c, G) ==
  /\ c.out \in Seq(Entries(G))
  /\ \A r \in Entries(G) :
       /\ r.label \in DOMAIN c.bufs
       /\ \/ r.doc \in DOMAIN c.bufs[r.label].pending
          \/ \E k \in DOMAIN c.out : c.out[k] = r
  /\ \A k \in DOMAIN c.out : c.out[k].doc \notin DOMAIN c.bufs[c.out[k].label].pending
  /\ \A k, m \in DOMAIN c.out : k < m => c.out[k] # c.out[m]

\* Nothing waits before p, nothing after p was begun, and what a buffer has
\* counted past is written.
Positions(c, lab, p, X) ==
  \A s \in DOMAIN lab : lab[s] \in DOMAIN c.bufs =>
    /\ s < p => DOMAIN c.bufs[lab[s]].pending = {}
    /\ lab[s] \notin X /\ s >= p => ~c.bufs[lab[s]].nilMap
    /\ lab[s] \notin X /\ s > p => c.bufs[lab[s]].next = 1
    /\ \A n \in 1 .. c.bufs[lab[s]].next - 1 :
         \E k \in DOMAIN c.out : c.out[k].src = s /\ c.out[k].doc = n

\* What is written of p is written without a gap.
Progress(c, p, X) ==
  \A k \in DOMAIN c.out : c.out[k].label \notin X =>
    /\ c.out[k].src <= p
    /\ c.out[k].doc # c.bufs[c.out[k].label].next
    /\ c.out[k].src = p => c.out[k].doc # 0 /\ c.out[k].doc < c.bufs[c.out[k].label].next

\* The source-level error of a source takes the place of its first gap.
PlaceIn(c, r) == IF r.doc = 0 THEN c.bufs[r.label].next ELSE r.doc
PlacedBefore(c, x, y) ==
  \/ x.src < y.src
  \/ x.src = y.src /\ PlaceIn(c, x) < PlaceIn(c, y)
WrittenInOrder(c, X) ==
  \A k, m \in DOMAIN c.out :
    k < m /\ c.out[k].label \notin X /\ c.out[m].label \notin X =>
      PlacedBefore(c, c.out[k], c.out[m])

Gathered(c, lab, G, p, X) ==
  /\ Buffers(c, G) /\ NothingLost(c, G)
  /\ Positions(c, lab, p, X) /\ Progress(c, p, X) /\ WrittenInOrder(c, X)

-----------------------------------------------------------------------------
(* A flush writes from the buffer of p, or of a label in X.                 *)

\* f holds the elements of q, then those of e.
Concats(f, q, e) ==
  /\ \A k \in DOMAIN q : k \in DOMAIN f /\ f[k] = q[k]
  /\ \A j \in DOMAIN e : \E k \in DOMAIN f : f[k] = e[j]
  /\ \A k \in DOMAIN f :
       \/ k \in DOMAIN q /\ f[k] = q[k]
       \/ \E j \in DOMAIN e : f[k] = e[j]
  /\ \A k, m \in DOMAIN f : k < m =>
       \/ k \in DOMAIN q /\ m \in DOMAIN q /\ f[k] = q[k] /\ f[m] = q[m]
       \/ k \in DOMAIN q /\ f[k] = q[k] /\ \E j \in DOMAIN e : f[m] = e[j]
       \/ \E i, j \in DOMAIN e : i < j /\ f[k] = e[i] /\ f[m] = e[j]

LEMMA ConcatSplits ==
  ASSUME NEW T, NEW q \in Seq(T), NEW e \in Seq(T)
  PROVE  q \o e \in Seq(T) /\ Concats(q \o e, q, e)
<1> DEFINE n == Len(q)
           f == q \o e
<1>1. /\ f \in Seq(T) /\ DOMAIN q = 1 .. n /\ n \in Nat
      /\ DOMAIN e = 1 .. Len(e) /\ Len(e) \in Nat /\ DOMAIN f = 1 .. n + Len(e)
      /\ \A k \in 1 .. n + Len(e) : f[k] = IF k <= n THEN q[k] ELSE e[k - n]
  BY ConcatProperties, LenProperties
<1> HIDE DEF f, n
<1>2. \A k \in DOMAIN q : k \in DOMAIN f /\ f[k] = q[k]
  BY <1>1
<1>3. \A j \in DOMAIN e : \E k \in DOMAIN f : f[k] = e[j]
  <2> TAKE j \in DOMAIN e
  <2>1. n + j \in DOMAIN f /\ f[n + j] = e[n + j - n] /\ n + j - n = j
    BY <1>1
  <2> QED BY <2>1
<1>4. \A k \in DOMAIN f : k \notin DOMAIN q => k - n \in DOMAIN e /\ f[k] = e[k - n]
  BY <1>1
<1>5. \A k, m \in DOMAIN f : k < m =>
        /\ m \in DOMAIN q => k \in DOMAIN q
        /\ k \notin DOMAIN q => k - n < m - n
  BY <1>1
<1>6. \A k, m \in DOMAIN f : k < m =>
        \/ k \in DOMAIN q /\ m \in DOMAIN q /\ f[k] = q[k] /\ f[m] = q[m]
        \/ k \in DOMAIN q /\ f[k] = q[k] /\ \E j \in DOMAIN e : f[m] = e[j]
        \/ \E i, j \in DOMAIN e : i < j /\ f[k] = e[i] /\ f[m] = e[j]
  BY <1>2, <1>4, <1>5
<1>7. Concats(f, q, e)
  BY <1>2, <1>3, <1>4, <1>6 DEF Concats
<1> QED BY <1>1, <1>7 DEF f

\* d is c with new written from the buffer of l, in order.
Writes(c, d, l, new) ==
  LET b == c.bufs[l]
      e == d.bufs[l]
      place(r) == IF r.doc = 0 THEN e.next ELSE r.doc
  IN  /\ DOMAIN d = Fields /\ DOMAIN d.bufs = DOMAIN c.bufs
      /\ OnlyBuffer(c, d, l) /\ BufferType(e) /\ b.next <= e.next
      /\ new \in Seq({b.pending[n] : n \in DOMAIN b.pending})
      /\ d.out = c.out \o new
      /\ DOMAIN e.pending \subseteq DOMAIN b.pending
      /\ \A n \in DOMAIN e.pending : e.pending[n] = b.pending[n]
      /\ \A n \in DOMAIN b.pending \ DOMAIN e.pending : \E j \in DOMAIN new : new[j] = b.pending[n]
      /\ \A j \in DOMAIN new :
           /\ new[j].doc \notin DOMAIN e.pending
           /\ new[j].doc # e.next /\ (new[j].doc = 0 \/ b.next <= new[j].doc)
      /\ \A n \in b.next .. e.next - 1 : \E j \in DOMAIN new : new[j].doc = n
      /\ \A i, j \in DOMAIN new : i < j => place(new[i]) < place(new[j])

LEMMA WritesGather ==
  ASSUME NEW lab, NEW G, Received(G, lab), NEW X, NEW p \in Nat, NEW c, Gathered(c, lab, G, p, X),
         NEW u \in DOMAIN lab, lab[u] \in DOMAIN c.bufs, u = p \/ lab[u] \in X,
         NEW d, NEW new, Writes(c, d, lab[u], new), NEW t \in {p, p + 1},
         t = p /\ lab[u] \notin X =>
           /\ ~d.bufs[lab[u]].nilMap
           /\ \A j \in DOMAIN new : new[j].doc # 0 /\ new[j].doc < d.bufs[lab[u]].next,
         t = p + 1 /\ p \in DOMAIN lab /\ lab[p] \in DOMAIN d.bufs =>
           DOMAIN d.bufs[lab[p]].pending = {}
  PROVE  Gathered(d, lab, G, t, X) /\ Grows(c, d)
<1> DEFINE l == lab[u]
           b == c.bufs[l]
           e == d.bufs[l]
<1>0. /\ u \in Nat \ {0} /\ DOMAIN lab \subseteq Nat \ {0}
      /\ \A s \in DOMAIN lab : lab[s] = l <=> s = u
      /\ \A r \in G : r.src \in DOMAIN lab /\ r.label = lab[r.src] /\ r.doc \in Nat
  BY DEF Received
<1>1. /\ DOMAIN d = Fields /\ DOMAIN d.bufs = DOMAIN c.bufs
      /\ \A m \in DOMAIN c.bufs : m # l => d.bufs[m] = c.bufs[m]
      /\ BufferType(e) /\ b.next <= e.next /\ BufferType(b)
      /\ new \in Seq({b.pending[n] : n \in DOMAIN b.pending}) /\ d.out = c.out \o new
      /\ DOMAIN e.pending \subseteq DOMAIN b.pending
      /\ \A n \in DOMAIN e.pending : e.pending[n] = b.pending[n]
  BY DEF Writes, OnlyBuffer, Gathered, Buffers
<1>2. \A n \in DOMAIN b.pending :
        b.pending[n] \in Entries(G) /\ b.pending[n].label = l /\ b.pending[n].doc = n
  BY DEF Gathered, Buffers
<1>3. new \in Seq(Entries(G)) /\ c.out \in Seq(Entries(G))
  <2>1. {b.pending[n] : n \in DOMAIN b.pending} \subseteq Entries(G)
    BY <1>2
  <2> QED BY <1>1, <2>1, SeqMonotonic DEF Gathered, NothingLost
<1>4. \A j \in DOMAIN new :
        /\ new[j] \in Entries(G) /\ new[j].label = l /\ new[j].src = u
        /\ new[j].doc \in DOMAIN b.pending /\ new[j] = b.pending[new[j].doc]
  <2> TAKE j \in DOMAIN new
  <2>1. PICK n \in DOMAIN b.pending : new[j] = b.pending[n]
    BY <1>1, LenProperties
  <2>2. new[j] \in Entries(G) /\ new[j].label = l /\ new[j].doc = n
    BY <1>2, <2>1
  <2>3. new[j].src = u
    BY <1>0, <2>2 DEF Entries
  <2> QED BY <2>1, <2>2, <2>3
<1>5. /\ d.out \in Seq(Entries(G))
      /\ \A k \in DOMAIN c.out : k \in DOMAIN d.out /\ d.out[k] = c.out[k]
      /\ \A j \in DOMAIN new : \E k \in DOMAIN d.out : d.out[k] = new[j]
      /\ \A k \in DOMAIN d.out :
           \/ k \in DOMAIN c.out /\ d.out[k] = c.out[k]
           \/ \E j \in DOMAIN new : d.out[k] = new[j]
      /\ \A k, m \in DOMAIN d.out : k < m =>
           \/ k \in DOMAIN c.out /\ m \in DOMAIN c.out /\ d.out[k] = c.out[k] /\ d.out[m] = c.out[m]
           \/ k \in DOMAIN c.out /\ d.out[k] = c.out[k] /\ \E j \in DOMAIN new : d.out[m] = new[j]
           \/ \E i, j \in DOMAIN new : i < j /\ d.out[k] = new[i] /\ d.out[m] = new[j]
  <2>1. d.out \in Seq(Entries(G)) /\ Concats(d.out, c.out, new)
    BY <1>1, <1>3, ConcatSplits
  <2> QED BY <2>1 DEF Concats
<1>6. \A k \in DOMAIN c.out :
        /\ c.out[k] \in Entries(G) /\ c.out[k] \in G
        /\ c.out[k].src \in DOMAIN lab /\ c.out[k].label = lab[c.out[k].src]
        /\ c.out[k].label \in DOMAIN c.bufs /\ c.out[k].doc \in Nat
        /\ c.out[k].src = u => c.out[k].label = l
        /\ c.out[k].src # u => c.out[k].label # l
  <2> TAKE k \in DOMAIN c.out
  <2>1. c.out[k] \in Entries(G)
    BY <1>3, LenProperties
  <2>2. c.out[k] \in G
    BY <2>1 DEF Entries
  <2> QED BY <1>0, <2>1, <2>2 DEF Gathered, NothingLost
<1>7. Buffers(d, G)
  <2> SUFFICES ASSUME NEW m \in DOMAIN d.bufs
               PROVE  /\ \E r \in Entries(G) : r.label = m
                      /\ BufferType(d.bufs[m])
                      /\ \A n \in DOMAIN d.bufs[m].pending :
                           /\ d.bufs[m].pending[n] \in Entries(G)
                           /\ d.bufs[m].pending[n].label = m /\ d.bufs[m].pending[n].doc = n
    BY <1>1 DEF Buffers
  <2>1. CASE m = l
    <3>1. \E r \in Entries(G) : r.label = l
      BY DEF Gathered, Buffers
    <3> QED BY <1>1, <1>2, <2>1, <3>1
  <2>2. CASE m # l
    BY <1>1, <2>2 DEF Gathered, Buffers
  <2> QED BY <2>1, <2>2
<1>8. NothingLost(d, G)
  <2>1. ASSUME NEW r \in Entries(G)
        PROVE  /\ r.label \in DOMAIN d.bufs
               /\ \/ r.doc \in DOMAIN d.bufs[r.label].pending
                  \/ \E k \in DOMAIN d.out : d.out[k] = r
    <3>1. r.label \in DOMAIN c.bufs /\ r \in G
      BY DEF Gathered, NothingLost, Entries
    <3>2. CASE \E k \in DOMAIN c.out : c.out[k] = r
      BY <1>1, <1>5, <3>1, <3>2
    <3>3. CASE r.doc \in DOMAIN c.bufs[r.label].pending /\ r.label # l
      BY <1>1, <3>1, <3>3
    <3>4. CASE r.doc \in DOMAIN b.pending /\ r.label = l
      <4>1. CASE r.doc \in DOMAIN e.pending
        BY <1>1, <3>1, <3>4, <4>1
      <4>2. CASE r.doc \notin DOMAIN e.pending
        <5>1. PICK j \in DOMAIN new : new[j] = b.pending[r.doc]
          BY <3>4, <4>2 DEF Writes
        <5>2. new[j] \in Entries(G) /\ new[j].src = r.src /\ new[j].doc = r.doc
          BY <1>0, <1>2, <1>4, <3>1, <3>4, <5>1
        <5>3. new[j] = r
          BY <5>2 DEF Received
        <5> QED BY <1>1, <1>5, <3>1, <5>3
      <4> QED BY <4>1, <4>2
    <3> QED BY <3>1, <3>2, <3>3, <3>4 DEF Gathered, NothingLost
  <2>2. ASSUME NEW k \in DOMAIN d.out
        PROVE  d.out[k].doc \notin DOMAIN d.bufs[d.out[k].label].pending
    <3>1. CASE k \in DOMAIN c.out /\ d.out[k] = c.out[k]
      <4>1. c.out[k].doc \notin DOMAIN c.bufs[c.out[k].label].pending
        BY <3>1 DEF Gathered, NothingLost
      <4>2. CASE c.out[k].label = l
        BY <1>1, <3>1, <4>1, <4>2
      <4>3. CASE c.out[k].label # l
        BY <1>1, <1>6, <3>1, <4>1, <4>3
      <4> QED BY <4>2, <4>3
    <3>2. CASE \E j \in DOMAIN new : d.out[k] = new[j]
      BY <1>4, <3>2 DEF Writes
    <3> QED BY <1>5, <3>1, <3>2
  <2>3. ASSUME NEW k \in DOMAIN d.out, NEW m \in DOMAIN d.out, k < m
        PROVE  d.out[k] # d.out[m]
    <3>1. CASE k \in DOMAIN c.out /\ m \in DOMAIN c.out /\ d.out[k] = c.out[k] /\ d.out[m] = c.out[m]
      BY <2>3, <3>1 DEF Gathered, NothingLost
    <3>2. ASSUME k \in DOMAIN c.out, d.out[k] = c.out[k], NEW j \in DOMAIN new, d.out[m] = new[j]
          PROVE  d.out[k] # d.out[m]
      <4>1. c.out[k].doc \notin DOMAIN c.bufs[c.out[k].label].pending
        BY <3>2 DEF Gathered, NothingLost
      <4> QED BY <1>4, <3>2, <4>1
    <3>3. ASSUME NEW i \in DOMAIN new, NEW j \in DOMAIN new, i < j, d.out[k] = new[i], d.out[m] = new[j]
          PROVE  d.out[k] # d.out[m]
      <4>1. (IF new[i].doc = 0 THEN e.next ELSE new[i].doc) < (IF new[j].doc = 0 THEN e.next ELSE new[j].doc)
        BY <3>3 DEF Writes
      <4>2. new[i].doc \in Nat /\ new[j].doc \in Nat /\ e.next \in Nat
        BY <1>0, <1>1, <1>4 DEF BufferType, Entries
      <4> QED BY <3>3, <4>1, <4>2
    <3> QED BY <1>5, <2>3, <3>1, <3>2, <3>3
  <2> QED BY <1>5, <2>1, <2>2, <2>3 DEF NothingLost
<1>9. Positions(d, lab, t, X)
  <2> SUFFICES ASSUME NEW s \in DOMAIN lab, lab[s] \in DOMAIN d.bufs
               PROVE  /\ s < t => DOMAIN d.bufs[lab[s]].pending = {}
                      /\ lab[s] \notin X /\ s >= t => ~d.bufs[lab[s]].nilMap
                      /\ lab[s] \notin X /\ s > t => d.bufs[lab[s]].next = 1
                      /\ \A n \in 1 .. d.bufs[lab[s]].next - 1 :
                           \E k \in DOMAIN d.out : d.out[k].src = s /\ d.out[k].doc = n
    BY DEF Positions
  <2>1. CASE s = u
    <3>0. s < p => DOMAIN b.pending = {}
      BY <2>1 DEF Gathered, Positions
    <3>1. /\ s < t => DOMAIN e.pending = {}
          /\ l \notin X /\ s >= t => ~e.nilMap
          /\ l \notin X => ~(s > t)
      <4>1. CASE u = p
        BY <1>0, <2>1, <4>1
      <4>2. CASE u # p
        <5>1. s < t => s < p
          BY <1>0, <2>1, <4>2
        <5> QED BY <1>1, <2>1, <3>0, <4>2, <5>1
      <4> QED BY <4>1, <4>2
    <3>2. ASSUME NEW n \in 1 .. e.next - 1
          PROVE  \E k \in DOMAIN d.out : d.out[k].src = s /\ d.out[k].doc = n
      <4>1. CASE n \in 1 .. b.next - 1
        <5>1. PICK k \in DOMAIN c.out : c.out[k].src = s /\ c.out[k].doc = n
          BY <2>1, <4>1 DEF Gathered, Positions
        <5> QED BY <1>5, <5>1
      <4>2. CASE n \in b.next .. e.next - 1
        <5>1. PICK j \in DOMAIN new : new[j].doc = n
          BY <4>2 DEF Writes
        <5> QED BY <1>4, <1>5, <2>1, <5>1
      <4> QED BY <1>1, <4>1, <4>2 DEF BufferType
    <3> QED BY <2>1, <3>1, <3>2
  <2>2. CASE s # u
    <3>1. lab[s] \in DOMAIN c.bufs /\ d.bufs[lab[s]] = c.bufs[lab[s]]
      BY <1>0, <1>1, <2>2
    <3>2. /\ s < p => DOMAIN c.bufs[lab[s]].pending = {}
          /\ lab[s] \notin X /\ s >= p => ~c.bufs[lab[s]].nilMap
          /\ lab[s] \notin X /\ s > p => c.bufs[lab[s]].next = 1
          /\ \A n \in 1 .. c.bufs[lab[s]].next - 1 :
               \E k \in DOMAIN c.out : c.out[k].src = s /\ c.out[k].doc = n
      BY <3>1 DEF Gathered, Positions
    <3>3. (s < t => s < p \/ (s = p /\ t = p + 1)) /\ (s >= t => s >= p) /\ (s > t => s > p)
      BY <1>0
    <3>4. \A n \in 1 .. c.bufs[lab[s]].next - 1 :
            \E k \in DOMAIN d.out : d.out[k].src = s /\ d.out[k].doc = n
      BY <1>5, <3>2
    <3>5. s = p /\ t = p + 1 => DOMAIN d.bufs[lab[s]].pending = {}
      OBVIOUS
    <3> QED BY <3>1, <3>2, <3>3, <3>4, <3>5
  <2> QED BY <2>1, <2>2
<1>10. Progress(d, t, X)
  <2> SUFFICES ASSUME NEW k \in DOMAIN d.out, d.out[k].label \notin X
               PROVE  /\ d.out[k].src <= t
                      /\ d.out[k].doc # d.bufs[d.out[k].label].next
                      /\ d.out[k].src = t =>
                           d.out[k].doc # 0 /\ d.out[k].doc < d.bufs[d.out[k].label].next
    BY DEF Progress
  <2>1. CASE k \in DOMAIN c.out /\ d.out[k] = c.out[k]
    <3>1. /\ c.out[k].src <= p
          /\ c.out[k].doc # c.bufs[c.out[k].label].next
          /\ c.out[k].src = p => c.out[k].doc # 0 /\ c.out[k].doc < c.bufs[c.out[k].label].next
      BY <2>1 DEF Gathered, Progress
    <3>2. c.out[k].src \in Nat /\ c.out[k].doc \in Nat
      BY <1>0, <1>6, <2>1
    <3>3. CASE c.out[k].src = u
      <4>1. c.out[k].label = l /\ u = p
        BY <1>6, <2>1, <3>3
      <4>2. c.out[k].doc # 0 /\ c.out[k].doc < e.next
        BY <1>1, <3>1, <3>2, <3>3, <4>1 DEF BufferType
      <4> QED BY <1>0, <1>1, <2>1, <3>2, <3>3, <4>1, <4>2 DEF BufferType
    <3>4. CASE c.out[k].src # u
      <4>1. d.bufs[c.out[k].label] = c.bufs[c.out[k].label]
        BY <1>1, <1>6, <2>1, <3>4
      <4>2. c.out[k].src <= t /\ (c.out[k].src = t => c.out[k].src = p)
        BY <1>0, <3>1, <3>2
      <4> QED BY <2>1, <3>1, <4>1, <4>2
    <3> QED BY <3>3, <3>4
  <2>2. ASSUME NEW j \in DOMAIN new, d.out[k] = new[j]
        PROVE  /\ d.out[k].src <= t
               /\ d.out[k].doc # d.bufs[d.out[k].label].next
               /\ d.out[k].src = t =>
                    d.out[k].doc # 0 /\ d.out[k].doc < d.bufs[d.out[k].label].next
    <3>1. new[j].src = p /\ new[j].label = l /\ l \notin X
      BY <1>4, <2>2
    <3>2. new[j].doc # e.next
      BY DEF Writes
    <3>3. p <= t /\ (p = t => new[j].doc # 0 /\ new[j].doc < e.next)
      BY <3>1
    <3> QED BY <2>2, <3>1, <3>2, <3>3
  <2> QED BY <1>5, <2>1, <2>2
<1>11. WrittenInOrder(d, X)
  <2>1. \A k \in DOMAIN c.out : c.out[k].label \notin X => PlaceIn(d, c.out[k]) = PlaceIn(c, c.out[k])
    <3> SUFFICES ASSUME NEW k \in DOMAIN c.out, c.out[k].label \notin X
                 PROVE  PlaceIn(d, c.out[k]) = PlaceIn(c, c.out[k])
      OBVIOUS
    <3>1. CASE c.out[k].src = u
      <4>1. u = p
        BY <1>6, <3>1
      <4> QED BY <3>1, <4>1 DEF Gathered, Progress, PlaceIn
    <3>2. CASE c.out[k].src # u
      BY <1>1, <1>6, <3>2 DEF PlaceIn
    <3> QED BY <3>1, <3>2
  <2>2. \A j \in DOMAIN new : PlaceIn(d, new[j]) = IF new[j].doc = 0 THEN e.next ELSE new[j].doc
    BY <1>4 DEF PlaceIn
  <2> SUFFICES ASSUME NEW k \in DOMAIN d.out, NEW m \in DOMAIN d.out, k < m,
                      d.out[k].label \notin X, d.out[m].label \notin X
               PROVE  PlacedBefore(d, d.out[k], d.out[m])
    BY DEF WrittenInOrder
  <2>3. CASE k \in DOMAIN c.out /\ m \in DOMAIN c.out /\ d.out[k] = c.out[k] /\ d.out[m] = c.out[m]
    BY <2>1, <2>3 DEF Gathered, WrittenInOrder, PlacedBefore
  <2>4. ASSUME k \in DOMAIN c.out, d.out[k] = c.out[k], NEW j \in DOMAIN new, d.out[m] = new[j]
        PROVE  PlacedBefore(d, d.out[k], d.out[m])
    <3>0. l \notin X /\ u = p
      BY <1>4, <2>4
    <3>1. c.out[k].src <= p /\ c.out[k].src \in Nat /\ new[j].src = p
      BY <1>0, <1>4, <1>6, <2>4, <3>0 DEF Gathered, Progress
    <3>2. CASE c.out[k].src = p
      <4>1. c.out[k].doc # 0 /\ c.out[k].doc < b.next /\ c.out[k].doc \in Nat
        BY <1>6, <2>4, <3>0, <3>2 DEF Gathered, Progress
      <4>2. PlaceIn(d, c.out[k]) = c.out[k].doc
        BY <4>1 DEF PlaceIn
      <4>3. PlaceIn(d, new[j]) >= b.next /\ PlaceIn(d, new[j]) \in Nat
        <5>1. new[j].doc = 0 \/ b.next <= new[j].doc
          BY DEF Writes
        <5>2. new[j].doc \in Nat /\ b.next \in Nat /\ e.next \in Nat /\ b.next <= e.next
          BY <1>1, <1>4 DEF BufferType
        <5> QED BY <2>2, <5>1, <5>2
      <4>4. b.next \in Nat
        BY <1>1 DEF BufferType
      <4>5. PlaceIn(d, c.out[k]) < PlaceIn(d, new[j])
        BY <4>1, <4>2, <4>3, <4>4
      <4> QED BY <2>4, <3>1, <3>2, <4>5 DEF PlacedBefore
    <3>3. CASE c.out[k].src < p
      BY <2>4, <3>1, <3>3 DEF PlacedBefore
    <3> QED BY <1>0, <3>1, <3>2, <3>3
  <2>5. ASSUME NEW i \in DOMAIN new, NEW j \in DOMAIN new, i < j, d.out[k] = new[i], d.out[m] = new[j]
        PROVE  PlacedBefore(d, d.out[k], d.out[m])
    <3>1. (IF new[i].doc = 0 THEN e.next ELSE new[i].doc) < (IF new[j].doc = 0 THEN e.next ELSE new[j].doc)
      BY <2>5 DEF Writes
    <3> QED BY <1>4, <2>2, <2>5, <3>1 DEF PlacedBefore
  <2> QED BY <1>5, <2>3, <2>4, <2>5
<1>12. Grows(c, d)
  BY <1>5 DEF Grows
<1> QED BY <1>7, <1>8, <1>9, <1>10, <1>11, <1>12 DEF Gathered

\* The next result of l is not there to be written.
Stuck(c, l) == l \in DOMAIN c.bufs => c.bufs[l].next \notin DOMAIN c.bufs[l].pending

LEMMA ContiguousGathers ==
  ASSUME NEW lab, NEW G, Received(G, lab), NEW X, NEW p \in Nat, NEW c, Gathered(c, lab, G, p, X),
         NEW l, l \in DOMAIN c.bufs => \E u \in DOMAIN lab : l = lab[u] /\ (u = p \/ l \in X)
  PROVE  /\ Gathered(FlushContiguous(c, l), lab, G, p, X) /\ Stuck(FlushContiguous(c, l), l)
         /\ Grows(c, FlushContiguous(c, l))
<1>1. CASE l \notin DOMAIN c.bufs
  BY <1>1 DEF FlushContiguous, Stuck, Grows
<1>2. CASE l \in DOMAIN c.bufs
  <2> DEFINE b == c.bufs[l]
             d == FlushContiguous(c, l)
             e == d.bufs[l]
             new == [k \in 1 .. e.next - b.next |-> b.pending[b.next + k - 1]]
  <2>1. PICK u \in DOMAIN lab : l = lab[u] /\ (u = p \/ l \in X)
    BY <1>2
  <2>2. /\ DOMAIN c = Fields /\ BufferType(b)
        /\ \A n \in DOMAIN b.pending : b.pending[n].doc = n
    BY <1>2 DEF Gathered, Buffers
  <2>3. l \notin X => ~b.nilMap
    <3>1. lab[u] \in DOMAIN c.bufs /\ lab[u] \notin X /\ u >= p => ~c.bufs[lab[u]].nilMap
      BY DEF Gathered, Positions
    <3> QED BY <1>2, <2>1, <3>1
  <2>4. Keeps(c, d)
    BY <2>2, FlushContiguousKeeps
  <2>5. /\ OnlyBuffer(c, d, l) /\ BufferType(e) /\ e.nilMap = b.nilMap
        /\ b.next <= e.next /\ e.next \notin DOMAIN b.pending
        /\ \A n \in b.next .. e.next - 1 : n \in DOMAIN b.pending
        /\ DOMAIN e.pending = DOMAIN b.pending \ (b.next .. e.next - 1)
        /\ \A n \in DOMAIN e.pending : e.pending[n] = b.pending[n]
        /\ d.out = c.out \o new
    BY <1>2, <2>2, FlushContiguousWrites
  <2> HIDE DEF d
  <2>6. b.next \in Nat \ {0} /\ e.next \in Nat \ {0}
    BY <2>2, <2>5 DEF BufferType
  <2>7. /\ DOMAIN new = 1 .. e.next - b.next /\ e.next - b.next \in Nat
        /\ \A j \in DOMAIN new : b.next + j - 1 \in b.next .. e.next - 1
    BY <2>5, <2>6
  <2>8. \A j \in DOMAIN new :
          /\ new[j] = b.pending[b.next + j - 1] /\ new[j].doc = b.next + j - 1
          /\ new[j] \in {b.pending[n] : n \in DOMAIN b.pending}
    <3> TAKE j \in DOMAIN new
    <3>1. b.next + j - 1 \in DOMAIN b.pending
      BY <2>5, <2>7
    <3> QED BY <2>2, <3>1
  <2>9. new \in Seq({b.pending[n] : n \in DOMAIN b.pending})
    <3> DEFINE T == {b.pending[n] : n \in DOMAIN b.pending}
    <3>1. new \in [1 .. e.next - b.next -> T]
      BY <2>7, <2>8
    <3> HIDE DEF T, new
    <3>2. new \in Seq(T)
      BY <2>7, <3>1, SeqDef
    <3> QED BY <3>2 DEF T
  <2>10. \A n \in b.next .. e.next - 1 : n - b.next + 1 \in DOMAIN new /\ new[n - b.next + 1] = b.pending[n]
    <3> TAKE n \in b.next .. e.next - 1
    <3>1. n - b.next + 1 \in DOMAIN new /\ b.next + (n - b.next + 1) - 1 = n
      BY <2>6, <2>7
    <3> QED BY <2>8, <3>1
  <2>11. \A j \in DOMAIN new :
           /\ new[j].doc \notin DOMAIN e.pending /\ new[j].doc # e.next
           /\ b.next <= new[j].doc /\ new[j].doc # 0 /\ new[j].doc < e.next
    <3> TAKE j \in DOMAIN new
    <3>1. PICK n \in b.next .. e.next - 1 : new[j].doc = n
      BY <2>7, <2>8
    <3>2. n \notin DOMAIN e.pending
      BY <2>5
    <3>3. n # e.next /\ b.next <= n /\ n # 0 /\ n < e.next
      BY <2>6
    <3> QED BY <3>1, <3>2, <3>3
  <2>12. \A i, j \in DOMAIN new : i < j => new[i].doc < new[j].doc
    <3> TAKE i, j \in DOMAIN new
    <3>1. new[i].doc = b.next + i - 1 /\ new[j].doc = b.next + j - 1 /\ i \in Nat /\ j \in Nat
      BY <2>7, <2>8
    <3> HIDE DEF new
    <3> QED BY <2>6, <3>1
  <2>13. \A n \in b.next .. e.next - 1 : \E j \in DOMAIN new : new[j] = b.pending[n] /\ new[j].doc = n
    <3> SUFFICES ASSUME NEW n \in b.next .. e.next - 1
                 PROVE  \E j \in DOMAIN new : new[j] = b.pending[n] /\ new[j].doc = n
      OBVIOUS
    <3> HIDE DEF new
    <3>1. n \in DOMAIN b.pending /\ b.pending[n].doc = n
      BY <2>2, <2>5
    <3> QED BY <2>10, <3>1
  <2>14. \A n \in DOMAIN b.pending \ DOMAIN e.pending : \E j \in DOMAIN new : new[j] = b.pending[n]
    <3> HIDE DEF new
    <3> QED BY <2>5, <2>13
  <2> HIDE DEF new
  <2>15. Writes(c, d, l, new)
    BY <2>2, <2>4, <2>5, <2>9, <2>11, <2>12, <2>13, <2>14 DEF Writes, Keeps
  <2>16. Gathered(d, lab, G, p, X) /\ Grows(c, d)
    <3>1. p \in {p, p + 1} /\ p # p + 1
      OBVIOUS
    <3>2. l \notin X => /\ ~e.nilMap
                        /\ \A j \in DOMAIN new : new[j].doc # 0 /\ new[j].doc < e.next
      BY <2>3, <2>5, <2>11
    <3>3. Gathered(d, lab, G, p, X)
      BY <1>2, <2>1, <2>15, <3>1, <3>2, WritesGather
    <3>4. Grows(c, d)
      BY <1>2, <2>1, <2>15, <3>1, <3>2, WritesGather
    <3> QED BY <3>3, <3>4
  <2>17. Stuck(d, l)
    BY <2>5 DEF Stuck
  <2> QED BY <2>16, <2>17 DEF d
<1> QED BY <1>1, <1>2

LEMMA RemainingGathers ==
  ASSUME NEW lab, NEW G, Received(G, lab), NEW X, NEW p \in Nat, NEW c, Gathered(c, lab, G, p, X),
         NEW u \in DOMAIN lab, lab[u] \in DOMAIN c.bufs, Stuck(c, lab[u]),
         \/ u = p
         \/ lab[u] \in X /\ (p \in DOMAIN lab => lab[p] \notin DOMAIN c.bufs)
  PROVE  /\ Gathered(FlushRemaining(c, lab[u]), lab, G, p + 1, X)
         /\ Grows(c, FlushRemaining(c, lab[u]))
<1> DEFINE l == lab[u]
           b == c.bufs[l]
           d == FlushRemaining(c, l)
           e == d.bufs[l]
<1>1. /\ DOMAIN c = Fields /\ BufferType(b)
      /\ \A n \in DOMAIN b.pending : b.pending[n].doc = n
      /\ c.out \in Seq(Entries(G)) /\ b.next \notin DOMAIN b.pending
  BY DEF Gathered, Buffers, NothingLost, Received, Stuck
<1>2. Keeps(c, d)
  BY <1>1, FlushRemainingKeeps
<1>3. PICK ds : Drains(c, d, l, ds)
  BY <1>1, FlushRemainingWrites
<1> HIDE DEF d
<1> DEFINE new == At(b.pending, ds)
<1>4. /\ DOMAIN ds = 1 .. Len(ds) /\ Len(ds) \in Nat
      /\ \A j \in DOMAIN ds : ds[j] \in DOMAIN b.pending /\ ds[j] \in Nat
      /\ \A n \in DOMAIN b.pending : \E j \in DOMAIN ds : ds[j] = n
      /\ \A i, j \in DOMAIN ds : i < j => ds[i] < ds[j]
  <2> DEFINE D == DOMAIN b.pending
  <2>1. D \subseteq Nat
    BY <1>1 DEF BufferType
  <2>2. /\ ds \in Seq(D) /\ \A x \in D : \E k \in DOMAIN ds : ds[k] = x
        /\ \A k, m \in DOMAIN ds : k < m => <<ds[k], ds[m]>> \in ByIndex
    BY <1>3 DEF Enumerates, Drains
  <2> HIDE DEF D
  <2>3. DOMAIN ds = 1 .. Len(ds) /\ Len(ds) \in Nat /\ \A j \in DOMAIN ds : ds[j] \in D
    BY <2>2, LenProperties
  <2>4. \A k, m \in DOMAIN ds : k < m => ds[k] < ds[m]
    BY <2>2 DEF ByIndex
  <2> QED BY <2>1, <2>2, <2>3, <2>4 DEF D
<1>5. /\ DOMAIN new = DOMAIN ds
      /\ \A j \in DOMAIN new : new[j] = b.pending[ds[j]] /\ new[j].doc = ds[j]
  BY <1>1, <1>4 DEF At
<1>6. new \in Seq({b.pending[n] : n \in DOMAIN b.pending})
  <2> DEFINE T == {b.pending[n] : n \in DOMAIN b.pending}
  <2>1. new \in [1 .. Len(ds) -> T]
    BY <1>4, <1>5 DEF At
  <2> HIDE DEF T, new
  <2>2. new \in Seq(T)
    BY <1>4, <2>1, SeqDef
  <2> QED BY <2>2 DEF T
<1>7. ASSUME NEW n \in DOMAIN b.pending
      PROVE  n # b.next /\ (n = 0 \/ b.next <= n)
  <2>1. n \in Nat /\ b.next \in Nat
    BY <1>1 DEF BufferType
  <2>2. CASE n \in 1 .. b.next - 1
    <3>1. PICK k \in DOMAIN c.out : c.out[k].src = u /\ c.out[k].doc = n
      BY <2>2 DEF Gathered, Positions
    <3>2. c.out[k] \in G
      BY <1>1, LenProperties DEF Entries
    <3>3. c.out[k].label = l
      BY <3>1, <3>2 DEF Received
    <3> QED BY <3>1, <3>3 DEF Gathered, NothingLost
  <2> QED BY <1>1, <2>1, <2>2
<1>8. \A n \in DOMAIN b.pending : \E j \in DOMAIN new : new[j] = b.pending[n]
  BY <1>4, <1>5
<1>9. \A j \in DOMAIN new : new[j].doc # b.next /\ (new[j].doc = 0 \/ b.next <= new[j].doc)
  <2> TAKE j \in DOMAIN new
  <2>1. new[j].doc = ds[j] /\ ds[j] \in DOMAIN b.pending
    BY <1>4, <1>5
  <2> QED BY <1>7, <2>1
<1>10. \A i, j \in DOMAIN new : i < j =>
         (IF new[i].doc = 0 THEN b.next ELSE new[i].doc) < (IF new[j].doc = 0 THEN b.next ELSE new[j].doc)
  <2> SUFFICES ASSUME NEW i \in DOMAIN new, NEW j \in DOMAIN new, i < j
               PROVE  (IF new[i].doc = 0 THEN b.next ELSE new[i].doc)
                        < (IF new[j].doc = 0 THEN b.next ELSE new[j].doc)
    OBVIOUS
  <2>1. /\ new[i].doc \in Nat /\ new[j].doc \in Nat /\ new[i].doc < new[j].doc /\ b.next \in Nat
    BY <1>1, <1>4, <1>5 DEF BufferType
  <2>2. new[j].doc # b.next /\ (new[j].doc = 0 \/ b.next <= new[j].doc)
    BY <1>9
  <2> HIDE DEF new, b
  <2> QED BY <2>1, <2>2
<1>11. b.next .. e.next - 1 = {} /\ b.next <= e.next
  BY <1>1, <1>3 DEF BufferType, Drains
<1> HIDE DEF new
<1>12. Writes(c, d, l, new)
  <2>1. d.out = c.out \o new
    BY <1>3 DEF new, Drains
  <2> QED BY <1>1, <1>2, <1>3, <1>6, <1>8, <1>9, <1>10, <1>11, <2>1 DEF Writes, Keeps, Drains
<1>13. Gathered(d, lab, G, p + 1, X) /\ Grows(c, d)
  <2>1. p \in DOMAIN lab /\ lab[p] \in DOMAIN d.bufs => DOMAIN d.bufs[lab[p]].pending = {}
    BY <1>2, <1>3 DEF Drains, Keeps
  <2>2. p + 1 \in {p, p + 1} /\ p + 1 # p
    OBVIOUS
  <2>3. Gathered(d, lab, G, p + 1, X)
    BY <1>12, <2>1, <2>2, WritesGather
  <2>4. Grows(c, d)
    BY <1>12, <2>1, <2>2, WritesGather
  <2> QED BY <2>3, <2>4
<1> QED BY <1>13 DEF d

\* A source no result came of is passed by.
LEMMA UnseenGathers ==
  ASSUME NEW lab, NEW G, Received(G, lab), NEW X, NEW p \in DOMAIN lab, NEW c,
         Gathered(c, lab, G, p, X), lab[p] \notin DOMAIN c.bufs
  PROVE  Gathered(c, lab, G, p + 1, X)
<1>1. p \in Nat /\ DOMAIN lab \subseteq Nat
  BY DEF Received
<1>2. Positions(c, lab, p + 1, X)
  <2> SUFFICES ASSUME NEW s \in DOMAIN lab, lab[s] \in DOMAIN c.bufs
               PROVE  /\ s < p + 1 => DOMAIN c.bufs[lab[s]].pending = {}
                      /\ lab[s] \notin X /\ s >= p + 1 => ~c.bufs[lab[s]].nilMap
                      /\ lab[s] \notin X /\ s > p + 1 => c.bufs[lab[s]].next = 1
                      /\ \A n \in 1 .. c.bufs[lab[s]].next - 1 :
                           \E k \in DOMAIN c.out : c.out[k].src = s /\ c.out[k].doc = n
    BY DEF Positions
  <2>1. s # p /\ s \in Nat
    BY <1>1
  <2>2. (s < p + 1 => s < p) /\ (s >= p + 1 => s >= p) /\ (s > p + 1 => s > p)
    BY <1>1, <2>1
  <2> QED BY <2>2 DEF Gathered, Positions
<1>3. Progress(c, p + 1, X)
  <2> SUFFICES ASSUME NEW k \in DOMAIN c.out, c.out[k].label \notin X
               PROVE  /\ c.out[k].src <= p + 1 /\ c.out[k].src # p + 1
                      /\ c.out[k].doc # c.bufs[c.out[k].label].next
    BY DEF Progress
  <2>1. c.out[k] \in G
    BY LenProperties DEF Gathered, NothingLost, Entries
  <2>2. c.out[k].src \in Nat /\ c.out[k].src <= p /\ c.out[k].doc # c.bufs[c.out[k].label].next
    BY <1>1, <2>1 DEF Received, Gathered, Progress
  <2> QED BY <1>1, <2>2
<1> QED BY <1>2, <1>3 DEF Gathered

LEMMA SourceGathers ==
  ASSUME NEW lab, NEW G, Received(G, lab), NEW X, NEW p \in DOMAIN lab, NEW c,
         Gathered(c, lab, G, p, X), NEW l,
         l = lab[p] \/ ((l \notin DOMAIN c.bufs \/ l \in X) /\ lab[p] \notin DOMAIN c.bufs)
  PROVE  Gathered(FlushSource(c, l), lab, G, p + 1, X) /\ Grows(c, FlushSource(c, l))
<1> DEFINE d == FlushContiguous(c, l)
<1>1. p \in Nat
  BY DEF Received
<1>2. l \in DOMAIN c.bufs => \E u \in DOMAIN lab : l = lab[u] /\ (u = p \/ l \in X)
  <2> SUFFICES ASSUME l \in DOMAIN c.bufs
               PROVE  \E u \in DOMAIN lab : l = lab[u] /\ (u = p \/ l \in X)
    OBVIOUS
  <2>1. PICK r \in G : r.label = l
    BY DEF Gathered, Buffers, Entries
  <2>2. r.src \in DOMAIN lab /\ l = lab[r.src]
    BY <2>1 DEF Received
  <2> QED BY <2>2
<1>3. Gathered(d, lab, G, p, X) /\ Stuck(d, l) /\ Grows(c, d)
  BY <1>1, <1>2, ContiguousGathers
<1>4. DOMAIN d.bufs = DOMAIN c.bufs
  BY FlushContiguousKeeps DEF Keeps, Gathered, Buffers
<1>5. FlushSource(c, l) = FlushRemaining(d, l)
  BY DEF FlushSource
<1> HIDE DEF d
<1>6. CASE l \in DOMAIN d.bufs
  <2>1. PICK u \in DOMAIN lab : l = lab[u] /\ (u = p \/ l \in X)
    BY <1>4, <1>6, <1>2
  <2>2. u = p \/ (lab[u] \in X /\ lab[p] \notin DOMAIN d.bufs)
    BY <1>4, <1>6, <2>1 DEF Received
  <2>3. Gathered(FlushRemaining(d, l), lab, G, p + 1, X) /\ Grows(d, FlushRemaining(d, l))
    BY <1>1, <1>3, <1>6, <2>1, <2>2, RemainingGathers
  <2> QED BY <1>3, <1>5, <2>3, GrowsTransitive
<1>7. CASE l \notin DOMAIN d.bufs
  <2>1. FlushRemaining(d, l) = d
    BY <1>7 DEF FlushRemaining
  <2>2. lab[p] \notin DOMAIN d.bufs
    BY <1>4, <1>7
  <2> QED BY <1>3, <1>5, <2>1, <2>2, UnseenGathers
<1> QED BY <1>6, <1>7

LEMMA EachGathers ==
  ASSUME NEW lab, NEW G, Received(G, lab), NEW X, NEW p \in Nat, NEW c, Gathered(c, lab, G, p, X),
         NEW ls, Len(ls) \in Nat,
         \A n \in 1 .. Len(ls) :
           /\ p + n - 1 \in DOMAIN lab
           /\ \/ ls[n] = lab[p + n - 1]
              \/ /\ ls[n] \notin DOMAIN c.bufs \/ ls[n] \in X
                 /\ lab[p + n - 1] \notin DOMAIN c.bufs
  PROVE  Gathered(FlushEach(c, ls), lab, G, p + Len(ls), X) /\ Grows(c, FlushEach(c, ls))
<1>1. PICK after : /\ after[0] = c
                   /\ \A n \in 1 .. Len(ls) : after[n] = FlushSource(after[n - 1], ls[n])
                   /\ FlushEach(c, ls) = after[Len(ls)]
  BY FlushEachLoops
<1> DEFINE S == {n \in Nat : n <= Len(ls) =>
                   /\ Gathered(after[n], lab, G, p + n, X) /\ DOMAIN after[n].bufs = DOMAIN c.bufs
                   /\ Grows(c, after[n])}
<1>2. 0 \in S
  <2>1. p + 0 = p
    OBVIOUS
  <2> QED BY <1>1, <2>1 DEF Grows
<1>3. ASSUME NEW n \in S
      PROVE  n + 1 \in S
  <2> SUFFICES ASSUME n + 1 <= Len(ls)
               PROVE  /\ Gathered(after[n + 1], lab, G, p + (n + 1), X)
                      /\ DOMAIN after[n + 1].bufs = DOMAIN c.bufs /\ Grows(c, after[n + 1])
    OBVIOUS
  <2>1. /\ Gathered(after[n], lab, G, p + n, X) /\ DOMAIN after[n].bufs = DOMAIN c.bufs
        /\ Grows(c, after[n])
    OBVIOUS
  <2>2. after[n + 1] = FlushSource(after[n], ls[n + 1])
    BY <1>1
  <2>3. p + (n + 1) - 1 = p + n /\ p + n + 1 = p + (n + 1) /\ n + 1 \in 1 .. Len(ls)
    OBVIOUS
  <2>4. /\ p + n \in DOMAIN lab
        /\ \/ ls[n + 1] = lab[p + n]
           \/ /\ ls[n + 1] \notin DOMAIN after[n].bufs \/ ls[n + 1] \in X
              /\ lab[p + n] \notin DOMAIN after[n].bufs
    BY <2>1, <2>3
  <2>5. Gathered(after[n + 1], lab, G, p + n + 1, X) /\ Grows(after[n], after[n + 1])
    BY <2>1, <2>2, <2>4, SourceGathers
  <2>6. DOMAIN after[n + 1].bufs = DOMAIN after[n].bufs
    BY <2>1, <2>2, FlushSourceKeeps DEF Keeps, Gathered, Buffers
  <2> QED BY <2>1, <2>3, <2>5, <2>6, GrowsTransitive
<1>4. Len(ls) \in S
  <2> HIDE DEF S
  <2>1. S \subseteq Nat
    BY DEF S
  <2> QED BY <1>2, <1>3, <2>1, NatInductive
<1> QED BY <1>1, <1>4

-----------------------------------------------------------------------------
(* The order of the sources, the counts and the pointer.                    *)

\* A slot of the order holds the label of its source once G has something
\* of it.
Slots(q, lab, G) ==
  /\ q \in Seq({lab[s] : s \in DOMAIN lab} \cup {NoLabel})
  /\ \A k \in DOMAIN q : k \in DOMAIN lab /\ q[k] \in {lab[k], NoLabel}
  /\ \A r \in G : r.src \in DOMAIN q /\ q[r.src] = lab[r.src]

CompletedIn(G) == {r.label : r \in {x \in G : x.final}}

StatusIn(G, st) == {r \in Entries(G) : r.status = st}
Counts(c, G) ==
  /\ IsFiniteSet(G)
  /\ c.nValid = Cardinality(StatusIn(G, "valid"))
  /\ c.nInvalid = Cardinality(StatusIn(G, "invalid"))
  /\ c.nSkipped = Cardinality(StatusIn(G, "skipped"))

\* The pointer is past sources that are complete and waits for the next result
\* of the one it is at, if that slot does not hold "".
Advanced(c) ==
  /\ c.current \in 1 .. Len(c.order) + 1
  /\ \A s \in 1 .. c.current - 1 : c.order[s] # NoLabel /\ c.order[s] \in c.completed
  /\ c.current \in DOMAIN c.order /\ c.order[c.current] # NoLabel =>
       c.order[c.current] \notin c.completed /\ Stuck(c, c.order[c.current])

CollectorInv(c, lab, G) ==
  /\ Received(G, lab) /\ Gathered(c, lab, G, c.current, {})
  /\ Slots(c.order, lab, G) /\ c.completed = CompletedIn(G)
  /\ Counts(c, G) /\ Advanced(c) /\ ~c.panic

LEMMA MaxOfTwo ==
  ASSUME NEW a \in Nat, NEW b \in Nat
  PROVE  Max({a, b}) = IF a >= b THEN a ELSE b
<1> DEFINE m == IF a >= b THEN a ELSE b
<1>1. m \in {a, b} /\ \A y \in {a, b} : m >= y
  OBVIOUS
<1>2. \A x, z \in {a, b} :
        (\A y \in {a, b} : x >= y) /\ (\A y \in {a, b} : z >= y) => x = z
  OBVIOUS
<1> HIDE DEF m
<1>3. Max({a, b}) \in {a, b} /\ \A y \in {a, b} : Max({a, b}) >= y
  BY <1>1 DEF Max
<1>4. Max({a, b}) = m
  BY <1>1, <1>2, <1>3
<1> QED BY <1>4 DEF m

\* The order has grown to r's source and holds its label.
LEMMA OrderGrows ==
  ASSUME NEW T, NEW c, c.order \in Seq(T), NEW r, r.src \in Nat \ {0}
  PROVE  /\ DOMAIN Ordered(c, r) = 1 .. Len(Ordered(c, r)) /\ Len(Ordered(c, r)) \in Nat
         /\ Len(Ordered(c, r)) = IF Len(c.order) >= r.src THEN Len(c.order) ELSE r.src
         /\ \A k \in DOMAIN Ordered(c, r) :
              Ordered(c, r)[k] = IF k = r.src THEN r.label
                                 ELSE IF k \in DOMAIN c.order THEN c.order[k] ELSE NoLabel
<1>1. Len(c.order) \in Nat
  BY LenProperties
<1> DEFINE n == Max({Len(c.order), r.src})
<1>2. n \in Nat /\ n = IF Len(c.order) >= r.src THEN Len(c.order) ELSE r.src
  BY <1>1, MaxOfTwo
<1>3. /\ DOMAIN Ordered(c, r) = 1 .. n
      /\ \A k \in 1 .. n :
           Ordered(c, r)[k] = IF k = r.src THEN r.label
                              ELSE IF k \in DOMAIN c.order THEN c.order[k] ELSE NoLabel
  BY DEF Ordered
<1> HIDE DEF n
<1>4. Len(Ordered(c, r)) = n
  <2> DEFINE f == [k \in 1 .. n |->
                     IF k = r.src THEN r.label
                     ELSE IF k \in DOMAIN c.order THEN c.order[k] ELSE NoLabel]
  <2>1. Ordered(c, r) = f
    BY DEF Ordered, n
  <2>2. Len(f) = n
    BY <1>2
  <2> QED BY <2>1, <2>2
<1> QED BY <1>2, <1>3, <1>4

LEMMA SlotsGrow ==
  ASSUME NEW lab, NEW G, NEW r, Received(G \cup {r}, lab), NEW c, Slots(c.order, lab, G)
  PROVE  Slots(Ordered(c, r), lab, G \cup {r})
<1> DEFINE T == {lab[s] : s \in DOMAIN lab} \cup {NoLabel}
           q == Ordered(c, r)
<1>1. /\ r.src \in Nat \ {0} /\ r.src \in DOMAIN lab /\ r.label = lab[r.src]
      /\ 1 .. r.src \subseteq DOMAIN lab
  BY DEF Received
<1>2. c.order \in Seq(T)
  BY DEF Slots
<1>3. /\ DOMAIN q = 1 .. Len(q) /\ Len(q) \in Nat
      /\ Len(q) = IF Len(c.order) >= r.src THEN Len(c.order) ELSE r.src
      /\ \A k \in DOMAIN q : q[k] = IF k = r.src THEN r.label
                                    ELSE IF k \in DOMAIN c.order THEN c.order[k] ELSE NoLabel
  <2> HIDE DEF T
  <2> QED BY <1>1, <1>2, OrderGrows
<1>4. DOMAIN c.order = 1 .. Len(c.order) /\ Len(c.order) \in Nat
  <2> HIDE DEF T
  <2> QED BY <1>2, LenProperties
<1> HIDE DEF q
<1>5. \A k \in DOMAIN q : k \in DOMAIN lab /\ q[k] \in {lab[k], NoLabel}
  <2> TAKE k \in DOMAIN q
  <2>1. k \in 1 .. r.src \/ k \in DOMAIN c.order
    BY <1>1, <1>3, <1>4
  <2> QED BY <1>1, <1>3, <2>1 DEF Slots
<1>6. q \in Seq(T)
  <2>1. \A k \in DOMAIN q : q[k] \in T
    BY <1>5
  <2> HIDE DEF T
  <2>2. DOMAIN q = 1 .. Len(q) /\ q = [k \in 1 .. Len(q) |-> q[k]]
    BY <1>3 DEF q, Ordered
  <2>3. q \in [1 .. Len(q) -> T]
    BY <2>1, <2>2
  <2> QED BY <1>3, <2>3, SeqDef
<1>7. \A x \in G \cup {r} : x.src \in DOMAIN q /\ q[x.src] = lab[x.src]
  <2> TAKE x \in G \cup {r}
  <2>1. CASE x \in G
    <3>1. x.src \in DOMAIN c.order /\ c.order[x.src] = lab[x.src]
      BY <2>1 DEF Slots
    <3>2. x.src \in DOMAIN q
      BY <1>1, <1>3, <1>4, <3>1
    <3> QED BY <1>1, <1>3, <3>1, <3>2
  <2>2. CASE x = r
    <3>1. r.src \in DOMAIN q
      BY <1>1, <1>3, <1>4
    <3> QED BY <1>1, <1>3, <2>2, <3>1
  <2> QED BY <2>1, <2>2
<1> QED BY <1>5, <1>6, <1>7 DEF Slots, q

\* What is gathered is in the buffers and in what was written.
LEMMA GatheredSame ==
  ASSUME NEW lab, NEW G, NEW X, NEW p, NEW c, Gathered(c, lab, G, p, X),
         NEW H, Entries(H) = Entries(G),
         NEW d, DOMAIN d = DOMAIN c, d.bufs = c.bufs, d.out = c.out
  PROVE  Gathered(d, lab, H, p, X)
<1>1. Buffers(d, H)
  BY DEF Gathered, Buffers
<1>2. NothingLost(d, H)
  BY DEF Gathered, NothingLost
<1>3. Positions(d, lab, p, X) /\ Progress(d, p, X)
  BY DEF Gathered, Positions, Progress
<1>4. WrittenInOrder(d, X)
  BY DEF Gathered, WrittenInOrder, PlacedBefore, PlaceIn
<1> QED BY <1>1, <1>2, <1>3, <1>4 DEF Gathered

\* More labels may be excused.
LEMMA GatheredWeaker ==
  ASSUME NEW lab, NEW G, NEW p, NEW c, NEW X, Gathered(c, lab, G, p, {})
  PROVE  Gathered(c, lab, G, p, X)
<1>1. Positions(c, lab, p, X) /\ Progress(c, p, X)
  BY DEF Gathered, Positions, Progress
<1>2. WrittenInOrder(c, X)
  BY DEF Gathered, WrittenInOrder
<1> QED BY <1>1, <1>2 DEF Gathered

\* A flush with nothing to write changes nothing that matters.
LEMMA IdleGathers ==
  ASSUME NEW lab, NEW G, NEW X, NEW p, NEW c, Gathered(c, lab, G, p, X), NEW l,
         Stuck(c, l)
  PROVE  Gathered(FlushContiguous(c, l), lab, G, p, X) /\ Grows(c, FlushContiguous(c, l))
<1>1. CASE l \notin DOMAIN c.bufs
  BY <1>1 DEF FlushContiguous, Grows
<1>2. CASE l \in DOMAIN c.bufs
  <2> DEFINE b == c.bufs[l]
             d == FlushContiguous(c, l)
             e == d.bufs[l]
  <2>1. DOMAIN c = Fields /\ BufferType(b) /\ b.next \notin DOMAIN b.pending /\ c.out \in Seq(Entries(G))
    BY <1>2 DEF Gathered, Buffers, NothingLost, Stuck
  <2>2. Keeps(c, d)
    BY <2>1, FlushContiguousKeeps
  <2>3. /\ OnlyBuffer(c, d, l) /\ BufferType(e) /\ e.nilMap = b.nilMap
        /\ b.next <= e.next
        /\ \A n \in b.next .. e.next - 1 : n \in DOMAIN b.pending
        /\ DOMAIN e.pending = DOMAIN b.pending \ (b.next .. e.next - 1)
        /\ \A n \in DOMAIN e.pending : e.pending[n] = b.pending[n]
        /\ d.out = c.out \o [k \in 1 .. e.next - b.next |-> b.pending[b.next + k - 1]]
    BY <1>2, <2>1, FlushContiguousWrites
  <2> HIDE DEF d
  <2>4. e.next = b.next
    <3>1. e.next \in Nat /\ b.next \in Nat
      BY <2>1, <2>3 DEF BufferType
    <3>2. b.next < e.next => b.next \in b.next .. e.next - 1
      BY <3>1
    <3> QED BY <2>1, <2>3, <3>1, <3>2
  <2>5. DOMAIN e.pending = DOMAIN b.pending
    <3>1. b.next .. e.next - 1 = {}
      BY <2>1, <2>4 DEF BufferType
    <3> QED BY <2>3, <3>1
  <2>6. d.out = c.out
    <3>1. 1 .. e.next - b.next = {}
      BY <2>1, <2>4 DEF BufferType
    <3>2. [k \in 1 .. e.next - b.next |-> b.pending[b.next + k - 1]] = <<>>
      BY <3>1
    <3>3. c.out \o <<>> = c.out
      BY <2>1, ConcatEmptySeq
    <3> QED BY <2>3, <3>2, <3>3
  <2>7. /\ DOMAIN d = Fields /\ DOMAIN d.bufs = DOMAIN c.bufs
        /\ \A m \in DOMAIN c.bufs :
             /\ BufferType(c.bufs[m]) => BufferType(d.bufs[m])
             /\ d.bufs[m].next = c.bufs[m].next /\ d.bufs[m].nilMap = c.bufs[m].nilMap
             /\ DOMAIN d.bufs[m].pending = DOMAIN c.bufs[m].pending
             /\ \A n \in DOMAIN c.bufs[m].pending : d.bufs[m].pending[n] = c.bufs[m].pending[n]
    BY <2>1, <2>2, <2>3, <2>4, <2>5 DEF Keeps, OnlyBuffer
  <2>8. \A k \in DOMAIN c.out : c.out[k].label \in DOMAIN c.bufs
    <3> TAKE k \in DOMAIN c.out
    <3>1. c.out[k] \in Entries(G)
      BY <2>1, LenProperties
    <3> QED BY <3>1 DEF Gathered, NothingLost
  <2>9. Buffers(d, G)
    BY <2>7 DEF Gathered, Buffers
  <2>10. NothingLost(d, G)
    BY <2>6, <2>7, <2>8 DEF Gathered, NothingLost
  <2>11. Positions(d, lab, p, X)
    BY <2>6, <2>7 DEF Gathered, Positions
  <2>12. Progress(d, p, X)
    BY <2>6, <2>7, <2>8 DEF Gathered, Progress
  <2>13. WrittenInOrder(d, X)
    BY <2>6, <2>7, <2>8 DEF Gathered, WrittenInOrder, PlacedBefore, PlaceIn
  <2>14. Gathered(d, lab, G, p, X) /\ Grows(c, d)
    BY <2>6, <2>9, <2>10, <2>11, <2>12, <2>13 DEF Gathered, Grows
  <2> QED BY <2>14 DEF d
<1> QED BY <1>1, <1>2

\* The empty path has no document, so that nothing of it is ever next.
LEMMA EmptyPathStuck ==
  ASSUME NEW lab, NEW G, Received(G, lab), NEW c, Buffers(c, G)
  PROVE  Stuck(c, NoLabel)
<1> SUFFICES ASSUME NoLabel \in DOMAIN c.bufs
             PROVE  c.bufs[NoLabel].next \notin DOMAIN c.bufs[NoLabel].pending
  BY DEF Stuck
<1> DEFINE b == c.bufs[NoLabel]
<1>1. b.next \in Nat \ {0}
  BY DEF Buffers, BufferType
<1>2. \A n \in DOMAIN b.pending :
        b.pending[n] \in Entries(G) /\ b.pending[n].label = NoLabel /\ b.pending[n].doc = n
  BY DEF Buffers
<1>3. \A n \in DOMAIN b.pending : n = 0
  BY <1>2 DEF Received
<1> QED BY <1>1, <1>3

LEMMA ReceivedBefore ==
  ASSUME NEW lab, NEW G, NEW H, G \subseteq H, Received(H, lab)
  PROVE  Received(G, lab)
BY DEF Received, Entries

\* d is c with r waiting in the buffer of its label.
Waits(c, d, r) ==
  LET l == r.label
  IN  /\ DOMAIN d = Fields /\ DOMAIN d.bufs = DOMAIN c.bufs \cup {l}
      /\ OnlyBuffer(c, d, l) /\ d.out = c.out /\ d.panic = c.panic
      /\ BufferType(d.bufs[l]) /\ ~d.bufs[l].nilMap
      /\ l \in DOMAIN c.bufs =>
           /\ d.bufs[l].next = c.bufs[l].next
           /\ DOMAIN d.bufs[l].pending = DOMAIN c.bufs[l].pending \cup {r.doc}
           /\ \A n \in DOMAIN c.bufs[l].pending :
                n # r.doc => d.bufs[l].pending[n] = c.bufs[l].pending[n]
      /\ l \notin DOMAIN c.bufs =>
           d.bufs[l].next = 1 /\ DOMAIN d.bufs[l].pending = {r.doc}
      /\ d.bufs[l].pending[r.doc] = r
      /\ d.nValid = c.nValid /\ d.nInvalid = c.nInvalid /\ d.nSkipped = c.nSkipped
      /\ d.order = c.order /\ d.completed = c.completed /\ d.current = c.current

LEMMA BufferedWaits ==
  ASSUME NEW c, DOMAIN c = Fields, NEW r, r.doc \in Nat,
         r.label \in DOMAIN c.bufs => BufferType(c.bufs[r.label]) /\ ~c.bufs[r.label].nilMap
  PROVE  Waits(c, Buffered(c, r), r)
<1> DEFINE l == r.label
           b == Buffer(c, l)
           f == With(b.pending, r.doc, r)
           b2 == [b EXCEPT !.pending = f]
           d == Buffered(c, r)
<1>1. BufferType(b) /\ ~b.nilMap
  <2>1. CASE l \in DOMAIN c.bufs
    BY <2>1 DEF Buffer
  <2>2. CASE l \notin DOMAIN c.bufs
    <3>1. b = NewBuf
      BY <2>2 DEF Buffer
    <3>2. IsFiniteSet(DOMAIN <<>>) /\ DOMAIN <<>> = {}
      BY FS_EmptySet
    <3>3. DOMAIN NewBuf = BufFields /\ NewBuf.next = 1 /\ NewBuf.nilMap = FALSE /\ NewBuf.pending = <<>>
      BY DEF NewBuf, BufFields
    <3> HIDE DEF b
    <3>4. IsFiniteSet(DOMAIN b.pending) /\ DOMAIN b.pending = {}
      BY <3>1, <3>2, <3>3
    <3>5. DOMAIN b = BufFields /\ b.next = 1 /\ b.nilMap = FALSE
      BY <3>1, <3>3
    <3>6. b.next \in Nat \ {0}
      BY <3>5
    <3>7. b.nilMap \in BOOLEAN /\ ~b.nilMap
      BY <3>5, Zenon
    <3> QED BY <3>4, <3>5, <3>6, <3>7 DEF BufferType
  <2> QED BY <2>1, <2>2
<1>2. d = [c EXCEPT !.bufs = With(@, l, b2)]
  BY <1>1 DEF Buffered
<1> HIDE DEF b
<1>3. /\ DOMAIN f = DOMAIN b.pending \cup {r.doc} /\ f[r.doc] = r
      /\ \A n \in DOMAIN b.pending : n # r.doc => f[n] = b.pending[n]
  BY DEF With
<1>4. IsFiniteSet(DOMAIN f) /\ DOMAIN f \subseteq Nat
  <2>1. IsFiniteSet(DOMAIN b.pending) /\ DOMAIN b.pending \subseteq Nat
    BY <1>1 DEF BufferType
  <2>2. IsFiniteSet(DOMAIN b.pending \cup {r.doc})
    BY <2>1, FS_AddElement
  <2> QED BY <1>3, <2>1, <2>2
<1> HIDE DEF f
<1>5. b2.pending = f /\ b2.next = b.next /\ b2.nilMap = b.nilMap /\ DOMAIN b2 = BufFields
  BY <1>1 DEF BufferType, BufFields
<1> HIDE DEF b2
<1>6. BufferType(b2) /\ ~b2.nilMap
  BY <1>1, <1>4, <1>5 DEF BufferType
<1>7. /\ DOMAIN d.bufs = DOMAIN c.bufs \cup {l} /\ d.bufs[l] = b2
      /\ \A m \in DOMAIN c.bufs : m # l => d.bufs[m] = c.bufs[m]
  BY <1>2 DEF With, Fields
<1>8. /\ DOMAIN d = Fields /\ d.out = c.out /\ d.panic = c.panic
      /\ d.nValid = c.nValid /\ d.nInvalid = c.nInvalid /\ d.nSkipped = c.nSkipped
      /\ d.order = c.order /\ d.completed = c.completed /\ d.current = c.current
  BY <1>2 DEF Fields
<1>9. l \in DOMAIN c.bufs => b = c.bufs[l]
  BY DEF b, Buffer
<1>10. l \notin DOMAIN c.bufs => b.next = 1 /\ DOMAIN b.pending = {}
  <2> SUFFICES ASSUME l \notin DOMAIN c.bufs PROVE b.next = 1 /\ DOMAIN b.pending = {}
    OBVIOUS
  <2>1. b = NewBuf
    BY DEF b, Buffer
  <2>2. NewBuf.next = 1 /\ NewBuf.pending = <<>> /\ DOMAIN <<>> = {}
    BY DEF NewBuf
  <2> QED BY <2>1, <2>2
<1> HIDE DEF d
<1>11. Waits(c, d, r)
  BY <1>3, <1>5, <1>6, <1>7, <1>8, <1>9, <1>10 DEF Waits, OnlyBuffer
<1> QED BY <1>11 DEF d

LEMMA WaitsGathers ==
  ASSUME NEW lab, NEW G, NEW r, ~r.final, Received(G \cup {r}, lab), r \notin G,
         NEW p \in Nat, p <= r.src, NEW c, Gathered(c, lab, G, p, {}), NEW d, Waits(c, d, r)
  PROVE  Gathered(d, lab, G \cup {r}, p, {})
<1> DEFINE l == r.label
           H == G \cup {r}
<1>1. /\ r.src \in DOMAIN lab /\ r.src \in Nat /\ l = lab[r.src] /\ r.doc \in Nat
      /\ \A x \in Entries(G) : ~(x.src = r.src /\ x.doc = r.doc)
      /\ \A s \in DOMAIN lab : lab[s] = l <=> s = r.src
      /\ \A x \in G : x.src \in DOMAIN lab /\ x.label = lab[x.src] /\ x.doc \in Nat
      /\ DOMAIN lab \subseteq Nat
  <2>1. r \in Entries(H) /\ \A x \in Entries(G) : x \in Entries(H) /\ x # r
    BY DEF Entries
  <2> QED BY <2>1 DEF Received
<1>2. Entries(H) = Entries(G) \cup {r} /\ Entries(G) \subseteq G
  BY DEF Entries
<1>3. /\ DOMAIN d = Fields /\ DOMAIN d.bufs = DOMAIN c.bufs \cup {l} /\ d.out = c.out
      /\ \A m \in DOMAIN c.bufs : m # l => d.bufs[m] = c.bufs[m]
      /\ BufferType(d.bufs[l]) /\ ~d.bufs[l].nilMap
      /\ l \in DOMAIN c.bufs =>
           /\ d.bufs[l].next = c.bufs[l].next
           /\ DOMAIN d.bufs[l].pending = DOMAIN c.bufs[l].pending \cup {r.doc}
           /\ \A n \in DOMAIN c.bufs[l].pending :
                n # r.doc => d.bufs[l].pending[n] = c.bufs[l].pending[n]
      /\ l \notin DOMAIN c.bufs =>
           d.bufs[l].next = 1 /\ DOMAIN d.bufs[l].pending = {r.doc}
      /\ d.bufs[l].pending[r.doc] = r
  BY DEF Waits, OnlyBuffer
<1>4. \A k \in DOMAIN c.out :
        /\ c.out[k] \in Entries(G) /\ c.out[k].label \in DOMAIN c.bufs
        /\ c.out[k].label = l => c.out[k].doc # r.doc
        /\ d.bufs[c.out[k].label].next = c.bufs[c.out[k].label].next
  <2> TAKE k \in DOMAIN c.out
  <2>1. c.out[k] \in Entries(G)
    BY LenProperties DEF Gathered, NothingLost
  <2>2. c.out[k].label \in DOMAIN c.bufs
    BY <2>1 DEF Gathered, NothingLost
  <2>3. c.out[k].label = l => c.out[k].src = r.src
    BY <1>1, <1>2, <2>1
  <2> QED BY <1>1, <1>3, <2>1, <2>2, <2>3
<1>5. Buffers(d, H)
  <2> SUFFICES ASSUME NEW m \in DOMAIN d.bufs
               PROVE  /\ \E x \in Entries(H) : x.label = m
                      /\ BufferType(d.bufs[m])
                      /\ \A n \in DOMAIN d.bufs[m].pending :
                           /\ d.bufs[m].pending[n] \in Entries(H)
                           /\ d.bufs[m].pending[n].label = m /\ d.bufs[m].pending[n].doc = n
    BY <1>3 DEF Buffers
  <2>1. CASE m # l
    <3>1. m \in DOMAIN c.bufs /\ d.bufs[m] = c.bufs[m]
      BY <1>3, <2>1
    <3>2. /\ \E x \in Entries(G) : x.label = m
          /\ BufferType(c.bufs[m])
          /\ \A n \in DOMAIN c.bufs[m].pending :
               /\ c.bufs[m].pending[n] \in Entries(G)
               /\ c.bufs[m].pending[n].label = m /\ c.bufs[m].pending[n].doc = n
      BY <3>1 DEF Gathered, Buffers
    <3> QED BY <1>2, <3>1, <3>2
  <2>2. CASE m = l /\ l \in DOMAIN c.bufs
    <3>1. \A n \in DOMAIN c.bufs[l].pending :
            /\ c.bufs[l].pending[n] \in Entries(G)
            /\ c.bufs[l].pending[n].label = l /\ c.bufs[l].pending[n].doc = n
      BY <2>2 DEF Gathered, Buffers
    <3>2. ASSUME NEW n \in DOMAIN d.bufs[l].pending
          PROVE  /\ d.bufs[l].pending[n] \in Entries(H)
                 /\ d.bufs[l].pending[n].label = l /\ d.bufs[l].pending[n].doc = n
      <4>1. CASE n = r.doc
        BY <1>2, <1>3, <4>1
      <4>2. CASE n # r.doc
        BY <1>2, <1>3, <2>2, <3>1, <4>2
      <4> QED BY <4>1, <4>2
    <3> QED BY <1>2, <1>3, <2>2, <3>2
  <2>3. CASE m = l /\ l \notin DOMAIN c.bufs
    BY <1>2, <1>3, <2>3
  <2> QED BY <2>1, <2>2, <2>3
<1>6. NothingLost(d, H)
  <2>1. d.out \in Seq(Entries(H))
    <3>1. c.out \in Seq(Entries(G)) /\ Entries(G) \subseteq Entries(H)
      BY <1>2 DEF Gathered, NothingLost
    <3> QED BY <1>3, <3>1, SeqMonotonic
  <2>2. ASSUME NEW x \in Entries(H)
        PROVE  /\ x.label \in DOMAIN d.bufs
               /\ \/ x.doc \in DOMAIN d.bufs[x.label].pending
                  \/ \E k \in DOMAIN d.out : d.out[k] = x
    <3>1. CASE x = r
      BY <1>3, <3>1
    <3>2. CASE x \in Entries(G)
      <4>1. /\ x.label \in DOMAIN c.bufs
            /\ \/ x.doc \in DOMAIN c.bufs[x.label].pending
               \/ \E k \in DOMAIN c.out : c.out[k] = x
        BY <3>2 DEF Gathered, NothingLost
      <4> QED BY <1>3, <4>1
    <3> QED BY <1>2, <3>1, <3>2
  <2>3. ASSUME NEW k \in DOMAIN d.out
        PROVE  d.out[k].doc \notin DOMAIN d.bufs[d.out[k].label].pending
    <3>1. c.out[k].doc \notin DOMAIN c.bufs[c.out[k].label].pending
      BY <1>3 DEF Gathered, NothingLost
    <3> QED BY <1>3, <1>4, <3>1
  <2>4. \A k, m \in DOMAIN d.out : k < m => d.out[k] # d.out[m]
    BY <1>3 DEF Gathered, NothingLost
  <2> QED BY <2>1, <2>2, <2>3, <2>4 DEF NothingLost
<1>7. Positions(d, lab, p, {})
  <2> SUFFICES ASSUME NEW s \in DOMAIN lab, lab[s] \in DOMAIN d.bufs
               PROVE  /\ s < p => DOMAIN d.bufs[lab[s]].pending = {}
                      /\ s >= p => ~d.bufs[lab[s]].nilMap
                      /\ s > p => d.bufs[lab[s]].next = 1
                      /\ \A n \in 1 .. d.bufs[lab[s]].next - 1 :
                           \E k \in DOMAIN d.out : d.out[k].src = s /\ d.out[k].doc = n
    BY DEF Positions
  <2>1. lab[s] \in DOMAIN c.bufs =>
          /\ s < p => DOMAIN c.bufs[lab[s]].pending = {}
          /\ s >= p => ~c.bufs[lab[s]].nilMap
          /\ s > p => c.bufs[lab[s]].next = 1
          /\ \A n \in 1 .. c.bufs[lab[s]].next - 1 :
               \E k \in DOMAIN c.out : c.out[k].src = s /\ c.out[k].doc = n
    BY DEF Gathered, Positions
  <2>2. CASE s # r.src
    <3>1. lab[s] \in DOMAIN c.bufs /\ d.bufs[lab[s]] = c.bufs[lab[s]]
      BY <1>1, <1>3, <2>2
    <3> QED BY <1>3, <2>1, <3>1
  <2>3. CASE s = r.src
    <3>1. ~(s < p)
      BY <1>1, <2>3
    <3>2. CASE l \in DOMAIN c.bufs
      BY <1>1, <1>3, <2>1, <2>3, <3>1, <3>2
    <3>3. CASE l \notin DOMAIN c.bufs
      BY <1>1, <1>3, <2>3, <3>1, <3>3
    <3> QED BY <3>2, <3>3
  <2> QED BY <2>2, <2>3
<1>8. Progress(d, p, {})
  <2> SUFFICES ASSUME NEW k \in DOMAIN d.out
               PROVE  /\ d.out[k].src <= p
                      /\ d.out[k].doc # d.bufs[d.out[k].label].next
                      /\ d.out[k].src = p =>
                           d.out[k].doc # 0 /\ d.out[k].doc < d.bufs[d.out[k].label].next
    BY DEF Progress
  <2> QED BY <1>3, <1>4 DEF Gathered, Progress
<1>9. WrittenInOrder(d, {})
  <2>1. \A k \in DOMAIN c.out : PlaceIn(d, c.out[k]) = PlaceIn(c, c.out[k])
    BY <1>4 DEF PlaceIn
  <2> QED BY <1>3, <2>1 DEF Gathered, WrittenInOrder, PlacedBefore
<1> QED BY <1>5, <1>6, <1>7, <1>8, <1>9 DEF Gathered

\* What Slots says of the labels it holds.
LEMMA SlotsName ==
  ASSUME NEW lab, NEW G, Received(G, lab), NEW c, Slots(c.order, lab, G), Buffers(c, G),
         c.completed = CompletedIn(G)
  PROVE  /\ DOMAIN c.order = 1 .. Len(c.order) /\ Len(c.order) \in Nat
         /\ \A k \in DOMAIN c.order :
              /\ k \in DOMAIN lab /\ c.order[k] \in {lab[k], NoLabel}
              /\ lab[k] \in DOMAIN c.bufs \/ lab[k] \in c.completed => c.order[k] = lab[k]
         /\ \A s \in DOMAIN lab :
              /\ lab[s] \in DOMAIN c.bufs => s \in DOMAIN c.order
              /\ lab[s] \in c.completed <=> \E r \in G : r.final /\ r.src = s
<1> DEFINE T == {lab[s] : s \in DOMAIN lab} \cup {NoLabel}
<1>1. DOMAIN c.order = 1 .. Len(c.order) /\ Len(c.order) \in Nat
  <2>1. c.order \in Seq(T)
    BY DEF Slots
  <2> HIDE DEF T
  <2> QED BY <2>1, LenProperties
<1>2. /\ \A s, t \in DOMAIN lab : lab[s] = lab[t] => s = t
      /\ \A r \in G : r.src \in DOMAIN lab /\ r.label = lab[r.src]
  BY DEF Received
<1>3. \A l \in DOMAIN c.bufs : \E r \in G : r.label = l
  BY DEF Buffers, Entries
<1>4. \A l \in c.completed : \E r \in G : r.final /\ r.label = l
  BY DEF CompletedIn
<1>5. \A s \in DOMAIN lab : lab[s] \in DOMAIN c.bufs => s \in DOMAIN c.order /\ c.order[s] = lab[s]
  BY <1>2, <1>3 DEF Slots
<1>6. \A s \in DOMAIN lab : lab[s] \in c.completed => s \in DOMAIN c.order /\ c.order[s] = lab[s]
  BY <1>2, <1>4 DEF Slots
<1>7. \A s \in DOMAIN lab : lab[s] \in c.completed <=> \E r \in G : r.final /\ r.src = s
  <2> SUFFICES ASSUME NEW s \in DOMAIN lab
               PROVE  lab[s] \in c.completed <=> \E r \in G : r.final /\ r.src = s
    OBVIOUS
  <2>1. ASSUME lab[s] \in c.completed PROVE \E r \in G : r.final /\ r.src = s
    BY <1>2, <1>4, <2>1
  <2>2. ASSUME NEW r \in G, r.final, r.src = s PROVE lab[s] \in c.completed
    BY <1>2, <2>2 DEF CompletedIn
  <2> QED BY <2>1, <2>2
<1> QED BY <1>1, <1>2, <1>5, <1>6, <1>7 DEF Slots

\* The loop passes every source that is complete and starts on the next.
LEMMA AdvanceGathers ==
  ASSUME NEW lab, NEW G, Received(G, lab), NEW c, Gathered(c, lab, G, c.current, {}),
         Slots(c.order, lab, G), c.completed = CompletedIn(G), c.current \in 1 .. Len(c.order) + 1,
         \A s \in 1 .. c.current - 1 : c.order[s] # NoLabel /\ c.order[s] \in c.completed
  PROVE  /\ Gathered(TryAdvance(c), lab, G, TryAdvance(c).current, {}) /\ Advanced(TryAdvance(c))
         /\ Grows(c, TryAdvance(c))
<1> DEFINE S == {k \in c.current .. Len(c.order) :
                   c.order[k] = NoLabel \/ c.order[k] \notin c.completed} \cup {Len(c.order) + 1}
           stop == StopAt(c)
           starts == stop \in DOMAIN c.order /\ c.order[stop] # NoLabel
           ls == SubSeq(c.order, c.current, stop - 1)
           passed == FlushEach(c, ls)
           begun == IF starts THEN FlushContiguous(passed, c.order[stop]) ELSE passed
           d == TryAdvance(c)
<1>0. Buffers(c, G) /\ DOMAIN c = Fields
  BY DEF Gathered, Buffers
<1>1. /\ DOMAIN c.order = 1 .. Len(c.order) /\ Len(c.order) \in Nat
      /\ \A k \in DOMAIN c.order : k \in DOMAIN lab /\ c.order[k] \in {lab[k], NoLabel}
  BY <1>0, SlotsName
<1>2. S \subseteq Nat /\ S # {}
  BY <1>1
<1>3. stop \in S /\ \A y \in S : stop <= y
  BY <1>2, MinIsLeast DEF StopAt
<1> HIDE DEF stop
<1>4. stop \in c.current .. Len(c.order) + 1
  BY <1>1, <1>3
<1>5. \A k \in c.current .. stop - 1 :
        k \in DOMAIN c.order /\ c.order[k] # NoLabel /\ c.order[k] \in c.completed
  <2> TAKE k \in c.current .. stop - 1
  <2>1. k \in c.current .. Len(c.order) /\ k \in DOMAIN c.order /\ ~(stop <= k)
    BY <1>1, <1>4
  <2> QED BY <1>3, <2>1
<1>6. starts => c.order[stop] \notin c.completed
  BY <1>1, <1>3
<1>7. d = [begun EXCEPT !.current = stop]
  BY DEF TryAdvance, stop
<1>8. /\ Len(ls) = stop - c.current /\ Len(ls) \in Nat
      /\ \A n \in 1 .. Len(ls) : ls[n] = c.order[c.current + n - 1] /\ c.current + n - 1 \in c.current .. stop - 1
  <2> DEFINE T == {c.order[k] : k \in DOMAIN c.order}
  <2>1. /\ c.current \in Int /\ stop \in Int /\ stop - 1 \in Int /\ c.current <= stop
        /\ ls = SubSeq(c.order, c.current, stop - 1)
        /\ \A k \in c.current .. stop - 1 : c.order[k] \in T
    BY <1>1, <1>4, <1>5
  <2> HIDE DEF ls, T
  <2>2. /\ Len(ls) = (IF c.current <= stop - 1 THEN stop - 1 - c.current + 1 ELSE 0)
        /\ \A n \in 1 .. stop - 1 - c.current + 1 : ls[n] = c.order[c.current + n - 1]
    BY <2>1, SubSeqProperties
  <2>3. Len(ls) = stop - c.current
    BY <2>1, <2>2
  <2> QED BY <2>1, <2>2, <2>3
<1>9. c.current \in Nat /\ c.current + Len(ls) = stop
  BY <1>1, <1>4, <1>8
<1>10. \A n \in 1 .. Len(ls) : c.current + n - 1 \in DOMAIN lab /\ ls[n] = lab[c.current + n - 1]
  BY <1>1, <1>5, <1>8
<1> HIDE DEF ls
<1>11. Gathered(passed, lab, G, stop, {}) /\ Grows(c, passed)
  <2>1. PICK p \in Nat : p = c.current
    BY <1>9
  <2> HIDE DEF starts
  <2>2. Gathered(c, lab, G, p, {}) /\ \A n \in 1 .. Len(ls) : p + n - 1 \in DOMAIN lab /\ ls[n] = lab[p + n - 1]
    BY <1>10, <2>1
  <2>3. Gathered(passed, lab, G, p + Len(ls), {})
    BY <1>8, <2>2, EachGathers
  <2> HIDE DEF passed
  <2>4. \A n \in 1 .. Len(ls) :
          /\ p + n - 1 \in DOMAIN lab
          /\ \/ ls[n] = lab[p + n - 1]
             \/ /\ ls[n] \notin DOMAIN c.bufs \/ ls[n] \in {}
                /\ lab[p + n - 1] \notin DOMAIN c.bufs
    BY <2>2
  <2>5. Len(ls) \in Nat
    BY <1>8
  <2>6. Grows(c, FlushEach(c, ls))
    BY <2>2, <2>4, <2>5, EachGathers, Zenon
  <2> QED BY <1>9, <2>1, <2>3, <2>6 DEF passed
<1>12. Keeps(c, passed)
  BY <1>0, <1>8, FlushEachKeeps
<1> HIDE DEF passed
<1>13. /\ Gathered(begun, lab, G, stop, {}) /\ Grows(c, begun)
       /\ starts => Stuck(begun, c.order[stop])
  <2>1. CASE starts
    <3>1. stop \in DOMAIN lab /\ c.order[stop] = lab[stop] /\ stop \in Nat
      BY <1>1, <2>1
    <3>2. PICK l : l = c.order[stop]
      OBVIOUS
    <3>3. /\ Gathered(FlushContiguous(passed, l), lab, G, stop, {})
          /\ Stuck(FlushContiguous(passed, l), l)
          /\ Grows(passed, FlushContiguous(passed, l))
      BY <1>11, <3>1, <3>2, ContiguousGathers
    <3> QED BY <1>11, <2>1, <3>2, <3>3, GrowsTransitive
  <2>2. CASE ~starts
    BY <1>11, <2>2
  <2> QED BY <2>1, <2>2
<1>14. Keeps(c, begun)
  <2>1. DOMAIN passed = Fields
    BY <1>0, <1>12 DEF Keeps
  <2> QED BY <1>12, <2>1, FlushContiguousKeeps, KeepsTransitive
<1> HIDE DEF begun
<1>15. /\ DOMAIN d = DOMAIN begun /\ d.bufs = begun.bufs /\ d.out = begun.out
       /\ d.current = stop /\ d.order = c.order /\ d.completed = c.completed
  BY <1>0, <1>7, <1>14 DEF Keeps, Fields
<1> HIDE DEF d
<1>16. Gathered(d, lab, G, d.current, {})
  BY <1>13, <1>15, GatheredSame
<1>17. Advanced(d)
  <2>1. \A s \in 1 .. stop - 1 : c.order[s] # NoLabel /\ c.order[s] \in c.completed
    BY <1>4, <1>5, <1>9
  <2>2. stop \in 1 .. Len(c.order) + 1
    BY <1>4
  <2>3. starts => c.order[stop] \notin c.completed /\ Stuck(d, c.order[stop])
    BY <1>6, <1>13, <1>15 DEF Stuck
  <2> QED BY <1>15, <2>1, <2>2, <2>3 DEF Advanced
<1>18. Grows(c, d)
  BY <1>13, <1>15 DEF Grows
<1> QED BY <1>16, <1>17, <1>18 DEF d

LEMMA StatusCount ==
  ASSUME NEW G, IsFiniteSet(G), NEW r, r \notin G, NEW st
  PROVE  /\ Cardinality(StatusIn(G, st)) \in Nat
         /\ Cardinality(StatusIn(G \cup {r}, st)) =
              IF ~r.final /\ r.status = st THEN Cardinality(StatusIn(G, st)) + 1
              ELSE Cardinality(StatusIn(G, st))
<1>1. IsFiniteSet(StatusIn(G, st)) /\ r \notin StatusIn(G, st)
  <2>1. StatusIn(G, st) \subseteq G
    BY DEF StatusIn, Entries
  <2> QED BY <2>1, FS_Subset
<1>2. StatusIn(G \cup {r}, st) =
        IF ~r.final /\ r.status = st THEN StatusIn(G, st) \cup {r} ELSE StatusIn(G, st)
  BY DEF StatusIn, Entries
<1> QED BY <1>1, <1>2, FS_CardinalityType, FS_AddElement

LEMMA NewGathers ==
  ASSUME NEW lab, Received({}, lab)
  PROVE  CollectorInv(NewCollector, lab, {})
<1> DEFINE c == NewCollector
<1>1. /\ DOMAIN c = Fields /\ c.bufs = <<>> /\ c.order = <<>> /\ c.out = <<>>
      /\ c.completed = {} /\ c.current = 1 /\ c.panic = FALSE
      /\ c.nValid = 0 /\ c.nInvalid = 0 /\ c.nSkipped = 0
  BY DEF NewCollector, Fields
<1> HIDE DEF c
<1>2. DOMAIN c.bufs = {} /\ DOMAIN c.out = {} /\ DOMAIN c.order = {} /\ Len(c.order) = 0
  BY <1>1
<1>3. Entries({}) = {} /\ CompletedIn({}) = {} /\ \A st : StatusIn({}, st) = {}
  BY DEF Entries, CompletedIn, StatusIn
<1>4. Gathered(c, lab, {}, 1, {})
  <2>1. Buffers(c, {})
    BY <1>1, <1>2 DEF Buffers
  <2>2. NothingLost(c, {})
    <3>1. c.out \in Seq(Entries({}))
      BY <1>1
    <3> QED BY <1>2, <1>3, <3>1 DEF NothingLost
  <2>3. Positions(c, lab, 1, {}) /\ Progress(c, 1, {}) /\ WrittenInOrder(c, {})
    BY <1>2 DEF Positions, Progress, WrittenInOrder
  <2> QED BY <2>1, <2>2, <2>3 DEF Gathered
<1>5. Slots(c.order, lab, {})
  <2>1. c.order \in Seq({lab[s] : s \in DOMAIN lab} \cup {NoLabel})
    BY <1>1
  <2> QED BY <1>2, <2>1 DEF Slots
<1>6. Counts(c, {})
  BY <1>1, <1>3, FS_EmptySet DEF Counts
<1>7. Advanced(c)
  BY <1>1, <1>2 DEF Advanced
<1>8. ~c.panic
  BY <1>1, Zenon
<1>9. CollectorInv(c, lab, {})
  BY <1>1, <1>3, <1>4, <1>5, <1>6, <1>7, <1>8 DEF CollectorInv
<1> QED BY <1>9 DEF c

\* A sentinel.
LEMMA AddFinalGathers ==
  ASSUME NEW lab, NEW G, NEW c, CollectorInv(c, lab, G),
         NEW r, r.final, r \notin G, Received(G \cup {r}, lab)
  PROVE  CollectorInv(Add(c, r), lab, G \cup {r}) /\ Grows(c, Add(c, r))
<1> DEFINE H == G \cup {r}
           d == [c EXCEPT !.order = Ordered(c, r)]
           f == [d EXCEPT !.completed = @ \cup {r.label}]
           g == TryAdvance(f)
<1>1. /\ Gathered(c, lab, G, c.current, {}) /\ Slots(c.order, lab, G) /\ c.completed = CompletedIn(G)
      /\ Counts(c, G) /\ Advanced(c) /\ ~c.panic /\ DOMAIN c = Fields /\ Buffers(c, G)
  BY DEF CollectorInv, Gathered, Buffers
<1>2. Slots(Ordered(c, r), lab, H)
  BY <1>1, SlotsGrow
<1>3. /\ DOMAIN Ordered(c, r) = 1 .. Len(Ordered(c, r)) /\ Len(Ordered(c, r)) \in Nat
      /\ Len(Ordered(c, r)) = IF Len(c.order) >= r.src THEN Len(c.order) ELSE r.src
      /\ \A k \in DOMAIN Ordered(c, r) :
           Ordered(c, r)[k] = IF k = r.src THEN r.label
                              ELSE IF k \in DOMAIN c.order THEN c.order[k] ELSE NoLabel
      /\ Len(c.order) \in Nat /\ DOMAIN c.order = 1 .. Len(c.order) /\ r.src \in Nat \ {0}
  <2> DEFINE T == {lab[s] : s \in DOMAIN lab} \cup {NoLabel}
  <2>1. c.order \in Seq(T) /\ r.src \in Nat \ {0}
    BY <1>1 DEF Slots, Received
  <2> HIDE DEF T
  <2> QED BY <2>1, OrderGrows, LenProperties
<1>4. /\ DOMAIN f = Fields /\ f.bufs = c.bufs /\ f.out = c.out /\ f.order = Ordered(c, r)
      /\ f.completed = c.completed \cup {r.label} /\ f.current = c.current /\ f.panic = c.panic
      /\ f.nValid = c.nValid /\ f.nInvalid = c.nInvalid /\ f.nSkipped = c.nSkipped
  BY <1>1 DEF Fields
<1>5. Add(c, r) = g
  BY DEF Add
<1> HIDE DEF d, f
<1>6. Entries(H) = Entries(G) /\ CompletedIn(H) = CompletedIn(G) \cup {r.label}
  BY DEF Entries, CompletedIn
<1>7. Gathered(f, lab, H, f.current, {})
  BY <1>1, <1>4, <1>6, GatheredSame
<1>8. /\ f.current \in 1 .. Len(f.order) + 1
      /\ \A s \in 1 .. f.current - 1 : f.order[s] # NoLabel /\ f.order[s] \in f.completed
  <2>1. /\ c.current \in 1 .. Len(c.order) + 1
        /\ \A s \in 1 .. c.current - 1 : c.order[s] # NoLabel /\ c.order[s] \in c.completed
    BY <1>1 DEF Advanced
  <2>2. c.current \in 1 .. Len(Ordered(c, r)) + 1
    BY <1>3, <2>1
  <2>3. ASSUME NEW s \in 1 .. c.current - 1
        PROVE  Ordered(c, r)[s] # NoLabel /\ Ordered(c, r)[s] \in c.completed \cup {r.label}
    <3>1. s \in DOMAIN c.order /\ s \in DOMAIN Ordered(c, r)
      BY <1>3, <2>1
    <3>2. s = r.src => r.label = c.order[s]
      <4>1. c.order[s] = lab[s]
        BY <1>1, <2>1, <3>1 DEF Slots
      <4> QED BY <4>1 DEF Received
    <3> QED BY <1>3, <2>1, <3>1, <3>2
  <2> QED BY <1>4, <2>2, <2>3
<1>9. Slots(f.order, lab, H) /\ f.completed = CompletedIn(H)
  BY <1>1, <1>2, <1>4, <1>6
<1>10. Gathered(g, lab, H, g.current, {}) /\ Advanced(g) /\ Grows(f, g)
  BY <1>7, <1>8, <1>9, AdvanceGathers
<1>11. /\ g.order = f.order /\ g.completed = f.completed /\ g.panic = c.panic
       /\ g.nValid = c.nValid /\ g.nInvalid = c.nInvalid /\ g.nSkipped = c.nSkipped
  <2>1. Len(f.order) \in Nat /\ f.current \in Nat /\ f.current <= Len(f.order) + 1
    BY <1>3, <1>4, <1>8
  <2>2. Keeps(f, [g EXCEPT !.current = f.current]) /\ DOMAIN g = Fields
    BY <1>4, <2>1, TryAdvanceKeeps
  <2> HIDE DEF g
  <2> QED BY <1>4, <2>2 DEF Keeps, Fields
<1>12. Counts(g, H)
  <2>1. IsFiniteSet(H) /\ \A st : StatusIn(H, st) = StatusIn(G, st)
    BY <1>1, <1>6, FS_AddElement DEF Counts, StatusIn
  <2> HIDE DEF g, H
  <2> QED BY <1>1, <1>11, <2>1 DEF Counts
<1>13. ~g.panic
  BY <1>1, <1>11, Zenon
<1> HIDE DEF g
<1>14. CollectorInv(g, lab, H)
  BY <1>9, <1>10, <1>11, <1>12, <1>13 DEF CollectorInv
<1>15. Grows(c, g)
  BY <1>4, <1>10 DEF Grows
<1> QED BY <1>5, <1>14, <1>15

\* A result, of a source that is not complete.
LEMMA AddEntryGathers ==
  ASSUME NEW lab, NEW G, NEW c, CollectorInv(c, lab, G),
         NEW r, ~r.final, r \notin G, Received(G \cup {r}, lab),
         ~\E x \in G : x.final /\ x.src = r.src
  PROVE  CollectorInv(Add(c, r), lab, G \cup {r}) /\ Grows(c, Add(c, r))
<1> DEFINE H == G \cup {r}
           d == [c EXCEPT !.order = Ordered(c, r)]
           h == Counted(d, r)
           e == Buffered(h, r)
           g == Add(c, r)
<1>1. /\ Gathered(c, lab, G, c.current, {}) /\ Slots(c.order, lab, G) /\ c.completed = CompletedIn(G)
      /\ Counts(c, G) /\ Advanced(c) /\ ~c.panic /\ DOMAIN c = Fields /\ Buffers(c, G)
      /\ Received(G, lab)
  BY DEF CollectorInv, Gathered, Buffers
<1>2. Slots(Ordered(c, r), lab, H)
  BY <1>1, SlotsGrow
<1>3. /\ DOMAIN Ordered(c, r) = 1 .. Len(Ordered(c, r)) /\ Len(Ordered(c, r)) \in Nat
      /\ Len(Ordered(c, r)) = IF Len(c.order) >= r.src THEN Len(c.order) ELSE r.src
      /\ \A k \in DOMAIN Ordered(c, r) :
           Ordered(c, r)[k] = IF k = r.src THEN r.label
                              ELSE IF k \in DOMAIN c.order THEN c.order[k] ELSE NoLabel
  <2> DEFINE T == {lab[s] : s \in DOMAIN lab} \cup {NoLabel}
  <2>1. c.order \in Seq(T) /\ r.src \in Nat \ {0}
    BY <1>1 DEF Slots, Received
  <2> HIDE DEF T
  <2> QED BY <2>1, OrderGrows
<1>4. /\ DOMAIN c.order = 1 .. Len(c.order) /\ Len(c.order) \in Nat
      /\ \A k \in DOMAIN c.order : k \in DOMAIN lab /\ c.order[k] \in {lab[k], NoLabel}
      /\ \A s \in DOMAIN lab : lab[s] \in c.completed <=> \E x \in G : x.final /\ x.src = s
  BY <1>1, SlotsName
<1>5. /\ r.src \in DOMAIN lab /\ r.src \in Nat \ {0} /\ r.label = lab[r.src] /\ r.doc \in Nat
      /\ r.label \notin c.completed
      /\ \A s \in DOMAIN lab : lab[s] = r.label => s = r.src
  <2>1. /\ r.src \in DOMAIN lab /\ r.src \in Nat \ {0} /\ r.label = lab[r.src] /\ r.doc \in Nat
        /\ \A s \in DOMAIN lab : lab[s] = r.label => s = r.src
    BY DEF Received
  <2> QED BY <1>4, <2>1
<1>6. /\ c.current \in 1 .. Len(c.order) + 1
      /\ \A s \in 1 .. c.current - 1 :
           s \in DOMAIN c.order /\ c.order[s] # NoLabel /\ c.order[s] \in c.completed /\ s # r.src
      /\ c.current <= r.src
  <2>1. /\ c.current \in 1 .. Len(c.order) + 1
        /\ \A s \in 1 .. c.current - 1 : c.order[s] # NoLabel /\ c.order[s] \in c.completed
    BY <1>1 DEF Advanced
  <2>2. ASSUME NEW s \in 1 .. c.current - 1
        PROVE  s \in DOMAIN c.order /\ c.order[s] # NoLabel /\ c.order[s] \in c.completed /\ s # r.src
    <3>1. s \in DOMAIN c.order /\ c.order[s] # NoLabel /\ c.order[s] \in c.completed
      BY <1>4, <2>1
    <3>2. c.order[s] = lab[s]
      BY <1>4, <3>1
    <3> QED BY <1>5, <3>1, <3>2
  <2> QED BY <1>5, <2>1, <2>2
<1>7. /\ DOMAIN d = Fields /\ d.bufs = c.bufs /\ d.out = c.out /\ d.order = Ordered(c, r)
      /\ d.completed = c.completed /\ d.current = c.current /\ d.panic = c.panic
      /\ d.nValid = c.nValid /\ d.nInvalid = c.nInvalid /\ d.nSkipped = c.nSkipped
  BY <1>1 DEF Fields
<1> HIDE DEF d
<1>8. /\ DOMAIN h = Fields /\ h.bufs = c.bufs /\ h.out = c.out /\ h.order = Ordered(c, r)
      /\ h.completed = c.completed /\ h.current = c.current /\ h.panic = c.panic
      /\ h.nValid = (IF r.status = "valid" THEN c.nValid + 1 ELSE c.nValid)
      /\ h.nInvalid = (IF r.status = "invalid" THEN c.nInvalid + 1 ELSE c.nInvalid)
      /\ h.nSkipped = (IF r.status = "skipped" THEN c.nSkipped + 1 ELSE c.nSkipped)
  BY <1>7 DEF Counted, Fields
<1> HIDE DEF h
<1>9. Gathered(h, lab, G, c.current, {})
  BY <1>1, <1>8, GatheredSame
<1>10. Waits(h, e, r)
  <2>1. r.label \in DOMAIN c.bufs => BufferType(c.bufs[r.label]) /\ ~c.bufs[r.label].nilMap
    <3>1. r.label \in DOMAIN c.bufs => BufferType(c.bufs[r.label])
      BY <1>1 DEF Buffers
    <3>2. c.current \in Nat /\ r.src >= c.current
      BY <1>4, <1>5, <1>6
    <3>3. r.label \in DOMAIN c.bufs => ~c.bufs[r.label].nilMap
      BY <1>1, <1>5, <3>2 DEF Gathered, Positions
    <3> QED BY <3>1, <3>3
  <2> QED BY <1>5, <1>8, <2>1, BufferedWaits
<1> HIDE DEF e
<1>11. Gathered(e, lab, H, c.current, {})
  <2>1. c.current \in Nat /\ c.current <= r.src
    BY <1>4, <1>6
  <2> QED BY <1>9, <1>10, <2>1, WaitsGathers
<1>12. /\ DOMAIN e = Fields /\ e.out = c.out /\ e.order = Ordered(c, r) /\ e.completed = c.completed
       /\ e.current = c.current /\ e.panic = c.panic
       /\ DOMAIN e.bufs = DOMAIN c.bufs \cup {r.label}
       /\ \A m \in DOMAIN c.bufs : m # r.label => e.bufs[m] = c.bufs[m]
       /\ e.nValid = h.nValid /\ e.nInvalid = h.nInvalid /\ e.nSkipped = h.nSkipped
  BY <1>8, <1>10 DEF Waits, OnlyBuffer
<1> DEFINE l == Ordered(c, r)[c.current]
           here == c.current \in DOMAIN Ordered(c, r) /\ l = r.label
<1>13. g = IF here THEN FlushContiguous(e, r.label) ELSE e
  BY <1>12 DEF Add, e, h, d
<1>14. Keeps(e, g)
  BY <1>12, <1>13, FlushContiguousKeeps, KeepsItself
<1>15. here /\ r.label # NoLabel => c.current = r.src
  <2> SUFFICES ASSUME here, r.label # NoLabel PROVE c.current = r.src
    OBVIOUS
  <2>1. c.current \in DOMAIN lab /\ l \in {lab[c.current], NoLabel}
    BY <1>2 DEF Slots
  <2> QED BY <1>5, <2>1
<1>16. /\ Gathered(g, lab, H, g.current, {}) /\ Grows(e, g)
       /\ here /\ r.label # NoLabel => Stuck(g, r.label)
  <2>1. g.current = c.current
    BY <1>12, <1>14 DEF Keeps
  <2>2. CASE here /\ r.label # NoLabel
    <3>1. c.current \in DOMAIN lab /\ r.label = lab[c.current] /\ c.current \in Nat
      BY <1>5, <1>15, <2>2
    <3>2. /\ Gathered(FlushContiguous(e, r.label), lab, H, c.current, {})
          /\ Stuck(FlushContiguous(e, r.label), r.label) /\ Grows(e, FlushContiguous(e, r.label))
      BY <1>11, <3>1, ContiguousGathers
    <3> QED BY <1>13, <2>1, <2>2, <3>2
  <2>3. CASE here /\ r.label = NoLabel
    <3>1. Stuck(e, r.label)
      BY <1>11, <2>3, EmptyPathStuck DEF Gathered
    <3>2. /\ Gathered(FlushContiguous(e, r.label), lab, H, c.current, {})
          /\ Grows(e, FlushContiguous(e, r.label))
      BY <1>11, <3>1, IdleGathers
    <3> QED BY <1>13, <2>1, <2>3, <3>2
  <2>4. CASE ~here
    BY <1>11, <1>13, <2>1, <2>4 DEF Grows
  <2> QED BY <2>2, <2>3, <2>4
<1> HIDE DEF g
<1>17. /\ g.order = Ordered(c, r) /\ g.completed = c.completed /\ g.current = c.current /\ g.panic = c.panic
       /\ g.nValid = h.nValid /\ g.nInvalid = h.nInvalid /\ g.nSkipped = h.nSkipped
  BY <1>12, <1>14 DEF Keeps
<1>18. Advanced(g)
  <2>1. c.current \in 1 .. Len(Ordered(c, r)) + 1
    BY <1>3, <1>4, <1>5, <1>6
  <2>2. ASSUME NEW s \in 1 .. c.current - 1
        PROVE  Ordered(c, r)[s] # NoLabel /\ Ordered(c, r)[s] \in c.completed
    <3>1. s \in DOMAIN c.order /\ s \in DOMAIN Ordered(c, r) /\ s # r.src
      BY <1>3, <1>4, <1>5, <1>6
    <3> QED BY <1>3, <1>6, <3>1
  <2>3. ASSUME c.current \in DOMAIN Ordered(c, r), l # NoLabel
        PROVE  l \notin c.completed /\ Stuck(g, l)
    <3>1. CASE l = r.label
      BY <1>5, <1>16, <2>3, <3>1
    <3>2. CASE l # r.label
      <4>1. g = e
        BY <1>13, <3>2
      <4>2. c.current \in DOMAIN c.order /\ l = c.order[c.current]
        <5>1. c.current # r.src
          BY <1>3, <2>3, <3>2
        <5> QED BY <1>3, <2>3, <5>1
      <4>3. l \notin c.completed /\ (l \in DOMAIN c.bufs => c.bufs[l].next \notin DOMAIN c.bufs[l].pending)
        BY <1>1, <2>3, <4>2 DEF Advanced, Stuck
      <4>4. l \in DOMAIN e.bufs => l \in DOMAIN c.bufs /\ e.bufs[l] = c.bufs[l]
        BY <1>12, <3>2
      <4> QED BY <4>1, <4>3, <4>4 DEF Stuck
    <3> QED BY <3>1, <3>2
  <2> QED BY <1>17, <2>1, <2>2, <2>3 DEF Advanced
<1>19. Counts(g, H)
  <2>1. IsFiniteSet(G) /\ IsFiniteSet(H)
    BY <1>1, FS_AddElement DEF Counts
  <2>2. \A st : Cardinality(StatusIn(H, st)) =
          IF r.status = st THEN Cardinality(StatusIn(G, st)) + 1 ELSE Cardinality(StatusIn(G, st))
    BY <2>1, StatusCount
  <2> HIDE DEF H
  <2> QED BY <1>1, <1>8, <1>17, <2>1, <2>2 DEF Counts
<1>20. g.completed = CompletedIn(H)
  <2>1. CompletedIn(H) = CompletedIn(G)
    BY DEF CompletedIn
  <2> QED BY <1>1, <1>17, <2>1
<1>21. ~g.panic
  BY <1>1, <1>17, Zenon
<1>22. CollectorInv(g, lab, H)
  <2>1. Slots(g.order, lab, H)
    BY <1>2, <1>17
  <2> QED BY <1>16, <1>18, <1>19, <1>20, <1>21, <2>1 DEF CollectorInv
<1>23. Grows(c, g)
  BY <1>12, <1>16 DEF Grows
<1> QED BY <1>22, <1>23 DEF g

-----------------------------------------------------------------------------
(* The end of the stream, and what the invariant says of the report.        *)

\* Every source of the order is written.
Flushed(c, lab, G, X) ==
  /\ Received(G, lab) /\ Gathered(c, lab, G, Len(c.order) + 1, X)
  /\ Slots(c.order, lab, G) /\ c.completed = CompletedIn(G)
  /\ Counts(c, G) /\ ~c.panic

\* The defensive flush writes every source that is left, in order when every
\* slot is filled, and but for the empty path when one is not.
LEMMA FlushRemainingGathers ==
  ASSUME NEW lab, NEW G, NEW c, CollectorInv(c, lab, G), NEW X,
         NoLabel \in X \/ \A k \in DOMAIN c.order : c.order[k] = lab[k]
  PROVE  Flushed(FlushRemainingSources(c), lab, G, X) /\ Grows(c, FlushRemainingSources(c))
<1> DEFINE ls == SubSeq(c.order, c.current, Len(c.order))
           d == FlushRemainingSources(c)
<1>1. /\ Gathered(c, lab, G, c.current, X) /\ Slots(c.order, lab, G) /\ c.completed = CompletedIn(G)
      /\ Counts(c, G) /\ Advanced(c) /\ ~c.panic /\ DOMAIN c = Fields /\ Buffers(c, G)
      /\ Received(G, lab)
  <2>1. Gathered(c, lab, G, c.current, {})
    BY DEF CollectorInv
  <2>2. Gathered(c, lab, G, c.current, X)
    BY <2>1, GatheredWeaker
  <2> QED BY <2>2 DEF CollectorInv, Gathered, Buffers
<1>2. /\ DOMAIN c.order = 1 .. Len(c.order) /\ Len(c.order) \in Nat
      /\ \A k \in DOMAIN c.order :
           /\ k \in DOMAIN lab /\ c.order[k] \in {lab[k], NoLabel}
           /\ lab[k] \in DOMAIN c.bufs => c.order[k] = lab[k]
  BY <1>1, SlotsName
<1>3. PICK p \in Nat : p = c.current /\ p <= Len(c.order) + 1 /\ p # 0
  BY <1>1, <1>2 DEF Advanced
<1>4. /\ Len(ls) = Len(c.order) + 1 - p /\ Len(ls) \in Nat
      /\ \A n \in 1 .. Len(ls) : p + n - 1 \in DOMAIN c.order /\ ls[n] = c.order[p + n - 1]
  <2> DEFINE T == {c.order[k] : k \in DOMAIN c.order}
  <2>1. /\ p \in Int /\ Len(c.order) \in Int /\ ls = SubSeq(c.order, p, Len(c.order))
        /\ \A k \in p .. Len(c.order) : k \in DOMAIN c.order /\ c.order[k] \in T
    BY <1>2, <1>3
  <2> HIDE DEF ls, T
  <2>2. /\ Len(ls) = (IF p <= Len(c.order) THEN Len(c.order) - p + 1 ELSE 0)
        /\ \A n \in 1 .. Len(c.order) - p + 1 : ls[n] = c.order[p + n - 1]
    BY <2>1, SubSeqProperties
  <2>3. Len(ls) = Len(c.order) + 1 - p
    BY <1>2, <1>3, <2>2
  <2>4. \A n \in 1 .. Len(ls) : n \in 1 .. Len(c.order) - p + 1 /\ p + n - 1 \in DOMAIN c.order
    BY <1>2, <1>3, <2>3
  <2>5. Len(ls) \in Nat
    BY <1>2, <1>3, <2>3
  <2> QED BY <2>2, <2>3, <2>4, <2>5
<1>5. d = FlushEach(c, ls)
  BY DEF FlushRemainingSources
<1> HIDE DEF ls, d
<1>6. \A n \in 1 .. Len(ls) :
        /\ p + n - 1 \in DOMAIN lab
        /\ \/ ls[n] = lab[p + n - 1]
           \/ /\ ls[n] \notin DOMAIN c.bufs \/ ls[n] \in X
              /\ lab[p + n - 1] \notin DOMAIN c.bufs
  BY <1>2, <1>4
<1>7. Gathered(FlushEach(c, ls), lab, G, p + Len(ls), X)
  BY <1>1, <1>3, <1>4, <1>6, EachGathers
<1>8. Grows(c, FlushEach(c, ls))
  BY <1>1, <1>3, <1>4, <1>6, EachGathers
<1>9. p + Len(ls) = Len(c.order) + 1
  BY <1>2, <1>3, <1>4
<1>10. Keeps(c, d)
  BY <1>1, <1>4, <1>5, FlushEachKeeps
<1>11. Counts(d, G) /\ d.order = c.order /\ d.completed = c.completed /\ d.panic = c.panic
  BY <1>1, <1>10 DEF Counts, Keeps
<1>12. ~d.panic
  BY <1>1, <1>11, Zenon
<1>13. Flushed(d, lab, G, X)
  BY <1>1, <1>5, <1>7, <1>9, <1>11, <1>12 DEF Flushed
<1> QED BY <1>5, <1>8, <1>13 DEF d

\* Then nothing waits.
LEMMA FlushedEmpty ==
  ASSUME NEW lab, NEW G, NEW c, NEW X, Flushed(c, lab, G, X)
  PROVE  PendingIn(c) = {} /\ \A r \in Entries(G) : \E k \in DOMAIN c.out : c.out[k] = r
<1>1. /\ Gathered(c, lab, G, Len(c.order) + 1, X) /\ Slots(c.order, lab, G) /\ c.completed = CompletedIn(G)
      /\ Buffers(c, G) /\ Received(G, lab) /\ NothingLost(c, G)
  BY DEF Flushed, Gathered
<1>2. DOMAIN c.order = 1 .. Len(c.order) /\ Len(c.order) \in Nat
  BY <1>1, SlotsName
<1>3. ASSUME NEW l \in DOMAIN c.bufs
      PROVE  DOMAIN c.bufs[l].pending = {}
  <2>1. PICK r \in G : r.label = l
    BY <1>1 DEF Buffers, Entries
  <2>2. r.src \in DOMAIN lab /\ l = lab[r.src] /\ r.src \in DOMAIN c.order
    BY <1>1, <2>1 DEF Received, Slots
  <2>3. r.src < Len(c.order) + 1
    BY <1>2, <2>2
  <2> QED BY <1>1, <2>2, <2>3 DEF Gathered, Positions
<1>4. PendingIn(c) = {}
  BY <1>3 DEF PendingIn
<1>5. \A r \in Entries(G) : \E k \in DOMAIN c.out : c.out[k] = r
  BY <1>1, <1>3 DEF NothingLost
<1> QED BY <1>4, <1>5

\* No two elements of a sequence are the same: it is as long as it has elements.
LEMMA LengthOfSet ==
  ASSUME NEW T, NEW q \in Seq(T), \A k, m \in DOMAIN q : k < m => q[k] # q[m]
  PROVE  IsFiniteSet(ToSet(q)) /\ Cardinality(ToSet(q)) = Len(q)
<1> DEFINE S == 1 .. Len(q)
           f == [k \in S |-> q[k]]
<1>1. DOMAIN q = S /\ Len(q) \in Nat
  BY LenProperties
<1>2. IsFiniteSet(S) /\ Cardinality(S) = Len(q)
  <2>1. IsFiniteSet(S) /\ Cardinality(S) = IF 1 > Len(q) THEN 0 ELSE Len(q) - 1 + 1
    BY <1>1, FS_Interval
  <2> QED BY <1>1, <2>1
<1>3. f \in [S -> ToSet(q)] /\ \A t \in ToSet(q) : \E k \in S : f[k] = t
  BY <1>1 DEF ToSet
<1>4. \A k, m \in S : f[k] = f[m] => k = m
  <2> SUFFICES ASSUME NEW k \in S, NEW m \in S, k # m PROVE q[k] # q[m]
    OBVIOUS
  <2>1. k < m \/ m < k
    BY <1>1
  <2> QED BY <1>1, <2>1
<1>5. f \in Bijection(S, ToSet(q))
  BY <1>3, <1>4 DEF Bijection, Injection, Surjection, IsInjective
<1>6. ExistsBijection(S, ToSet(q))
  BY <1>5 DEF ExistsBijection
<1> QED BY <1>2, <1>6, FS_Bijection

\* What is written, entry by entry.
LEMMA WrittenOnce ==
  ASSUME NEW lab, NEW G, Received(G, lab), NEW X, NEW p, NEW c, Gathered(c, lab, G, p, X)
  PROVE  /\ c.out \in Seq(Entries(G)) /\ DOMAIN c.out = 1 .. Len(c.out) /\ Len(c.out) \in Nat
         /\ \A k \in DOMAIN c.out :
              /\ c.out[k] \in Entries(G) /\ c.out[k].src \in Nat /\ c.out[k].doc \in Nat
              /\ PlaceIn(c, c.out[k]) \in Nat
         /\ \A k, m \in DOMAIN c.out : k < m => c.out[k] # c.out[m]
<1>1. c.out \in Seq(Entries(G))
  BY DEF Gathered, NothingLost
<1>2. /\ DOMAIN c.out = 1 .. Len(c.out) /\ Len(c.out) \in Nat
      /\ \A k \in DOMAIN c.out : c.out[k] \in Entries(G)
  BY <1>1, LenProperties
<1>3. \A k \in DOMAIN c.out : c.out[k].src \in Nat /\ c.out[k].doc \in Nat
  BY <1>2 DEF Entries, Received
<1>4. \A k \in DOMAIN c.out : PlaceIn(c, c.out[k]) \in Nat
  <2> TAKE k \in DOMAIN c.out
  <2>1. c.out[k].label \in DOMAIN c.bufs
    BY <1>2 DEF Gathered, NothingLost
  <2>2. c.bufs[c.out[k].label].next \in Nat
    BY <2>1 DEF Gathered, Buffers, BufferType
  <2> QED BY <1>3, <2>2 DEF PlaceIn
<1>5. \A k, m \in DOMAIN c.out : k < m => c.out[k] # c.out[m]
  BY DEF Gathered, NothingLost
<1> QED BY <1>1, <1>2, <1>3, <1>4, <1>5

LEMMA DisjointSum ==
  ASSUME NEW A, NEW B, IsFiniteSet(A), IsFiniteSet(B), A \cap B = {}
  PROVE  Cardinality(A \cup B) = Cardinality(A) + Cardinality(B)
<1>1. Cardinality(A \cup B) = Cardinality(A) + Cardinality(B) - Cardinality({})
  BY FS_Union
<1>2. Cardinality({}) = 0
  BY FS_EmptySet
<1>3. Cardinality(A) \in Nat /\ Cardinality(B) \in Nat
  BY FS_CardinalityType
<1> QED BY <1>1, <1>2, <1>3

\* What was received is written or waits, and the numbers agree.
LEMMA Conserves ==
  ASSUME NEW lab, NEW G, Received(G, lab), IsFiniteSet(G), NEW X, NEW p, NEW c,
         Gathered(c, lab, G, p, X)
  PROVE  /\ ToSet(c.out) \cup PendingIn(c) = Entries(G)
         /\ Len(c.out) + Cardinality(PendingIn(c)) = Cardinality(Entries(G))
<1>1. /\ c.out \in Seq(Entries(G)) /\ \A k \in DOMAIN c.out : c.out[k] \in Entries(G)
      /\ \A k, m \in DOMAIN c.out : k < m => c.out[k] # c.out[m]
  BY WrittenOnce
<1>2. Buffers(c, G) /\ NothingLost(c, G)
  BY DEF Gathered
<1>3. ToSet(c.out) \subseteq Entries(G)
  BY <1>1 DEF ToSet
<1>4. PendingIn(c) \subseteq Entries(G)
  BY <1>2 DEF PendingIn, Buffers
<1>5. \A r \in Entries(G) : r \in ToSet(c.out) \/ r \in PendingIn(c)
  <2> TAKE r \in Entries(G)
  <2>1. r.label \in DOMAIN c.bufs
    BY <1>2 DEF NothingLost
  <2>2. CASE r.doc \in DOMAIN c.bufs[r.label].pending
    <3>1. PICK x \in Entries(G) : x = c.bufs[r.label].pending[r.doc] /\ x.label = r.label /\ x.doc = r.doc
      BY <1>2, <2>1, <2>2 DEF Buffers
    <3>2. x = r
      BY <3>1 DEF Received, Entries
    <3>3. r = c.bufs[r.label].pending[r.doc]
      BY <3>1, <3>2
    <3>4. r \in {c.bufs[r.label].pending[d] : d \in DOMAIN c.bufs[r.label].pending}
      BY <2>2, <3>3
    <3>5. r \in PendingIn(c)
      BY <2>1, <3>4 DEF PendingIn
    <3> QED BY <3>5
  <2>3. CASE \E k \in DOMAIN c.out : c.out[k] = r
    BY <2>3 DEF ToSet
  <2> QED BY <1>2, <2>2, <2>3 DEF NothingLost
<1>6. ToSet(c.out) \cap PendingIn(c) = {}
  <2> SUFFICES ASSUME NEW r, r \in ToSet(c.out), r \in PendingIn(c) PROVE FALSE
    OBVIOUS
  <2>1. PICK l \in DOMAIN c.bufs : \E n \in DOMAIN c.bufs[l].pending : r = c.bufs[l].pending[n]
    BY DEF PendingIn
  <2>2. PICK n \in DOMAIN c.bufs[l].pending : r = c.bufs[l].pending[n]
    BY <2>1
  <2>3. r.label = l /\ r.doc = n
    BY <1>2, <2>2 DEF Buffers
  <2>4. PICK k \in DOMAIN c.out : c.out[k] = r
    BY DEF ToSet
  <2> QED BY <1>2, <2>2, <2>3, <2>4 DEF NothingLost
<1>7. IsFiniteSet(Entries(G)) /\ IsFiniteSet(PendingIn(c))
  <2>1. Entries(G) \subseteq G
    BY DEF Entries
  <2> QED BY <1>4, <2>1, FS_Subset
<1>8. IsFiniteSet(ToSet(c.out)) /\ Cardinality(ToSet(c.out)) = Len(c.out)
  BY <1>1, LengthOfSet
<1>9. ToSet(c.out) \cup PendingIn(c) = Entries(G)
  BY <1>3, <1>4, <1>5
<1>10. Cardinality(Entries(G)) = Cardinality(ToSet(c.out)) + Cardinality(PendingIn(c))
  BY <1>6, <1>7, <1>8, <1>9, DisjointSum
<1> QED BY <1>8, <1>9, <1>10

\* Every entry has one of the three verdicts, so the counters add up to them.
LEMMA TotalIsEntries ==
  ASSUME NEW G, NEW c, Counts(c, G),
         \A r \in Entries(G) : r.status \in {"valid", "invalid", "skipped"}
  PROVE  Total(c) = Cardinality(Entries(G)) /\ Total(c) \in Nat
<1> DEFINE A == StatusIn(G, "valid")
           B == StatusIn(G, "invalid")
           C == StatusIn(G, "skipped")
<1>1. /\ Entries(G) = A \cup (B \cup C) /\ A \cap (B \cup C) = {} /\ B \cap C = {}
      /\ A \subseteq G /\ B \subseteq G /\ C \subseteq G /\ IsFiniteSet(G)
  BY DEF StatusIn, Entries, Counts
<1> HIDE DEF A, B, C
<1>2. IsFiniteSet(A) /\ IsFiniteSet(B) /\ IsFiniteSet(C) /\ IsFiniteSet(B \cup C)
  BY <1>1, FS_Subset, FS_Union
<1>3. Cardinality(A) \in Nat /\ Cardinality(B) \in Nat /\ Cardinality(C) \in Nat
  BY <1>2, FS_CardinalityType
<1>4. Cardinality(B \cup C) = Cardinality(B) + Cardinality(C)
  BY <1>1, <1>2, DisjointSum
<1>5. Cardinality(Entries(G)) = Cardinality(A) + Cardinality(B \cup C)
  BY <1>1, <1>2, DisjointSum
<1>6. Total(c) = Cardinality(A) + Cardinality(B) + Cardinality(C)
  BY DEF Total, Counts, A, B, C
<1> QED BY <1>3, <1>4, <1>5, <1>6

-----------------------------------------------------------------------------
(* What is written in order, and without a gap, begins the enumeration.     *)

\* e is in the order R and misses nothing of S before its last element.
Begins(e, S, R) ==
  /\ e \in Seq(S)
  /\ \A k, m \in DOMAIN e : k < m => <<e[k], e[m]>> \in R
  /\ \A k \in DOMAIN e : \A x \in S : <<x, e[k]>> \in R => \E m \in DOMAIN e : e[m] = x

Opens(e, q) == \A k \in DOMAIN e : k \in DOMAIN q /\ q[k] = e[k]

LEMMA BeginningIsPrefix ==
  ASSUME NEW S, NEW R, StrictOrder(R, S), NEW q, Enumerates(q, S, R), NEW e, Begins(e, S, R)
  PROVE  Opens(e, q)
<1>1. /\ DOMAIN q = 1 .. Len(q) /\ Len(q) \in Nat /\ \A k \in DOMAIN q : q[k] \in S
      /\ DOMAIN e = 1 .. Len(e) /\ Len(e) \in Nat /\ \A k \in DOMAIN e : e[k] \in S
  BY LenProperties DEF Enumerates, Begins
<1>2. \A k, m \in DOMAIN q : k < m => q[k] # q[m] /\ <<q[k], q[m]>> \in R /\ <<q[m], q[k]>> \notin R
  BY <1>1 DEF Enumerates, StrictOrder
<1>3. \A k, m \in DOMAIN e : k < m => e[k] # e[m] /\ <<e[k], e[m]>> \in R /\ <<e[m], e[k]>> \notin R
  BY <1>1 DEF Begins, StrictOrder
<1> DEFINE Same(k) == k \in DOMAIN q /\ q[k] = e[k]
           T == {n \in Nat : \A k \in DOMAIN e : k <= n => Same(k)}
<1>4. 0 \in T
  BY <1>1
<1>5. ASSUME NEW n \in T
      PROVE  n + 1 \in T
  <2> SUFFICES ASSUME n + 1 \in DOMAIN e PROVE Same(n + 1)
    BY <1>1
  <2> DEFINE k == n + 1
  <2>1. PICK m \in DOMAIN q : q[m] = e[k]
    BY <1>1 DEF Enumerates
  <2>2. \A j \in DOMAIN e : j < k => Same(j)
    BY <1>1
  <2>3. ~(m < k)
    <3> SUFFICES ASSUME m < k PROVE FALSE
      OBVIOUS
    <3>1. m \in DOMAIN e
      BY <1>1, <2>1
    <3>2. q[m] = e[m]
      BY <2>2, <3>1
    <3> QED BY <1>3, <2>1, <3>1, <3>2
  <2>4. ~(k < m)
    <3> SUFFICES ASSUME k < m PROVE FALSE
      OBVIOUS
    <3>1. k \in DOMAIN q
      BY <1>1, <2>1
    <3>2. q[k] \in S /\ <<q[k], e[k]>> \in R /\ q[k] # e[k] /\ <<e[k], q[k]>> \notin R
      BY <1>1, <1>2, <2>1, <3>1
    <3>3. PICK j \in DOMAIN e : e[j] = q[k]
      BY <3>2 DEF Begins
    <3>4. j < k
      <4>1. ~(k < j)
        BY <1>3, <3>2, <3>3
      <4>2. j # k
        BY <3>2, <3>3
      <4> QED BY <1>1, <3>3, <4>1, <4>2
    <3>5. j \in DOMAIN q /\ q[j] = q[k]
      BY <2>2, <3>3, <3>4
    <3> QED BY <1>2, <3>1, <3>4, <3>5
  <2>5. m = k
    BY <1>1, <2>1, <2>3, <2>4
  <2> QED BY <2>1, <2>5
<1>6. \A n \in Nat : n \in T
  <2> HIDE DEF T
  <2>1. T \subseteq Nat
    BY DEF T
  <2> QED BY <1>4, <1>5, <2>1, NatInductive
<1> QED BY <1>1, <1>6 DEF Opens

\* A prefix is an initial segment.
LEMMA PrefixIsSegment ==
  ASSUME NEW S, NEW q \in Seq(S), NEW e \in Seq(S), Opens(e, q)
  PROVE  e = SubSeq(q, 1, Len(e)) /\ Len(e) \in 0 .. Len(q) /\ Len(q) \in Nat
<1>1. DOMAIN q = 1 .. Len(q) /\ Len(q) \in Nat /\ DOMAIN e = 1 .. Len(e) /\ Len(e) \in Nat
  BY LenProperties
<1>2. Len(e) <= Len(q)
  <2>1. CASE Len(e) = 0
    BY <1>1, <2>1
  <2>2. CASE Len(e) # 0
    <3>1. Len(e) \in DOMAIN e
      BY <1>1, <2>2
    <3>2. Len(e) \in DOMAIN q
      BY <3>1 DEF Opens
    <3> QED BY <1>1, <3>2
  <2> QED BY <2>1, <2>2
<1>3. \A i \in 1 .. Len(e) : q[i] \in S /\ q[i] = e[i]
  BY <1>1, LenProperties DEF Opens
<1> DEFINE f == SubSeq(q, 1, Len(e))
<1>4. /\ f \in Seq(S) /\ Len(f) = (IF 1 <= Len(e) THEN Len(e) - 1 + 1 ELSE 0)
      /\ \A i \in 1 .. Len(e) - 1 + 1 : f[i] = q[1 + i - 1]
  BY <1>1, <1>3, SubSeqProperties
<1> HIDE DEF f
<1>5. Len(f) = Len(e) /\ \A i \in 1 .. Len(e) : f[i] = e[i]
  BY <1>1, <1>3, <1>4
<1>6. f = e
  BY <1>4, <1>5, SeqEqual
<1> QED BY <1>1, <1>2, <1>6 DEF f

\* And when it has every element, it is the enumeration.
LEMMA EnumerationIsUnique ==
  ASSUME NEW S, NEW R, StrictOrder(R, S), NEW q, Enumerates(q, S, R), NEW e, Enumerates(e, S, R)
  PROVE  e = q
<1>1. q \in Seq(S) /\ e \in Seq(S)
  BY DEF Enumerates
<1>2. Begins(q, S, R) /\ Begins(e, S, R)
  BY DEF Enumerates, Begins
<1>3. Opens(q, e) /\ Opens(e, q)
  BY <1>2, BeginningIsPrefix
<1>4. Len(q) = Len(e)
  <2>1. Len(e) \in 0 .. Len(q) /\ Len(q) \in Nat /\ Len(q) \in 0 .. Len(e) /\ Len(e) \in Nat
    BY <1>1, <1>3, PrefixIsSegment
  <2> QED BY <2>1
<1>5. \A k \in 1 .. Len(q) : q[k] = e[k]
  BY <1>1, <1>3, LenProperties DEF Opens
<1> QED BY <1>1, <1>4, <1>5, SeqEqual

-----------------------------------------------------------------------------
(***************************************************************************)
(* II. The exit code and --fail-fast: the command counts what it is given, *)
(* and nothing invalid gets past it.                                       *)
(***************************************************************************)
(* What the collector keeps and counts, whatever it is given.               *)

CollectorType(c) ==
  /\ DOMAIN c = Fields
  /\ c.order \in Seq(Label \cup {NoLabel})
  /\ c.current \in 1 .. Len(c.order) + 1
  /\ DOMAIN c.bufs \subseteq Label /\ c.completed \subseteq Label
  /\ c.nInvalid \in Nat

LEMMA KeepsType ==
  ASSUME NEW c, CollectorType(c), NEW d, Keeps(c, d)
  PROVE  CollectorType(d) /\ d.nInvalid = c.nInvalid
BY DEF CollectorType, Keeps

\* The pointer stays within the order, or just behind it.
LEMMA TryAdvanceType ==
  ASSUME NEW c, CollectorType(c)
  PROVE  CollectorType(TryAdvance(c)) /\ TryAdvance(c).nInvalid = c.nInvalid
<1>1. PICK d : d = TryAdvance(c)
  OBVIOUS
<1>2. PICK stop : stop = StopAt(c)
  OBVIOUS
<1>3. DOMAIN c = Fields /\ Len(c.order) \in Nat /\ c.current \in Nat /\ c.current <= Len(c.order) + 1
  BY LenProperties DEF CollectorType
<1>4. /\ stop \in c.current .. Len(c.order) + 1
      /\ Keeps(c, [d EXCEPT !.current = c.current]) /\ d.current = stop
      /\ DOMAIN d = Fields
  BY <1>1, <1>2, <1>3, TryAdvanceKeeps
<1>5. d.order = c.order /\ d.bufs = [d EXCEPT !.current = c.current].bufs
      /\ d.completed = c.completed /\ d.nInvalid = c.nInvalid /\ DOMAIN d.bufs = DOMAIN c.bufs
  BY <1>4 DEF Keeps, Fields
<1> QED BY <1>1, <1>3, <1>4, <1>5 DEF CollectorType

\* add counts a result by its status, and a sentinel not at all.
LEMMA AddType ==
  ASSUME NEW c, CollectorType(c), NEW r \in ResultRec, r.src # 0
  PROVE  /\ CollectorType(Add(c, r))
         /\ Add(c, r).nInvalid =
              IF ~r.final /\ r.status = "invalid" THEN c.nInvalid + 1 ELSE c.nInvalid
<1>1. PICK d : d = [c EXCEPT !.order = Ordered(c, r)]
  OBVIOUS
<1>2. PICK f : f = [d EXCEPT !.completed = @ \cup {r.label}]
  OBVIOUS
<1>3. PICK g : g = Counted(d, r)
  OBVIOUS
<1>4. PICK e : e = Buffered(g, r)
  OBVIOUS
<1>5. r.src \in Nat \ {0} /\ r.label \in Label /\ r.final \in BOOLEAN
  BY DEF ResultRec
<1>6. /\ d.order \in Seq(Label \cup {NoLabel}) /\ Len(d.order) >= Len(c.order)
      /\ Len(d.order) \in Nat /\ Len(c.order) \in Nat
  <2>1. c.order \in Seq(Label \cup {NoLabel})
    BY DEF CollectorType
  <2>2. /\ DOMAIN Ordered(c, r) = 1 .. Len(Ordered(c, r)) /\ Len(Ordered(c, r)) \in Nat
        /\ Len(Ordered(c, r)) = IF Len(c.order) >= r.src THEN Len(c.order) ELSE r.src
        /\ \A k \in DOMAIN Ordered(c, r) :
             Ordered(c, r)[k] = IF k = r.src THEN r.label
                                ELSE IF k \in DOMAIN c.order THEN c.order[k] ELSE NoLabel
    BY <1>5, <2>1, OrderGrows
  <2>3. PICK T : T = Label \cup {NoLabel}
    OBVIOUS
  <2>4. PICK q : q = Ordered(c, r)
    OBVIOUS
  <2>5. \A k \in DOMAIN q : q[k] \in T
    BY <1>5, <2>1, <2>2, <2>3, <2>4, ElementOfSeq
  <2>6. q = [k \in 1 .. Len(q) |-> q[k]]
    BY <2>2, <2>4 DEF Ordered
  <2>7. q \in [1 .. Len(q) -> T] /\ Len(q) \in Nat
    BY <2>2, <2>4, <2>5, <2>6
  <2>8. q \in Seq(T)
    BY <2>7, SeqDef
  <2>9. d.order = q
    BY <1>1, <2>4 DEF CollectorType, Fields
  <2> QED BY <1>5, <2>1, <2>2, <2>3, <2>4, <2>8, <2>9, LenProperties
<1>7. /\ DOMAIN d = Fields /\ d.current = c.current /\ d.bufs = c.bufs
      /\ d.completed = c.completed /\ d.nInvalid = c.nInvalid
  BY <1>1 DEF CollectorType, Fields
<1>8. CollectorType(d)
  BY <1>6, <1>7 DEF CollectorType
<1>9. CollectorType(f) /\ f.nInvalid = c.nInvalid
  BY <1>2, <1>5, <1>7, <1>8 DEF CollectorType, Fields
<1>10. CollectorType(g) /\ g.nInvalid = IF r.status = "invalid" THEN c.nInvalid + 1 ELSE c.nInvalid
  BY <1>3, <1>7, <1>8 DEF Counted, CollectorType, Fields
<1>11. CollectorType(e) /\ e.nInvalid = g.nInvalid
  <2>1. CASE e = [g EXCEPT !.panic = TRUE]
    BY <1>10, <2>1 DEF CollectorType, Fields
  <2>2. ASSUME NEW b, e = [g EXCEPT !.bufs = With(g.bufs, r.label, b)]
        PROVE  CollectorType(e) /\ e.nInvalid = g.nInvalid
    <3>1. DOMAIN With(g.bufs, r.label, b) = DOMAIN g.bufs \cup {r.label}
      BY DEF With
    <3>2. PICK h : h = With(g.bufs, r.label, b)
      OBVIOUS
    <3> QED BY <1>5, <1>10, <2>2, <3>1, <3>2 DEF CollectorType, Fields
  <2> QED BY <1>4, <2>1, <2>2 DEF Buffered
<1>12. CASE r.final
  <2>1. Add(c, r) = TryAdvance(f)
    BY <1>1, <1>2, <1>12 DEF Add
  <2> QED BY <1>9, <1>12, <2>1, TryAdvanceType
<1>13. CASE ~r.final
  <2>1. Add(c, r) = FlushContiguous(e, r.label) \/ Add(c, r) = e
    BY <1>1, <1>3, <1>4, <1>13 DEF Add
  <2>2. Keeps(e, FlushContiguous(e, r.label)) /\ Keeps(e, e)
    BY <1>11, FlushContiguousKeeps, KeepsItself DEF CollectorType
  <2>3. CollectorType(Add(c, r)) /\ Add(c, r).nInvalid = e.nInvalid
    BY <1>11, <2>1, <2>2, KeepsType
  <2> QED BY <1>10, <1>11, <1>13, <2>3
<1> QED BY <1>12, <1>13

LEMMA FlushAllType ==
  ASSUME NEW c, CollectorType(c)
  PROVE  /\ CollectorType(FlushRemainingSources(c))
         /\ FlushRemainingSources(c).nInvalid = c.nInvalid
<1>1. PICK ls : ls = SubSeq(c.order, c.current, Len(c.order))
  OBVIOUS
<1>2. Len(ls) \in Nat
  <2>1. /\ c.order \in Seq(Label \cup {NoLabel}) /\ c.current \in 1 .. Len(c.order) + 1
        /\ Len(c.order) \in Nat
    BY LenProperties DEF CollectorType
  <2>2. PICK T : T = Label \cup {NoLabel}
    OBVIOUS
  <2>3. PICK q : q = c.order
    OBVIOUS
  <2>4. c.current \in Int /\ Len(q) \in Int /\ \A i \in c.current .. Len(q) : q[i] \in T
    BY <2>1, <2>2, <2>3, ElementOfSeq
  <2>5. SubSeq(q, c.current, Len(q)) \in Seq(T)
    BY <2>4, SubSeqProperties
  <2> QED BY <1>1, <2>3, <2>5, LenProperties
<1>3. Keeps(c, FlushEach(c, ls))
  BY <1>2, FlushEachKeeps DEF CollectorType
<1> QED BY <1>1, <1>3, KeepsType DEF FlushRemainingSources

-----------------------------------------------------------------------------
(* The exit code.                                                           *)

\* The command's goroutine is where it says, and counts.
CommandInv ==
  /\ CollectorType(collector)
  /\ cmd \in {"range", "cancel", "summary", "exit", "panic"} /\ exit \in {"none", "0", "1"}
  /\ cmd = "cancel" \/ ctxDone => collector.nInvalid > 0
  /\ cmd \in {"summary", "exit"} => resultsClosed /\ results = <<>>
  /\ exit = "0" => cmd = "exit" /\ collector.nInvalid = 0
  /\ \A k \in DOMAIN results :
       results[k].src # 0 /\ (results[k].final => results[k].status = "none")

\* A job that is invalid waits, or its result is on the way, or it was counted.
InvalidInv ==
  collector.nInvalid = 0 =>
    \A j \in Nat \X Nat :
      Walked(j) /\ j \notin Waiting /\ ItemOf(j).status = "invalid" =>
        \E k \in DOMAIN results : results[k].status = "invalid"

ExitInv == EngineInv /\ UncutInv /\ CommandInv /\ InvalidInv

LEMMA ExitInvInit == Init => ExitInv
<1> SUFFICES ASSUME Init PROVE ExitInv
  OBVIOUS
<1>1. EngineInv /\ UncutInv
  BY EngineInvInit, UncutInit DEF Init
<1>2. /\ collector = NewCollector /\ cmd = "range" /\ exit = "none" /\ results = <<>> /\ ctxDone = FALSE
      /\ cur = 1 /\ pos = 1 /\ sources \in Inputs
  BY DEF Init, EngineInit
<1>3. CommandInv
  <2>1. NewCollector.order \in Seq(Label \cup {NoLabel}) /\ Len(NewCollector.order) = 0
    BY DEF NewCollector
  <2>2. CollectorType(NewCollector) /\ NewCollector.nInvalid = 0
    BY <2>1 DEF CollectorType, NewCollector, Fields
  <2> QED BY <1>2, <2>2 DEF CommandInv
<1>4. sources \in Seq(SourceRec)
  BY <1>2, InputsAssumption
<1>5. \A j \in Nat \X Nat : ~Walked(j)
  BY <1>2, <1>4, NothingWalked
<1> QED BY <1>1, <1>3, <1>5 DEF ExitInv, InvalidInv

\* What a push leaves in the channel.
LEMMA ResultsKeep ==
  ASSUME EngineInv, NEW e \in ResultRec, results' = Append(results, e)
  PROVE  /\ DOMAIN results' = (DOMAIN results) \cup {Len(results) + 1}
         /\ results'[Len(results) + 1] = e
         /\ \A k \in DOMAIN results : results'[k] = results[k]
<1>1. results \in Seq(ResultRec)
  BY DEF EngineInv, TypeOK
<1> QED BY <1>1, AppendProperties, LenProperties

LEMMA ExitEngineStep ==
  ASSUME ExitInv, Engine, UNCHANGED cmdVars
  PROVE  ExitInv'
<1> USE DEF ExitInv
<1>0. EngineInv' /\ UncutInv' /\ sources' = sources /\ (ctxDone => ctxDone')
  BY EngineInvStep, UncutStep, InputStays
<1>1. collector' = collector /\ cmd' = cmd /\ exit' = exit
  BY DEF cmdVars
<1>2. ctxDone' = ctxDone
  BY DEF Engine, Producer, EmitDoc, SendJob, AbandonJob, EmitFinal, WalkReturns, CloseJobs,
     JoinWorkers, DrainJob, DrainEnd, CloseResults, WorkerStep, TakeJob, WorkerReturns, PushResult,
     DropResult, FinishJob, WaiterStep, WaitReturns, PushFinal, DropFinal
<1>3. \A j : ItemOf(j)' = ItemOf(j)
  BY <1>0 DEF ItemOf
<1>4. ASSUME NEW j \in Nat \X Nat, collector.nInvalid = 0, Walked(j)', j \notin Waiting',
             ItemOf(j).status = "invalid"
      PROVE  \/ \E k \in DOMAIN results : results[k].status = "invalid"
             \/ \E w \in Worker : PushResult(w) /\ held[w] = j
  <2>1. ~ctxDone
    BY <1>4 DEF CommandInv
  <2> QED BY <1>4, <2>1, JobsProgress DEF InvalidInv
<1>5. ASSUME NEW w \in Worker, PushResult(w)
      PROVE  ExitInv'
  <2>0. PICK j : j = held[w]
    OBVIOUS
  <2>1. j \in Running /\ Walked(j) /\ j \in Nat \X Nat
    BY <1>5, <2>0 DEF PushResult, Running, Busy, EngineInv, PlacedInv, TypeOK
  <2>2. PICK st \in Verdicts(j) : results' = Append(results, ResultOf(j, st))
    BY <1>5, <2>0 DEF PushResult
  <2>3. PICK e : e = ResultOf(j, st)
    OBVIOUS
  <2>4. e \in ResultRec /\ ~e.final /\ e.status = st /\ e.src # 0
    <3>1. j[1] \in DOMAIN sources /\ sources \in Seq(SourceRec) /\ sources \in Inputs
      BY <2>1, InputsAssumption DEF Walked, EngineInv, TypeOK
    <3>2. e \in ResultRec /\ e.src = j[1] /\ ~e.final
      BY <2>1, <2>3, <3>1, ResultType
    <3>3. e.status = st
      BY <2>3 DEF ResultOf
    <3> QED BY <3>1, <3>2, <3>3
  <2>5. /\ DOMAIN results' = (DOMAIN results) \cup {Len(results) + 1}
        /\ results'[Len(results) + 1] = e
        /\ \A k \in DOMAIN results : results'[k] = results[k]
    BY <2>2, <2>3, <2>4, ResultsKeep
  <2>6. ~resultsClosed
    BY <1>5, EngineInvImplies DEF PushResult, NoSendOnClosed
  <2>7. CommandInv'
    BY <1>1, <1>2, <2>4, <2>5, <2>6 DEF CommandInv
  <2>8. InvalidInv'
    <3> SUFFICES ASSUME collector.nInvalid = 0, NEW i \in Nat \X Nat, Walked(i)', i \notin Waiting',
                        ItemOf(i).status = "invalid"
                 PROVE  \E k \in DOMAIN results' : results'[k].status = "invalid"
      BY <1>1, <1>3 DEF InvalidInv
    <3>1. CASE \E k \in DOMAIN results : results[k].status = "invalid"
      BY <2>5, <3>1
    <3>2. CASE i = j
      <4>1. st = "invalid"
        BY <3>2 DEF Verdicts
      <4> QED BY <2>4, <2>5, <4>1
    <3>3. CASE i # j /\ ~\E k \in DOMAIN results : results[k].status = "invalid"
      <4>1. Walked(i) /\ i \notin Waiting
        <5>1. WorkerStep(w)
          BY <1>5 DEF WorkerStep
        <5>2. ~DropResult(w) \/ held[w] # i
          BY <2>0, <3>3
        <5> QED BY <2>0, <3>3, <5>1, <5>2, WorkerProgress
      <4> QED BY <3>3, <4>1 DEF InvalidInv
    <3> QED BY <3>1, <3>2, <3>3
  <2> QED BY <1>0, <2>7, <2>8
<1>6. ASSUME NEW s \in DOMAIN sources, PushFinal(s), ~\E w \in Worker : PushResult(w)
      PROVE  ExitInv'
  <2>1. PICK e : e = FinalOf(s)
    OBVIOUS
  <2>2. e \in ResultRec /\ e.status = "none" /\ e.src # 0
    <3>1. sources \in Seq(SourceRec)
      BY InputsAssumption DEF EngineInv, TypeOK
    <3> QED BY <2>1, <3>1, FinalType DEF EngineInv, TypeOK, FinalOf
  <2>3. results' = Append(results, e) /\ waiter[s] = "send"
    BY <1>6, <2>1 DEF PushFinal
  <2>4. /\ DOMAIN results' = (DOMAIN results) \cup {Len(results) + 1}
        /\ results'[Len(results) + 1] = e
        /\ \A k \in DOMAIN results : results'[k] = results[k]
    BY <2>2, <2>3, ResultsKeep
  <2>5. ~resultsClosed
    BY <2>3, EngineInvImplies DEF NoSendOnClosed
  <2>6. CommandInv'
    BY <1>1, <1>2, <2>2, <2>4, <2>5 DEF CommandInv
  <2>7. InvalidInv'
    BY <1>1, <1>3, <1>4, <1>6, <2>4 DEF InvalidInv
  <2> QED BY <1>0, <2>6, <2>7
<1>7. ASSUME ~\E w \in Worker : PushResult(w), results' = results, resultsClosed => resultsClosed'
      PROVE  ExitInv'
  <2>1. CommandInv'
    BY <1>1, <1>2, <1>7 DEF CommandInv
  <2>2. InvalidInv'
    BY <1>1, <1>3, <1>4, <1>7 DEF InvalidInv
  <2> QED BY <1>0, <2>1, <2>2
<1>8. \/ \E w \in Worker : PushResult(w)
      \/ (\E s \in DOMAIN sources : PushFinal(s)) /\ ~\E w \in Worker : PushResult(w)
      \/ /\ ~\E w \in Worker : PushResult(w)
         /\ results' = results /\ (resultsClosed => resultsClosed')
  BY DEF Engine, Producer, EmitDoc, SendJob, AbandonJob, EmitFinal, WalkReturns, CloseJobs,
     JoinWorkers, DrainJob, DrainEnd, CloseResults, WorkerStep, TakeJob, WorkerReturns,
     DropResult, FinishJob, WaiterStep, WaitReturns, DropFinal, chanVars
<1> QED BY <1>5, <1>6, <1>7, <1>8

\* A result that leaves the channel invalid is counted.
LEMMA ExitCollectStep ==
  ASSUME ExitInv, Collect
  PROVE  ExitInv' /\ collector'.nInvalid <= collector.nInvalid + 1
<1> USE DEF ExitInv
<1>1. PICK r : Deliver(r) /\ collector' = Add(collector, r)
               /\ cmd' = IF collector'.panic THEN "panic"
                         ELSE IF FailFast /\ r.status = "invalid" THEN "cancel" ELSE "range"
  BY DEF Collect
<1>2. /\ results # <<>> /\ r = Head(results) /\ results' = Tail(results) /\ cmd = "range"
      /\ UNCHANGED <<sources, ctxDone, cur, pos, prod, jobs, held, worker, resultsClosed, exit>>
  BY <1>1 DEF Collect, Deliver, walkVars, poolVars
<1>3. results \in Seq(ResultRec)
  BY DEF EngineInv, TypeOK
<1>4. /\ r \in ResultRec /\ r = results[1] /\ 1 \in DOMAIN results
      /\ \A k \in DOMAIN results : k = 1 \/ \E m \in DOMAIN results' : results'[m] = results[k]
      /\ \A m \in DOMAIN results' : \E k \in DOMAIN results : results'[m] = results[k]
  <2>1. /\ Head(results) \in ResultRec /\ Head(results) = results[1] /\ 1 \in DOMAIN results
        /\ \A k \in DOMAIN results :
             k = 1 \/ \E m \in DOMAIN Tail(results) : Tail(results)[m] = results[k]
        /\ \A m \in DOMAIN Tail(results) : \E k \in DOMAIN results : Tail(results)[m] = results[k]
    <3>1. results # <<>>
      BY <1>2
    <3> QED BY <1>3, <3>1, TailHas
  <2> QED BY <1>2, <2>1
<1>5. EngineInv' /\ UncutInv'
  <2>1. ReaderStep
    BY <1>1, <1>4 DEF ReaderStep
  <2> QED BY <2>1, EngineInvStep, UncutStep
<1>6. /\ CollectorType(collector)' /\ collector.nInvalid \in Nat
      /\ collector'.nInvalid =
           IF ~r.final /\ r.status = "invalid" THEN collector.nInvalid + 1 ELSE collector.nInvalid
  <2>1. r.src # 0 /\ CollectorType(collector)
    BY <1>4 DEF CommandInv
  <2>2. collector.nInvalid \in Nat
    BY <2>1 DEF CollectorType
  <2>3. PICK c : c = collector
    OBVIOUS
  <2>4. PICK e : e = Add(c, r)
    OBVIOUS
  <2>5. CollectorType(e) /\ e.nInvalid =
          IF ~r.final /\ r.status = "invalid" THEN c.nInvalid + 1 ELSE c.nInvalid
    BY <1>4, <2>1, <2>3, <2>4, AddType
  <2>6. collector' = e
    BY <1>1, <2>3, <2>4
  <2> QED BY <2>2, <2>3, <2>5, <2>6 DEF CollectorType
<1>7. r.status = "invalid" => ~r.final
  BY <1>4 DEF CommandInv
<1>8. CommandInv'
  <2>1. collector'.nInvalid \in Nat /\ collector'.nInvalid >= collector.nInvalid
        /\ (r.status = "invalid" => collector'.nInvalid > 0)
    BY <1>6, <1>7 DEF CommandInv
  <2>2. cmd' \in {"panic", "cancel", "range"} /\ (cmd' = "cancel" => r.status = "invalid")
    BY <1>1
  <2>3. \A m \in DOMAIN results' :
          results'[m].src # 0 /\ (results'[m].final => results'[m].status = "none")
    BY <1>4 DEF CommandInv
  <2>4. ctxDone' => collector'.nInvalid > 0
    BY <1>2, <1>6, <2>1 DEF CommandInv
  <2>5. exit' # "0" /\ exit' \in {"none", "0", "1"}
    BY <1>2 DEF CommandInv
  <2> QED BY <1>6, <2>1, <2>2, <2>3, <2>4, <2>5 DEF CommandInv
<1>9. InvalidInv'
  <2> SUFFICES ASSUME collector'.nInvalid = 0, NEW j \in Nat \X Nat, Walked(j)', j \notin Waiting',
                      ItemOf(j)'.status = "invalid"
               PROVE  \E k \in DOMAIN results' : results'[k].status = "invalid"
    BY DEF InvalidInv
  <2>1. collector.nInvalid = 0 /\ r.status # "invalid"
    BY <1>6, <1>7 DEF CommandInv
  <2>2. Walked(j) /\ j \notin Waiting /\ ItemOf(j).status = "invalid"
    BY <1>2 DEF Walked, Waiting, Offered, Queued, ItemOf
  <2>3. PICK k \in DOMAIN results : results[k].status = "invalid"
    BY <2>1, <2>2 DEF InvalidInv
  <2> QED BY <1>4, <2>1, <2>3
<1> QED BY <1>5, <1>6, <1>8, <1>9 DEF CommandInv

LEMMA ExitCmdStep ==
  ASSUME ExitInv, FailFastCancel \/ FlushAll \/ Exit \/ Terminated \/ UNCHANGED vars
  PROVE  ExitInv'
<1> USE DEF ExitInv
<1>1. CASE FailFastCancel
  <2>1. /\ UNCHANGED <<sources, cur, pos, prod, jobs, held, worker, results, resultsClosed,
                       collector, exit>>
        /\ cmd = "cancel" /\ cmd' = "range"
        /\ ReaderStep \/ UNCHANGED engineVars
    BY <1>1 DEF FailFastCancel, CancelCtx, ReaderStep, engineVars, walkVars, poolVars, chanVars
  <2>2. EngineInv' /\ UncutInv'
    BY <2>1, EngineInvStep, UncutStep
  <2>3. CommandInv'
    BY <2>1 DEF CommandInv
  <2>4. InvalidInv'
    BY <2>1 DEF InvalidInv, CommandInv
  <2> QED BY <2>2, <2>3, <2>4
<1>2. CASE FlushAll
  <2>1. UNCHANGED engineVars /\ cmd' = "summary" /\ exit' = exit /\ cmd = "range"
        /\ resultsClosed /\ results = <<>> /\ collector' = FlushRemainingSources(collector)
    BY <1>2 DEF FlushAll, StreamEnds
  <2>2. EngineInv' /\ UncutInv'
    BY <2>1, EngineInvStep, UncutStep
  <2>3. CollectorType(collector)' /\ collector'.nInvalid = collector.nInvalid
    <3>1. CollectorType(FlushRemainingSources(collector))
          /\ FlushRemainingSources(collector).nInvalid = collector.nInvalid
      BY FlushAllType DEF CommandInv
    <3> QED BY <2>1, <3>1 DEF CollectorType
  <2>4. UNCHANGED <<sources, ctxDone, cur, pos, prod, jobs, held, worker, results, resultsClosed>>
    BY <2>1 DEF engineVars
  <2>5. CommandInv'
    BY <2>1, <2>3, <2>4 DEF CommandInv
  <2>6. InvalidInv'
    BY <2>3, <2>4 DEF InvalidInv, Walked, Waiting, Offered, Queued, ItemOf
  <2> QED BY <2>2, <2>5, <2>6
<1>3. CASE Exit \/ Terminated \/ UNCHANGED vars
  <2>1. UNCHANGED <<sources, ctxDone, cur, pos, prod, jobs, held, worker, results, resultsClosed,
                    collector>> /\ UNCHANGED engineVars
    BY <1>3 DEF Exit, Terminated, vars, engineVars
  <2>2. EngineInv' /\ UncutInv'
    BY <2>1, EngineInvStep, UncutStep
  <2>3. CommandInv'
    <3>1. CASE Exit
      BY <2>1, <3>1 DEF Exit, CommandInv
    <3>2. CASE cmd' = cmd /\ exit' = exit
      BY <2>1, <3>2 DEF CommandInv
    <3> QED BY <1>3, <3>1, <3>2 DEF Terminated, vars
  <2>4. InvalidInv'
    BY <2>1 DEF InvalidInv, Walked, Waiting, Offered, Queued, ItemOf
  <2> QED BY <2>2, <2>3, <2>4
<1> QED BY <1>1, <1>2, <1>3

LEMMA ExitInvStep == ExitInv /\ [Next]_vars => ExitInv'
  BY ExitEngineStep, ExitCollectStep, ExitCmdStep DEF Next

LEMMA ExitInvariant == Spec => []ExitInv
  BY ExitInvInit, ExitInvStep, PTL DEF Spec

\* The pointer stays in the order or just behind it, whatever the labels of
\* the sources, and the command is where its counter says.
THEOREM CommandTypeCorrect == Spec => []CmdTypeOK
<1>1. ExitInv => CmdTypeOK
  BY DEF ExitInv, EngineInv, CommandInv, CollectorType, CmdTypeOK
<1> QED BY <1>1, ExitInvariant, PTL

\* No document of the input is invalid when the command exits with 0, however
\* --fail-fast and the goroutines interleave.
THEOREM ExitZeroIsHonest == Spec => []NoInvalidPasses
<1>1. ExitInv => NoInvalidPasses
  <2> SUFFICES ASSUME ExitInv, exit = "0", NEW s \in DOMAIN sources,
                      NEW k \in DOMAIN sources[s].items, sources[s].items[k].status = "invalid"
               PROVE  FALSE
    BY DEF NoInvalidPasses
  <2> USE DEF ExitInv
  <2>1. resultsClosed /\ results = <<>> /\ collector.nInvalid = 0 /\ ~ctxDone
    BY DEF CommandInv
  <2>2. Waiting = {} /\ Walked(<<s, k>>)
    BY <2>1, NothingWaits
  <2>3. sources \in Seq(SourceRec)
    BY InputsAssumption DEF EngineInv, TypeOK
  <2>4. sources[s].items \in Seq(Item)
    BY <2>3, ItemsType
  <2>5. <<s, k>> \in Nat \X Nat /\ ItemOf(<<s, k>>).status = "invalid"
    BY <2>3, <2>4 DEF ItemOf
  <2>6. \E m \in DOMAIN results : results[m].status = "invalid"
    BY <2>1, <2>2, <2>5 DEF InvalidInv
  <2> QED BY <2>1, <2>6
<1> QED BY <1>1, ExitInvariant, PTL

-----------------------------------------------------------------------------
(* How soon --fail-fast stops.                                              *)

\* The positions of results that are not sentinels.
Real(q) == {k \in DOMAIN q : ~q[k].final}
Runners == {w \in Worker : worker[w] = "run"}

\* What may still be counted invalid once the context is done.
Potential ==
  collector.nInvalid + Cardinality(Real(results)) + Cardinality(Runners) + Len(jobs)
    + (IF prod = "enqueue" THEN 1 ELSE 0)

StopInv ==
  /\ ~ctxDone => collector.nInvalid = 0 \/ (collector.nInvalid = 1 /\ cmd \in {"cancel", "panic"})
  /\ ctxDone => Potential <= FailFastBound

LEMMA RealType ==
  ASSUME NEW T, NEW q \in Seq(T)
  PROVE  /\ IsFiniteSet(Real(q)) /\ Cardinality(Real(q)) \in Nat /\ Cardinality(Real(q)) <= Len(q)
         /\ Real(q) \subseteq 1 .. Len(q)
<1>1. DOMAIN q = 1 .. Len(q) /\ Len(q) \in Nat
  BY LenProperties
<1>2. IsFiniteSet(1 .. Len(q)) /\ Cardinality(1 .. Len(q)) = Len(q)
  <2>1. 1 \in Int /\ Len(q) \in Int /\ (1 > Len(q) <=> Len(q) = 0)
    BY <1>1
  <2>2. /\ IsFiniteSet(1 .. Len(q))
        /\ Cardinality(1 .. Len(q)) = IF 1 > Len(q) THEN 0 ELSE Len(q) - 1 + 1
    BY <2>1, FS_Interval
  <2> QED BY <1>1, <2>1, <2>2
<1>3. Real(q) \subseteq 1 .. Len(q)
  BY <1>1 DEF Real
<1>4. IsFiniteSet(Real(q)) /\ Cardinality(Real(q)) <= Len(q)
  BY <1>2, <1>3, FS_Subset
<1> QED BY <1>3, <1>4, FS_CardinalityType

\* A push adds one result, or none when it is a sentinel.
LEMMA RealAppend ==
  ASSUME NEW T, NEW q \in Seq(T), NEW e \in T, NEW p, p = Append(q, e)
  PROVE  Cardinality(Real(p)) = IF e.final THEN Cardinality(Real(q)) ELSE Cardinality(Real(q)) + 1
<1>1. /\ DOMAIN q = 1 .. Len(q) /\ Len(q) \in Nat /\ DOMAIN p = 1 .. Len(q) + 1
      /\ p[Len(q) + 1] = e /\ \A k \in 1 .. Len(q) : p[k] = q[k]
  BY AppendProperties, LenProperties
<1>2. IsFiniteSet(Real(q)) /\ Real(q) \subseteq 1 .. Len(q)
  BY RealType
<1>3. CASE e.final
  <2>1. Real(p) = Real(q)
    BY <1>1, <1>3 DEF Real
  <2> QED BY <1>3, <2>1
<1>4. CASE ~e.final
  <2>1. Real(p) = Real(q) \cup {Len(q) + 1}
    BY <1>1, <1>4 DEF Real
  <2>2. Len(q) + 1 \notin Real(q)
    BY <1>1, <1>2
  <2> QED BY <1>2, <1>4, <2>1, <2>2, FS_AddElement
<1> QED BY <1>3, <1>4

\* A receive takes one result away, or none when it is a sentinel.
LEMMA RealTail ==
  ASSUME NEW T, NEW q \in Seq(T), q # <<>>, NEW p, p = Tail(q)
  PROVE  Cardinality(Real(p)) = IF Head(q).final THEN Cardinality(Real(q)) ELSE Cardinality(Real(q)) - 1
<1>1. /\ DOMAIN q = 1 .. Len(q) /\ Len(q) \in Nat \ {0} /\ Head(q) = q[1] /\ p \in Seq(T)
      /\ DOMAIN p = 1 .. Len(q) - 1 /\ \A k \in 1 .. Len(q) - 1 : p[k] = q[k + 1]
  BY HeadTailProperties, LenProperties, EmptySeq
<1>2. IsFiniteSet(Real(q)) /\ IsFiniteSet(Real(p)) /\ Real(q) \subseteq 1 .. Len(q)
  BY <1>1, RealType
<1>3. Cardinality(Real(p)) = Cardinality(Real(q) \ {1})
  <2> DEFINE S == Real(p)
             R == Real(q) \ {1}
             f == [k \in S |-> k + 1]
  <2>1. \A k \in S : k \in 1 .. Len(q) - 1 /\ k + 1 \in R
    BY <1>1 DEF Real
  <2>2. \A m \in R : m - 1 \in S /\ (m - 1) + 1 = m
    <3> SUFFICES ASSUME NEW m \in R PROVE m - 1 \in S /\ (m - 1) + 1 = m
      OBVIOUS
    <3>1. m \in 1 .. Len(q) /\ m # 1 /\ ~q[m].final
      BY <1>1 DEF Real
    <3>2. m - 1 \in 1 .. Len(q) - 1 /\ p[m - 1] = q[(m - 1) + 1] /\ (m - 1) + 1 = m
      BY <1>1, <3>1
    <3> QED BY <1>1, <3>1, <3>2 DEF Real
  <2> HIDE DEF S, R
  <2>3. f \in [S -> R] /\ \A m \in R : \E k \in S : f[k] = m
    BY <2>1, <2>2
  <2>4. \A k, m \in S : f[k] = f[m] => k = m
    BY <2>1
  <2>5. ExistsBijection(S, R)
    <3>1. f \in Bijection(S, R)
      BY <2>3, <2>4 DEF Bijection, Injection, Surjection, IsInjective
    <3> QED BY <3>1 DEF ExistsBijection
  <2>6. IsFiniteSet(S)
    BY <1>2 DEF S
  <2>7. Cardinality(R) = Cardinality(S)
    BY <2>5, <2>6, FS_Bijection
  <2> QED BY <2>7 DEF S, R
<1>4. 1 \in Real(q) <=> ~Head(q).final
  BY <1>1 DEF Real
<1> QED BY <1>2, <1>3, <1>4, FS_RemoveElement

\* The quantities of Potential are numbers.
LEMMA PotentialType ==
  ASSUME ExitInv
  PROVE  /\ results \in Seq(ResultRec) /\ jobs \in Seq(Nat \X Nat)
         /\ Cardinality(Real(results)) \in Nat /\ Cardinality(Real(results)) <= Len(results)
         /\ Len(results) \in Nat /\ Len(jobs) \in Nat /\ collector.nInvalid \in Nat
         /\ IsFiniteSet(Runners) /\ Cardinality(Runners) \in Nat
         /\ Cardinality(Runners) <= Cardinality(Worker) /\ Cardinality(Worker) \in Nat
<1>1. results \in Seq(ResultRec) /\ jobs \in Seq(Nat \X Nat) /\ collector.nInvalid \in Nat
  BY DEF ExitInv, EngineInv, TypeOK, CommandInv, CollectorType
<1>2. Runners \subseteq Worker
  BY DEF Runners
<1>3. IsFiniteSet(Runners) /\ Cardinality(Runners) <= Cardinality(Worker)
  BY <1>2, WorkerAssumption, FS_Subset
<1>4. Cardinality(Runners) \in Nat /\ Cardinality(Worker) \in Nat
  BY <1>3, WorkerAssumption, FS_CardinalityType
<1> QED BY <1>1, <1>3, <1>4, RealType, LenProperties

LEMMA PotentialIsNat == ExitInv => Potential \in Int
<1> SUFFICES ASSUME ExitInv PROVE Potential \in Int
  OBVIOUS
<1>1. /\ Cardinality(Real(results)) \in Nat /\ Cardinality(Runners) \in Nat
      /\ Len(jobs) \in Nat /\ collector.nInvalid \in Nat
  BY PotentialType
<1> QED BY <1>1 DEF Potential

LEMMA PotentialStaysNat == (ExitInv => Potential \in Int)'
  BY PotentialIsNat, PTL

\* Once the context is done, what the producer emits no more only shrinks.
LEMMA PotentialProducer ==
  ASSUME ExitInv, ctxDone, Producer, collector' = collector
  PROVE  Potential' <= Potential
<1>0. /\ Cardinality(Real(results)) \in Nat /\ Cardinality(Runners) \in Nat
      /\ Len(jobs) \in Nat /\ collector.nInvalid \in Nat /\ jobs \in Seq(Nat \X Nat)
  BY PotentialType
<1>1. results' = results /\ worker' = worker
  BY DEF Producer, EmitDoc, SendJob, AbandonJob, EmitFinal, WalkReturns, CloseJobs, JoinWorkers,
     DrainJob, DrainEnd, CloseResults, chanVars, poolVars
<1>2. Real(results)' = Real(results) /\ Runners' = Runners
  BY <1>1 DEF Real, Runners
<1>3. CASE SendJob
  <2>1. prod = "enqueue" /\ prod' = "walk" /\ jobs' = Append(jobs, <<cur, pos>>)
    BY <1>3 DEF SendJob
  <2>2. Len(jobs') = Len(jobs) + 1
    BY <1>0, <2>1
  <2> QED BY <1>0, <1>2, <2>1, <2>2 DEF Potential
<1>4. CASE AbandonJob
  <2>1. prod = "enqueue" /\ prod' = "walk" /\ jobs' = jobs
    BY <1>4 DEF AbandonJob, chanVars
  <2> QED BY <1>0, <1>2, <2>1 DEF Potential
<1>5. CASE DrainJob
  <2>1. prod' = prod /\ jobs # <<>> /\ jobs' = Tail(jobs)
    BY <1>5 DEF DrainJob, walkVars
  <2>2. Len(jobs') \in Nat /\ Len(jobs') <= Len(jobs)
    BY <1>0, <2>1
  <2> QED BY <1>0, <1>2, <2>1, <2>2 DEF Potential
<1>6. CASE WalkReturns \/ CloseJobs \/ JoinWorkers \/ DrainEnd \/ CloseResults
  <2>1. prod' # "enqueue" /\ prod # "enqueue" /\ jobs' = jobs
    BY <1>6 DEF WalkReturns, CloseJobs, JoinWorkers, DrainEnd, CloseResults, chanVars
  <2> QED BY <1>0, <1>2, <2>1 DEF Potential
<1> QED BY <1>3, <1>4, <1>5, <1>6 DEF Producer, EmitDoc, EmitFinal

\* A worker moves a job on, or loses it.
LEMMA PotentialWorker ==
  ASSUME ExitInv, NEW w \in Worker, WorkerStep(w), collector' = collector
  PROVE  Potential' <= Potential
<1>0. /\ Cardinality(Real(results)) \in Nat /\ Cardinality(Runners) \in Nat /\ IsFiniteSet(Runners)
      /\ Len(jobs) \in Nat /\ collector.nInvalid \in Nat /\ jobs \in Seq(Nat \X Nat)
      /\ results \in Seq(ResultRec) /\ worker \in [Worker -> {"idle", "run", "finish", "exit"}]
  BY PotentialType DEF ExitInv, EngineInv, TypeOK
<1>1. prod' = prod
  BY DEF WorkerStep, TakeJob, WorkerReturns, PushResult, DropResult, FinishJob, walkVars
<1>2. CASE TakeJob(w)
  <2>1. /\ worker[w] = "idle" /\ worker' = [worker EXCEPT ![w] = "run"] /\ results' = results
        /\ jobs # <<>> /\ jobs' = Tail(jobs)
    BY <1>2 DEF TakeJob
  <2>2. Len(jobs') = Len(jobs) - 1
    BY <1>0, <2>1
  <2>3. Runners' = Runners \cup {w} /\ w \notin Runners
    BY <1>0, <2>1 DEF Runners
  <2>4. Cardinality(Runners') = Cardinality(Runners) + 1
    BY <1>0, <2>3, FS_AddElement
  <2>5. Real(results)' = Real(results)
    BY <2>1 DEF Real
  <2>6. Potential' = collector.nInvalid + Cardinality(Real(results)) + (Cardinality(Runners) + 1)
                       + (Len(jobs) - 1) + (IF prod = "enqueue" THEN 1 ELSE 0)
    BY <1>1, <2>2, <2>4, <2>5 DEF Potential
  <2> QED BY <1>0, <2>6 DEF Potential
<1>3. CASE WorkerReturns(w) \/ FinishJob(w)
  <2>1. /\ worker[w] # "run" /\ results' = results /\ jobs' = jobs
        /\ \E st \in {"idle", "exit"} : worker' = [worker EXCEPT ![w] = st]
    BY <1>3 DEF WorkerReturns, FinishJob, chanVars
  <2>2. Runners' = Runners /\ Real(results)' = Real(results)
    BY <1>0, <2>1 DEF Runners, Real
  <2> QED BY <1>0, <1>1, <2>1, <2>2 DEF Potential
<1>4. CASE PushResult(w) \/ DropResult(w)
  <2>1. worker[w] = "run" /\ jobs' = jobs /\ worker' = [worker EXCEPT ![w] = "finish"]
    BY <1>4 DEF PushResult, DropResult, chanVars
  <2>2. Runners' = Runners \ {w} /\ w \in Runners
    BY <1>0, <2>1 DEF Runners
  <2>3. Cardinality(Runners') = Cardinality(Runners) - 1
    BY <1>0, <2>2, FS_RemoveElement
  <2>4. Cardinality(Real(results)') <= Cardinality(Real(results)) + 1 /\ Cardinality(Real(results)') \in Nat
    <3>1. CASE PushResult(w)
      <4>1. PICK st \in Verdicts(held[w]) : results' = Append(results, ResultOf(held[w], st))
        BY <3>1 DEF PushResult
      <4>2. held[w] \in Running /\ held[w] \in Nat \X Nat
        BY <2>1 DEF Running, Busy, ExitInv, EngineInv, TypeOK
      <4>3. PICK e : e = ResultOf(held[w], st)
        OBVIOUS
      <4>4. e \in ResultRec /\ ~e.final
        BY <4>2, <4>3, ResultType DEF ExitInv, EngineInv, PlacedInv, TypeOK
      <4>5. PICK q : q = results
        OBVIOUS
      <4>6. PICK p : p = Append(q, e)
        OBVIOUS
      <4>7. Cardinality(Real(p)) = Cardinality(Real(q)) + 1
        BY <1>0, <4>4, <4>5, <4>6, RealAppend
      <4>8. Real(results)' = Real(p)
        BY <4>1, <4>3, <4>5, <4>6 DEF Real
      <4> QED BY <1>0, <4>5, <4>7, <4>8
    <3>2. CASE DropResult(w)
      BY <1>0, <3>2 DEF DropResult, chanVars, Real
    <3> QED BY <1>4, <3>1, <3>2
  <2>5. Potential' = collector.nInvalid + Cardinality(Real(results)') + (Cardinality(Runners) - 1)
                       + Len(jobs) + (IF prod = "enqueue" THEN 1 ELSE 0)
    BY <1>1, <2>1, <2>3 DEF Potential
  <2>6. Potential = collector.nInvalid + Cardinality(Real(results)) + Cardinality(Runners)
                      + Len(jobs) + (IF prod = "enqueue" THEN 1 ELSE 0)
    BY DEF Potential
  <2>7. PICK n \in Nat, r \in Nat, k \in Nat, j \in Nat, v \in Nat, h \in Nat :
          /\ n = Cardinality(Real(results)')
          /\ r = Cardinality(Real(results))
          /\ k = Cardinality(Runners)
          /\ j = Len(jobs)
          /\ v = collector.nInvalid
          /\ h = IF prod = "enqueue" THEN 1 ELSE 0
    BY <1>0, <2>4
  <2>8. n <= r + 1
    BY <2>4, <2>7
  <2>9. Potential' = v + n + (k - 1) + j + h
    BY <2>5, <2>7
  <2>10. Potential = v + r + k + j + h
    BY <2>6, <2>7
  <2>11. v + n + (k - 1) + j + h <= v + r + k + j + h
    BY <2>8
  <2> QED BY <2>9, <2>10, <2>11
<1> QED BY <1>2, <1>3, <1>4 DEF WorkerStep

\* A sentinel is no result.
LEMMA PotentialWaiter ==
  ASSUME ExitInv, NEW s \in DOMAIN sources, WaiterStep(s), collector' = collector
  PROVE  Potential' <= Potential
<1>0. /\ Cardinality(Real(results)) \in Nat /\ Cardinality(Runners) \in Nat
      /\ Len(jobs) \in Nat /\ collector.nInvalid \in Nat /\ results \in Seq(ResultRec)
  BY PotentialType
<1>1. prod' = prod /\ jobs' = jobs /\ worker' = worker
  BY DEF WaiterStep, WaitReturns, PushFinal, DropFinal, walkVars, poolVars, chanVars
<1>2. Runners' = Runners
  BY <1>1 DEF Runners
<1>3. Cardinality(Real(results)') = Cardinality(Real(results))
  <2>1. CASE PushFinal(s)
    <3>1. PICK e : e = FinalOf(s)
      OBVIOUS
    <3>2. e \in ResultRec /\ e.final /\ results' = Append(results, e)
      BY <2>1, <3>1, FinalType DEF PushFinal, ExitInv, EngineInv, TypeOK
    <3>3. PICK p : p = Append(results, e)
      OBVIOUS
    <3>4. Cardinality(Real(p)) = Cardinality(Real(results))
      BY <1>0, <3>2, <3>3, RealAppend
    <3>5. Real(results)' = Real(p)
      BY <3>2, <3>3 DEF Real
    <3> QED BY <3>4, <3>5
  <2>2. CASE WaitReturns(s) \/ DropFinal(s)
    BY <2>2 DEF WaitReturns, DropFinal, chanVars, Real
  <2> QED BY <2>1, <2>2 DEF WaiterStep
<1> QED BY <1>0, <1>1, <1>2, <1>3 DEF Potential

LEMMA StopEngineStep ==
  ASSUME ExitInv, StopInv, Engine, UNCHANGED cmdVars
  PROVE  StopInv'
<1>1. collector' = collector /\ cmd' = cmd
  BY DEF cmdVars
<1>2. ctxDone' = ctxDone
  BY DEF Engine, Producer, EmitDoc, SendJob, AbandonJob, EmitFinal, WalkReturns, CloseJobs,
     JoinWorkers, DrainJob, DrainEnd, CloseResults, WorkerStep, TakeJob, WorkerReturns, PushResult,
     DropResult, FinishJob, WaiterStep, WaitReturns, PushFinal, DropFinal
<1>3. CASE ~ctxDone
  BY <1>1, <1>2, <1>3 DEF StopInv
<1>4. CASE ctxDone
  <2>1. Potential' <= Potential
    BY <1>1, <1>4, PotentialProducer, PotentialWorker, PotentialWaiter DEF Engine
  <2>2. Potential \in Int /\ Potential' \in Int /\ FailFastBound \in Int /\ FailFastBound' = FailFastBound
    <3>1. ExitInv'
      BY ExitEngineStep
    <3>2. Potential \in Int
      BY PotentialIsNat
    <3>3. Potential' \in Int
      BY <3>1, PotentialStaysNat
    <3>4. FailFastBound \in Int
      BY PotentialType, ChanCapType DEF FailFastBound
    <3> QED BY <3>2, <3>3, <3>4 DEF FailFastBound, ChanCap
  <2> QED BY <1>2, <1>4, <2>1, <2>2 DEF StopInv
<1> QED BY <1>3, <1>4

LEMMA StopCollectStep ==
  ASSUME FailFast, ExitInv, StopInv, Collect
  PROVE  StopInv'
<1>0. /\ Cardinality(Real(results)) \in Nat /\ Cardinality(Runners) \in Nat
      /\ Len(jobs) \in Nat /\ collector.nInvalid \in Nat /\ results \in Seq(ResultRec)
  BY PotentialType
<1>1. PICK r : Deliver(r) /\ collector' = Add(collector, r)
               /\ cmd' = IF collector'.panic THEN "panic"
                         ELSE IF FailFast /\ r.status = "invalid" THEN "cancel" ELSE "range"
  BY DEF Collect
<1>2. /\ results # <<>> /\ r = Head(results) /\ results' = Tail(results) /\ cmd = "range"
      /\ UNCHANGED <<ctxDone, prod, jobs, worker>>
  BY <1>1 DEF Collect, Deliver, walkVars, poolVars
<1>3. r \in ResultRec
  BY <1>0, <1>2, HeadTailProperties
<1>4. collector'.nInvalid =
        IF ~r.final /\ r.status = "invalid" THEN collector.nInvalid + 1 ELSE collector.nInvalid
  <2>1. r = results[1] /\ 1 \in DOMAIN results
    BY <1>0, <1>2, TailHas
  <2>2. r.src # 0 /\ CollectorType(collector)
    BY <2>1 DEF ExitInv, CommandInv
  <2> QED BY <1>1, <1>3, <2>2, AddType
<1>5. CASE ~ctxDone
  <2>1. collector.nInvalid = 0
    BY <1>2, <1>5 DEF StopInv
  <2>2. r.status = "invalid" => cmd' \in {"cancel", "panic"}
    BY <1>1
  <2> QED BY <1>2, <1>4, <1>5, <2>1, <2>2 DEF StopInv
<1>6. CASE ctxDone
  <2>1. Runners' = Runners
    BY <1>2 DEF Runners
  <2>2. PICK p : p = Tail(results)
    OBVIOUS
  <2>3. Cardinality(Real(p)) =
          IF r.final THEN Cardinality(Real(results)) ELSE Cardinality(Real(results)) - 1
    BY <1>0, <1>2, <2>2, RealTail
  <2>4. Cardinality(Real(results)') =
          IF r.final THEN Cardinality(Real(results)) ELSE Cardinality(Real(results)) - 1
    BY <1>2, <2>2, <2>3 DEF Real
  <2>5. Potential' = collector'.nInvalid + Cardinality(Real(results)') + Cardinality(Runners)
                       + Len(jobs) + (IF prod = "enqueue" THEN 1 ELSE 0)
    BY <1>2, <2>1 DEF Potential
  <2>6. Potential' <= Potential
    <3>1. collector'.nInvalid + Cardinality(Real(results)')
            <= collector.nInvalid + Cardinality(Real(results))
          /\ collector'.nInvalid \in Int /\ Cardinality(Real(results)') \in Int
      BY <1>0, <1>4, <2>4
    <3>2. PICK v, n : v = collector'.nInvalid /\ n = Cardinality(Real(results)')
      OBVIOUS
    <3>3. PICK u, m : u = collector.nInvalid /\ m = Cardinality(Real(results))
      OBVIOUS
    <3>4. PICK k, j, h : /\ k = Cardinality(Runners) /\ j = Len(jobs)
                         /\ h = IF prod = "enqueue" THEN 1 ELSE 0
      OBVIOUS
    <3>5. v + n <= u + m /\ v \in Int /\ n \in Int
      BY <3>1, <3>2, <3>3
    <3>6. u \in Int /\ m \in Int /\ k \in Int /\ j \in Int /\ h \in Int
      BY <1>0, <3>3, <3>4
    <3>7. v + n + k + j + h <= u + m + k + j + h
      BY <3>5, <3>6
    <3>8. Potential' = v + n + k + j + h /\ Potential = u + m + k + j + h
      BY <2>5, <3>2, <3>3, <3>4 DEF Potential
    <3> QED BY <3>7, <3>8
  <2>7. Potential \in Int /\ Potential' \in Int
    BY ExitCollectStep, PotentialIsNat, PotentialStaysNat
  <2>8. FailFastBound \in Int /\ FailFastBound' = FailFastBound
    BY PotentialType, ChanCapType DEF FailFastBound, ChanCap
  <2> QED BY <1>2, <1>6, <2>6, <2>7, <2>8 DEF StopInv
<1> QED BY <1>5, <1>6

\* What is in the channels, with the workers and in the producer's hand when
\* cancel() takes effect bounds what may still be counted.
LEMMA StopCancelStep ==
  ASSUME ExitInv, StopInv, FailFastCancel
  PROVE  StopInv'
<1>0. /\ Cardinality(Real(results)) \in Nat /\ Cardinality(Real(results)) <= Len(results)
      /\ Cardinality(Runners) \in Nat /\ Cardinality(Runners) <= Cardinality(Worker)
      /\ Len(jobs) \in Nat /\ Len(results) \in Nat /\ Cardinality(Worker) \in Nat
      /\ Len(jobs) <= ChanCap /\ Len(results) <= ChanCap /\ ChanCap \in Nat
  BY PotentialType, ChanCapType DEF ExitInv, EngineInv, TypeOK
<1>1. cmd = "cancel" /\ collector' = collector
  BY DEF FailFastCancel
<1>2. UNCHANGED <<results, worker, jobs, prod>> /\ ctxDone'
  BY DEF FailFastCancel, CancelCtx, engineVars, walkVars, poolVars, chanVars
<1>3. Real(results)' = Real(results) /\ Runners' = Runners
  BY <1>2 DEF Real, Runners
<1>4. Potential' = Potential
  BY <1>1, <1>2, <1>3 DEF Potential
<1>5. Potential <= FailFastBound
  <2>1. CASE ctxDone
    BY <2>1 DEF StopInv
  <2>2. CASE ~ctxDone
    <3>1. collector.nInvalid \in 0 .. 1
      BY <2>2 DEF StopInv
    <3> QED BY <1>0, <3>1 DEF Potential, FailFastBound
  <2> QED BY <2>1, <2>2
<1> QED BY <1>2, <1>4, <1>5 DEF StopInv, FailFastBound, ChanCap

LEMMA StopRestStep ==
  ASSUME ExitInv, StopInv, FlushAll \/ Exit \/ Terminated \/ UNCHANGED vars
  PROVE  StopInv'
<1>1. UNCHANGED <<ctxDone, results, worker, jobs, prod>>
  BY DEF FlushAll, Exit, Terminated, vars, engineVars
<1>2. collector'.nInvalid = collector.nInvalid
  BY FlushAllType DEF FlushAll, Exit, Terminated, vars, ExitInv, CommandInv
<1>3. cmd' = cmd \/ cmd \notin {"cancel", "panic"}
  BY DEF FlushAll, Exit, Terminated, vars
<1>4. Real(results)' = Real(results) /\ Runners' = Runners
  BY <1>1 DEF Real, Runners
<1>5. Potential' = Potential
  BY <1>1, <1>2, <1>4 DEF Potential
<1> QED BY <1>1, <1>2, <1>3, <1>5 DEF StopInv, FailFastBound, ChanCap

LEMMA StopInit == Init => StopInv
  BY DEF Init, EngineInit, NewCollector, StopInv

LEMMA StopStep == FailFast /\ ExitInv /\ StopInv /\ [Next]_vars => StopInv'
  BY StopEngineStep, StopCollectStep, StopCancelStep, StopRestStep DEF Next

\* The report is at most "a handful" longer than its first invalid entry, for
\* every pool: both channels, the workers and the producer.
THEOREM FailFastIsPrompt ==
  ASSUME FailFast
  PROVE  Spec => []FailFastStopsSoon
<1>1. ExitInv /\ StopInv => FailFastStopsSoon
  <2> SUFFICES ASSUME ExitInv, StopInv PROVE FailFastStopsSoon
    OBVIOUS
  <2>1. /\ Cardinality(Real(results)) \in Nat /\ Cardinality(Runners) \in Nat
        /\ Len(jobs) \in Nat /\ collector.nInvalid \in Nat /\ Cardinality(Worker) \in Nat
    BY PotentialType
  <2>2. ChanCap \in Nat
    BY ChanCapType
  <2>3. CASE ctxDone
    <3>1. collector.nInvalid <= Potential
      BY <2>1 DEF Potential
    <3>2. Potential <= FailFastBound /\ Potential \in Int /\ FailFastBound \in Int
      BY <2>1, <2>2, <2>3, PotentialIsNat DEF StopInv, FailFastBound
    <3> QED BY <2>1, <3>1, <3>2 DEF FailFastStopsSoon
  <2>4. CASE ~ctxDone
    BY <2>1, <2>2, <2>4 DEF StopInv, FailFastStopsSoon, FailFastBound
  <2> QED BY <2>3, <2>4
<1>2. ExitInv /\ StopInv /\ [Next]_vars => StopInv'
  BY StopStep
<1> QED BY <1>1, <1>2, StopInit, ExitInvariant, PTL DEF Spec

-----------------------------------------------------------------------------
(***************************************************************************)
(* III. The report: the facts about the reorder buffer hold of the results *)
(* that the engine delivers (ValidateSources_proofs), and make the command *)
(* implement the abstract report of OrderedReport.                         *)
(***************************************************************************)
(* The collector gets what its invariant asks for.                          *)

LabelOf(i) == [s \in DOMAIN i |-> i[s].label]

\* An element of the stream: a result of a job, or the sentinel of a source.
LEMMA ElementType ==
  ASSUME sources \in Inputs, NEW r, Accounted(r)
  PROVE  /\ r.src \in DOMAIN sources /\ r.label = sources[r.src].label /\ r.doc \in Nat
         /\ ~r.final => r.status \in Status /\ (r.label = NoLabel => r.doc = 0)
<1>1. sources \in Seq(SourceRec)
  BY InputsAssumption
<1>2. ASSUME Sentinel(r)
      PROVE  r.src \in DOMAIN sources /\ r.label = sources[r.src].label /\ r.doc \in Nat /\ r.final
  BY <1>2 DEF Sentinel, FinalOf
<1>3. ASSUME NEW j \in Nat \X Nat, ResultOfJob(r, j)
      PROVE  /\ r.src \in DOMAIN sources /\ r.label = sources[r.src].label /\ r.doc \in Nat
             /\ r.status \in Status /\ (r.label = NoLabel => r.doc = 0)
  <2>1. PICK st \in Verdicts(j) : r = ResultOf(j, st)
    BY <1>3 DEF ResultOfJob
  <2>2. j[1] \in DOMAIN sources /\ j[2] \in DOMAIN sources[j[1]].items /\ ItemOf(j).status # "none"
    BY <1>3 DEF ResultOfJob, Walked
  <2>3. sources[j[1]].items \in Seq(Item)
    BY <1>1, <2>2, ItemsType
  <2>4. ItemOf(j) \in Item
    BY <2>2, <2>3, ElementOfSeq DEF ItemOf
  <2>5. st \in Status
    BY <2>2, <2>4 DEF Verdicts, Item, Status
  <2>6. sources[j[1]].label = NoLabel => ItemOf(j).doc = 0
    BY <2>2, EmptyPathAssumption DEF ItemOf
  <2> QED BY <2>1, <2>2, <2>4, <2>5, <2>6 DEF ResultOf, Item
<1> QED BY <1>2, <1>3 DEF Accounted

\* Without a cancellation a result is one the validator owes.
LEMMA ResultIsOwed ==
  ASSUME sources \in Inputs, NEW r, Accounted(r), ~r.final, ~ctxDone
  PROVE  r \in AllOwed(sources)
<1>1. PICK j \in Nat \X Nat : ResultOfJob(r, j)
  BY DEF Accounted, Sentinel, FinalOf
<1>2. /\ j[1] \in DOMAIN sources /\ j[2] \in DOMAIN sources[j[1]].items /\ ItemOf(j).status # "none"
      /\ r = ResultOf(j, ItemOf(j).status)
  BY <1>1 DEF ResultOfJob, Walked, Verdicts
<1>3. ItemOf(j) \in ToSet(sources[j[1]].items)
  BY <1>2 DEF ItemOf, ToSet
<1>4. r \in Owed(sources, j[1])
  BY <1>2, <1>3 DEF ResultOf, Owed
<1> QED BY <1>2, <1>4 DEF AllOwed

LEMMA StreamReceived ==
  ASSUME DistinctLabels, EngineInv, NEW d, NEW p, Carries(d, p)
  PROVE  Received(SetOf(p), LabelOf(sources))
<1>1. sources \in Inputs /\ sources \in Seq(SourceRec)
  BY InputsAssumption DEF EngineInv, TypeOK
<1>2. DOMAIN sources = 1 .. Len(sources) /\ Len(sources) \in Nat
  BY <1>1, LenProperties
<1>3. \A r \in Entries(SetOf(p)) : r.label = NoLabel => r.doc = 0
  <2> SUFFICES ASSUME NEW k \in DOMAIN p, ~p[k].final
               PROVE  p[k].label = NoLabel => p[k].doc = 0
    BY DEF Entries, SetOf
  <2>1. Accounted(p[k])
    BY DEF Carries, StreamIs, CarriedOnce
  <2> QED BY <1>1, <2>1, ElementType
<1>4. \A s, t \in DOMAIN sources : sources[s].label = sources[t].label => s = t
  BY <1>1 DEF DistinctLabels
<1>5. \A r \in SetOf(p) : r.src \in DOMAIN sources /\ r.label = sources[r.src].label /\ r.doc \in Nat
  <2> SUFFICES ASSUME NEW k \in DOMAIN p
               PROVE  p[k].src \in DOMAIN sources /\ p[k].label = sources[p[k].src].label
                      /\ p[k].doc \in Nat
    BY DEF SetOf
  <2>1. Accounted(p[k])
    BY DEF Carries, StreamIs, CarriedOnce
  <2> QED BY <1>1, <2>1, ElementType
<1>6. \A x, y \in Entries(SetOf(p)) : x.src = y.src /\ x.doc = y.doc => x = y
  <2> SUFFICES ASSUME NEW k \in DOMAIN p, NEW m \in DOMAIN p, ~p[k].final, ~p[m].final,
                      p[k].src = p[m].src, p[k].doc = p[m].doc
               PROVE  k = m
    BY DEF Entries, SetOf
  <2>1. p[k].final = p[m].final
    <3>1. p[k] \in ResultRec /\ p[m] \in ResultRec
      BY StreamType
    <3>2. p[k].final \in BOOLEAN /\ p[m].final \in BOOLEAN
      BY <3>1 DEF ResultRec
    <3> QED BY <3>2, Zenon
  <2> QED BY <2>1 DEF Carries, StreamIs, CarriedOnce, SameKey
<1>7. \A s \in DOMAIN sources : 1 .. s \subseteq DOMAIN sources
  BY <1>2
<1>8. DOMAIN sources \subseteq Nat \ {0}
  BY <1>2
<1> QED BY <1>3, <1>4, <1>5, <1>6, <1>7, <1>8 DEF Received, LabelOf

\* The reader has received a part of the stream.
LEMMA ReceivedPart ==
  ASSUME EngineInv, NEW d, NEW p, Carries(d, p)
  PROVE  /\ DOMAIN d = 1 .. Len(d) /\ Len(d) \in Nat
         /\ \A k \in DOMAIN d : k \in DOMAIN p /\ p[k] = d[k]
         /\ SetOf(d) \subseteq SetOf(p)
         /\ \A r \in SetOf(d) : Accounted(r)
<1>1. d \in Seq(ResultRec) /\ results \in Seq(ResultRec) /\ p = d \o results
  BY DEF Carries, EngineInv, TypeOK
<1>2. DOMAIN d = 1 .. Len(d) /\ Len(d) \in Nat /\ Len(results) \in Nat
  BY <1>1, LenProperties
<1>3. \A k \in DOMAIN d : k \in DOMAIN p /\ p[k] = d[k]
  BY <1>1, <1>2, ConcatProperties, LenProperties
<1>4. \A k \in DOMAIN p : Accounted(p[k])
  BY DEF Carries, StreamIs, CarriedOnce
<1> QED BY <1>2, <1>3, <1>4 DEF SetOf

\* The result at the head of the channel is new to its reader, and of a
\* source whose sentinel has not come.
LEMMA HeadIsNew ==
  ASSUME EngineInv, NEW d, NEW p, Carries(d, p), results # <<>>, NEW r, r = Head(results)
  PROVE  /\ r \in SetOf(p) /\ r \notin SetOf(d) /\ SetOf(Append(d, r)) = SetOf(d) \cup {r}
         /\ ~\E x \in SetOf(d) : x.final /\ x.src = r.src
<1>1. /\ d \in Seq(ResultRec) /\ results \in Seq(ResultRec) /\ p = d \o results
      /\ SentinelsEnd(p) /\ CarriedOnce(p)
  BY DEF Carries, EngineInv, TypeOK, StreamIs
<1>2. r \in ResultRec /\ r = results[1] /\ 1 \in DOMAIN results
  BY <1>1, TailHas
<1>3. DOMAIN d = 1 .. Len(d) /\ Len(d) \in Nat /\ Len(results) \in Nat /\ DOMAIN results = 1 .. Len(results)
  BY <1>1, LenProperties
<1>4. Len(d) + 1 \in DOMAIN p /\ p[Len(d) + 1] = r
  <2>1. 1 \in 1 .. Len(results)
    BY <1>2, <1>3
  <2> QED BY <1>1, <1>2, <1>3, <2>1, ConcatProperties, LenProperties
<1>5. \A k \in DOMAIN d : k \in DOMAIN p /\ p[k] = d[k] /\ k < Len(d) + 1
  BY <1>3, ReceivedPart
<1>6. r \notin SetOf(d)
  <2> SUFFICES ASSUME NEW k \in DOMAIN d, d[k] = r PROVE FALSE
    BY DEF SetOf
  <2>1. k = Len(d) + 1
    BY <1>1, <1>4, <1>5 DEF CarriedOnce, SameKey
  <2> QED BY <1>3, <2>1
<1>7. ~\E x \in SetOf(d) : x.final /\ x.src = r.src
  <2> SUFFICES ASSUME NEW k \in DOMAIN d, d[k].final, d[k].src = r.src PROVE FALSE
    BY DEF SetOf
  <2>1. k \in DOMAIN p /\ p[k].final /\ p[k].src = p[Len(d) + 1].src /\ k < Len(d) + 1
    BY <1>4, <1>5
  <2> QED BY <1>1, <1>4, <2>1 DEF SentinelsEnd
<1>8. SetOf(Append(d, r)) = SetOf(d) \cup {r}
  <2>1. PICK e : e = Append(d, r)
    OBVIOUS
  <2>2. DOMAIN e = DOMAIN d \cup {Len(d) + 1} /\ e[Len(d) + 1] = r /\ \A k \in DOMAIN d : e[k] = d[k]
    BY <1>1, <1>2, <1>3, <2>1, AppendProperties, LenProperties
  <2> QED BY <2>1, <2>2 DEF SetOf
<1> QED BY <1>4, <1>6, <1>7, <1>8 DEF SetOf
-----------------------------------------------------------------------------
(* The invariant of the command.                                            *)

\* The collector is where the results received so far put it.
Reported(d) ==
  IF cmd \in {"range", "cancel"}
  THEN CollectorInv(collector, LabelOf(sources), SetOf(d))
  ELSE /\ Flushed(collector, LabelOf(sources), SetOf(d), {NoLabel})
       /\ ~ctxDone => Flushed(collector, LabelOf(sources), SetOf(d), {})

\* The first invalid result came before any cancellation.
FirstIsOwed(d) ==
  collector.nInvalid > 0 =>
    \E r \in SetOf(d) : ~r.final /\ r.status = "invalid" /\ r \in AllOwed(sources)

ReportInv ==
  /\ cmd # "panic"
  /\ \E d, p : Carries(d, p) /\ Reported(d) /\ FirstIsOwed(d)

LEMMA ReportInvInit == DistinctLabels /\ Init => ReportInv
<1> SUFFICES ASSUME DistinctLabels, Init PROVE ReportInv
  OBVIOUS
<1>1. PICK d : d = <<>>
  OBVIOUS
<1>2. EngineInit /\ EngineInv /\ collector = NewCollector /\ cmd = "range"
  BY EngineInvInit DEF Init
<1>3. Carries(d, d)
  BY <1>1, <1>2, StreamBegins
<1>4. SetOf(d) = {}
  BY <1>1 DEF SetOf
<1>5. Received({}, LabelOf(sources))
  BY <1>2, <1>3, <1>4, StreamReceived
<1>6. CollectorInv(NewCollector, LabelOf(sources), {})
  BY <1>5, NewGathers
<1>7. NewCollector.nInvalid = 0
  BY DEF NewCollector
<1> QED BY <1>2, <1>3, <1>4, <1>6, <1>7 DEF ReportInv, Reported, FirstIsOwed

LEMMA ReportEngineStep ==
  ASSUME ExitInv, ReportInv, Engine, UNCHANGED cmdVars
  PROVE  ReportInv'
<1>1. PICK d, p : Carries(d, p) /\ Reported(d) /\ FirstIsOwed(d)
  BY DEF ReportInv
<1>2. EngineInv /\ UncutInv /\ sources' = sources
  BY InputStays DEF ExitInv
<1>3. PICK q : Carries(d, q)'
  BY <1>1, <1>2, StreamEngineStep
<1>4. collector' = collector /\ cmd' = cmd
  BY DEF cmdVars
<1>5. ctxDone' = ctxDone
  BY DEF Engine, Producer, EmitDoc, SendJob, AbandonJob, EmitFinal, WalkReturns, CloseJobs,
     JoinWorkers, DrainJob, DrainEnd, CloseResults, WorkerStep, TakeJob, WorkerReturns, PushResult,
     DropResult, FinishJob, WaiterStep, WaitReturns, PushFinal, DropFinal
<1>6. Reported(d)' /\ FirstIsOwed(d)'
  BY <1>1, <1>2, <1>4, <1>5 DEF Reported, FirstIsOwed
<1> QED BY <1>3, <1>4, <1>6 DEF ReportInv

\* What the collector does with the next result, and that it does not panic.
LEMMA CollectReports ==
  ASSUME DistinctLabels, ExitInv, cmd = "range", NEW d, NEW p, Carries(d, p), Reported(d),
         results # <<>>, NEW r, r = Head(results)
  PROVE  /\ CollectorInv(Add(collector, r), LabelOf(sources), SetOf(Append(d, r)))
         /\ Grows(collector, Add(collector, r))
<1>0. EngineInv
  BY DEF ExitInv
<1>1. PICK lab : lab = LabelOf(sources)
  OBVIOUS
<1>2. PICK G : G = SetOf(d)
  OBVIOUS
<1>3. CollectorInv(collector, lab, G)
  BY <1>1, <1>2 DEF Reported
<1>4. /\ r \in SetOf(p) /\ r \notin G /\ SetOf(Append(d, r)) = G \cup {r}
      /\ ~\E x \in G : x.final /\ x.src = r.src
  BY <1>0, <1>2, HeadIsNew
<1>5. Received(SetOf(p), lab)
  BY <1>0, <1>1, StreamReceived
<1>6. G \cup {r} \subseteq SetOf(p)
  BY <1>0, <1>2, <1>4, ReceivedPart
<1>7. Received(G \cup {r}, lab)
  BY <1>5, <1>6, ReceivedBefore
<1>8. CASE r.final
  <2>1. CollectorInv(Add(collector, r), lab, G \cup {r})
    BY <1>3, <1>4, <1>7, <1>8, AddFinalGathers
  <2>2. Grows(collector, Add(collector, r))
    BY <1>3, <1>4, <1>7, <1>8, AddFinalGathers
  <2> QED BY <1>1, <1>4, <2>1, <2>2
<1>9. CASE ~r.final
  <2>1. CollectorInv(Add(collector, r), lab, G \cup {r})
    BY <1>3, <1>4, <1>7, <1>9, AddEntryGathers
  <2>2. Grows(collector, Add(collector, r))
    BY <1>3, <1>4, <1>7, <1>9, AddEntryGathers
  <2> QED BY <1>1, <1>4, <2>1, <2>2
<1> QED BY <1>8, <1>9

LEMMA ReportCollectStep ==
  ASSUME DistinctLabels, ExitInv, ReportInv, Collect
  PROVE  ReportInv' /\ Grows(collector, collector')
<1>1. PICK d, p : Carries(d, p) /\ Reported(d) /\ FirstIsOwed(d)
  BY DEF ReportInv
<1>2. PICK r : Deliver(r) /\ collector' = Add(collector, r)
               /\ cmd' = IF collector'.panic THEN "panic"
                         ELSE IF FailFast /\ r.status = "invalid" THEN "cancel" ELSE "range"
  BY DEF Collect
<1>3. /\ results # <<>> /\ r = Head(results) /\ cmd = "range"
      /\ UNCHANGED <<sources, ctxDone>>
  BY <1>2 DEF Collect, Deliver
<1>4. EngineInv /\ UncutInv /\ CommandInv /\ sources \in Inputs
  BY DEF ExitInv, EngineInv, TypeOK
<1>5. PICK e : e = Append(d, r)
  OBVIOUS
<1>6. r \in ResultRec /\ Carries(e, p)'
  BY <1>1, <1>2, <1>4, <1>5, StreamReceiveStep
<1>7. CollectorInv(collector', LabelOf(sources), SetOf(e)) /\ Grows(collector, collector')
  BY <1>1, <1>2, <1>3, <1>5, CollectReports
<1>8. cmd' \in {"range", "cancel"}
  <2>1. ~collector'.panic
    BY <1>7 DEF CollectorInv
  <2> QED BY <1>2, <2>1, Zenon
<1>9. Reported(e)'
  BY <1>3, <1>7, <1>8 DEF Reported
<1>10. FirstIsOwed(e)'
  <2> SUFFICES ASSUME collector'.nInvalid > 0
               PROVE  \E x \in SetOf(e) : ~x.final /\ x.status = "invalid" /\ x \in AllOwed(sources)
    BY <1>3 DEF FirstIsOwed
  <2>1. SetOf(e) = SetOf(d) \cup {r} /\ r \in SetOf(p)
    BY <1>1, <1>3, <1>4, <1>5, HeadIsNew
  <2>2. CASE collector.nInvalid > 0
    BY <1>1, <2>1, <2>2 DEF FirstIsOwed
  <2>3. CASE ~(collector.nInvalid > 0)
    <3>1. r.src # 0 /\ CollectorType(collector) /\ collector.nInvalid \in Nat
      <4>1. r = results[1] /\ 1 \in DOMAIN results
        BY <1>3, <1>4, TailHas DEF EngineInv, TypeOK
      <4> QED BY <1>4, <4>1 DEF CommandInv, CollectorType
    <3>2. ~r.final /\ r.status = "invalid"
      BY <1>2, <1>6, <2>3, <3>1, AddType
    <3>3. ~ctxDone
      BY <1>4, <2>3 DEF CommandInv
    <3>4. Accounted(r)
      BY <1>1, <2>1 DEF Carries, StreamIs, CarriedOnce, SetOf
    <3>5. r \in AllOwed(sources)
      BY <1>4, <3>2, <3>3, <3>4, ResultIsOwed
    <3> QED BY <2>1, <3>2, <3>5
  <2> QED BY <2>2, <2>3
<1> QED BY <1>6, <1>7, <1>8, <1>9, <1>10 DEF ReportInv

\* At the end of a stream that nobody cut, a sentinel has come from every
\* source: every slot of the order is filled.
LEMMA EndFillsSlots ==
  ASSUME EngineInv, UncutInv, ~ctxDone, resultsClosed, results = <<>>, NEW d, NEW p, Carries(d, p),
         CollectorInv(collector, LabelOf(sources), SetOf(d)), NEW k \in DOMAIN collector.order
  PROVE  collector.order[k] = LabelOf(sources)[k]
<1>1. PICK lab, G, c : lab = LabelOf(sources) /\ G = SetOf(d) /\ c = collector
  OBVIOUS
<1>2. Slots(c.order, lab, G)
  BY <1>1 DEF CollectorInv
<1>3. k \in DOMAIN sources
  BY <1>1, <1>2 DEF Slots, LabelOf
<1>4. waiter[k] = "done"
  BY <1>3, NothingWaits
<1>5. PICK m \in DOMAIN p : p[m] = FinalOf(k)
  BY <1>3, <1>4 DEF Carries, StreamIs, DeliveredAll
<1>6. p = d
  <2>1. d \in Seq(ResultRec) /\ p = d \o <<>>
    BY DEF Carries
  <2> QED BY <2>1, ConcatEmptySeq
<1>7. FinalOf(k) \in G /\ FinalOf(k).src = k
  BY <1>1, <1>5, <1>6 DEF SetOf, FinalOf
<1>8. c.order[k] = lab[k]
  BY <1>2, <1>7 DEF Slots
<1> QED BY <1>1, <1>8

LEMMA ReportFlushStep ==
  ASSUME ExitInv, ReportInv, FlushAll
  PROVE  ReportInv' /\ Grows(collector, collector')
<1>1. PICK d, p : Carries(d, p) /\ Reported(d) /\ FirstIsOwed(d)
  BY DEF ReportInv
<1>2. /\ cmd = "range" /\ cmd' = "summary" /\ UNCHANGED engineVars
      /\ collector' = FlushRemainingSources(collector)
      /\ resultsClosed /\ results = <<>>
  BY DEF FlushAll, StreamEnds
<1>3. EngineInv /\ UncutInv /\ CollectorType(collector)
  BY DEF ExitInv, CommandInv
<1>4. Carries(d, p)'
  BY <1>1, <1>2, <1>3, StreamRestStep
<1>5. sources' = sources /\ ctxDone' = ctxDone
  BY <1>2 DEF engineVars
<1>6. PICK lab, G, X : lab = LabelOf(sources) /\ G = SetOf(d) /\ X = {NoLabel}
  OBVIOUS
<1>7. CollectorInv(collector, lab, G)
  BY <1>1, <1>2, <1>6 DEF Reported
<1>8. Flushed(collector', lab, G, X) /\ Grows(collector, collector')
  <2>1. NoLabel \in X
    BY <1>6
  <2>2. /\ Flushed(FlushRemainingSources(collector), lab, G, X)
        /\ Grows(collector, FlushRemainingSources(collector))
    BY <1>7, <2>1, FlushRemainingGathers
  <2> QED BY <1>2, <2>2
<1>9. ASSUME ~ctxDone
      PROVE  Flushed(collector', lab, G, {})
  <2>1. \A k \in DOMAIN collector.order : collector.order[k] = lab[k]
    BY <1>1, <1>2, <1>3, <1>6, <1>7, <1>9, EndFillsSlots
  <2>2. Flushed(FlushRemainingSources(collector), lab, G, {})
    BY <1>7, <2>1, FlushRemainingGathers
  <2> QED BY <1>2, <2>2
<1>10. Reported(d)'
  BY <1>2, <1>5, <1>6, <1>8, <1>9 DEF Reported
<1>11. collector'.nInvalid = collector.nInvalid
  BY <1>2, <1>3, FlushAllType
<1> QED BY <1>1, <1>2, <1>4, <1>5, <1>8, <1>10, <1>11 DEF ReportInv, FirstIsOwed

LEMMA ReportRestStep ==
  ASSUME ExitInv, ReportInv, FailFastCancel \/ Exit \/ Terminated \/ UNCHANGED vars
  PROVE  ReportInv'
<1>1. PICK d, p : Carries(d, p) /\ Reported(d) /\ FirstIsOwed(d)
  BY DEF ReportInv
<1>2. CancelCtx \/ UNCHANGED engineVars
  BY DEF FailFastCancel, Exit, Terminated, vars
<1>3. Carries(d, p)'
  BY <1>1, <1>2, StreamRestStep DEF ExitInv
<1>4. sources' = sources /\ collector' = collector
  BY DEF FailFastCancel, CancelCtx, Exit, Terminated, vars, engineVars
<1>5. \/ cmd' = cmd
      \/ cmd = "cancel" /\ cmd' = "range"
      \/ cmd = "summary" /\ cmd' = "exit"
  BY DEF FailFastCancel, Exit, Terminated, vars
<1>6. ctxDone' = ctxDone \/ (cmd = "cancel" /\ cmd' = "range")
  <2>1. CASE FailFastCancel
    BY <2>1 DEF FailFastCancel
  <2>2. CASE Exit \/ Terminated \/ UNCHANGED vars
    BY <2>2 DEF Exit, Terminated, vars, engineVars
  <2> QED BY <2>1, <2>2
<1>7. Reported(d)' /\ FirstIsOwed(d)'
  BY <1>1, <1>4, <1>5, <1>6 DEF Reported, FirstIsOwed
<1> QED BY <1>3, <1>5, <1>7 DEF ReportInv

LEMMA ReportInvStep ==
  ASSUME DistinctLabels
  PROVE  ExitInv /\ ReportInv /\ [Next]_vars => ReportInv'
BY ReportEngineStep, ReportCollectStep, ReportFlushStep, ReportRestStep DEF Next

LEMMA ReportInvariant ==
  ASSUME DistinctLabels
  PROVE  Spec => [](ExitInv /\ ReportInv)
<1>1. Init => ReportInv
  BY ReportInvInit
<1>2. ExitInv /\ ReportInv /\ [Next]_vars => ReportInv'
  BY ReportInvStep
<1> QED BY <1>1, <1>2, ExitInvariant, PTL DEF Spec
-----------------------------------------------------------------------------
(* What every report shows, cut short or not.                               *)

\* The part of the invariant that holds before and after the last flush, cut
\* short or not.
LEMMA ReportGathered ==
  ASSUME DistinctLabels, ExitInv, NEW d, NEW p, Carries(d, p), Reported(d)
  PROVE  /\ Received(SetOf(d), LabelOf(sources)) /\ Counts(collector, SetOf(d))
         /\ \E t : Gathered(collector, LabelOf(sources), SetOf(d), t, {NoLabel})
         /\ \A r \in Entries(SetOf(d)) : r.status \in {"valid", "invalid", "skipped"}
<1>1. EngineInv /\ sources \in Inputs
  BY DEF ExitInv, EngineInv, TypeOK
<1>2. ASSUME NEW r \in Entries(SetOf(d))
      PROVE  r.status \in {"valid", "invalid", "skipped"}
  <2>1. r \in SetOf(d) /\ ~r.final
    BY DEF Entries
  <2>2. Accounted(r)
    BY <1>1, <2>1, ReceivedPart
  <2> QED BY <1>1, <2>1, <2>2, ElementType DEF Status
<1>3. /\ Received(SetOf(d), LabelOf(sources)) /\ Counts(collector, SetOf(d))
      /\ \E t : Gathered(collector, LabelOf(sources), SetOf(d), t, {NoLabel})
  <2>1. PICK lab, G, X : lab = LabelOf(sources) /\ G = SetOf(d) /\ X = {NoLabel}
    OBVIOUS
  <2>2. CASE cmd \in {"range", "cancel"}
    <3>1. CollectorInv(collector, lab, G)
      BY <2>1, <2>2 DEF Reported
    <3>2. Gathered(collector, lab, G, collector.current, {})
      BY <3>1 DEF CollectorInv
    <3>3. Gathered(collector, lab, G, collector.current, X)
      BY <3>2, GatheredWeaker
    <3> QED BY <2>1, <3>1, <3>3 DEF CollectorInv
  <2>3. CASE cmd \notin {"range", "cancel"}
    BY <2>3 DEF Reported, Flushed
  <2> QED BY <2>2, <2>3
<1> QED BY <1>2, <1>3

\* Every result counted is written once or waits in a buffer, by status, and
\* nothing waits when the summary is due.
THEOREM NothingCountedIsLost ==
  ASSUME DistinctLabels
  PROVE  Spec => []Conservation
<1>1. ExitInv /\ ReportInv => Conservation
  <2> SUFFICES ASSUME ExitInv, ReportInv PROVE Conservation
    OBVIOUS
  <2>1. PICK d, p : Carries(d, p) /\ Reported(d)
    BY DEF ReportInv
  <2>2. PICK lab, G : lab = LabelOf(sources) /\ G = SetOf(d)
    OBVIOUS
  <2>3. /\ Received(G, lab) /\ Counts(collector, G)
        /\ \E t : Gathered(collector, lab, G, t, {NoLabel})
        /\ \A r \in Entries(G) : r.status \in {"valid", "invalid", "skipped"}
    BY <2>1, <2>2, ReportGathered
  <2>4. PICK t, X : Gathered(collector, lab, G, t, X)
    BY <2>3
  <2>5. IsFiniteSet(G)
    BY <2>3 DEF Counts
  <2>6. ToSet(collector.out) \cup PendingIn(collector) = Entries(G)
    BY <2>3, <2>4, <2>5, Conserves
  <2>7. Len(collector.out) + Cardinality(PendingIn(collector)) = Cardinality(Entries(G))
    BY <2>3, <2>4, <2>5, Conserves
  <2>8. Total(collector) = Cardinality(Entries(G))
    BY <2>3, TotalIsEntries
  <2>9. /\ collector.nValid = Cardinality({r \in Entries(G) : r.status = "valid"})
        /\ collector.nInvalid = Cardinality({r \in Entries(G) : r.status = "invalid"})
        /\ collector.nSkipped = Cardinality({r \in Entries(G) : r.status = "skipped"})
    BY <2>3 DEF Counts, StatusIn
  <2>10. cmd \in {"summary", "exit"} => PendingIn(collector) = {}
    <3> SUFFICES ASSUME cmd \in {"summary", "exit"} PROVE PendingIn(collector) = {}
      OBVIOUS
    <3>1. PICK Y : Flushed(collector, lab, G, Y)
      BY <2>1, <2>2 DEF Reported
    <3> QED BY <3>1, FlushedEmpty
  <2> QED BY <2>6, <2>7, <2>8, <2>9, <2>10 DEF Conservation
<1> QED BY <1>1, ReportInvariant, PTL

\* Between two results the collector sits on no source it could have passed
\* and on no entry it could have written, unless that is the source of the
\* empty path, which may be among the others.
THEOREM StreamsPromptly ==
  ASSUME DistinctLabels
  PROVE  Spec => []Prompt
<1>1. ReportInv => Prompt
  <2> SUFFICES ASSUME ReportInv, cmd \in {"range", "cancel"},
                      collector.current \in DOMAIN collector.order,
                      sources[collector.current].label # NoLabel
               PROVE  LET c == collector
                          l == sources[c.current].label
                      IN  /\ l \notin c.completed
                          /\ l \in DOMAIN c.bufs => c.bufs[l].next \notin DOMAIN c.bufs[l].pending
    BY DEF Prompt
  <2>1. PICK d, p : Carries(d, p) /\ Reported(d)
    BY DEF ReportInv
  <2>2. PICK c, lab, G, s, l : /\ c = collector /\ lab = LabelOf(sources) /\ G = SetOf(d)
                               /\ s = c.current /\ l = sources[s].label
    OBVIOUS
  <2>3. /\ Received(G, lab) /\ Slots(c.order, lab, G) /\ Buffers(c, G)
        /\ c.completed = CompletedIn(G) /\ Advanced(c)
    BY <2>1, <2>2 DEF Reported, CollectorInv, Gathered
  <2>4. /\ s \in DOMAIN c.order /\ s \in DOMAIN lab
        /\ lab[s] \in DOMAIN c.bufs \/ lab[s] \in c.completed => c.order[s] = lab[s]
    BY <2>2, <2>3, SlotsName
  <2>5. lab[s] = l /\ l # NoLabel
    BY <2>2, <2>4 DEF LabelOf
  <2>6. CASE c.order[s] = l
    BY <2>2, <2>3, <2>4, <2>5, <2>6 DEF Advanced, Stuck
  <2>7. CASE c.order[s] # l
    BY <2>2, <2>4, <2>5, <2>7
  <2> QED BY <2>6, <2>7
<1> QED BY <1>1, ReportInvariant, PTL

\* However --fail-fast cuts the report, it repeats nothing, and all but the
\* error of the empty path keep the order of the sources and of the documents
\* in each.
THEOREM CutReportsKeepOrder ==
  ASSUME DistinctLabels
  PROVE  Spec => []CutReportInOrder
<1>1. ExitInv /\ ReportInv => CutReportInOrder
  <2> SUFFICES ASSUME ExitInv, ReportInv, NEW k \in DOMAIN collector.out,
                      NEW m \in DOMAIN collector.out, k < m
               PROVE  /\ collector.out[k] # collector.out[m]
                      /\ NoLabel \notin {collector.out[k].label, collector.out[m].label} =>
                           Precedes(collector.out[k], collector.out[m])
    BY DEF CutReportInOrder
  <2>1. PICK d, p : Carries(d, p) /\ Reported(d)
    BY DEF ReportInv
  <2>2. PICK lab, G : lab = LabelOf(sources) /\ G = SetOf(d)
    OBVIOUS
  <2>3. Received(G, lab) /\ \E t : Gathered(collector, lab, G, t, {NoLabel})
    BY <2>1, <2>2, ReportGathered
  <2>4. PICK t, X : Gathered(collector, lab, G, t, X) /\ X = {NoLabel}
    BY <2>3
  <2>5. PICK c, x, y : c = collector /\ x = collector.out[k] /\ y = collector.out[m]
    OBVIOUS
  <2>6. /\ x \in Entries(G) /\ x.src \in Nat /\ x.doc \in Nat /\ PlaceIn(c, x) \in Nat
        /\ y \in Entries(G) /\ y.src \in Nat /\ y.doc \in Nat /\ PlaceIn(c, y) \in Nat
        /\ x # y
    BY <2>3, <2>4, <2>5, WrittenOnce
  <2> SUFFICES ASSUME x.label # NoLabel, y.label # NoLabel PROVE Precedes(x, y)
    BY <2>5, <2>6
  <2>7. x.src < y.src \/ (x.src = y.src /\ PlaceIn(c, x) < PlaceIn(c, y))
    BY <2>4, <2>5 DEF Gathered, WrittenInOrder, PlacedBefore
  <2>8. x.src = y.src => x.label = y.label
    BY <2>3, <2>6 DEF Received, Entries
  <2>9. CASE x.src = y.src /\ PlaceIn(c, x) < PlaceIn(c, y)
    <3>1. x.doc # y.doc
      <4>1. x.doc = y.doc => PlaceIn(c, x) = PlaceIn(c, y)
        BY <2>8, <2>9 DEF PlaceIn
      <4> QED BY <2>6, <2>9, <4>1
    <3>2. x.doc # 0 /\ y.doc # 0 => x.doc < y.doc
      BY <2>9 DEF PlaceIn
    <3>3. y.doc # 0 => x.doc < y.doc
      BY <2>6, <3>2
    <3> QED BY <2>9, <3>1, <3>3 DEF Precedes
  <2> QED BY <2>7, <2>9 DEF Precedes
<1> QED BY <1>1, ReportInvariant, PTL
-----------------------------------------------------------------------------
(* The order the report owes.                                               *)

DocsOf(i, s) == {r.doc : r \in Owed(i, s)}

LEMMA OwedType ==
  ASSUME NEW i \in Inputs, NEW s \in DOMAIN i
  PROVE  /\ IsFiniteSet(Owed(i, s))
         /\ \A r \in Owed(i, s) :
              r.src = s /\ r.label = i[s].label /\ r.doc \in Nat /\ ~r.final
         /\ \A x, y \in Owed(i, s) : x.doc = y.doc => x = y
<1>1. i \in Seq(SourceRec)
  BY InputsAssumption
<1>2. i[s] \in SourceRec
  BY <1>1, ElementOfSeq, LenProperties
<1>3. PICK q : q = i[s].items
  OBVIOUS
<1>4. q \in Seq(Item)
  BY <1>2, <1>3 DEF SourceRec
<1>5. DOMAIN q = 1 .. Len(q) /\ Len(q) \in Nat
  BY <1>4, LenProperties
<1>6. \A k \in DOMAIN q : q[k] \in Item
  BY <1>4, <1>5, ElementOfSeq
<1> DEFINE Of(it) == [src |-> s, label |-> i[s].label, doc |-> it.doc, status |-> it.status,
                      final |-> FALSE]
<1>7. Owed(i, s) = {Of(it) : it \in {x \in ToSet(q) : x.status # "none"}}
  BY <1>3 DEF Owed
<1>8. ToSet(q) = {q[k] : k \in DOMAIN q}
  BY DEF ToSet
<1>9. \A r \in Owed(i, s) : \E k \in DOMAIN q : r = Of(q[k])
  <2> HIDE DEF Of
  <2> QED BY <1>7, <1>8
<1>10. IsFiniteSet(Owed(i, s))
  <2>1. IsFiniteSet(1 .. Len(q))
    BY <1>5, FS_Interval
  <2>2. PICK S : S = {Of(q[k]) : k \in 1 .. Len(q)}
    OBVIOUS
  <2>3. IsFiniteSet(S)
    <3> DEFINE f == [k \in 1 .. Len(q) |-> Of(q[k])]
    <3>1. f \in Surjection(1 .. Len(q), S)
      <4> HIDE DEF Of
      <4> QED BY <2>2 DEF Surjection
    <3> QED BY <2>1, <3>1, FS_Surjection
  <2>4. Owed(i, s) \subseteq S
    <3> HIDE DEF Of
    <3> QED BY <1>5, <1>9, <2>2
  <2> QED BY <2>3, <2>4, FS_Subset
<1>11. \A r \in Owed(i, s) :
         r.src = s /\ r.label = i[s].label /\ r.doc \in Nat /\ ~r.final
  BY <1>6, <1>9 DEF Item
<1>12. \A x, y \in Owed(i, s) : x.doc = y.doc => x = y
  <2> SUFFICES ASSUME NEW k \in DOMAIN q, NEW m \in DOMAIN q, Of(q[k]).doc = Of(q[m]).doc
               PROVE  Of(q[k]) = Of(q[m])
    <3> HIDE DEF Of
    <3> QED BY <1>9
  <2>1. k = m
    BY <1>3, DocsAssumption
  <2> QED BY <2>1
<1> QED BY <1>10, <1>11, <1>12

\* The gap is the first DocIndex no result has.
LEMMA GapIs ==
  ASSUME NEW i \in Inputs, NEW s \in DOMAIN i
  PROVE  /\ Gap(i, s) \in Nat \ {0} /\ Gap(i, s) \notin DocsOf(i, s)
         /\ \A n \in 1 .. Gap(i, s) - 1 : n \in DocsOf(i, s)
<1>1. /\ IsFiniteSet(Owed(i, s))
      /\ \A x, y \in Owed(i, s) : x.doc = y.doc => x = y
  BY OwedType
<1>2. PICK O, D : O = Owed(i, s) /\ D = DocsOf(i, s)
  OBVIOUS
<1>3. IsFiniteSet(D) /\ Cardinality(D) = Cardinality(O)
  <2> DEFINE f == [r \in O |-> r.doc]
  <2>1. f \in Bijection(O, D)
    BY <1>1, <1>2 DEF DocsOf, Bijection, Injection, Surjection, IsInjective
  <2>2. ExistsBijection(O, D)
    BY <2>1 DEF ExistsBijection
  <2> QED BY <1>1, <1>2, <2>2, FS_Bijection
<1>4. Cardinality(O) \in Nat
  BY <1>1, <1>2, FS_CardinalityType
<1>5. \A n : (~\E r \in Owed(i, s) : r.doc = n) <=> n \notin D
  BY <1>2 DEF DocsOf
<1>6. Gap(i, s) = Min({n \in 1 .. 1 + Cardinality(D) : n \notin D})
  <2>1. 1 .. Cardinality(O) + 1 = 1 .. 1 + Cardinality(D)
    BY <1>3, <1>4
  <2>2. {n \in 1 .. Cardinality(Owed(i, s)) + 1 : ~\E r \in Owed(i, s) : r.doc = n}
          = {n \in 1 .. 1 + Cardinality(D) : n \notin D}
    BY <1>2, <1>5, <2>1
  <2> QED BY <2>2 DEF Gap
<1>7. /\ Gap(i, s) \in Nat /\ 1 <= Gap(i, s) /\ Gap(i, s) \notin D
      /\ \A n \in 1 .. Gap(i, s) - 1 : n \in D
  BY <1>3, <1>6, FirstGap
<1> QED BY <1>2, <1>7

LEMMA AllOwedType ==
  ASSUME NEW i \in Inputs
  PROVE  /\ IsFiniteSet(AllOwed(i))
         /\ \A r \in AllOwed(i) :
              /\ r.src \in DOMAIN i /\ r.src \in Nat /\ r \in Owed(i, r.src)
              /\ r.doc \in DocsOf(i, r.src) /\ r.doc \in Nat /\ Place(i, r) \in Nat
<1>1. i \in Seq(SourceRec)
  BY InputsAssumption
<1>2. DOMAIN i = 1 .. Len(i) /\ Len(i) \in Nat
  BY <1>1, LenProperties
<1>3. IsFiniteSet(AllOwed(i))
  <2>1. IsFiniteSet(DOMAIN i)
    BY <1>2, FS_Interval
  <2>2. PICK S : S = {Owed(i, s) : s \in DOMAIN i}
    OBVIOUS
  <2>3. IsFiniteSet(S)
    <3> DEFINE f == [s \in DOMAIN i |-> Owed(i, s)]
    <3>1. f \in Surjection(DOMAIN i, S)
      BY <2>2 DEF Surjection
    <3> QED BY <2>1, <3>1, FS_Surjection
  <2>4. \A T \in S : IsFiniteSet(T)
    BY <2>2, OwedType
  <2>5. IsFiniteSet(UNION S)
    BY <2>3, <2>4, FS_UNION
  <2> QED BY <2>2, <2>5 DEF AllOwed
<1>4. ASSUME NEW r \in AllOwed(i)
      PROVE  /\ r.src \in DOMAIN i /\ r.src \in Nat /\ r \in Owed(i, r.src)
             /\ r.doc \in DocsOf(i, r.src) /\ r.doc \in Nat /\ Place(i, r) \in Nat
  <2>1. PICK s \in DOMAIN i : r \in Owed(i, s)
    BY DEF AllOwed
  <2>2. r.src = s /\ r.doc \in Nat
    BY <2>1, OwedType
  <2>3. Gap(i, s) \in Nat
    BY GapIs
  <2> QED BY <1>2, <2>1, <2>2, <2>3 DEF DocsOf, Place
<1> QED BY <1>3, <1>4

\* No two results have the same place.
LEMMA OrderIsStrict ==
  ASSUME NEW i \in Inputs
  PROVE  StrictOrder(InOrder(i), AllOwed(i))
<1>1. PICK S, R : S = AllOwed(i) /\ R = InOrder(i)
  OBVIOUS
<1>2. \A x, y \in S : <<x, y>> \in R <=>
        (x.src < y.src \/ (x.src = y.src /\ Place(i, x) < Place(i, y)))
  BY <1>1 DEF InOrder
<1>3. \A x \in S : /\ x.src \in DOMAIN i /\ x.src \in Nat /\ x \in Owed(i, x.src)
                   /\ x.doc \in DocsOf(i, x.src) /\ x.doc \in Nat /\ Place(i, x) \in Nat
  BY <1>1, AllOwedType
<1>4. \A x \in S : <<x, x>> \notin R
  BY <1>2, <1>3
<1>5. ASSUME NEW x \in S, NEW y \in S, NEW z \in S, <<x, y>> \in R, <<y, z>> \in R
      PROVE  <<x, z>> \in R
  <2>1. /\ x.src < y.src \/ (x.src = y.src /\ Place(i, x) < Place(i, y))
        /\ y.src < z.src \/ (y.src = z.src /\ Place(i, y) < Place(i, z))
    BY <1>2, <1>5
  <2>2. /\ x.src \in Nat /\ y.src \in Nat /\ z.src \in Nat
        /\ Place(i, x) \in Nat /\ Place(i, y) \in Nat /\ Place(i, z) \in Nat
    BY <1>3
  <2>3. x.src < z.src \/ (x.src = z.src /\ Place(i, x) < Place(i, z))
    BY <2>1, <2>2
  <2> QED BY <1>2, <2>3
<1>6. ASSUME NEW x \in S, NEW y \in S
      PROVE  x = y \/ <<x, y>> \in R \/ <<y, x>> \in R
  <2>1. CASE x.src = y.src /\ Place(i, x) = Place(i, y)
    <3>1. Gap(i, x.src) \notin DocsOf(i, x.src)
      BY <1>3, GapIs
    <3>2. x.doc = y.doc
      BY <1>3, <2>1, <3>1 DEF Place
    <3>3. x \in Owed(i, x.src) /\ y \in Owed(i, x.src) /\ x.src \in DOMAIN i
      BY <1>3, <2>1
    <3> QED BY <3>2, <3>3, OwedType
  <2>2. CASE ~(x.src = y.src /\ Place(i, x) = Place(i, y))
    <3>1. x.src \in Nat /\ y.src \in Nat /\ Place(i, x) \in Nat /\ Place(i, y) \in Nat
      BY <1>3
    <3>2. \/ x.src < y.src \/ (x.src = y.src /\ Place(i, x) < Place(i, y))
          \/ y.src < x.src \/ (y.src = x.src /\ Place(i, y) < Place(i, x))
      BY <2>2, <3>1
    <3> QED BY <1>2, <3>2
  <2> QED BY <2>1, <2>2
<1> QED BY <1>1, <1>4, <1>5, <1>6 DEF StrictOrder

\* Report is the results owed, in order.
LEMMA ReportEnumerates ==
  ASSUME sources \in Inputs
  PROVE  Enumerates(Report, AllOwed(sources), InOrder(sources))
<1>1. Report = Sorted(AllOwed(sources), InOrder(sources))
  BY DEF Report, ReportOf
<1> QED BY <1>1, AllOwedType, OrderIsStrict, SortedEnumerates
-----------------------------------------------------------------------------
(* What is written is the beginning of that order.                          *)

\* All that is owed of the sources before t has been received, and nothing
\* else.
ReceivedTo(G, i, t) ==
  Entries(G) \subseteq AllOwed(i) /\ \A s \in DOMAIN i : s < t => Owed(i, s) \subseteq G

\* A source before t is written, and its buffer waits for the first gap.
LEMMA SourceWritten ==
  ASSUME NEW i \in Inputs, NEW G, Received(G, LabelOf(i)), NEW c, NEW t \in Nat,
         Gathered(c, LabelOf(i), G, t, {}), ReceivedTo(G, i, t), NEW s \in DOMAIN i, s < t
  PROVE  /\ \A x \in Owed(i, s) : \E k \in DOMAIN c.out : c.out[k] = x
         /\ i[s].label \in DOMAIN c.bufs => c.bufs[i[s].label].next = Gap(i, s)
<1>1. LabelOf(i)[s] = i[s].label /\ s \in DOMAIN LabelOf(i)
  BY DEF LabelOf
<1>2. \A x \in Owed(i, s) : x \in Entries(G) /\ x.label = i[s].label
  BY OwedType DEF ReceivedTo, Entries
<1>3. i[s].label \in DOMAIN c.bufs =>
        /\ DOMAIN c.bufs[i[s].label].pending = {}
        /\ \A n \in 1 .. c.bufs[i[s].label].next - 1 :
             \E k \in DOMAIN c.out : c.out[k].src = s /\ c.out[k].doc = n
  BY <1>1 DEF Gathered, Positions
<1>4. ASSUME NEW x \in Owed(i, s)
      PROVE  \E k \in DOMAIN c.out : c.out[k] = x
  <2>1. x.label = i[s].label /\ x.label \in DOMAIN c.bufs
    BY <1>2 DEF Gathered, NothingLost
  <2>2. x.doc \notin DOMAIN c.bufs[x.label].pending
    BY <1>3, <2>1
  <2> QED BY <1>2, <2>2 DEF Gathered, NothingLost
<1>5. ASSUME i[s].label \in DOMAIN c.bufs
      PROVE  c.bufs[i[s].label].next = Gap(i, s)
  <2>1. PICK n, D : n = c.bufs[i[s].label].next /\ D = DocsOf(i, s)
    OBVIOUS
  <2>2. n \in Nat \ {0}
    BY <1>5, <2>1 DEF Gathered, Buffers, BufferType
  <2>3. n \notin D
    <3> SUFFICES ASSUME NEW x \in Owed(i, s), x.doc = n PROVE FALSE
      BY <2>1 DEF DocsOf
    <3>1. PICK k \in DOMAIN c.out : c.out[k] = x
      BY <1>4
    <3>2. x.doc # c.bufs[x.label].next
      BY <3>1 DEF Gathered, Progress
    <3> QED BY <1>2, <2>1, <3>2
  <2>4. ASSUME NEW m \in 1 .. n - 1
        PROVE  m \in D
    <3>1. PICK k \in DOMAIN c.out : c.out[k].src = s /\ c.out[k].doc = m
      BY <1>3, <1>5, <2>1
    <3>2. c.out[k] \in Entries(G)
      BY WrittenOnce
    <3>3. c.out[k] \in AllOwed(i)
      BY <3>2 DEF ReceivedTo
    <3> QED BY <2>1, <3>1, <3>3, AllOwedType
  <2>5. PICK g : g = Gap(i, s)
    OBVIOUS
  <2>6. g \in Nat \ {0} /\ g \notin D /\ \A m \in 1 .. g - 1 : m \in D
    BY <2>1, <2>5, GapIs
  <2>7. ~(g < n) /\ ~(n < g)
    <3>1. g < n => g \in 1 .. n - 1
      BY <2>2, <2>6
    <3>2. n < g => n \in 1 .. g - 1
      BY <2>2, <2>6
    <3> QED BY <2>3, <2>4, <2>6, <3>1, <3>2
  <2> QED BY <2>1, <2>2, <2>5, <2>6, <2>7
<1> QED BY <1>4, <1>5

LEMMA WrittenBegins ==
  ASSUME NEW i \in Inputs, NEW G, Received(G, LabelOf(i)), NEW c, NEW t \in Nat,
         Gathered(c, LabelOf(i), G, t, {}), ReceivedTo(G, i, t)
  PROVE  Begins(c.out, AllOwed(i), InOrder(i))
<1>1. PICK q, S, R : q = c.out /\ S = AllOwed(i) /\ R = InOrder(i)
  OBVIOUS
<1>2. /\ q \in Seq(Entries(G)) /\ DOMAIN q = 1 .. Len(q) /\ Len(q) \in Nat
      /\ \A k \in DOMAIN q : q[k] \in Entries(G)
  BY <1>1, WrittenOnce
<1>3. \A k \in DOMAIN q : q[k] \in S
  BY <1>1, <1>2 DEF ReceivedTo
<1>4. q \in Seq(S)
  <2>1. q = [k \in 1 .. Len(q) |-> q[k]]
    BY <1>2
  <2>2. q \in [1 .. Len(q) -> S]
    BY <1>2, <1>3, <2>1
  <2> QED BY <1>2, <2>2, SeqDef
<1>5. \A x \in S : /\ x.src \in DOMAIN i /\ x.src \in Nat /\ x \in Owed(i, x.src)
                   /\ x.doc \in DocsOf(i, x.src) /\ x.doc \in Nat /\ Place(i, x) \in Nat
  BY <1>1, AllOwedType
<1>6. ASSUME NEW k \in DOMAIN q
      PROVE  /\ q[k].src <= t /\ q[k].label \in DOMAIN c.bufs /\ q[k].label = i[q[k].src].label
             /\ q[k].src = t => q[k].doc # 0 /\ q[k].doc < c.bufs[i[t].label].next
  <2>1. q[k].src <= t /\ (q[k].src = t => q[k].doc # 0 /\ q[k].doc < c.bufs[q[k].label].next)
    BY <1>1 DEF Gathered, Progress
  <2>2. q[k].label \in DOMAIN c.bufs
    BY <1>2 DEF Gathered, NothingLost
  <2>3. q[k].label = i[q[k].src].label
    BY <1>3, <1>5, OwedType
  <2> QED BY <2>1, <2>2, <2>3
<1>7. ASSUME NEW k \in DOMAIN q
      PROVE  PlaceIn(c, q[k]) = Place(i, q[k])
  <2>1. CASE q[k].doc # 0
    BY <2>1 DEF PlaceIn, Place
  <2>2. CASE q[k].doc = 0
    <3>1. q[k].src \in DOMAIN i /\ q[k].src \in Nat
      BY <1>3, <1>5
    <3>2. q[k].src < t
      BY <1>6, <2>2, <3>1
    <3>3. i[q[k].src].label \in DOMAIN c.bufs
      BY <1>6
    <3>4. c.bufs[i[q[k].src].label].next = Gap(i, q[k].src)
      BY <3>1, <3>2, <3>3, SourceWritten
    <3> QED BY <1>6, <2>2, <3>4 DEF PlaceIn, Place
  <2> QED BY <2>1, <2>2
<1>8. ASSUME NEW k \in DOMAIN q, NEW m \in DOMAIN q, k < m
      PROVE  <<q[k], q[m]>> \in R
  <2>1. \/ q[k].src < q[m].src
        \/ q[k].src = q[m].src /\ PlaceIn(c, q[k]) < PlaceIn(c, q[m])
    BY <1>1, <1>8 DEF Gathered, WrittenInOrder, PlacedBefore
  <2>2. q[k] \in S /\ q[m] \in S
    BY <1>3
  <2> QED BY <1>1, <1>7, <2>1, <2>2 DEF InOrder
<1>9. ASSUME NEW k \in DOMAIN q, NEW x \in S, <<x, q[k]>> \in R
      PROVE  \E m \in DOMAIN q : q[m] = x
  <2>1. \/ x.src < q[k].src
        \/ x.src = q[k].src /\ Place(i, x) < Place(i, q[k])
    BY <1>1, <1>9 DEF InOrder
  <2>2. q[k].src <= t /\ q[k].src \in Nat /\ x.src \in Nat
    BY <1>3, <1>5, <1>6
  <2>3. CASE x.src < t
    <3>1. x.src \in DOMAIN i /\ x \in Owed(i, x.src)
      BY <1>5
    <3> QED BY <1>1, <2>3, <3>1, SourceWritten
  <2>4. CASE ~(x.src < t)
    <3>1. x.src = t /\ q[k].src = t /\ Place(i, x) < Place(i, q[k])
      BY <2>1, <2>2, <2>4
    <3>2. PICK n : n = c.bufs[i[t].label].next
      OBVIOUS
    <3>3. q[k].doc # 0 /\ q[k].doc < n /\ i[t].label \in DOMAIN c.bufs /\ t \in DOMAIN i
      BY <1>3, <1>5, <1>6, <3>1, <3>2
    <3>4. n \in Nat
      BY <3>2, <3>3 DEF Gathered, Buffers, BufferType
    <3>5. Place(i, x) \in Nat /\ q[k].doc \in Nat /\ Place(i, x) < n
      <4>1. Place(i, q[k]) = q[k].doc
        BY <3>3 DEF Place
      <4> QED BY <1>3, <1>5, <3>1, <3>3, <3>4, <4>1
    <3>6. Place(i, x) # 0
      <4>1. Gap(i, t) \in Nat \ {0}
        BY <3>3, GapIs
      <4> QED BY <3>1, <4>1 DEF Place
    <3>7. Place(i, x) \in 1 .. n - 1
      BY <3>4, <3>5, <3>6
    <3>8. LabelOf(i)[t] = i[t].label /\ t \in DOMAIN LabelOf(i)
      BY <3>3 DEF LabelOf
    <3>9. PICK m \in DOMAIN q : q[m].src = t /\ q[m].doc = Place(i, x)
      BY <1>1, <3>2, <3>3, <3>7, <3>8 DEF Gathered, Positions
    <3>10. q[m] \in Owed(i, t) /\ q[m].doc \in DocsOf(i, t) /\ x \in Owed(i, t)
      BY <1>3, <1>5, <3>1, <3>9
    <3>11. x.doc # 0
      <4>1. Gap(i, t) \notin DocsOf(i, t)
        BY <3>3, GapIs
      <4> QED BY <3>1, <3>9, <3>10, <4>1 DEF Place
    <3>12. q[m].doc = x.doc
      BY <3>9, <3>11 DEF Place
    <3> QED BY <3>3, <3>10, <3>12, OwedType
  <2> QED BY <2>3, <2>4
<1> QED BY <1>1, <1>4, <1>8, <1>9 DEF Begins
-----------------------------------------------------------------------------
(* A run that nobody cuts short.                                            *)

\* The result of a job that waits no more is in the stream.
LEMMA OwedIsCarried ==
  ASSUME EngineInv, ~ctxDone, NEW d, NEW p, Carries(d, p), NEW s \in DOMAIN sources,
         \A k \in DOMAIN sources[s].items : Walked(<<s, k>>) /\ <<s, k>> \notin Waiting
  PROVE  \A x \in Owed(sources, s) : \E m \in DOMAIN p : p[m] = x
<1> SUFFICES ASSUME NEW x \in Owed(sources, s)
             PROVE  \E m \in DOMAIN p : p[m] = x
  OBVIOUS
<1>1. sources \in Seq(SourceRec)
  BY InputsAssumption DEF EngineInv, TypeOK
<1>2. DOMAIN sources = 1 .. Len(sources) /\ Len(sources) \in Nat
  BY <1>1, LenProperties
<1>3. sources[s].items \in Seq(Item)
  BY <1>1, ItemsType
<1>4. DOMAIN sources[s].items = 1 .. Len(sources[s].items) /\ Len(sources[s].items) \in Nat
  BY <1>3, LenProperties
<1>5. PICK k \in DOMAIN sources[s].items :
        /\ sources[s].items[k].status # "none"
        /\ x = [src |-> s, label |-> sources[s].label, doc |-> sources[s].items[k].doc,
                status |-> sources[s].items[k].status, final |-> FALSE]
  BY DEF Owed, ToSet
<1>6. PICK j : j = <<s, k>>
  OBVIOUS
<1>7. /\ j \in Nat \X Nat /\ Walked(j) /\ j \notin Waiting /\ ItemOf(j) = sources[s].items[k]
      /\ x = ResultOf(j, ItemOf(j).status)
  BY <1>2, <1>4, <1>5, <1>6 DEF ItemOf, ResultOf
<1> QED BY <1>5, <1>7 DEF Carries, StreamIs, DeliveredAll

\* With the sentinel of a source its reader has everything the source owes.
LEMMA SentinelCompletes ==
  ASSUME EngineInv, UncutInv, ~ctxDone, NEW d, NEW p, Carries(d, p),
         NEW x \in SetOf(d), x.final
  PROVE  Owed(sources, x.src) \subseteq SetOf(d)
<1>1. /\ DOMAIN d = 1 .. Len(d) /\ Len(d) \in Nat
      /\ \A k \in DOMAIN d : k \in DOMAIN p /\ p[k] = d[k]
  BY ReceivedPart
<1>2. DOMAIN p = 1 .. Len(p) /\ Len(p) \in Nat
  BY StreamType
<1>3. PICK k \in DOMAIN d : d[k] = x
  BY DEF SetOf
<1>4. PICK s : s = x.src
  OBVIOUS
<1>5. s \in DOMAIN sources /\ waiter[s] = "done"
  <2>1. StreamIs(p) /\ k \in DOMAIN p /\ p[k].final /\ p[k].src = s
    BY <1>1, <1>3, <1>4 DEF Carries
  <2> QED BY <2>1, FinalsAccounted
<1>6. InFlightOf(s) = {} /\ (s < cur \/ (s = cur /\ ~Walking))
  BY <1>5 DEF EngineInv, WaiterInv
<1>7. s < cur
  BY <1>5, <1>6 DEF UncutInv
<1>8. ASSUME NEW m \in DOMAIN sources[s].items
      PROVE  Walked(<<s, m>>) /\ <<s, m>> \notin Waiting
  <2>1. Walked(<<s, m>>)
    BY <1>5, <1>7 DEF Walked
  <2>2. Waiting \subseteq InFlight
    BY DEF Waiting, InFlight, Running, Busy
  <2> QED BY <1>6, <2>1, <2>2 DEF InFlightOf
<1>9. ASSUME NEW y \in Owed(sources, s)
      PROVE  y \in SetOf(d)
  <2>1. PICK m \in DOMAIN p : p[m] = y
    BY <1>5, <1>8, OwedIsCarried
  <2>2. y.src = s /\ ~y.final
    BY DEF Owed
  <2>3. ~(k < m)
    BY <1>1, <1>3, <1>4, <2>1, <2>2 DEF Carries, StreamIs, SentinelsEnd
  <2>4. m \in DOMAIN d
    BY <1>1, <1>2, <2>3
  <2>5. d[m] = y
    BY <1>1, <2>1, <2>4
  <2> QED BY <2>4, <2>5 DEF SetOf
<1> QED BY <1>4, <1>9

\* At the end of the stream its reader has everything.
LEMMA EndCompletes ==
  ASSUME EngineInv, UncutInv, ~ctxDone, resultsClosed, results = <<>>, NEW d, NEW p, Carries(d, p),
         NEW s \in DOMAIN sources
  PROVE  Owed(sources, s) \subseteq SetOf(d)
<1>1. /\ Waiting = {}
      /\ \A t \in DOMAIN sources : \A k \in DOMAIN sources[t].items : Walked(<<t, k>>)
  BY NothingWaits
<1>2. \A x \in Owed(sources, s) : \E m \in DOMAIN p : p[m] = x
  BY <1>1, OwedIsCarried
<1>3. p = d
  <2>1. d \in Seq(ResultRec) /\ p = d \o <<>>
    BY DEF Carries
  <2> QED BY <2>1, ConcatEmptySeq
<1> QED BY <1>2, <1>3 DEF SetOf

\* What is received is owed.
LEMMA ReceivedIsOwed ==
  ASSUME EngineInv, ~ctxDone, NEW d, NEW p, Carries(d, p)
  PROVE  Entries(SetOf(d)) \subseteq AllOwed(sources)
<1>1. sources \in Inputs
  BY DEF EngineInv, TypeOK
<1>2. \A r \in SetOf(d) : Accounted(r)
  BY ReceivedPart
<1> QED BY <1>1, <1>2, ResultIsOwed DEF Entries

\* So the report is at every moment the beginning of what is owed.
LEMMA ReportBegins ==
  ASSUME DistinctLabels, ExitInv, ReportInv, ~ctxDone
  PROVE  Begins(collector.out, AllOwed(sources), InOrder(sources))
<1>1. PICK d, p : Carries(d, p) /\ Reported(d)
  BY DEF ReportInv
<1>2. EngineInv /\ UncutInv /\ CommandInv /\ sources \in Inputs
  BY DEF ExitInv, EngineInv, TypeOK
<1>3. PICK i, c, G, lab : i = sources /\ c = collector /\ G = SetOf(d) /\ lab = LabelOf(sources)
  OBVIOUS
<1>4. Entries(G) \subseteq AllOwed(i)
  BY <1>1, <1>2, <1>3, ReceivedIsOwed
<1>5. CASE cmd \in {"range", "cancel"}
  <2>1. /\ Received(G, lab) /\ Gathered(c, lab, G, c.current, {}) /\ Slots(c.order, lab, G)
        /\ c.completed = CompletedIn(G) /\ Advanced(c) /\ Buffers(c, G)
    BY <1>1, <1>3, <1>5 DEF Reported, CollectorInv, Gathered
  <2>2. /\ DOMAIN c.order = 1 .. Len(c.order) /\ Len(c.order) \in Nat
        /\ \A k \in DOMAIN c.order : c.order[k] \in {lab[k], NoLabel}
        /\ \A s \in DOMAIN lab : lab[s] \in c.completed <=> \E r \in G : r.final /\ r.src = s
    BY <2>1, SlotsName
  <2>3. /\ c.current \in Nat /\ c.current <= Len(c.order) + 1
        /\ \A s \in 1 .. c.current - 1 : c.order[s] # NoLabel /\ c.order[s] \in c.completed
    BY <2>1, <2>2 DEF Advanced
  <2>4. ASSUME NEW s \in DOMAIN i, s < c.current
        PROVE  Owed(i, s) \subseteq G
    <3>1. s \in DOMAIN lab /\ s \in 1 .. c.current - 1
      <4>1. s \in DOMAIN lab /\ s \in Nat \ {0}
        BY <1>3, <2>1 DEF LabelOf, Received
      <4> QED BY <2>3, <2>4, <4>1
    <3>2. s \in DOMAIN c.order
      BY <2>2, <2>3, <3>1
    <3>3. lab[s] \in c.completed
      BY <2>2, <2>3, <3>1, <3>2
    <3>4. PICK x \in G : x.final /\ x.src = s
      BY <2>2, <3>1, <3>3
    <3> QED BY <1>1, <1>2, <1>3, <3>4, SentinelCompletes
  <2>5. ReceivedTo(G, i, c.current)
    BY <1>4, <2>4 DEF ReceivedTo
  <2> QED BY <1>2, <1>3, <2>1, <2>3, <2>5, WrittenBegins
<1>6. CASE cmd \in {"summary", "exit"}
  <2>1. /\ Received(G, lab) /\ Gathered(c, lab, G, Len(c.order) + 1, {})
        /\ Slots(c.order, lab, G)
    BY <1>1, <1>3, <1>6 DEF Reported, Flushed
  <2>2. Len(c.order) + 1 \in Nat
    BY <2>1, LenProperties DEF Slots
  <2>3. resultsClosed /\ results = <<>>
    BY <1>2, <1>6 DEF CommandInv
  <2>4. \A s \in DOMAIN i : Owed(i, s) \subseteq G
    BY <1>1, <1>2, <1>3, <2>3, EndCompletes
  <2>5. ReceivedTo(G, i, Len(c.order) + 1)
    BY <1>4, <2>4 DEF ReceivedTo
  <2> QED BY <1>2, <1>3, <2>1, <2>2, <2>5, WrittenBegins
<1> QED BY <1>2, <1>5, <1>6 DEF CommandInv, ReportInv

\* And in the end it is what is owed.
LEMMA ReportEnds ==
  ASSUME DistinctLabels, ExitInv, ReportInv, ~ctxDone, cmd \in {"summary", "exit"}
  PROVE  collector.out = Report
<1>1. PICK d, p : Carries(d, p) /\ Reported(d)
  BY DEF ReportInv
<1>2. EngineInv /\ UncutInv /\ sources \in Inputs /\ resultsClosed /\ results = <<>>
  BY DEF ExitInv, EngineInv, TypeOK, CommandInv
<1>3. PICK S, R, e : S = AllOwed(sources) /\ R = InOrder(sources) /\ e = collector.out
  OBVIOUS
<1>4. Begins(e, S, R)
  BY <1>3, ReportBegins
<1>5. ASSUME NEW x \in S
      PROVE  \E k \in DOMAIN e : e[k] = x
  <2>1. PICK s \in DOMAIN sources : x \in Owed(sources, s)
    BY <1>3 DEF AllOwed
  <2>2. x \in Entries(SetOf(d))
    BY <1>1, <1>2, <2>1, EndCompletes, OwedType DEF Entries
  <2>3. Flushed(collector, LabelOf(sources), SetOf(d), {})
    BY <1>1 DEF Reported
  <2> QED BY <1>3, <2>2, <2>3, FlushedEmpty
<1>6. Enumerates(e, S, R)
  BY <1>4, <1>5 DEF Begins, Enumerates
<1>7. Enumerates(Report, S, R) /\ StrictOrder(R, S)
  BY <1>2, <1>3, ReportEnumerates, OrderIsStrict
<1> QED BY <1>3, <1>6, <1>7, EnumerationIsUnique
-----------------------------------------------------------------------------
(* The theorems about a whole run.                                          *)

\* Exit code 0 means that no document is invalid; and when a document makes
\* the exit code 1, the report shows one that is invalid in itself.
THEOREM ExitCodeTellsTheTruth ==
  ASSUME DistinctLabels
  PROVE  Spec => []ExitTellsTheTruth
<1>1. ExitInv /\ ReportInv /\ NoInvalidPasses => ExitTellsTheTruth
  <2> SUFFICES ASSUME ExitInv, ReportInv, NoInvalidPasses, cmd = "exit", collector.nInvalid > 0
               PROVE  \E r \in ToSet(collector.out) : r.status = "invalid" /\ r \in ToSet(Report)
    BY DEF ExitTellsTheTruth
  <2>1. PICK d, p : Carries(d, p) /\ Reported(d) /\ FirstIsOwed(d)
    BY DEF ReportInv
  <2>2. PICK r \in SetOf(d) : ~r.final /\ r.status = "invalid" /\ r \in AllOwed(sources)
    BY <2>1 DEF FirstIsOwed
  <2>3. r \in ToSet(collector.out)
    <3>1. Flushed(collector, LabelOf(sources), SetOf(d), {NoLabel})
      BY <2>1 DEF Reported
    <3>2. r \in Entries(SetOf(d))
      BY <2>2 DEF Entries
    <3>3. \E k \in DOMAIN collector.out : collector.out[k] = r
      BY <3>1, <3>2, FlushedEmpty
    <3> QED BY <3>3 DEF ToSet
  <2>4. r \in ToSet(Report)
    <3>1. sources \in Inputs
      BY DEF ExitInv, EngineInv, TypeOK
    <3>2. \E k \in DOMAIN Report : Report[k] = r
      BY <2>2, <3>1, ReportEnumerates DEF Enumerates
    <3> QED BY <3>2 DEF ToSet
  <2> QED BY <2>2, <2>3, <2>4
<1> QED BY <1>1, ReportInvariant, ExitZeroIsHonest, PTL

\* Only --fail-fast cancels.
NeverCut == ~ctxDone /\ cmd # "cancel"

LEMMA NeverCutInvariant ==
  ASSUME ~FailFast
  PROVE  Spec => []NeverCut
<1>1. Init => NeverCut
  BY DEF Init, EngineInit, NeverCut
<1>2. NeverCut /\ [Next]_vars => NeverCut'
  <2> SUFFICES ASSUME NeverCut, [Next]_vars PROVE NeverCut'
    OBVIOUS
  <2> USE DEF NeverCut
  <2>1. CASE Engine /\ UNCHANGED cmdVars
    <3>1. ctxDone' = ctxDone
      BY <2>1 DEF Engine, Producer, EmitDoc, SendJob, AbandonJob, EmitFinal, WalkReturns, CloseJobs,
         JoinWorkers, DrainJob, DrainEnd, CloseResults, WorkerStep, TakeJob, WorkerReturns,
         PushResult, DropResult, FinishJob, WaiterStep, WaitReturns, PushFinal, DropFinal
    <3> QED BY <2>1, <3>1 DEF cmdVars
  <2>2. CASE Collect
    <3>1. cmd' \in {"panic", "range"} /\ ctxDone' = ctxDone
      BY <2>2 DEF Collect, Deliver
    <3> QED BY <3>1
  <2>3. CASE FailFastCancel
    BY <2>3 DEF FailFastCancel
  <2>4. CASE FlushAll \/ Exit \/ Terminated \/ UNCHANGED vars
    BY <2>4 DEF FlushAll, Exit, Terminated, vars, engineVars
  <2> QED BY <2>1, <2>2, <2>3, <2>4 DEF Next
<1> QED BY <1>1, <1>2, PTL DEF Spec

\* Two moments of a report that grows, both the beginning of the same list.
LEMMA GrowingReport ==
  ASSUME NEW S, NEW R, StrictOrder(R, S), NEW q, Enumerates(q, S, R), NEW c, NEW d, Grows(c, d),
         Begins(c.out, S, R), Begins(d.out, S, R)
  PROVE  \/ d.out = c.out
         \/ \E n \in Len(c.out) + 1 .. Len(q) : d.out = SubSeq(q, 1, n)
<1>1. PICK e, f : e = c.out /\ f = d.out
  OBVIOUS
<1>2. q \in Seq(S) /\ e \in Seq(S) /\ f \in Seq(S)
  BY <1>1 DEF Enumerates, Begins
<1>3. Opens(e, q) /\ Opens(f, q)
  BY <1>1, BeginningIsPrefix
<1>4. e = SubSeq(q, 1, Len(e)) /\ Len(e) \in 0 .. Len(q) /\ Len(q) \in Nat
  BY <1>2, <1>3, PrefixIsSegment
<1>5. f = SubSeq(q, 1, Len(f)) /\ Len(f) \in 0 .. Len(q)
  BY <1>2, <1>3, PrefixIsSegment
<1>6. Len(e) <= Len(f)
  <2>1. DOMAIN e = 1 .. Len(e) /\ DOMAIN f = 1 .. Len(f)
    BY <1>2, LenProperties
  <2>2. \A k \in DOMAIN e : k \in DOMAIN f
    BY <1>1 DEF Grows
  <2>3. Len(e) # 0 => Len(e) \in DOMAIN e
    BY <1>4, <2>1
  <2> QED BY <1>4, <1>5, <2>1, <2>2, <2>3
<1>7. CASE Len(e) = Len(f)
  BY <1>1, <1>4, <1>5, <1>7
<1>8. CASE Len(e) # Len(f)
  <2>1. PICK n, m, l : n = Len(e) /\ m = Len(f) /\ l = Len(q)
    OBVIOUS
  <2>2. n \in 0 .. l /\ m \in 0 .. l /\ l \in Nat /\ n <= m /\ n # m
    BY <1>4, <1>5, <1>6, <1>8, <2>1
  <2>3. m \in n + 1 .. l
    BY <2>2
  <2> QED BY <1>1, <1>5, <2>1, <2>3
<1> QED BY <1>7, <1>8

\* The same, of the state a step leads to.
LEMMA ReportAlwaysBegins ==
  DistinctLabels /\ ExitInv /\ ReportInv /\ NeverCut =>
    Begins(collector.out, AllOwed(sources), InOrder(sources))
BY ReportBegins DEF NeverCut

LEMMA ReportBeginsNext ==
  (DistinctLabels /\ ExitInv /\ ReportInv /\ NeverCut =>
     Begins(collector.out, AllOwed(sources), InOrder(sources)))'
BY ReportAlwaysBegins, PTL

\* Every step of the command is a step of the abstract report, or none.
LEMMA StepImplements ==
  ASSUME DistinctLabels, ExitInv, ReportInv, NeverCut, (ExitInv /\ ReportInv /\ NeverCut)',
         [Next]_vars
  PROVE  [Abstract!Next]_(Abstract!vars)
<1>1. sources' = sources
  <2>1. CASE Engine
    BY <2>1, InputStays DEF ExitInv
  <2>2. CASE Collect \/ FailFastCancel \/ FlushAll \/ Exit \/ Terminated \/ UNCHANGED vars
    BY <2>2 DEF Collect, Deliver, FailFastCancel, CancelCtx, FlushAll, Exit, Terminated, vars,
                engineVars
  <2> QED BY <2>1, <2>2 DEF Next
<1>2. Report' = Report
  BY <1>1 DEF Report
<1>3. CASE collector' = collector /\ cmd # "exit" /\ cmd' # "exit"
  <2>1. Report' = Report /\ collector'.out = collector.out /\ (cmd = "exit")' = (cmd = "exit")
    BY <1>2, <1>3
  <2> QED BY <2>1 DEF Abstract!vars
<1>4. CASE collector' = collector /\ cmd' = cmd
  <2>1. Report' = Report /\ collector'.out = collector.out /\ (cmd = "exit")' = (cmd = "exit")
    BY <1>2, <1>4
  <2> QED BY <2>1 DEF Abstract!vars
<1>5. CASE Collect \/ FlushAll
  <2>1. cmd = "range" /\ cmd' # "exit"
    BY <1>5 DEF Collect, FlushAll
  <2>2. Grows(collector, collector')
    BY <1>5, ReportCollectStep, ReportFlushStep
  <2>3. PICK S, R, q : S = AllOwed(sources) /\ R = InOrder(sources) /\ q = Report
    OBVIOUS
  <2>4. Begins(collector.out, S, R)
    BY <2>3, ReportAlwaysBegins
  <2>5. Begins(collector'.out, S, R)
    BY <1>1, <2>3, ReportBeginsNext
  <2>6. StrictOrder(R, S) /\ Enumerates(q, S, R)
    <3>1. sources \in Inputs
      BY DEF ExitInv, EngineInv, TypeOK
    <3> QED BY <2>3, <3>1, OrderIsStrict, ReportEnumerates
  <2>7. \/ collector'.out = collector.out
        \/ \E n \in Len(collector.out) + 1 .. Len(q) : collector'.out = SubSeq(q, 1, n)
    BY <2>2, <2>4, <2>5, <2>6, GrowingReport
  <2>8. Report' = Report /\ (cmd = "exit")' = (cmd = "exit") /\ ~(cmd = "exit")
    BY <1>2, <2>1
  <2>9. CASE collector'.out = collector.out
    BY <2>8, <2>9 DEF Abstract!vars
  <2>10. CASE \E n \in Len(collector.out) + 1 .. Len(Report) : collector'.out = SubSeq(Report, 1, n)
    <3>1. Abstract!Write
      BY <2>8, <2>10 DEF Abstract!Write
    <3> QED BY <3>1 DEF Abstract!Next
  <2> QED BY <2>3, <2>7, <2>9, <2>10
<1>6. CASE Exit
  <2>1. cmd = "summary" /\ cmd' = "exit" /\ collector' = collector
    BY <1>6 DEF Exit
  <2>2. collector.out = Report
    BY <2>1, ReportEnds DEF NeverCut
  <2>3. Abstract!End
    BY <1>2, <2>1, <2>2 DEF Abstract!End
  <2> QED BY <2>3 DEF Abstract!Next
<1>7. \/ Collect \/ FlushAll \/ Exit
      \/ collector' = collector /\ cmd' = cmd
      \/ collector' = collector /\ cmd # "exit" /\ cmd' # "exit"
  BY DEF Next, FailFastCancel, Terminated, vars, cmdVars
<1> QED BY <1>3, <1>4, <1>5, <1>6, <1>7

\* The command implements the abstract report: the entries come in the one
\* order owed, none is retracted, and it exits with all of them. That it exits
\* is the hypothesis CmdTerminates, which the runs check under fairness.
THEOREM CommandImplementsReport ==
  ASSUME DistinctLabels, ~FailFast
  PROVE  Spec /\ CmdTerminates => ImplementsOrderedReport
<1>1. Init => Abstract!Init
  BY DEF Init, NewCollector, Abstract!Init
<1>2. /\ ExitInv /\ ReportInv /\ NeverCut /\ (ExitInv /\ ReportInv /\ NeverCut)' /\ [Next]_vars
      => [Abstract!Next]_(Abstract!vars)
  BY StepImplements
<1>3. Spec => [](ExitInv /\ ReportInv /\ NeverCut)
  BY ReportInvariant, NeverCutInvariant, PTL
<1> QED BY <1>1, <1>2, <1>3, PTL DEF Spec, CmdTerminates, ImplementsOrderedReport, Abstract!Spec
=============================================================================

--------------------------- MODULE SourceWalk_proofs ---------------------------
(***************************************************************************)
(* The walk emits exactly what the command line holds, proved for every    *)
(* command line, every tree and every content of a file, whatever the      *)
(* chunks a file is read in; and a build leaves nothing behind.            *)
(*                                                                         *)
(* From below: a stream put together from parts (FlattenSeq) as the loop   *)
(* that appends them; the scanner, whose next token is the next document   *)
(* whatever the window its buffer shows of the stream; the sources that a  *)
(* path, a directory and a command line bring, and the cursors that count  *)
(* them; the events of a source. WalkInv then says, at every place of the  *)
(* walk, what has been emitted, and has one lemma for each action.         *)
(***************************************************************************)
EXTENDS SourceWalk, TLAPS, SequenceTheorems, WellFoundedInduction

-----------------------------------------------------------------------------
(* Natural numbers.                                                         *)

\* A number before a larger one.
ByIndex == {p \in Nat \X Nat : p[1] < p[2]}

\* Every descent in the naturals ends.
LEMMA ByIndexWellFounded == IsWellFoundedOn(ByIndex, Nat)
BY NatLessThanWellFounded DEF OpToRel, ByIndex

\* Induction, over a set of naturals.
LEMMA NatInductive ==
  ASSUME NEW S, S \subseteq Nat, 0 \in S, \A n \in S : n + 1 \in S
  PROVE  \A n \in Nat : n \in S
<1> DEFINE T == Nat \ S
<1>1. SUFFICES ASSUME T # {} PROVE FALSE
  OBVIOUS
<1>2. PICK x \in T : \A y \in T : <<y, x>> \notin ByIndex
  BY <1>1, WFMin, ByIndexWellFounded
<1>3. x # 0 /\ x - 1 \in Nat
  BY Z3
<1>4. <<x - 1, x>> \in ByIndex
  BY <1>3 DEF ByIndex
<1>5. x - 1 \in S
  BY <1>2, <1>3, <1>4
<1>6. x - 1 + 1 \in S
  BY <1>5
<1> QED BY <1>2, <1>3, <1>6

\* Min of a set of naturals, which is a CHOOSE.
LEMMA MinIsLeast ==
  ASSUME NEW S, S \subseteq Nat, S # {}
  PROVE  Min(S) \in S /\ \A y \in S : Min(S) <= y
<1>1. PICK x \in S : \A y \in S : <<y, x>> \notin ByIndex
  BY WFMin, ByIndexWellFounded
<1>2. ASSUME NEW y \in S
      PROVE  x <= y
  <2>1. x \in Nat /\ y \in Nat /\ ~(y < x)
    BY <1>1 DEF ByIndex
  <2> QED BY <2>1
<1> QED BY <1>2 DEF Min

-----------------------------------------------------------------------------
(* Sequences put one after the other.                                       *)

\* The first n of the sequences ss, put one after the other.
Before(ss, n) == FlattenSeq(SubSeq(ss, 1, n))

\* FlattenSeq is the loop it says.
LEMMA FlattenLoops ==
  ASSUME NEW T, NEW ss \in Seq(Seq(T))
  PROVE  \E f : /\ f \in [0 .. Len(ss) -> Seq(T)]
                /\ f[0] = <<>>
                /\ \A n \in 1 .. Len(ss) : f[n] = f[n - 1] \o ss[n]
                /\ FlattenSeq(ss) = f[Len(ss)]
<1> DEFINE N == Len(ss)
           IsLoop(g, n) == g = [k \in 1 .. n |-> IF k = 1 THEN ss[k] ELSE g[k - 1] \o ss[k]]
           S == {n \in Nat : \E g : IsLoop(g, n)}
<1>0. N \in Nat /\ ss \in [1 .. N -> Seq(T)]
  BY LenProperties
<1>1. 0 \in S
  <2>1. IsLoop([k \in 1 .. 0 |-> 0], 0)
    OBVIOUS
  <2> QED BY <2>1
<1>2. ASSUME NEW n \in S
      PROVE  n + 1 \in S
  <2>1. PICK g : IsLoop(g, n)
    OBVIOUS
  <2> DEFINE h == [k \in 1 .. n + 1 |->
                     IF k = n + 1 THEN IF k = 1 THEN ss[k] ELSE g[n] \o ss[n + 1] ELSE g[k]]
  <2>2. \A k \in 1 .. n : g[k] = IF k = 1 THEN ss[k] ELSE g[k - 1] \o ss[k]
    BY <2>1
  <2>3. \A k \in 1 .. n + 1 : h[k] = IF k = 1 THEN ss[k] ELSE h[k - 1] \o ss[k]
    <3> SUFFICES ASSUME NEW k \in 1 .. n + 1
                 PROVE  h[k] = IF k = 1 THEN ss[k] ELSE h[k - 1] \o ss[k]
      OBVIOUS
    <3>1. CASE k = n + 1
      BY <3>1
    <3>2. CASE k \in 1 .. n
      <4>1. h[k] = g[k] /\ (k # 1 => h[k - 1] = g[k - 1])
        BY <3>2
      <4> HIDE DEF h
      <4> QED BY <2>2, <3>2, <4>1
    <3> QED BY <3>1, <3>2
  <2>4. IsLoop(h, n + 1)
    BY <2>3
  <2>5. n + 1 \in Nat /\ \E e : IsLoop(e, n + 1)
    <3> HIDE DEF h, IsLoop
    <3> QED BY <2>4
  <2> QED BY <2>5
<1>3. N \in S
  <2> HIDE DEF S
  <2>1. S \subseteq Nat
    BY DEF S
  <2> QED BY <1>0, <1>1, <1>2, <2>1, NatInductive
<1> DEFINE e == CHOOSE g : IsLoop(g, N)
           f == [k \in 0 .. N |-> IF k = 0 THEN <<>> ELSE e[k]]
<1>4. IsLoop(e, N)
  BY <1>3
<1>5. N # 0 => FlattenSeq(ss) = e[N]
  BY DEF FlattenSeq
<1>6. N = 0 => FlattenSeq(ss) = <<>>
  BY EmptySeq DEF FlattenSeq
<1>7. \A k \in 1 .. N : e[k] = IF k = 1 THEN ss[k] ELSE e[k - 1] \o ss[k]
  <2> HIDE DEF e
  <2> QED BY <1>4
<1> HIDE DEF e, N, IsLoop, S
<1>8. \A k \in 1 .. N : f[k] = f[k - 1] \o ss[k]
  <2> SUFFICES ASSUME NEW k \in 1 .. N PROVE f[k] = f[k - 1] \o ss[k]
    OBVIOUS
  <2>1. CASE k = 1
    <3>1. ss[k] \in Seq(T)
      BY <1>0
    <3>2. <<>> \o ss[k] = ss[k]
      BY <3>1, ConcatEmptySeq
    <3> QED BY <1>0, <1>7, <2>1, <3>2
  <2>2. CASE k # 1
    <3>1. f[k] = e[k] /\ f[k - 1] = e[k - 1]
      BY <1>0, <2>2
    <3> HIDE DEF f
    <3> QED BY <1>7, <2>2, <3>1
  <2> QED BY <2>1, <2>2
<1>9. f[0] = <<>> /\ FlattenSeq(ss) = f[N] /\ DOMAIN f = 0 .. N /\ f = [k \in 0 .. N |-> f[k]]
  BY <1>0, <1>5, <1>6
<1>10. \A k \in 0 .. N : f[k] \in Seq(T)
  <2> DEFINE R == {k \in Nat : k \in 0 .. N => f[k] \in Seq(T)}
  <2> HIDE DEF f
  <2>1. 0 \in R
    BY <1>9, EmptySeq
  <2>2. ASSUME NEW k \in R PROVE k + 1 \in R
    <3> SUFFICES ASSUME k + 1 \in 0 .. N PROVE f[k + 1] \in Seq(T)
      OBVIOUS
    <3>1. PICK i \in Nat : i = k + 1
      OBVIOUS
    <3>2. f[k] \in Seq(T) /\ i \in 1 .. N /\ i - 1 = k
      BY <1>0, <3>1
    <3>3. f[i] = f[k] \o ss[i] /\ ss[i] \in Seq(T)
      BY <1>0, <1>8, <3>2
    <3>4. f[i] \in Seq(T)
      BY <3>2, <3>3, ConcatProperties
    <3> QED BY <3>1, <3>4
  <2>3. R \subseteq Nat
    OBVIOUS
  <2> HIDE DEF R
  <2>4. \A k \in Nat : k \in R
    BY <2>1, <2>2, <2>3, NatInductive
  <2> QED BY <2>4 DEF R
<1> HIDE DEF f
<1>11. f \in [0 .. N -> Seq(T)]
  BY <1>9, <1>10
<1>12. \E g : /\ g \in [0 .. N -> Seq(T)]
              /\ g[0] = <<>>
              /\ \A n \in 1 .. N : g[n] = g[n - 1] \o ss[n]
              /\ FlattenSeq(ss) = g[N]
  BY <1>8, <1>9, <1>11
<1> QED BY <1>12 DEF N

\* What comes before n + 1 is what comes before n, and the n-th.
LEMMA BeforeStep ==
  ASSUME NEW T, NEW ss \in Seq(Seq(T))
  PROVE  /\ Before(ss, 0) = <<>> /\ Before(ss, Len(ss)) = FlattenSeq(ss)
         /\ \A n \in 0 .. Len(ss) : Before(ss, n) \in Seq(T)
         /\ \A n \in 1 .. Len(ss) : Before(ss, n) = Before(ss, n - 1) \o ss[n]
<1>1. Len(ss) \in Nat /\ ss \in [1 .. Len(ss) -> Seq(T)]
  BY LenProperties
<1>2. PICK f : /\ f \in [0 .. Len(ss) -> Seq(T)]
               /\ f[0] = <<>>
               /\ \A n \in 1 .. Len(ss) : f[n] = f[n - 1] \o ss[n]
               /\ FlattenSeq(ss) = f[Len(ss)]
  BY FlattenLoops
<1>3. ASSUME NEW n \in 0 .. Len(ss)
      PROVE  Before(ss, n) = f[n]
  <2>1. PICK s : s = SubSeq(ss, 1, n)
    OBVIOUS
  <2>2. s \in Seq(Seq(T)) /\ Len(s) = n /\ \A k \in 1 .. n : s[k] = ss[k]
    <3>1. CASE n = 0
      BY <1>1, <2>1, <3>1, SubSeqEmpty, EmptySeq
    <3>2. CASE n # 0
      BY <1>1, <2>1, <3>2, SubSeqProperties
    <3> QED BY <3>1, <3>2
  <2>3. PICK g : /\ g[0] = <<>>
                 /\ \A k \in 1 .. Len(s) : g[k] = g[k - 1] \o s[k]
                 /\ FlattenSeq(s) = g[Len(s)]
    BY <2>2, FlattenLoops
  <2> DEFINE R == {k \in Nat : k \in 0 .. n => g[k] = f[k]}
  <2>4. 0 \in R
    BY <1>2, <2>3
  <2>5. ASSUME NEW k \in R PROVE k + 1 \in R
    <3> SUFFICES ASSUME k + 1 \in 0 .. n PROVE g[k + 1] = f[k + 1]
      OBVIOUS
    <3>1. PICK i \in Nat : i = k + 1
      OBVIOUS
    <3>2. k \in 0 .. n /\ i \in 1 .. n /\ i \in 1 .. Len(ss) /\ i - 1 = k
      BY <1>1, <3>1
    <3> HIDE DEF Before
    <3>4. g[k] = f[k]
      BY <3>2
    <3>3. g[i] = g[k] \o s[i] /\ f[i] = f[k] \o ss[i] /\ s[i] = ss[i]
      BY <1>2, <2>2, <2>3, <3>2
    <3> QED BY <3>1, <3>2, <3>3, <3>4
  <2>6. R \subseteq Nat
    OBVIOUS
  <2> HIDE DEF R
  <2>7. n \in R
    <3>1. n \in Nat
      BY <1>1
    <3> QED BY <2>4, <2>5, <2>6, <3>1, NatInductive
  <2>8. g[n] = f[n]
    BY <1>1, <2>7 DEF R
  <2> QED BY <2>1, <2>2, <2>3, <2>8 DEF Before
<1>4. \A n \in 1 .. Len(ss) : n \in 0 .. Len(ss) /\ n - 1 \in 0 .. Len(ss)
  BY <1>1
<1>5. 0 \in 0 .. Len(ss) /\ Len(ss) \in 0 .. Len(ss)
  BY <1>1
<1>6. \A n \in 0 .. Len(ss) : Before(ss, n) \in Seq(T)
  BY <1>2, <1>3
<1>7. \A n \in 1 .. Len(ss) : Before(ss, n) = Before(ss, n - 1) \o ss[n]
  <2> TAKE n \in 1 .. Len(ss)
  <2>1. Before(ss, n) = f[n] /\ Before(ss, n - 1) = f[n - 1]
    BY <1>3, <1>4
  <2> QED BY <1>2, <2>1
<1> QED BY <1>2, <1>3, <1>5, <1>6, <1>7

\* What comes before m begins what comes before n.
LEMMA BeforeExtends ==
  ASSUME NEW T, NEW ss \in Seq(Seq(T)), NEW m \in 0 .. Len(ss), NEW n \in m .. Len(ss)
  PROVE  \E u \in Seq(T) : Before(ss, n) = Before(ss, m) \o u
<1>1. Len(ss) \in Nat /\ ss \in [1 .. Len(ss) -> Seq(T)]
  BY LenProperties
<1> DEFINE P(k) == m + k \in m .. Len(ss) =>
                     \E u \in Seq(T) : Before(ss, m + k) = Before(ss, m) \o u
           R == {k \in Nat : P(k)}
<1>2. 0 \in R
  <2>1. Before(ss, m) \in Seq(T)
    BY BeforeStep
  <2>2. Before(ss, m) = Before(ss, m) \o <<>> /\ <<>> \in Seq(T) /\ m + 0 = m
    BY <1>1, <2>1, ConcatEmptySeq, EmptySeq
  <2>3. P(0)
    BY <2>2
  <2> QED BY <2>3
<1>3. ASSUME NEW k \in R PROVE k + 1 \in R
  <2>0. k \in Nat /\ P(k)
    <3> HIDE DEF P
    <3> QED OBVIOUS
  <2> SUFFICES P(k + 1)
    <3>1. k + 1 \in Nat
      BY ONLY <2>0
    <3> HIDE DEF P
    <3> QED BY <3>1
  <2> SUFFICES ASSUME m + (k + 1) \in m .. Len(ss)
               PROVE  \E u \in Seq(T) : Before(ss, m + (k + 1)) = Before(ss, m) \o u
    OBVIOUS
  <2>1. PICK i \in Nat : i = m + (k + 1)
    BY <1>1
  <2>2. i \in 1 .. Len(ss) /\ i - 1 = m + k /\ m + k \in m .. Len(ss)
    BY <1>1, <2>0, <2>1
  <2>3. PICK u \in Seq(T) : Before(ss, m + k) = Before(ss, m) \o u
    BY <2>0, <2>2
  <2>4. Before(ss, i) = (Before(ss, m) \o u) \o ss[i]
    BY <2>2, <2>3, BeforeStep
  <2>5. ss[i] \in Seq(T) /\ Before(ss, m) \in Seq(T)
    BY <1>1, <2>2, BeforeStep
  <2>6. (Before(ss, m) \o u) \o ss[i] = Before(ss, m) \o (u \o ss[i])
    <3>1. PICK a \in Seq(T) : a = Before(ss, m)
      BY <2>5
    <3>2. PICK w \in Seq(T) : w = ss[i]
      BY <2>5
    <3>3. (a \o u) \o w = a \o (u \o w)
      BY ONLY ConcatAssociative
    <3> QED BY <3>1, <3>2, <3>3
  <2>7. u \o ss[i] \in Seq(T)
    BY <2>5, ConcatProperties
  <2> QED BY <2>1, <2>4, <2>6, <2>7
<1>4. R \subseteq Nat
  OBVIOUS
<1> HIDE DEF R
<1>5. n - m \in Nat /\ m + (n - m) = n
  BY <1>1
<1>6. n - m \in R
  BY <1>2, <1>3, <1>4, <1>5, NatInductive
<1>7. P(n - m)
  BY <1>6 DEF R
<1> QED BY <1>5, <1>7

\* What is put together from nothing is nothing.
LEMMA BeforeSame ==
  ASSUME NEW T, NEW ss \in Seq(Seq(T)), NEW m \in 0 .. Len(ss), NEW n \in m .. Len(ss),
         \A k \in m + 1 .. n : ss[k] = <<>>
  PROVE  Before(ss, n) = Before(ss, m)
<1>1. Len(ss) \in Nat
  BY LenProperties
<1> DEFINE P(k) == m + k \in m .. n => Before(ss, m + k) = Before(ss, m)
           R == {k \in Nat : P(k)}
<1>2. 0 \in R
  <2>1. m + 0 = m
    BY <1>1
  <2> QED BY <2>1
<1>3. ASSUME NEW k \in R PROVE k + 1 \in R
  <2>0. k \in Nat /\ P(k)
    <3> HIDE DEF P
    <3> QED OBVIOUS
  <2>1. PICK i \in Nat : i = m + (k + 1)
    BY <1>1, <2>0
  <2>2. ASSUME i \in m .. n
        PROVE  Before(ss, i) = Before(ss, m)
    <3>1. i \in 1 .. Len(ss) /\ i - 1 = m + k /\ m + k \in m .. n /\ i \in m + 1 .. n
          /\ i - 1 \in 0 .. Len(ss)
      BY <1>1, <2>0, <2>1, <2>2
    <3>2. Before(ss, m + k) = Before(ss, m)
      BY <2>0, <3>1
    <3>3. Before(ss, i) = Before(ss, i - 1) \o ss[i] /\ Before(ss, i - 1) \in Seq(T)
      BY <3>1, BeforeStep
    <3>4. PICK b \in Seq(T) : b = Before(ss, i - 1)
      BY <3>3
    <3>5. b \o <<>> = b
      BY ONLY ConcatEmptySeq
    <3> QED BY <3>1, <3>2, <3>3, <3>4, <3>5
  <2>3. P(k + 1)
    BY <2>1, <2>2
  <2>4. k + 1 \in Nat
    BY ONLY <2>0
  <2> HIDE DEF P
  <2> QED BY <2>3, <2>4
<1>4. R \subseteq Nat
  OBVIOUS
<1> HIDE DEF R
<1>5. n - m \in Nat /\ m + (n - m) = n
  BY <1>1
<1>6. n - m \in R
  BY <1>2, <1>3, <1>4, <1>5, NatInductive
<1>7. P(n - m)
  BY <1>6 DEF R
<1> QED BY <1>1, <1>5, <1>7

\* Max is what it says on a set of numbers with a bound.
LEMMA MaxIsGreatest ==
  ASSUME NEW S, NEW n \in Nat, S \subseteq 1 .. n, S # {}
  PROVE  Max(S) \in S /\ \A y \in S : y <= Max(S)
<1> DEFINE R == {m \in Nat : \E x \in S : m = n - x}
<1>1. R \subseteq Nat /\ R # {}
  <2>1. PICK x \in S : TRUE
    OBVIOUS
  <2>2. n - x \in Nat
    OBVIOUS
  <2>3. n - x \in R
    BY <2>2
  <2> QED BY <2>3
<1>2. PICK m : m = Min(R)
  OBVIOUS
<1>3. m \in R /\ \A y \in R : m <= y
  BY <1>1, <1>2, MinIsLeast
<1>4. PICK x \in S : m = n - x
  BY <1>3
<1>5. ASSUME NEW y \in S PROVE y <= x
  <2>1. n - y \in R
    OBVIOUS
  <2>2. m <= n - y
    BY <1>3, <2>1
  <2> QED BY <1>4, <2>2
<1> QED BY <1>4, <1>5 DEF Max

-----------------------------------------------------------------------------
(* Lines.                                                                   *)

\* Where the line of k ends: at the first newline, or behind the stream.
LEMMA LineEndIs ==
  ASSUME NEW data \in Seq(Byte), NEW k \in 1 .. Len(data)
  PROVE  /\ LineEnd(data, k) \in k .. Len(data) + 1
         /\ LineEnd(data, k) <= Len(data) => data[LineEnd(data, k)] = "newline"
         /\ \A m \in k .. LineEnd(data, k) - 1 : data[m] # "newline"
<1>1. PICK N \in Nat : N = Len(data)
  BY LenProperties
<1>2. PICK S : S = {m \in k .. N : data[m] = "newline"} \cup {N + 1}
  OBVIOUS
<1>3. PICK e : e = LineEnd(data, k)
  OBVIOUS
<1>4. e = Min(S)
  BY <1>1, <1>2, <1>3 DEF LineEnd
<1>5. e \in S /\ \A y \in S : e <= y
  <2>1. S \subseteq Nat /\ S # {}
    BY <1>1, <1>2
  <2> QED BY <1>4, <2>1, MinIsLeast
<1>6. e \in k .. N + 1 /\ (e <= N => data[e] = "newline")
  BY <1>1, <1>2, <1>5
<1>7. \A m \in k .. e - 1 : m \in k .. N /\ m \notin S
  BY <1>1, <1>5, <1>6
<1>8. \A m \in k .. e - 1 : data[m] # "newline"
  BY <1>2, <1>7
<1> QED BY <1>1, <1>3, <1>6, <1>8

\* And nowhere else.
LEMMA LineEndAt ==
  ASSUME NEW data \in Seq(Byte), NEW k \in 1 .. Len(data), NEW e \in k .. Len(data) + 1,
         e <= Len(data) => data[e] = "newline",
         \A m \in k .. e - 1 : data[m] # "newline"
  PROVE  LineEnd(data, k) = e
<1>1. PICK N \in Nat : N = Len(data)
  BY LenProperties
<1>2. PICK f : f = LineEnd(data, k)
  OBVIOUS
<1>3. /\ f \in k .. N + 1 /\ (f <= N => data[f] = "newline")
      /\ \A m \in k .. f - 1 : data[m] # "newline"
  BY <1>1, <1>2, LineEndIs
<1>4. ~(f < e)
  <2> SUFFICES ASSUME f < e PROVE FALSE
    OBVIOUS
  <2>1. f \in k .. e - 1 /\ f <= N
    BY <1>1, <1>3
  <2> QED BY <1>3, <2>1
<1>5. ~(e < f)
  <2> SUFFICES ASSUME e < f PROVE FALSE
    OBVIOUS
  <2>1. e \in k .. f - 1 /\ e <= N
    BY <1>1, <1>3
  <2> QED BY <1>1, <1>3, <2>1
<1> QED BY <1>1, <1>2, <1>3, <1>4, <1>5

\* A line that begins before a newline ends there or before.
LEMMA LineEndBefore ==
  ASSUME NEW data \in Seq(Byte), NEW c \in 1 .. Len(data), data[c] = "newline", NEW k \in 1 .. c
  PROVE  LineEnd(data, k) <= c
<1>1. PICK N \in Nat : N = Len(data)
  BY LenProperties
<1>2. PICK f : f = LineEnd(data, k)
  OBVIOUS
<1>3. k \in 1 .. N
  BY <1>1
<1>4. f \in k .. N + 1 /\ \A m \in k .. f - 1 : data[m] # "newline"
  BY <1>1, <1>2, <1>3, LineEndIs
<1>5. c \notin k .. f - 1
  BY <1>4
<1> QED BY <1>1, <1>2, <1>4, <1>5

\* Lines end in the order in which they begin.
LEMMA LineEndsInOrder ==
  ASSUME NEW data \in Seq(Byte), NEW k \in 1 .. Len(data), NEW j \in k .. Len(data)
  PROVE  LineEnd(data, k) <= LineEnd(data, j)
<1>1. PICK N \in Nat : N = Len(data)
  BY LenProperties
<1>2. PICK e, f : e = LineEnd(data, k) /\ f = LineEnd(data, j)
  OBVIOUS
<1>3. j \in 1 .. N
  BY <1>1
<1>4. e \in k .. N + 1 /\ \A m \in k .. e - 1 : data[m] # "newline"
  BY <1>1, <1>2, LineEndIs
<1>5. f \in j .. N + 1 /\ (f <= N => data[f] = "newline")
  BY <1>1, <1>2, <1>3, LineEndIs
<1>6. CASE f < e
  <2>1. f \in k .. e - 1 /\ f <= N
    BY <1>1, <1>4, <1>5, <1>6
  <2> QED BY <1>4, <1>5, <2>1
<1> QED BY <1>1, <1>2, <1>4, <1>5, <1>6

-----------------------------------------------------------------------------
(* Separators.                                                              *)

\* The line of m ends just before k.
Above(data, m, k) == m \in DashLines(data) /\ m < k /\ LineEnd(data, m) + 1 = k

\* Separates is the recursion it says.
LEMMA SeparatesIs ==
  ASSUME NEW data \in Seq(Byte)
  PROVE  \A k \in 1 .. Len(data) :
           k \in Separates(data) <=> /\ k \in DashLines(data) \ {1}
                                     /\ ~\E m \in Separates(data) : Above(data, m, k)
<1>1. PICK N \in Nat : N = Len(data) /\ DOMAIN data = 1 .. N
  BY LenProperties
<1> DEFINE Sep(g, k) == /\ k \in DashLines(data) \ {1}
                        /\ ~\E m \in DashLines(data) : m < k /\ LineEnd(data, m) + 1 = k /\ g[m]
           IsSep(g, n) == g = [k \in 1 .. n |-> Sep(g, k)]
           S == {n \in Nat : \E g : IsSep(g, n)}
<1>2. 0 \in S
  <2>1. IsSep([k \in 1 .. 0 |-> FALSE], 0)
    OBVIOUS
  <2> QED BY <2>1
<1>3. ASSUME NEW n \in S
      PROVE  n + 1 \in S
  <2>1. PICK g : IsSep(g, n)
    OBVIOUS
  <2>2. n \in Nat /\ DashLines(data) \subseteq 1 .. N
    BY <1>1 DEF DashLines
  <2> DEFINE h == [k \in 1 .. n + 1 |-> IF k = n + 1 THEN Sep(g, k) ELSE g[k]]
  <2>3. \A k \in 1 .. n : g[k] = Sep(g, k)
    <3> HIDE DEF Sep
    <3> QED BY <2>1
  <2>4. ASSUME NEW k \in 1 .. n + 1
        PROVE  Sep(h, k) = Sep(g, k)
    <3>1. \A m \in DashLines(data) : m < k => h[m] = g[m]
      <4> HIDE DEF Sep
      <4> QED BY <2>2
    <3> HIDE DEF h
    <3> QED BY <3>1
  <2>5. \A k \in 1 .. n + 1 : h[k] = Sep(h, k)
    <3> SUFFICES ASSUME NEW k \in 1 .. n + 1 PROVE h[k] = Sep(h, k)
      OBVIOUS
    <3>1. h[k] = Sep(g, k)
      <4> HIDE DEF Sep
      <4>1. k = n + 1 \/ k \in 1 .. n
        BY <2>2
      <4> QED BY <2>3, <4>1
    <3> HIDE DEF Sep, h
    <3> QED BY <2>4, <3>1
  <2>6. IsSep(h, n + 1)
    <3>1. h = [k \in 1 .. n + 1 |-> h[k]]
      <4> HIDE DEF Sep
      <4> QED OBVIOUS
    <3> HIDE DEF Sep, h
    <3> QED BY <2>5, <3>1
  <2>7. n + 1 \in Nat /\ \E e : IsSep(e, n + 1)
    <3>1. n + 1 \in Nat
      BY <2>2
    <3> HIDE DEF h, IsSep
    <3> QED BY <2>6, <3>1
  <2> HIDE DEF IsSep
  <2> QED BY <2>7
<1>4. N + 1 \in S
  <2> HIDE DEF S
  <2>1. S \subseteq Nat
    BY DEF S
  <2>2. N + 1 \in Nat
    OBVIOUS
  <2> QED BY <1>2, <1>3, <2>1, <2>2, NatInductive
<1> DEFINE sep == CHOOSE g : IsSep(g, N + 1)
<1>5. IsSep(sep, N + 1)
  <2>1. \E g : IsSep(g, N + 1)
    <3> HIDE DEF IsSep
    <3> QED BY <1>4
  <2> HIDE DEF IsSep
  <2> QED BY <2>1
<1>6. Separates(data) = {k \in DOMAIN data : sep[k]}
  BY <1>1 DEF Separates
<1>7. \A k \in 1 .. N : sep[k] = Sep(sep, k)
  <2> HIDE DEF sep, Sep
  <2>1. \A k \in 1 .. N : k \in 1 .. N + 1
    OBVIOUS
  <2> QED BY <1>5, <2>1
<1>8. DashLines(data) \subseteq 1 .. N
  BY <1>1 DEF DashLines
<1> HIDE DEF sep
<1>9. \A m : m \in Separates(data) => m \in DashLines(data)
  BY <1>1, <1>6, <1>7
<1> QED BY <1>1, <1>6, <1>7, <1>8, <1>9 DEF Above

\* What the scanner has passed when it is between two documents.
Cut(data, c) == c = Len(data) \/ (c \in 0 .. Len(data) - 1 /\ c + 1 \in Starts(data))

\* "\n---" below the line that begins behind c.
DashesBelow(data, c, k) == k \in c + 2 .. Len(data) /\ data[k] = "dashes" /\ data[k - 1] = "newline"

\* The first of them.
NextDashes(data, c, k) == DashesBelow(data, c, k) /\ \A j \in c + 2 .. k - 1 : ~DashesBelow(data, c, j)

\* Below a separator a line of dashes separates nothing.
LEMMA StartIs ==
  ASSUME NEW data \in Seq(Byte), NEW c \in 0 .. Len(data) - 1, c + 1 \in Starts(data)
  PROVE  /\ c + 1 \notin Separates(data)
         /\ c # 0 => data[c] = "newline"
<1>1. PICK N \in Nat : N = Len(data) /\ DOMAIN data = 1 .. N
  BY LenProperties
<1>2. PICK p \in 1 .. N : p = c + 1
  BY <1>1
<1>3. CASE c = 0
  <2>1. p = 1
    BY <1>2, <1>3
  <2>2. p \notin Separates(data)
    BY <1>1, <1>2, <2>1, SeparatesIs
  <2> QED BY <1>2, <1>3, <2>2
<1>4. CASE c # 0
  <2>1. PICK m \in Separates(data) : p = LineEnd(data, m) + 1
    BY <1>1, <1>2, <1>4 DEF Starts
  <2>2. m \in DOMAIN data
    BY DEF Separates
  <2>3. m \in DashLines(data)
    BY <1>1, <2>2, SeparatesIs
  <2>4. PICK e : e = LineEnd(data, m)
    OBVIOUS
  <2>5. e \in m .. N + 1 /\ (e <= N => data[e] = "newline")
    BY <1>1, <2>2, <2>4, LineEndIs
  <2>6. e = c
    BY <1>1, <1>2, <2>1, <2>4, <2>5
  <2>7. data[c] = "newline" /\ m < p
    BY <1>1, <1>2, <2>5, <2>6, <2>2
  <2>8. Above(data, m, p)
    BY <2>1, <2>3, <2>7 DEF Above
  <2>9. p \notin Separates(data)
    BY <1>1, <1>2, <2>8, SeparatesIs
  <2> QED BY <1>2, <2>7, <2>9
<1> QED BY <1>3, <1>4

\* A separator below the start of a document is one of the dashes there.
LEMMA SeparatesBelow ==
  ASSUME NEW data \in Seq(Byte), NEW c \in 0 .. Len(data) - 1,
         NEW k \in Separates(data), c + 1 < k
  PROVE  DashesBelow(data, c, k)
<1>1. PICK N \in Nat : N = Len(data) /\ DOMAIN data = 1 .. N
  BY LenProperties
<1>2. k \in 1 .. N
  BY <1>1 DEF Separates
<1>3. k \in DashLines(data) \ {1}
  BY <1>1, <1>2, SeparatesIs
<1>4. data[k] = "dashes" /\ data[k - 1] = "newline"
  BY <1>3 DEF DashLines
<1> QED BY <1>1, <1>2, <1>4 DEF DashesBelow

\* The first dashes below the start of a document are its separator.
LEMMA NextSeparates ==
  ASSUME NEW data \in Seq(Byte), NEW c \in 0 .. Len(data) - 1, c + 1 \in Starts(data),
         NEW k, NextDashes(data, c, k)
  PROVE  k \in Separates(data) /\ EndFrom(data, c + 1) = k
<1>1. PICK N \in Nat : N = Len(data) /\ DOMAIN data = 1 .. N
  BY LenProperties
<1>2. /\ k \in c + 2 .. N /\ data[k] = "dashes" /\ data[k - 1] = "newline"
      /\ \A j \in c + 2 .. k - 1 : ~DashesBelow(data, c, j)
  BY <1>1 DEF NextDashes, DashesBelow
<1>3. k \in 1 .. N /\ k # 1 /\ k - 1 \in 1 .. N
  BY <1>1, <1>2
<1>4. k \in DashLines(data) \ {1}
  BY <1>1, <1>2, <1>3 DEF DashLines
<1>5. ASSUME NEW m \in Separates(data), Above(data, m, k)
      PROVE  FALSE
  <2>1. m \in 1 .. N /\ m < k /\ LineEnd(data, m) + 1 = k
    BY <1>1, <1>5 DEF Separates, Above
  <2>2. PICK e : e = LineEnd(data, m)
    OBVIOUS
  <2>3. e \in m .. N + 1
    BY <1>1, <2>1, <2>2, LineEndIs
  <2>4. CASE c + 1 < m
    <3>1. DashesBelow(data, c, m)
      BY <2>4, SeparatesBelow
    <3> QED BY <1>1, <1>2, <2>1, <2>4, <3>1
  <2>5. CASE m = c + 1
    BY <2>5, StartIs
  <2>6. CASE m <= c
    <3>1. data[c] = "newline" /\ c \in 1 .. N /\ m \in 1 .. c
      BY <1>1, <2>1, <2>6, StartIs
    <3>2. e <= c
      BY <1>1, <2>2, <3>1, LineEndBefore
    <3> QED BY <1>1, <1>2, <2>1, <2>2, <2>3, <3>2
  <2> QED BY <1>1, <2>1, <2>4, <2>5, <2>6
<1>6. k \in Separates(data)
  BY <1>1, <1>3, <1>4, <1>5, SeparatesIs
<1>7. EndFrom(data, c + 1) = k
  <2>1. PICK S : S = {m \in Separates(data) : m > c + 1} \cup {N + 1}
    OBVIOUS
  <2>2. EndFrom(data, c + 1) = Min(S)
    BY <1>1, <2>1 DEF EndFrom
  <2>3. S \subseteq Nat /\ k \in S
    BY <1>1, <1>2, <1>6, <2>1 DEF Separates
  <2>4. Min(S) \in S /\ Min(S) <= k
    BY <2>3, MinIsLeast
  <2>5. PICK j : j = Min(S)
    OBVIOUS
  <2>6. j \in Separates(data) /\ c + 1 < j /\ j <= k
    BY <1>1, <1>2, <2>1, <2>4, <2>5
  <2>7. DashesBelow(data, c, j) /\ j \in 1 .. N
    BY <1>1, <2>6, SeparatesBelow DEF Separates
  <2>8. ~(j \in c + 2 .. k - 1)
    BY <1>2, <2>7
  <2>9. j = k
    BY <1>1, <1>2, <2>6, <2>7, <2>8
  <2> QED BY <2>2, <2>5, <2>9
<1> QED BY <1>6, <1>7

\* Where there are none the document goes on to the end of the stream.
LEMMA NoneSeparates ==
  ASSUME NEW data \in Seq(Byte), NEW c \in 0 .. Len(data) - 1,
         \A k \in c + 2 .. Len(data) : ~DashesBelow(data, c, k)
  PROVE  EndFrom(data, c + 1) = Len(data) + 1
<1>1. PICK N \in Nat : N = Len(data) /\ DOMAIN data = 1 .. N
  BY LenProperties
<1>2. ASSUME NEW m \in Separates(data), m > c + 1 PROVE FALSE
  <2>1. m \in 1 .. N
    BY <1>1 DEF Separates
  <2>2. DashesBelow(data, c, m)
    BY <1>1, <1>2, <2>1, SeparatesBelow
  <2> QED BY <1>1, <1>2, <2>1, <2>2
<1>3. {m \in Separates(data) : m > c + 1} \cup {N + 1} = {N + 1}
  BY <1>2
<1>4. Min({N + 1}) = N + 1
  <2>1. {N + 1} \subseteq Nat /\ {N + 1} # {}
    OBVIOUS
  <2> QED BY <2>1, MinIsLeast
<1> QED BY <1>1, <1>3, <1>4 DEF EndFrom

\* No document starts between the start of one and the end of the line of
\* its separator.
LEMMA NothingStarts ==
  ASSUME NEW data \in Seq(Byte), NEW c \in 0 .. Len(data) - 1, c + 1 \in Starts(data),
         NEW e \in Nat,
         \/ \E k : NextDashes(data, c, k) /\ e = LineEnd(data, k)
         \/ (\A k \in c + 2 .. Len(data) : ~DashesBelow(data, c, k)) /\ e = Len(data)
  PROVE  \A p \in c + 2 .. Len(data) : p <= e => p \notin Starts(data)
<1>1. PICK N \in Nat : N = Len(data) /\ DOMAIN data = 1 .. N
  BY LenProperties
<1> SUFFICES ASSUME NEW p \in c + 2 .. Len(data), p <= e, p \in Starts(data) PROVE FALSE
  OBVIOUS
<1>2. PICK j \in Separates(data) : p = LineEnd(data, j) + 1
  BY <1>1 DEF Starts
<1>3. j \in 1 .. N
  BY <1>1 DEF Separates
<1>4. PICK f : f = LineEnd(data, j)
  OBVIOUS
<1>5. f \in j .. N + 1
  BY <1>1, <1>3, <1>4, LineEndIs
<1>6. CASE c + 1 < j
  <2>1. DashesBelow(data, c, j)
    BY <1>1, <1>6, SeparatesBelow
  <2>2. j \in c + 2 .. N
    BY <1>1, <1>3, <1>6
  <2>3. PICK k : NextDashes(data, c, k) /\ e = LineEnd(data, k)
    BY <1>1, <2>1, <2>2
  <2>4. k \in c + 2 .. N /\ ~(j \in c + 2 .. k - 1)
    BY <1>1, <2>1, <2>3 DEF NextDashes, DashesBelow
  <2>5. j \in k .. N /\ k \in 1 .. N
    BY <1>1, <2>2, <2>4
  <2>6. e <= f
    BY <1>1, <1>4, <2>3, <2>5, LineEndsInOrder
  <2> QED BY <1>1, <1>2, <1>4, <1>5, <2>6
<1>7. CASE j = c + 1
  BY <1>7, StartIs
<1>8. CASE j <= c
  <2>1. data[c] = "newline" /\ c \in 1 .. N /\ j \in 1 .. c
    BY <1>1, <1>3, <1>8, StartIs
  <2>2. f <= c
    BY <1>1, <1>4, <2>1, LineEndBefore
  <2> QED BY <1>1, <1>2, <1>4, <1>5, <2>2
<1> QED BY <1>1, <1>3, <1>6, <1>7, <1>8

-----------------------------------------------------------------------------
(* Documents.                                                               *)

\* SubSeq by its elements.
LEMMA SubSeqIs ==
  ASSUME NEW T, NEW s \in Seq(T), NEW a \in 1 .. Len(s) + 1, NEW b \in a - 1 .. Len(s)
  PROVE  /\ SubSeq(s, a, b) \in Seq(T) /\ Len(SubSeq(s, a, b)) = b - a + 1
         /\ DOMAIN SubSeq(s, a, b) = 1 .. b - a + 1
         /\ \A k \in 1 .. b - a + 1 : SubSeq(s, a, b)[k] = s[a + k - 1]
<1>1. PICK N \in Nat : N = Len(s) /\ s \in [1 .. N -> T]
  BY LenProperties
<1>2. a \in Int /\ b \in Int /\ \A k \in a .. b : s[k] \in T
  BY <1>1
<1>3. b - a + 1 \in Nat /\ (a <= b \/ b - a + 1 = 0)
  BY <1>1
<1>4. PICK t : t = SubSeq(s, a, b)
  OBVIOUS
<1>5. t \in Seq(T) /\ Len(t) = IF a <= b THEN b - a + 1 ELSE 0
  BY <1>2, <1>4, SubSeqProperties
<1>6. \A k \in 1 .. b - a + 1 : t[k] = s[a + k - 1]
  BY <1>2, <1>4, SubSeqProperties
<1>7. Len(t) = b - a + 1
  BY <1>1, <1>3, <1>5
<1>8. DOMAIN t = 1 .. Len(t)
  BY <1>5, LenProperties
<1> QED BY <1>4, <1>5, <1>6, <1>7, <1>8

\* Sequences that agree everywhere are equal.
LEMMA SameSeq ==
  ASSUME NEW T, NEW s \in Seq(T), NEW t \in Seq(T), Len(s) = Len(t),
         \A k \in 1 .. Len(s) : s[k] = t[k]
  PROVE  s = t
BY SeqEqual

\* What is left when the space around a text is cut off.
LEMMA TrimType ==
  ASSUME NEW x \in Seq(Byte)
  PROVE  Trim(x) \in Seq(Byte)
<1>1. PICK N \in Nat : N = Len(x) /\ DOMAIN x = 1 .. N
  BY LenProperties
<1>2. PICK ink : ink = {k \in DOMAIN x : x[k] # "newline"}
  OBVIOUS
<1>3. CASE ink = {}
  BY <1>2, <1>3, EmptySeq DEF Trim
<1>4. CASE ink # {}
  <2>1. Min(ink) \in ink /\ Max(ink) \in ink
    BY <1>1, <1>2, <1>4, MinIsLeast, MaxIsGreatest
  <2>2. PICK lo, hi : lo = Min(ink) /\ hi = Max(ink)
    OBVIOUS
  <2>3. \A y \in ink : y <= hi
    BY <1>1, <1>2, <1>4, <2>2, MaxIsGreatest
  <2>4. lo \in 1 .. N + 1 /\ hi \in lo - 1 .. N
    <3>1. lo \in ink /\ hi \in ink
      BY <2>1, <2>2
    <3>2. lo <= hi /\ lo \in 1 .. N /\ hi \in 1 .. N
      BY <1>1, <1>2, <2>3, <3>1
    <3> QED BY <3>2
  <2>5. SubSeq(x, lo, hi) \in Seq(Byte)
    BY <1>1, <2>4, SubSeqIs
  <2> QED BY <1>2, <1>4, <2>2, <2>5 DEF Trim
<1> QED BY <1>3, <1>4

\* A newline at the end is such space.
LEMMA TrimNewline ==
  ASSUME NEW x \in Seq(Byte), NEW y \in Seq(Byte), Len(x) = Len(y) + 1,
         \A k \in 1 .. Len(y) : x[k] = y[k],
         x[Len(x)] = "newline"
  PROVE  Trim(x) = Trim(y)
<1>1. PICK N \in Nat : N = Len(y) /\ DOMAIN y = 1 .. N
  BY LenProperties
<1>2. DOMAIN x = 1 .. N + 1
  BY <1>1, LenProperties
<1>3. PICK ink : ink = {k \in DOMAIN x : x[k] # "newline"}
  OBVIOUS
<1>4. ink = {k \in DOMAIN y : y[k] # "newline"}
  BY <1>1, <1>2, <1>3
<1>5. CASE ink = {}
  BY <1>3, <1>4, <1>5 DEF Trim
<1>6. CASE ink # {}
  <2>1. ink \subseteq 1 .. N
    BY <1>1, <1>4
  <2>2. Min(ink) \in ink /\ Max(ink) \in ink
    <3>1. ink \subseteq Nat
      BY <2>1
    <3> QED BY <1>6, <2>1, <3>1, MinIsLeast, MaxIsGreatest
  <2>3. PICK lo, hi : lo = Min(ink) /\ hi = Max(ink)
    OBVIOUS
  <2>4. \A z \in ink : z <= hi
    BY <1>1, <1>6, <2>1, <2>3, MaxIsGreatest
  <2>5. lo \in 1 .. N /\ hi \in lo .. N
    <3>1. lo \in ink /\ hi \in ink
      BY <2>2, <2>3
    <3>2. lo <= hi /\ lo \in 1 .. N /\ hi \in 1 .. N
      BY <2>1, <2>4, <3>1
    <3> QED BY <3>2
  <2>6. PICK s, t : s = SubSeq(x, lo, hi) /\ t = SubSeq(y, lo, hi)
    OBVIOUS
  <2>7. /\ s \in Seq(Byte) /\ Len(s) = hi - lo + 1
        /\ \A k \in 1 .. hi - lo + 1 : s[k] = x[lo + k - 1]
    <3>1. lo \in 1 .. Len(x) + 1 /\ hi \in lo - 1 .. Len(x)
      BY <1>1, <2>5
    <3> QED BY <2>6, <3>1, SubSeqIs
  <2>8. /\ t \in Seq(Byte) /\ Len(t) = hi - lo + 1
        /\ \A k \in 1 .. hi - lo + 1 : t[k] = y[lo + k - 1]
    <3>1. lo \in 1 .. Len(y) + 1 /\ hi \in lo - 1 .. Len(y)
      BY <1>1, <2>5
    <3> QED BY <2>6, <3>1, SubSeqIs
  <2>9. \A k \in 1 .. Len(s) : s[k] = t[k]
    <3> SUFFICES ASSUME NEW k \in 1 .. Len(s) PROVE s[k] = t[k]
      OBVIOUS
    <3>1. k \in 1 .. hi - lo + 1 /\ lo + k - 1 \in 1 .. N
      BY <1>1, <2>5, <2>7
    <3>2. PICK i \in 1 .. N : i = lo + k - 1
      BY <3>1
    <3>3. x[i] = y[i]
      BY <1>1, <3>2
    <3> QED BY <2>7, <2>8, <3>1, <3>2, <3>3
  <2>10. s = t
    BY <2>7, <2>8, <2>9, SameSeq
  <2> QED BY <1>3, <1>4, <1>6, <2>3, <2>6, <2>10 DEF Trim
<1> QED BY <1>5, <1>6

\* What is read of the document at each position.
ReadAt(data) ==
  [p \in DOMAIN data |->
    IF p \in Starts(data) /\ EndFrom(data, p) \notin Unterminated(data)
    THEN DocumentAt(data, p) ELSE <<>>]

\* What a token of the scanner brings.
ReadOf(raw) == IF IsContentFree(raw) THEN <<>> ELSE <<raw>>

\* The documents of a stream are put together from one part per position.
LEMMA ReadType ==
  ASSUME NEW data \in Seq(Byte)
  PROVE  /\ ReadAt(data) \in Seq(Seq(Seq(Byte))) /\ Len(ReadAt(data)) = Len(data)
         /\ Documents(data) = FlattenSeq(ReadAt(data))
<1>1. PICK N \in Nat : N = Len(data) /\ DOMAIN data = 1 .. N
  BY LenProperties
<1>2. ASSUME NEW x \in Seq(Byte) PROVE ReadOf(x) \in Seq(Seq(Byte))
  <2>1. <<x>> \in Seq(Seq(Byte))
    OBVIOUS
  <2> QED BY <2>1, EmptySeq DEF ReadOf
<1>3. ASSUME NEW p \in 1 .. N PROVE DocumentAt(data, p) \in Seq(Seq(Byte))
  <2>1. PICK e : e = EndFrom(data, p)
    OBVIOUS
  <2>2. e \in p .. N + 1
    <3>1. PICK S : S = {k \in Separates(data) : k > p} \cup {N + 1}
      OBVIOUS
    <3>2. S \subseteq p .. N + 1 /\ S # {} /\ S \subseteq Nat
      BY <1>1, <3>1 DEF Separates
    <3>3. e = Min(S)
      BY <1>1, <2>1, <3>1 DEF EndFrom
    <3> QED BY <3>2, <3>3, MinIsLeast
  <2>3. PICK b : b = e - 1
    OBVIOUS
  <2>4. b \in p - 1 .. N /\ p \in 1 .. N + 1
    BY <1>1, <2>2, <2>3
  <2>5. SubSeq(data, p, b) \in Seq(Byte)
    BY <1>1, <2>4, SubSeqIs
  <2>6. PICK raw : raw = Trim(SubSeq(data, p, b))
    OBVIOUS
  <2>7. raw \in Seq(Byte)
    BY <2>5, <2>6, TrimType
  <2>8. DocumentAt(data, p) = ReadOf(raw)
    BY <2>1, <2>3, <2>6 DEF DocumentAt, ReadOf
  <2> QED BY <1>2, <2>7, <2>8
<1>4. PICK r : r = ReadAt(data)
  OBVIOUS
<1>5. DOMAIN r = 1 .. N /\ r = [p \in 1 .. N |-> r[p]]
  BY <1>1, <1>4 DEF ReadAt
<1>6. \A p \in 1 .. N : r[p] \in Seq(Seq(Byte))
  BY <1>1, <1>3, <1>4, EmptySeq DEF ReadAt
<1>7. r \in Seq(Seq(Seq(Byte))) /\ Len(r) = N
  <2>1. r \in [1 .. N -> Seq(Seq(Byte))]
    BY <1>5, <1>6
  <2>2. r \in Seq(Seq(Seq(Byte)))
    BY <2>1, IsASeq
  <2> QED BY <1>5, <2>2, LenProperties
<1>8. Documents(data) = FlattenSeq(r)
  BY <1>4 DEF Documents, DocumentsBut, ReadAt
<1> QED BY <1>1, <1>4, <1>7, <1>8

-----------------------------------------------------------------------------
(* The scanner.                                                             *)

\* FirstOf is the least, or 0.
LEMMA FirstOfIs ==
  ASSUME NEW S, S \subseteq Nat \ {0}
  PROVE  /\ S = {} => FirstOf(S) = 0
         /\ S # {} => FirstOf(S) # 0 /\ FirstOf(S) \in S
         /\ S # {} => \A y \in S : FirstOf(S) <= y
<1>1. CASE S = {}
  BY <1>1 DEF FirstOf
<1>2. CASE S # {}
  <2>1. S \subseteq Nat
    OBVIOUS
  <2>2. Min(S) \in S /\ \A y \in S : Min(S) <= y
    BY <1>2, <2>1, MinIsLeast
  <2> QED BY <1>2, <2>2 DEF FirstOf
<1> QED BY <1>1, <1>2

\* The first separator of a buffer.
LEMMA SeparatorIs ==
  ASSUME NEW w \in Seq(Byte), NEW k, k = Separator(w)
  PROVE  /\ k = 0 => \A j \in 1 .. Len(w) - 1 : ~(w[j] = "newline" /\ w[j + 1] = "dashes")
         /\ k # 0 => k \in 1 .. Len(w) - 1 /\ w[k] = "newline" /\ w[k + 1] = "dashes"
         /\ k # 0 => \A j \in 1 .. k - 1 : ~(w[j] = "newline" /\ w[j + 1] = "dashes")
<1>1. PICK M \in Nat : M = Len(w)
  BY LenProperties
<1>2. PICK S : S = {j \in 1 .. M - 1 : w[j] = "newline" /\ w[j + 1] = "dashes"}
  OBVIOUS
<1>3. k = FirstOf(S)
  BY <1>1, <1>2 DEF Separator
<1>4. S \subseteq Nat \ {0}
  BY <1>2
<1>5. CASE S = {}
  <2>1. k = 0
    BY <1>3, <1>4, <1>5, FirstOfIs
  <2> QED BY <1>1, <1>2, <1>5, <2>1
<1>6. CASE S # {}
  <2>1. k # 0 /\ k \in S
    BY <1>3, <1>4, <1>6, FirstOfIs
  <2>2. \A y \in S : k <= y
    <3>1. \A y \in S : FirstOf(S) <= y
      BY ONLY <1>4, <1>6, FirstOfIs
    <3> QED BY ONLY <1>3, <3>1
  <2>3. \A j \in 1 .. k - 1 : j \notin S /\ j \in 1 .. M - 1
    BY <1>1, <1>2, <2>1, <2>2
  <2> QED BY <1>1, <1>2, <2>1, <2>3
<1> QED BY <1>5, <1>6

\* The newline below a separator.
LEMMA EndOfLineIs ==
  ASSUME NEW w \in Seq(Byte), NEW k \in Nat, NEW m, m = EndOfLine(w, k)
  PROVE  /\ m = 0 => \A j \in k + 2 .. Len(w) : w[j] # "newline"
         /\ m # 0 => m \in k + 2 .. Len(w) /\ w[m] = "newline"
         /\ m # 0 => \A j \in k + 2 .. m - 1 : w[j] # "newline"
<1>1. PICK M \in Nat : M = Len(w)
  BY LenProperties
<1>2. PICK S : S = {j \in k + 2 .. M : w[j] = "newline"}
  OBVIOUS
<1>3. m = FirstOf(S)
  BY <1>1, <1>2 DEF EndOfLine
<1>4. S \subseteq Nat \ {0}
  BY <1>2
<1>5. CASE S = {}
  <2>1. m = 0
    BY <1>3, <1>4, <1>5, FirstOfIs
  <2> QED BY <1>1, <1>2, <1>5, <2>1
<1>6. CASE S # {}
  <2>1. m # 0 /\ m \in S
    BY <1>3, <1>4, <1>6, FirstOfIs
  <2>2. \A y \in S : m <= y
    <3>1. \A y \in S : FirstOf(S) <= y
      BY ONLY <1>4, <1>6, FirstOfIs
    <3> QED BY ONLY <1>3, <3>1
  <2>3. \A j \in k + 2 .. m - 1 : j \notin S /\ j \in k + 2 .. M
    BY <1>1, <1>2, <2>1, <2>2
  <2> QED BY <1>1, <1>2, <2>1, <2>3
<1> QED BY <1>5, <1>6

\* Bytes from c + 1 to b of the stream are in the buffer.
Window(data, c, b, w) == w = SubSeq(data, c + 1, b)

\* Between c and e there is x to read.
Yields(data, c, e, x) == Before(ReadAt(data), e) = Before(ReadAt(data), c) \o x

\* The document that starts behind c has been read, up to e.
LEMMA ReadOne ==
  ASSUME NEW data \in Seq(Byte), NEW c \in 0 .. Len(data) - 1, c + 1 \in Starts(data),
         NEW e \in c + 1 .. Len(data), \A p \in c + 2 .. Len(data) : p <= e => p \notin Starts(data)
  PROVE  Yields(data, c, e, ReadAt(data)[c + 1])
<1>1. PICK N \in Nat : N = Len(data) /\ DOMAIN data = 1 .. N
  BY LenProperties
<1>2. PICK r : r = ReadAt(data)
  OBVIOUS
<1>3. r \in Seq(Seq(Seq(Byte))) /\ Len(r) = N
  BY <1>1, <1>2, ReadType
<1>4. \A p \in c + 1 + 1 .. e : r[p] = <<>>
  <2> SUFFICES ASSUME NEW p \in c + 1 + 1 .. e PROVE r[p] = <<>>
    OBVIOUS
  <2>1. p \in c + 2 .. N /\ p <= e /\ p \in 1 .. N
    BY <1>1
  <2>2. p \notin Starts(data)
    BY <1>1, <2>1
  <2> QED BY <1>1, <1>2, <2>1, <2>2 DEF ReadAt
<1>5. PICK d : d = c + 1
  OBVIOUS
<1>6. d \in 0 .. Len(r) /\ e \in d .. Len(r) /\ d \in 1 .. Len(r) /\ d - 1 = c
  BY <1>1, <1>3, <1>5
<1>7. Before(r, e) = Before(r, d)
  BY <1>3, <1>4, <1>5, <1>6, BeforeSame
<1>8. Before(r, d) = Before(r, c) \o r[d]
  BY <1>3, <1>6, BeforeStep
<1> QED BY <1>2, <1>5, <1>7, <1>8 DEF Yields

\* The buffer, byte by byte.
LEMMA WindowIs ==
  ASSUME NEW data \in Seq(Byte), NEW c \in 0 .. Len(data), NEW b \in c .. Len(data),
         NEW w, Window(data, c, b, w)
  PROVE  /\ w \in Seq(Byte) /\ Len(w) = b - c
         /\ \A j \in 1 .. b - c : w[j] = data[c + j]
<1>1. PICK N \in Nat : N = Len(data)
  BY LenProperties
<1>2. PICK a : a = c + 1
  OBVIOUS
<1>3. a \in 1 .. N + 1 /\ b \in a - 1 .. N /\ b - a + 1 = b - c
  BY <1>1, <1>2
<1>4. w = SubSeq(data, a, b)
  BY <1>2 DEF Window
<1>5. w \in Seq(Byte) /\ Len(w) = b - a + 1
  BY <1>1, <1>3, <1>4, SubSeqIs
<1>6. \A j \in 1 .. b - a + 1 : w[j] = data[a + j - 1]
  BY <1>1, <1>3, <1>4, SubSeqIs
<1>7. \A j \in 1 .. b - c : a + j - 1 = c + j
  BY <1>2
<1> QED BY <1>3, <1>5, <1>6, <1>7

\* A separator in the buffer is the first below the start of the document.
LEMMA SeparatorInWindow ==
  ASSUME NEW data \in Seq(Byte), NEW c \in 0 .. Len(data) - 1, NEW b \in c .. Len(data),
         NEW w, Window(data, c, b, w), NEW k, k = Separator(w)
  PROVE  /\ k = 0 => \A j \in c + 2 .. b : ~DashesBelow(data, c, j)
         /\ k # 0 => k \in 1 .. b - c - 1 /\ NextDashes(data, c, c + k + 1)
<1>1. PICK N \in Nat : N = Len(data)
  BY LenProperties
<1>2. PICK M \in Nat : M = b - c
  BY <1>1
<1>3. w \in Seq(Byte) /\ Len(w) = M /\ \A j \in 1 .. M : w[j] = data[c + j]
  BY <1>1, <1>2, WindowIs
<1>4. ASSUME NEW i \in c + 2 .. b, DashesBelow(data, c, i)
      PROVE  \E j \in 1 .. M - 1 : i = c + j + 1 /\ w[j] = "newline" /\ w[j + 1] = "dashes"
  <2>1. data[i] = "dashes" /\ data[i - 1] = "newline"
    BY <1>4 DEF DashesBelow
  <2>2. PICK j : j = i - c - 1
    OBVIOUS
  <2>3. j \in 1 .. M - 1 /\ j + 1 \in 1 .. M /\ i = c + j + 1 /\ c + j = i - 1 /\ c + (j + 1) = i
    BY <1>1, <1>2, <2>2
  <2>4. w[j] = data[i - 1] /\ w[j + 1] = data[i]
    <3>1. w[j] = data[c + j]
      BY <1>3, <2>3
    <3>2. w[j + 1] = data[c + (j + 1)]
      BY <1>3, <2>3
    <3> QED BY <2>3, <3>1, <3>2
  <2> QED BY <2>1, <2>3, <2>4
<1>5. CASE k = 0
  <2>1. \A j \in 1 .. M - 1 : ~(w[j] = "newline" /\ w[j + 1] = "dashes")
    BY <1>3, <1>5, SeparatorIs
  <2> QED BY <1>4, <1>5, <2>1
<1>6. CASE k # 0
  <2>1. k \in 1 .. M - 1 /\ w[k] = "newline" /\ w[k + 1] = "dashes"
    BY <1>3, <1>6, SeparatorIs
  <2>2. \A j \in 1 .. k - 1 : ~(w[j] = "newline" /\ w[j + 1] = "dashes")
    BY <1>3, <1>6, SeparatorIs
  <2>3. PICK i : i = c + k + 1
    OBVIOUS
  <2>4. i \in c + 2 .. N /\ i \in c + 2 .. b /\ c + k = i - 1 /\ c + (k + 1) = i /\ k + 1 \in 1 .. M
    BY <1>1, <1>2, <2>1, <2>3
  <2>5. data[i - 1] = "newline" /\ data[i] = "dashes"
    <3>1. w[k] = data[c + k]
      BY <1>3, <2>1
    <3>2. w[k + 1] = data[c + (k + 1)]
      BY <1>3, <2>4
    <3> QED BY <2>1, <2>4, <3>1, <3>2
  <2>6. DashesBelow(data, c, i)
    BY <1>1, <2>4, <2>5 DEF DashesBelow
  <2>7. ASSUME NEW h \in c + 2 .. i - 1, DashesBelow(data, c, h)
        PROVE  FALSE
    <3>1. h \in c + 2 .. b
      BY <1>1, <2>4
    <3>2. PICK j \in 1 .. M - 1 : h = c + j + 1 /\ w[j] = "newline" /\ w[j + 1] = "dashes"
      BY <1>4, <2>7, <3>1
    <3>3. j \in 1 .. k - 1
      BY <2>1, <2>3, <3>2
    <3> QED BY <2>2, <3>2, <3>3
  <2>8. NextDashes(data, c, i)
    BY <2>6, <2>7 DEF NextDashes
  <2> QED BY <1>2, <1>6, <2>1, <2>3, <2>8
<1> QED BY <1>5, <1>6

\* The line of the separator ends where the buffer says, or behind the stream.
LEMMA EndInWindow ==
  ASSUME NEW data \in Seq(Byte), NEW c \in 0 .. Len(data) - 1, NEW b \in c .. Len(data),
         NEW w, Window(data, c, b, w), NEW k \in 1 .. b - c - 1, data[c + k + 1] = "dashes",
         NEW m, m = EndOfLine(w, k)
  PROVE  /\ m # 0 => m \in k + 2 .. b - c /\ LineEnd(data, c + k + 1) = c + m
         /\ m = 0 /\ b = Len(data) => LineEnd(data, c + k + 1) = Len(data) + 1
<1>1. PICK N \in Nat : N = Len(data)
  BY LenProperties
<1>2. PICK M \in Nat : M = b - c
  BY <1>1
<1>3. w \in Seq(Byte) /\ Len(w) = M /\ \A j \in 1 .. M : w[j] = data[c + j]
  BY <1>1, <1>2, WindowIs
<1>4. PICK i : i = c + k + 1
  OBVIOUS
<1>5. i \in 1 .. N /\ k \in Nat /\ k \in 1 .. M - 1 /\ data[i] = "dashes"
  BY <1>1, <1>2, <1>4
<1>6. ASSUME NEW e \in k + 2 .. M + 1, \A j \in k + 2 .. e - 1 : w[j] # "newline"
      PROVE  \A h \in i .. c + e - 1 : data[h] # "newline"
  <2> SUFFICES ASSUME NEW h \in i .. c + e - 1 PROVE data[h] # "newline"
    OBVIOUS
  <2>1. CASE h = i
    BY <1>5, <2>1
  <2>2. CASE h # i
    <3>1. PICK j : j = h - c
      OBVIOUS
    <3>2. j \in k + 2 .. e - 1 /\ j \in 1 .. M /\ c + j = h
      BY <1>1, <1>2, <1>4, <1>5, <2>2, <3>1
    <3>3. w[j] = data[c + j]
      BY <1>3, <3>2
    <3> QED BY <1>6, <3>2, <3>3
  <2> QED BY <2>1, <2>2
<1>7. CASE m # 0
  <2>1. m \in k + 2 .. M /\ w[m] = "newline"
    BY <1>3, <1>5, <1>7, EndOfLineIs
  <2>2. \A j \in k + 2 .. m - 1 : w[j] # "newline"
    BY <1>3, <1>5, <1>7, EndOfLineIs
  <2>3. PICK e : e = c + m
    OBVIOUS
  <2>4. m \in k + 2 .. M + 1 /\ m \in 1 .. M
    BY <1>5, <2>1
  <2>5. \A h \in i .. e - 1 : data[h] # "newline"
    <3>1. \A h \in i .. c + m - 1 : data[h] # "newline"
      BY <1>6, <2>2, <2>4
    <3> SUFFICES ASSUME NEW h \in i .. e - 1 PROVE data[h] # "newline"
      OBVIOUS
    <3>2. h \in i .. c + m - 1
      BY <1>1, <1>5, <2>1, <2>3
    <3> QED BY <3>1, <3>2
  <2>6. data[e] = "newline"
    BY <1>3, <2>1, <2>3, <2>4
  <2>7. e \in i .. N + 1
    BY <1>1, <1>2, <1>4, <1>5, <2>1, <2>3
  <2>8. LineEnd(data, i) = e
    BY <1>1, <1>5, <2>5, <2>6, <2>7, LineEndAt
  <2> QED BY <1>2, <1>4, <1>7, <2>1, <2>3, <2>8
<1>8. CASE m = 0 /\ b = N
  <2>1. \A j \in k + 2 .. M : w[j] # "newline"
    BY <1>3, <1>5, <1>8, EndOfLineIs
  <2>2. PICK e : e = M + 1
    OBVIOUS
  <2>3. e \in k + 2 .. M + 1 /\ e - 1 = M /\ c + e = N + 1
    BY <1>1, <1>2, <1>5, <1>8, <2>2
  <2>4. \A h \in i .. c + e - 1 : data[h] # "newline"
    BY <1>6, <2>1, <2>3
  <2>5. PICK f : f = N + 1
    OBVIOUS
  <2>6. f \in i .. N + 1 /\ f = c + e /\ ~(f <= N)
    BY <1>1, <1>5, <2>3, <2>5
  <2>7. \A h \in i .. f - 1 : data[h] # "newline"
    <3> SUFFICES ASSUME NEW h \in i .. f - 1 PROVE data[h] # "newline"
      OBVIOUS
    <3>1. h \in i .. c + e - 1
      BY <1>1, <1>5, <2>3, <2>5
    <3> QED BY <2>4, <3>1
  <2>8. LineEnd(data, i) = f
    BY <1>1, <1>5, <2>6, <2>7, LineEndAt
  <2> QED BY <1>1, <1>4, <1>8, <2>5, <2>8
<1> QED BY <1>1, <1>7, <1>8

\* What the split function answers, by cases.
LEMMA SplitIs ==
  ASSUME NEW w \in Seq(Byte), NEW atEnd \in BOOLEAN, NEW k, k = Separator(w), NEW M, M = Len(w),
         NEW m, m = EndOfLine(w, k)
  PROVE  /\ w = <<>> => SplitDocument(w, atEnd) = MoreData
         /\ w # <<>> /\ k = 0 =>
              SplitDocument(w, atEnd) = IF atEnd THEN Token(M, w) ELSE MoreData
         /\ w # <<>> /\ k > 0 /\ k + 1 = M =>
              SplitDocument(w, atEnd) = IF atEnd THEN Token(M, SubSeq(w, 1, k - 1)) ELSE MoreData
         /\ w # <<>> /\ k > 0 /\ k + 1 # M /\ m > 0 =>
              SplitDocument(w, atEnd) = Token(m, SubSeq(w, 1, k - 1))
         /\ w # <<>> /\ k > 0 /\ k + 1 # M /\ m = 0 => SplitDocument(w, atEnd) = MoreData
<1>1. M \in Nat /\ k \in Nat /\ m \in Nat
  <2>1. M \in Nat
    BY LenProperties
  <2>2. k \in Nat
    BY <2>1, SeparatorIs
  <2>3. m \in Nat
    BY <2>1, <2>2, EndOfLineIs
  <2> QED BY <2>1, <2>2, <2>3
<1>2. w = <<>> => k = 0
  <2>1. k # 0 => k \in 1 .. M - 1
    BY SeparatorIs
  <2>2. w = <<>> => M = 0
    BY EmptySeq
  <2> QED BY <1>1, <2>1, <2>2
<1>3. k > 0 /\ m > 0 => m \in k + 2 .. M
  BY <1>1, EndOfLineIs
<1>4. k > 0 /\ m > 0 => k + 1 # M
  BY <1>1, <1>3
<1> DEFINE s == SplitDocument(w, atEnd)
<1>5. CASE w = <<>>
  <2>1. k = 0
    BY <1>2, <1>5
  <2> QED BY <1>5, <2>1 DEF SplitDocument
<1>6. CASE w # <<>> /\ k = 0
  BY <1>6 DEF SplitDocument
<1>7. CASE w # <<>> /\ k > 0 /\ k + 1 = M
  <2>1. ~(m > 0) /\ ~(k = 0)
    BY <1>1, <1>4, <1>7
  <2> QED BY <1>7, <2>1 DEF SplitDocument
<1>8. CASE w # <<>> /\ k > 0 /\ k + 1 # M /\ m > 0
  <2>1. ~(m = 0) /\ ~(k = 0)
    BY <1>1, <1>8
  <2> QED BY <1>8, <2>1 DEF SplitDocument
<1>9. CASE w # <<>> /\ k > 0 /\ k + 1 # M /\ m = 0
  <2>1. ~(m > 0) /\ ~(k = 0)
    BY <1>1, <1>9
  <2> QED BY <1>9, <2>1 DEF SplitDocument
<1> QED BY <1>1, <1>5, <1>6, <1>7, <1>8, <1>9

\* What is read of the document behind c: the text above its separator.
LEMMA ReadHere ==
  ASSUME NEW data \in Seq(Byte), NEW c \in 0 .. Len(data) - 1, c + 1 \in Starts(data),
         NEW d, EndFrom(data, c + 1) = d
  PROVE  ReadAt(data)[c + 1] =
           IF d \in Unterminated(data) THEN <<>> ELSE ReadOf(Trim(SubSeq(data, c + 1, d - 1)))
<1>1. PICK N \in Nat : N = Len(data) /\ DOMAIN data = 1 .. N
  BY LenProperties
<1>2. PICK p : p = c + 1
  OBVIOUS
<1>3. p \in DOMAIN data
  BY <1>1, <1>2
<1>4. ReadAt(data)[p] = IF d \in Unterminated(data) THEN <<>> ELSE DocumentAt(data, p)
  BY <1>2, <1>3 DEF ReadAt
<1>5. DocumentAt(data, p) = ReadOf(Trim(SubSeq(data, p, d - 1)))
  BY <1>2 DEF DocumentAt, ReadOf
<1> QED BY <1>2, <1>4, <1>5

\* The end of the stream closes the last document.
LEMMA LastToken ==
  ASSUME NEW data \in Seq(Byte), NEW c \in 0 .. Len(data) - 1, c + 1 \in Starts(data),
         NEW w, Window(data, c, Len(data), w), Separator(w) = 0
  PROVE  Yields(data, c, Len(data), ReadOf(Trim(w)))
<1>1. PICK N \in Nat : N = Len(data) /\ DOMAIN data = 1 .. N
  BY LenProperties
<1>2. c \in 0 .. N /\ N \in c .. N
  BY <1>1
<1>3. \A j \in c + 2 .. N : ~DashesBelow(data, c, j)
  BY <1>1, <1>2, SeparatorInWindow
<1>4. EndFrom(data, c + 1) = N + 1
  BY <1>1, <1>3, NoneSeparates
<1>5. N + 1 \notin Unterminated(data)
  BY <1>1 DEF Unterminated, Separates
<1>6. w = SubSeq(data, c + 1, N + 1 - 1)
  BY <1>1 DEF Window
<1>7. ReadAt(data)[c + 1] = ReadOf(Trim(w))
  BY <1>1, <1>4, <1>5, <1>6, ReadHere
<1>8. \A p \in c + 2 .. N : p <= N => p \notin Starts(data)
  BY <1>1, <1>3, NothingStarts
<1>9. N \in c + 1 .. N
  BY <1>1
<1>10. N \in c + 1 .. Len(data) /\ \A p \in c + 2 .. Len(data) : p <= N => p \notin Starts(data)
  BY <1>1, <1>8, <1>9
<1>11. Yields(data, c, N, ReadAt(data)[c + 1])
  BY <1>10, ReadOne
<1> QED BY <1>1, <1>7, <1>11

\* The text above the separator at k, in the stream and in the buffer: the
\* buffer's leaves out the newline before the dashes.
LEMMA TokenText ==
  ASSUME NEW data \in Seq(Byte), NEW c \in 0 .. Len(data) - 1, NEW b \in c .. Len(data),
         NEW w, Window(data, c, b, w), NEW k \in 1 .. b - c - 1, data[c + k] = "newline"
  PROVE  /\ SubSeq(w, 1, k - 1) \in Seq(Byte)
         /\ Trim(SubSeq(data, c + 1, c + k)) = Trim(SubSeq(w, 1, k - 1))
<1>1. PICK N \in Nat : N = Len(data)
  BY LenProperties
<1>2. PICK M \in Nat : M = b - c
  BY <1>1
<1>3. w \in Seq(Byte) /\ Len(w) = M /\ \A j \in 1 .. M : w[j] = data[c + j]
  BY <1>1, <1>2, WindowIs
<1>4. PICK x, y : x = SubSeq(data, c + 1, c + k) /\ y = SubSeq(w, 1, k - 1)
  OBVIOUS
<1>5. /\ y \in Seq(Byte) /\ Len(y) = k - 1
      /\ \A j \in 1 .. k - 1 : y[j] = w[j]
  <2>1. PICK z : z = k - 1
    OBVIOUS
  <2>2. 1 \in 1 .. M + 1 /\ z \in 1 - 1 .. M /\ z - 1 + 1 = z
    BY <1>2, <2>1
  <2>3. y \in Seq(Byte) /\ Len(y) = z - 1 + 1
    BY <1>3, <1>4, <2>1, <2>2, SubSeqIs
  <2>4. \A j \in 1 .. z - 1 + 1 : y[j] = w[1 + j - 1]
    BY <1>3, <1>4, <2>1, <2>2, SubSeqIs
  <2>5. \A j \in 1 .. z : 1 + j - 1 = j
    OBVIOUS
  <2> QED BY <2>1, <2>2, <2>3, <2>4, <2>5
<1>6. /\ x \in Seq(Byte) /\ Len(x) = k
      /\ \A j \in 1 .. k : x[j] = data[c + j]
  <2>1. PICK a, z : a = c + 1 /\ z = c + k
    OBVIOUS
  <2>2. a \in 1 .. N + 1 /\ z \in a - 1 .. N /\ z - a + 1 = k
    BY <1>1, <1>2, <2>1
  <2>3. x \in Seq(Byte) /\ Len(x) = z - a + 1
    BY <1>1, <1>4, <2>1, <2>2, SubSeqIs
  <2>4. \A j \in 1 .. z - a + 1 : x[j] = data[a + j - 1]
    BY <1>1, <1>4, <2>1, <2>2, SubSeqIs
  <2>5. \A j \in 1 .. k : a + j - 1 = c + j
    BY <1>1, <2>1
  <2> QED BY <2>2, <2>3, <2>4, <2>5
<1>7. \A j \in 1 .. k - 1 : x[j] = y[j]
  <2> SUFFICES ASSUME NEW j \in 1 .. k - 1 PROVE x[j] = y[j]
    OBVIOUS
  <2>1. j \in 1 .. k /\ j \in 1 .. M
    BY <1>2
  <2>2. x[j] = data[c + j] /\ y[j] = w[j] /\ w[j] = data[c + j]
    BY <1>3, <1>5, <1>6, <2>1
  <2> QED BY <2>2
<1>8. k \in 1 .. k
  BY <1>2
<1>9. x[k] = "newline" /\ Len(x) = Len(y) + 1
  BY <1>5, <1>6, <1>8
<1>10. \A j \in 1 .. Len(y) : x[j] = y[j]
  BY <1>5, <1>7
<1>11. Trim(x) = Trim(y)
  BY <1>5, <1>6, <1>9, <1>10, TrimNewline
<1> QED BY <1>4, <1>5, <1>11

\* The first separator in the buffer, in the stream.
LEMMA SeparatorInStream ==
  ASSUME NEW data \in Seq(Byte), NEW c \in 0 .. Len(data) - 1, c + 1 \in Starts(data),
         NEW b \in c .. Len(data), NEW w, Window(data, c, b, w),
         NEW k, k = Separator(w), k # 0
  PROVE  /\ k \in 1 .. b - c - 1 /\ data[c + k] = "newline" /\ data[c + k + 1] = "dashes"
         /\ NextDashes(data, c, c + k + 1)
         /\ c + k + 1 \in Separates(data)
         /\ ReadAt(data)[c + 1] =
              IF c + k + 1 \in Unterminated(data) THEN <<>> ELSE ReadOf(Trim(SubSeq(w, 1, k - 1)))
<1>1. PICK N \in Nat : N = Len(data)
  BY LenProperties
<1>2. PICK i : i = c + k + 1
  OBVIOUS
<1>3. k \in 1 .. b - c - 1 /\ NextDashes(data, c, i)
  <2>1. c \in 0 .. Len(data) - 1
    OBVIOUS
  <2> QED BY <1>2, <2>1, SeparatorInWindow
<1>4. i - 1 = c + k
  BY <1>1, <1>2, <1>3
<1>5. data[c + k] = "newline" /\ data[i] = "dashes"
  BY <1>3, <1>4 DEF NextDashes, DashesBelow
<1>6. i \in Separates(data) /\ EndFrom(data, c + 1) = i
  BY <1>3, NextSeparates
<1>7. Trim(SubSeq(data, c + 1, c + k)) = Trim(SubSeq(w, 1, k - 1))
  BY <1>3, <1>5, TokenText
<1>8. ReadAt(data)[c + 1] =
        IF i \in Unterminated(data) THEN <<>> ELSE ReadOf(Trim(SubSeq(data, c + 1, i - 1)))
  BY <1>6, ReadHere
<1> QED BY <1>2, <1>3, <1>4, <1>5, <1>6, <1>7, <1>8

\* A separator whose line ends in the stream closes the document above it.
LEMMA LineToken ==
  ASSUME NEW data \in Seq(Byte), NEW c \in 0 .. Len(data) - 1, c + 1 \in Starts(data),
         NEW b \in c .. Len(data), NEW w, Window(data, c, b, w),
         NEW k, k = Separator(w), k # 0, NEW m, m = EndOfLine(w, k), m # 0,
         NEW t, t = SubSeq(w, 1, k - 1), NEW e, e = c + m
  PROVE  /\ m \in 1 .. b - c /\ Cut(data, e)
         /\ Yields(data, c, e, ReadOf(Trim(t)))
<1>1. PICK N \in Nat : N = Len(data) /\ DOMAIN data = 1 .. N
  BY LenProperties
<1>2. PICK i : i = c + k + 1
  OBVIOUS
<1>3. k \in 1 .. b - c - 1 /\ data[i] = "dashes" /\ NextDashes(data, c, i) /\ i \in Separates(data)
  BY <1>2, SeparatorInStream
<1>4. m \in k + 2 .. b - c /\ LineEnd(data, i) = c + m
  BY <1>2, <1>3, EndInWindow
<1>5. e = c + m
  OBVIOUS
<1>6. e \in c + 1 .. N /\ e \in Nat /\ m \in 1 .. b - c
  BY <1>1, <1>3, <1>4, <1>5
<1>7. i \notin Unterminated(data)
  BY <1>1, <1>4, <1>5, <1>6 DEF Unterminated
<1>8. ReadAt(data)[c + 1] = ReadOf(Trim(SubSeq(w, 1, k - 1)))
  BY <1>2, <1>7, SeparatorInStream
<1>9. \A p \in c + 2 .. Len(data) : p <= e => p \notin Starts(data)
  <2>1. \E j : NextDashes(data, c, j) /\ e = LineEnd(data, j)
    BY <1>3, <1>4, <1>5
  <2> QED BY <1>6, <2>1, NothingStarts
<1>10. Yields(data, c, e, ReadAt(data)[c + 1])
  BY <1>1, <1>6, <1>9, ReadOne
<1>11. Cut(data, e)
  <2>1. e + 1 \in Starts(data)
    BY <1>3, <1>4, <1>5 DEF Starts
  <2> QED BY <1>1, <1>6, <2>1 DEF Cut
<1> QED BY <1>5, <1>6, <1>8, <1>10, <1>11

\* One that ends with the stream is a separator when it is dashes alone;
\* otherwise the document above it is lost.
LEMMA EndToken ==
  ASSUME NEW data \in Seq(Byte), NEW c \in 0 .. Len(data) - 1, c + 1 \in Starts(data),
         NEW w, Window(data, c, Len(data), w),
         NEW k, k = Separator(w), k # 0, EndOfLine(w, k) = 0
  PROVE  Yields(data, c, Len(data),
               IF c + k + 1 = Len(data) THEN ReadOf(Trim(SubSeq(w, 1, k - 1))) ELSE <<>>)
<1>1. PICK N \in Nat : N = Len(data) /\ DOMAIN data = 1 .. N
  BY LenProperties
<1>2. PICK i : i = c + k + 1
  OBVIOUS
<1>3. N \in c .. Len(data) /\ Window(data, c, N, w)
  BY <1>1
<1>4. k \in 1 .. N - c - 1 /\ data[i] = "dashes" /\ NextDashes(data, c, i) /\ i \in Separates(data)
  BY <1>2, <1>3, SeparatorInStream
<1>5. LineEnd(data, i) = N + 1
  BY <1>1, <1>2, <1>3, <1>4, EndInWindow
<1>6. i \in 1 .. N
  BY <1>1, <1>4 DEF Separates
<1>7. i \in Unterminated(data) <=> i # N
  BY <1>1, <1>4, <1>5, <1>6 DEF Unterminated
<1>8. ReadAt(data)[c + 1] = IF i \in Unterminated(data) THEN <<>> ELSE ReadOf(Trim(SubSeq(w, 1, k - 1)))
  BY <1>2, <1>3, SeparatorInStream
<1>9. \A p \in c + 2 .. Len(data) : p <= N => p \notin Starts(data)
  <2>1. PICK f \in Nat : f = N + 1
    OBVIOUS
  <2>2. \E j : NextDashes(data, c, j) /\ f = LineEnd(data, j)
    BY <1>4, <1>5, <2>1
  <2>3. \A p \in c + 2 .. Len(data) : p <= f => p \notin Starts(data)
    BY <2>2, NothingStarts
  <2> QED BY <1>1, <2>1, <2>3
<1>10. N \in c + 1 .. Len(data)
  BY <1>1
<1>11. Yields(data, c, N, ReadAt(data)[c + 1])
  BY <1>9, <1>10, ReadOne
<1> QED BY <1>1, <1>2, <1>7, <1>8, <1>11

\* Whatever the buffer holds, a token is the next document of the stream, and
\* when there is none at the end, nothing is left to read.
LEMMA ScanStep ==
  ASSUME NEW data \in Seq(Byte), NEW c \in 0 .. Len(data), Cut(data, c),
         NEW b \in c .. Len(data), NEW w, Window(data, c, b, w),
         NEW atEnd \in BOOLEAN, atEnd => b = Len(data),
         NEW s, s = SplitDocument(w, atEnd)
  PROVE  /\ s.found \in BOOLEAN
         /\ s.found => /\ s.advance \in 1 .. b - c /\ Cut(data, c + s.advance)
                       /\ s.token \in Seq(Byte)
                       /\ Yields(data, c, c + s.advance, ReadOf(Trim(s.token)))
         /\ ~s.found /\ atEnd => Yields(data, c, Len(data), <<>>)
<1>1. PICK N \in Nat : N = Len(data) /\ DOMAIN data = 1 .. N
  BY LenProperties
<1>2. PICK M \in Nat : M = b - c
  BY <1>1
<1>3. w \in Seq(Byte) /\ Len(w) = M
  BY <1>1, <1>2, WindowIs
<1>4. PICK k, m : k = Separator(w) /\ m = EndOfLine(w, k)
  OBVIOUS
<1>5. w = <<>> <=> M = 0
  BY <1>3, EmptySeq
<1>6. PICK r : r = ReadAt(data)
  OBVIOUS
<1>7. r \in Seq(Seq(Seq(Byte))) /\ Len(r) = N
  BY <1>1, <1>6, ReadType
<1>8. CASE w = <<>>
  <2>1. s = MoreData
    BY <1>3, <1>4, <1>8, SplitIs
  <2>2. atEnd => c = N
    BY <1>1, <1>2, <1>5, <1>8
  <2>3. PICK u \in Seq(Seq(Byte)) : u = Before(ReadAt(data), c)
    BY <1>1, <1>6, <1>7, BeforeStep
  <2>4. u \o <<>> = u
    BY ONLY ConcatEmptySeq
  <2>5. atEnd => Yields(data, c, N, <<>>)
    BY <2>2, <2>3, <2>4 DEF Yields
  <2> QED BY <1>1, <2>1, <2>5 DEF MoreData
<1>9. CASE w # <<>>
  <2>1. M # 0 /\ c \in 0 .. N - 1
    BY <1>1, <1>2, <1>5, <1>9
  <2>2. c + 1 \in Starts(data)
    BY <1>1, <2>1 DEF Cut
  <2>3. N \in 1 .. N /\ Cut(data, N)
    BY <1>1, <2>1 DEF Cut
  <2>4. CASE k = 0
    <3>1. s = IF atEnd THEN Token(M, w) ELSE MoreData
      BY <1>3, <1>4, <1>9, <2>4, SplitIs
    <3>2. ASSUME atEnd
          PROVE  /\ M \in 1 .. b - c /\ c + M = N
                 /\ Yields(data, c, N, ReadOf(Trim(w)))
      <4>1. M \in 1 .. b - c /\ c + M = N
        BY <1>1, <1>2, <2>1, <3>2
      <4>2. Window(data, c, Len(data), w) /\ Separator(w) = 0
        BY <1>4, <2>4, <3>2
      <4>3. c \in 0 .. Len(data) - 1
        BY <1>1, <2>1
      <4>4. Yields(data, c, N, ReadOf(Trim(w)))
        BY <1>1, <2>2, <4>2, <4>3, LastToken
      <4> QED BY <4>1, <4>4
    <3> QED BY <1>1, <1>3, <2>3, <3>1, <3>2 DEF Token, MoreData
  <2>5. CASE k # 0
    <3>1. c \in 0 .. Len(data) - 1
      BY <1>1, <2>1
    <3>2. /\ k \in 1 .. M - 1 /\ data[c + k] = "newline"
      BY <1>2, <1>4, <2>2, <2>5, <3>1, SeparatorInStream
    <3>3. SubSeq(w, 1, k - 1) \in Seq(Byte)
      BY <1>2, <3>1, <3>2, TokenText
    <3>4. PICK t : t = SubSeq(w, 1, k - 1)
      OBVIOUS
    <3>5. k > 0 /\ m \in Nat /\ (m # 0 => m \in k + 2 .. M)
      BY <1>3, <1>4, <3>2, EndOfLineIs
    <3>6. CASE m # 0
      <4>1. s = Token(m, t)
        <5>1. k + 1 # M /\ m > 0
          BY <1>2, <3>2, <3>5, <3>6
        <5> QED BY <1>3, <1>4, <1>9, <3>4, <3>5, <5>1, SplitIs
      <4>2. PICK e : e = c + m
        OBVIOUS
      <4>3. m \in 1 .. b - c /\ Cut(data, e) /\ Yields(data, c, e, ReadOf(Trim(t)))
        BY <1>4, <2>2, <2>5, <3>1, <3>4, <3>6, <4>2, LineToken
      <4> QED BY <3>3, <3>4, <4>1, <4>2, <4>3 DEF Token
    <3>7. CASE m = 0
      <4>1. ASSUME atEnd
            PROVE  Yields(data, c, N, IF c + k + 1 = N THEN ReadOf(Trim(t)) ELSE <<>>)
        <5>1. Window(data, c, Len(data), w) /\ EndOfLine(w, k) = 0
          BY <1>4, <3>7, <4>1
        <5> QED BY <1>1, <1>4, <2>2, <2>5, <3>1, <3>4, <5>1, EndToken
      <4>2. CASE k + 1 = M
        <5>1. s = IF atEnd THEN Token(M, t) ELSE MoreData
          BY <1>3, <1>4, <1>9, <3>4, <3>5, <4>2, SplitIs
        <5>2. atEnd => M \in 1 .. b - c /\ c + M = N /\ c + k + 1 = N
          BY <1>1, <1>2, <2>1, <3>2, <4>2
        <5>3. ASSUME atEnd
              PROVE  Yields(data, c, N, ReadOf(Trim(t)))
          BY <4>1, <5>2, <5>3
        <5>4. t \in Seq(Byte)
          BY <3>3, <3>4
        <5>5. CASE atEnd
          <6>1. s.found = TRUE /\ s.advance = M /\ s.token = t
            BY <5>1, <5>5 DEF Token
          <6>2. Cut(data, c + M) /\ Yields(data, c, c + M, ReadOf(Trim(t)))
            BY <2>3, <5>2, <5>3, <5>5
          <6> QED BY <5>2, <5>4, <5>5, <6>1, <6>2
        <5>6. CASE ~atEnd
          BY <5>1, <5>6 DEF MoreData
        <5> QED BY <5>5, <5>6
      <4>3. CASE k + 1 # M
        <5>1. s = MoreData
          BY <1>3, <1>4, <1>9, <3>5, <3>7, <4>3, SplitIs
        <5>2. ASSUME atEnd PROVE Yields(data, c, N, <<>>)
          <6>1. c + k + 1 # N
            BY <1>1, <1>2, <3>2, <4>3, <5>2
          <6> QED BY <4>1, <5>2, <6>1
        <5> QED BY <1>1, <5>1, <5>2 DEF MoreData
      <4> QED BY <4>2, <4>3
    <3> QED BY <3>6, <3>7
  <2> QED BY <2>4, <2>5
<1> QED BY <1>8, <1>9

\* Where the n-th of the sequences is in all of them.
LEMMA FlattenAt ==
  ASSUME NEW T, NEW ss \in Seq(Seq(T)), NEW n \in 1 .. Len(ss)
  PROVE  /\ FlattenSeq(ss) \in Seq(T)
         /\ Len(Before(ss, n - 1)) \in Nat
         /\ Len(Before(ss, n)) = Len(Before(ss, n - 1)) + Len(ss[n])
         /\ Len(Before(ss, n)) <= Len(FlattenSeq(ss))
         /\ \A i \in 1 .. Len(ss[n]) : FlattenSeq(ss)[Len(Before(ss, n - 1)) + i] = ss[n][i]
<1>1. PICK N \in Nat : N = Len(ss) /\ DOMAIN ss = 1 .. N
  BY LenProperties
<1>2. n - 1 \in 0 .. Len(ss) /\ n \in 0 .. Len(ss) /\ N \in n .. Len(ss)
  BY <1>1
<1>3. PICK a \in Seq(T) : a = Before(ss, n - 1)
  BY <1>2, BeforeStep
<1>4. PICK x \in Seq(T) : x = ss[n]
  BY <1>1, ElementOfSeq
<1>5. Before(ss, n) = a \o x
  BY <1>3, <1>4, BeforeStep
<1>6. PICK u \in Seq(T) : Before(ss, N) = Before(ss, n) \o u
  BY <1>2, BeforeExtends
<1>7. FlattenSeq(ss) = (a \o x) \o u
  BY <1>1, <1>5, <1>6, BeforeStep
<1>8. PICK la, lx, lu \in Nat : la = Len(a) /\ lx = Len(x) /\ lu = Len(u)
  BY LenProperties
<1>9. PICK ax \in Seq(T) : ax = a \o x
  BY ConcatProperties
<1>10. Len(ax) = la + lx /\ \A i \in 1 .. la + lx : ax[i] = IF i <= la THEN a[i] ELSE x[i - la]
  BY <1>8, <1>9, ConcatProperties
<1>11. PICK all \in Seq(T) : all = ax \o u
  BY ConcatProperties
<1>12. /\ Len(all) = la + lx + lu
       /\ \A i \in 1 .. la + lx + lu : all[i] = IF i <= la + lx THEN ax[i] ELSE u[i - (la + lx)]
  <2>1. /\ Len(ax \o u) = Len(ax) + Len(u)
        /\ \A i \in 1 .. Len(ax) + Len(u) :
             (ax \o u)[i] = IF i <= Len(ax) THEN ax[i] ELSE u[i - Len(ax)]
    BY ONLY ConcatProperties
  <2> QED BY <1>8, <1>10, <1>11, <2>1
<1>13. \A i \in 1 .. lx : all[la + i] = x[i]
  <2> SUFFICES ASSUME NEW i \in 1 .. lx PROVE all[la + i] = x[i]
    OBVIOUS
  <2>1. PICK j : j = la + i
    OBVIOUS
  <2>2. j \in 1 .. la + lx /\ j \in 1 .. la + lx + lu /\ j <= la + lx /\ ~(j <= la) /\ j - la = i
    BY <1>8, <2>1
  <2>3. all[j] = ax[j]
    BY <1>12, <2>2
  <2>4. ax[j] = x[j - la]
    BY <1>10, <2>2
  <2> QED BY <2>1, <2>2, <2>3, <2>4
<1>14. FlattenSeq(ss) = all
  BY <1>7, <1>9, <1>11
<1>15. la + lx <= la + lx + lu
  BY <1>8
<1> QED BY <1>3, <1>4, <1>5, <1>8, <1>9, <1>10, <1>12, <1>13, <1>14, <1>15

\* The two ends of the loop of FlattenSeq.
LEMMA BeforeEnds ==
  ASSUME NEW T, NEW ss \in Seq(Seq(T))
  PROVE  /\ Len(Before(ss, 0)) = 0
         /\ Before(ss, Len(ss)) = FlattenSeq(ss)
         /\ FlattenSeq(ss) \in Seq(T)
         /\ \A n \in 0 .. Len(ss) : Len(Before(ss, n)) \in 0 .. Len(FlattenSeq(ss))
<1>1. PICK N \in Nat : N = Len(ss)
  BY LenProperties
<1>2. PICK all \in Seq(T) : all = FlattenSeq(ss) /\ all = Before(ss, N)
  <2>1. N \in 0 .. N
    OBVIOUS
  <2> QED BY <1>1, <2>1, BeforeStep
<1>3. ASSUME NEW n \in 0 .. N PROVE Len(Before(ss, n)) \in 0 .. Len(all)
  <2>1. n \in 0 .. Len(ss) /\ N \in n .. Len(ss)
    BY <1>1
  <2>2. PICK u \in Seq(T) : Before(ss, N) = Before(ss, n) \o u
    BY <2>1, BeforeExtends
  <2>3. PICK a \in Seq(T) : a = Before(ss, n)
    BY <2>1, BeforeStep
  <2>4. Len(all) = Len(a) + Len(u)
    BY <1>2, <2>2, <2>3, ConcatProperties
  <2> QED BY <2>3, <2>4, LenProperties
<1>4. Before(ss, 0) = <<>>
  BY BeforeStep
<1> QED BY <1>1, <1>2, <1>3, <1>4, EmptySeq

-----------------------------------------------------------------------------
(* The sources of a command line.                                           *)

\* What documents, sources and the parts of a command line are.
Rendered == [annotated : BOOLEAN, schemas : SUBSET Label]
Raw == Seq(Byte) \cup Rendered
Input == [label : Label, docs : Seq(Raw), error : BOOLEAN]

\* The sources by path and by entry, the events by source: what FlattenSeq is given.
PathSources(w) == [k \in DOMAIN w |-> FromPath(w[k])]
EntrySources(es) == [k \in DOMAIN es |-> FromEntry(es, k)]
SourceEvents(w) == [k \in DOMAIN SourcesOf(w) |-> EventsOf(SourcesOf(w)[k], k - 1)]

\* A file brings one source.
LEMMA FileIsInput ==
  ASSUME NEW e \in Entry
  PROVE  FromFile(e) \in Input
<1>1. e.label \in Label /\ e.content \in Seq(Byte)
  BY DEF Entry
<1>2. <<>> \in Seq(Raw)
  BY EmptySeq
<1>3. Documents(e.content) \in Seq(Raw)
  <2>1. PICK data \in Seq(Byte) : data = e.content
    BY <1>1
  <2>2. ReadAt(data) \in Seq(Seq(Seq(Byte))) /\ Documents(data) = FlattenSeq(ReadAt(data))
    BY ReadType
  <2>3. Documents(data) \in Seq(Seq(Byte))
    BY <2>2, BeforeEnds
  <2>4. Seq(Byte) \subseteq Raw
    BY DEF Raw
  <2> QED BY <2>1, <2>3, <2>4, SeqMonotonic
<1> QED BY <1>1, <1>2, <1>3 DEF FromFile, SourceOf, Input

\* So does a kustomization.
LEMMA BuildIsInput ==
  ASSUME NEW e \in Entry
  PROVE  FromBuild(e) \in Input
<1>1. e.label \in Label /\ e.built \in Nat /\ e.asks \in BOOLEAN
  BY DEF Entry
<1>2. <<>> \in Seq(Raw)
  BY EmptySeq
<1>3. RenderedAlone(e) \in Seq(Raw)
  <2>1. PICK x : x = Rendering(e.asks, IF e.openapi THEN {e.label} ELSE {})
    OBVIOUS
  <2>2. x \in Raw
    BY <1>1, <2>1 DEF Rendering, Raw, Rendered
  <2>3. RenderedAlone(e) = [n \in 1 .. e.built |-> x]
    BY <2>1 DEF RenderedAlone
  <2> QED BY <1>1, <2>2, <2>3, IsASeq
<1> QED BY <1>1, <1>2, <1>3 DEF FromBuild, SourceOf, Input

\* A sequence of one.
LEMMA OneIsSeq ==
  ASSUME NEW T, NEW x \in T
  PROVE  <<x>> \in Seq(T) /\ Len(<<x>>) = 1 /\ <<x>>[1] = x
OBVIOUS

\* What an entry brings, if it brings anything.
LEMMA EntryBrings ==
  ASSUME NEW es \in Seq(Entry), NEW k \in 1 .. Len(es)
  PROVE  FromEntry(es, k) \in Seq(Input)
<1>1. es[k] \in Entry
  BY ElementOfSeq
<1>2. FromBuild(es[k]) \in Input /\ FromFile(es[k]) \in Input
  BY <1>1, FileIsInput, BuildIsInput
<1>3. PICK x \in Input : x = IF es[k].dir THEN FromBuild(es[k]) ELSE FromFile(es[k])
  BY <1>2
<1>4. <<x>> \in Seq(Input) /\ <<>> \in Seq(Input)
  BY OneIsSeq, EmptySeq
<1> QED BY <1>3, <1>4 DEF FromEntry

\* What the entries of a directory bring.
LEMMA EntriesBring ==
  ASSUME NEW es \in Seq(Entry)
  PROVE  /\ EntrySources(es) \in Seq(Seq(Input)) /\ Len(EntrySources(es)) = Len(es)
         /\ \A k \in 1 .. Len(es) : EntrySources(es)[k] = FromEntry(es, k)
<1>1. PICK N \in Nat : N = Len(es) /\ DOMAIN es = 1 .. N
  BY LenProperties
<1>2. PICK f : f = EntrySources(es)
  OBVIOUS
<1>3. f = [k \in 1 .. N |-> FromEntry(es, k)]
  BY <1>1, <1>2 DEF EntrySources
<1>4. f \in [1 .. N -> Seq(Input)]
  BY <1>1, <1>3, EntryBrings
<1>5. f \in Seq(Seq(Input))
  BY <1>4, IsASeq
<1>6. Len(f) = N
  BY <1>3, <1>5, LenProperties
<1> QED BY <1>1, <1>2, <1>3, <1>5, <1>6

\* A path that fails is a source without documents.
Failed(p) == SourceOf(p.label, <<>>, TRUE)

\* So does a failure.
LEMMA FailedIsInput ==
  ASSUME NEW p \in Path
  PROVE  Failed(p) \in Input
<1>1. p.label \in Label /\ <<>> \in Seq(Raw)
  BY EmptySeq DEF Path
<1> QED BY <1>1 DEF Failed, SourceOf, Input

\* What a directory brings: what its entries bring, and its failure.
LEMMA DirectoryBrings ==
  ASSUME NEW p \in Path, NEW es \in Seq(Entry), es = p.entries
  PROVE  /\ FromDirectory(p) \in Seq(Input)
         /\ Unlistable(es) = {} => FromDirectory(p) = FlattenSeq(EntrySources(es))
         /\ Unlistable(es) # {} => FromDirectory(p) = Append(FlattenSeq(EntrySources(es)), Failed(p))
<1>1. PICK f \in Seq(Input) : f = FlattenSeq(EntrySources(es))
  BY EntriesBring, BeforeEnds
<1>2. FromDirectory(p) = f \o (IF Unlistable(es) = {} THEN <<>> ELSE <<Failed(p)>>)
  BY <1>1 DEF FromDirectory, EntrySources, Failed
<1>3. CASE Unlistable(es) = {}
  <2>1. f \o <<>> = f
    BY ONLY ConcatEmptySeq
  <2> QED BY <1>1, <1>2, <1>3, <2>1
<1>4. CASE Unlistable(es) # {}
  <2>1. PICK x \in Input : x = Failed(p)
    BY FailedIsInput
  <2>2. f \o <<x>> = Append(f, x) /\ Append(f, x) \in Seq(Input)
    OBVIOUS
  <2> QED BY <1>1, <1>2, <1>4, <2>1, <2>2
<1> QED BY <1>3, <1>4

\* What a path brings, by what it is.
LEMMA PathBrings ==
  ASSUME NEW p \in Path, WellFormed(p)
  PROVE  /\ FromPath(p) \in Seq(Input)
         /\ p.what = "missing" => FromPath(p) = <<Failed(p)>>
         /\ p.what = "reader" => FromPath(p) = <<FromFile(p.entries[1])>>
         /\ p.what = "kustomization" => FromPath(p) = <<FromBuild(p.entries[1])>>
         /\ p.what = "directory" => FromPath(p) = FromDirectory(p)
<1>1. /\ p.entries \in Seq(Entry)
      /\ p.what \in {"missing", "reader", "kustomization", "directory"}
  BY DEF Path
<1>2. p.what \in {"reader", "kustomization"} => p.entries[1] \in Entry
  <2>1. p.what \in {"reader", "kustomization"} => p.entries # <<>>
    BY DEF WellFormed
  <2>2. p.entries # <<>> => 1 \in 1 .. Len(p.entries)
    BY <1>1, EmptySeq
  <2> QED BY <1>1, <2>1, <2>2, ElementOfSeq
<1>3. CASE p.what = "missing"
  <2>1. FromPath(p) = <<Failed(p)>>
    BY <1>3 DEF FromPath, Failed
  <2> QED BY <1>3, <2>1, FailedIsInput, OneIsSeq
<1>4. CASE p.what = "reader"
  <2>1. FromPath(p) = <<FromFile(p.entries[1])>>
    BY <1>4 DEF FromPath
  <2>2. PICK x \in Input : x = FromFile(p.entries[1])
    BY <1>2, <1>4, FileIsInput
  <2> QED BY <1>4, <2>1, <2>2, OneIsSeq
<1>5. CASE p.what = "kustomization"
  <2>1. FromPath(p) = <<FromBuild(p.entries[1])>>
    BY <1>5 DEF FromPath
  <2>2. PICK x \in Input : x = FromBuild(p.entries[1])
    BY <1>2, <1>5, BuildIsInput
  <2> QED BY <1>5, <2>1, <2>2, OneIsSeq
<1>6. CASE p.what = "directory"
  <2>1. FromPath(p) = FromDirectory(p)
    BY <1>6 DEF FromPath
  <2> QED BY <1>1, <1>6, <2>1, DirectoryBrings
<1> QED BY <1>1, <1>3, <1>4, <1>5, <1>6

\* A command line is a sequence of paths.
LEMMA WalksAre ==
  ASSUME NEW w \in Walks
  PROVE  w \in Seq(Path) /\ \A k \in 1 .. Len(w) : w[k] \in Path /\ WellFormed(w[k])
<1>1. w \in Seq(Path) /\ \A k \in DOMAIN w : WellFormed(w[k])
  BY WalksAssumption
<1> QED BY <1>1, LenProperties, ElementOfSeq

\* And brings what its paths bring.
LEMMA WalkBrings ==
  ASSUME NEW w \in Walks
  PROVE  /\ PathSources(w) \in Seq(Seq(Input)) /\ Len(PathSources(w)) = Len(w)
         /\ \A k \in 1 .. Len(w) : PathSources(w)[k] = FromPath(w[k])
         /\ SourcesOf(w) = FlattenSeq(PathSources(w))
<1>1. PICK N \in Nat : N = Len(w) /\ DOMAIN w = 1 .. N
  BY WalksAre, LenProperties
<1>2. PICK f : f = PathSources(w)
  OBVIOUS
<1>3. f = [k \in 1 .. N |-> FromPath(w[k])]
  BY <1>1, <1>2 DEF PathSources
<1>4. f \in [1 .. N -> Seq(Input)]
  BY <1>1, <1>3, WalksAre, PathBrings
<1>5. f \in Seq(Seq(Input))
  BY <1>4, IsASeq
<1>6. Len(f) = N
  BY <1>3, <1>5, LenProperties
<1>7. SourcesOf(w) = FlattenSeq(f)
  BY <1>2 DEF SourcesOf, PathSources
<1> QED BY <1>1, <1>2, <1>3, <1>5, <1>6, <1>7

-----------------------------------------------------------------------------
(* The events of a source.                                                  *)

\* An event, with no cursor.
EventOf(l, n, kind, d, raw) == [label |-> l, src |-> n, kind |-> kind, doc |-> d, raw |-> raw]
Emission == [label : Label, src : Nat, kind : {"doc", "error", "final"}, doc : Nat, raw : Raw]

\* The events of a source: its documents, its error, its Final.
LEMMA EventsAre ==
  ASSUME NEW s \in Input, NEW n \in Nat, NEW e, e = EventsOf(s, n)
  PROVE  /\ e \in Seq(Emission)
         /\ Len(s.docs) \in Nat
         /\ s.error => Len(e) = Len(s.docs) + 2
         /\ ~s.error => Len(e) = Len(s.docs) + 1
         /\ \A d \in 1 .. Len(s.docs) : e[d] = EventOf(s.label, n, "doc", d, s.docs[d])
         /\ s.error => e[Len(s.docs) + 1] = EventOf(s.label, n, "error", 0, <<>>)
         /\ e[Len(e)] = EventOf(s.label, n, "final", 0, <<>>)
<1>1. s.label \in Label /\ s.docs \in Seq(Raw) /\ s.error \in BOOLEAN
  BY DEF Input
<1>2. PICK K \in Nat : K = Len(s.docs) /\ DOMAIN s.docs = 1 .. K
  BY <1>1, LenProperties
<1>3. PICK D : D = [d \in 1 .. K |-> EventOf(s.label, n, "doc", d, s.docs[d])]
  OBVIOUS
<1>4. \A d \in 1 .. K : EventOf(s.label, n, "doc", d, s.docs[d]) \in Emission
  <2> SUFFICES ASSUME NEW d \in 1 .. K
               PROVE  EventOf(s.label, n, "doc", d, s.docs[d]) \in Emission
    OBVIOUS
  <2>1. s.docs[d] \in Raw
    BY <1>1, <1>2, ElementOfSeq
  <2> QED BY <1>1, <2>1 DEF EventOf, Emission
<1>5. D \in Seq(Emission) /\ Len(D) = K /\ \A d \in 1 .. K : D[d] = EventOf(s.label, n, "doc", d, s.docs[d])
  <2>1. D \in [1 .. K -> Emission]
    BY <1>3, <1>4
  <2>2. D \in Seq(Emission)
    BY <2>1, IsASeq
  <2>3. Len(D) = K
    BY <1>3, <2>2, LenProperties
  <2> QED BY <1>3, <2>2, <2>3
<1>6. <<>> \in Raw
  BY EmptySeq DEF Raw
<1>7. PICK x, y \in Emission : /\ x = EventOf(s.label, n, "error", 0, <<>>)
                               /\ y = EventOf(s.label, n, "final", 0, <<>>)
  BY <1>1, <1>6 DEF EventOf, Emission
<1>8. e = D \o (IF s.error THEN <<x>> ELSE <<>>) \o <<y>>
  BY <1>2, <1>3, <1>7 DEF EventsOf, EventOf
<1>9. CASE s.error
  <2>1. PICK f \in Seq(Emission) : f = D \o <<x>>
    BY <1>5, <1>7, OneIsSeq, ConcatProperties
  <2>2. Len(f) = K + 1 /\ f[K + 1] = x /\ \A d \in 1 .. K : f[d] = D[d]
    BY <1>2, <1>5, <1>7, <2>1
  <2>3. e = f \o <<y>>
    BY <1>8, <1>9, <2>1
  <2>4. e \in Seq(Emission) /\ Len(e) = K + 2 /\ e[K + 2] = y /\ \A d \in 1 .. K + 1 : e[d] = f[d]
    BY <1>2, <1>7, <2>2, <2>3
  <2>5. Len(e) = Len(s.docs) + 2 /\ e[Len(e)] = y /\ e[Len(s.docs) + 1] = x
    BY <1>2, <2>2, <2>4
  <2>6. \A d \in 1 .. Len(s.docs) : e[d] = D[d]
    BY <1>2, <2>2, <2>4
  <2> QED BY <1>2, <1>5, <1>7, <1>9, <2>4, <2>5, <2>6
<1>10. CASE ~s.error
  <2>1. D \o <<>> = D
    BY ONLY <1>5, ConcatEmptySeq
  <2>2. e = D \o <<y>>
    BY <1>8, <1>10, <2>1
  <2>3. e \in Seq(Emission) /\ Len(e) = K + 1 /\ e[K + 1] = y /\ \A d \in 1 .. K : e[d] = D[d]
    BY <1>2, <1>5, <1>7, <2>2
  <2> QED BY <1>2, <1>5, <1>7, <1>10, <2>3
<1> QED BY <1>1, <1>9, <1>10

\* The events of a command line are those of its sources.
LEMMA WalkEmits ==
  ASSUME NEW w \in Walks
  PROVE  /\ SourcesOf(w) \in Seq(Input)
         /\ SourceEvents(w) \in Seq(Seq(Emission)) /\ Len(SourceEvents(w)) = Len(SourcesOf(w))
         /\ \A k \in 1 .. Len(SourcesOf(w)) : SourceEvents(w)[k] = EventsOf(SourcesOf(w)[k], k - 1)
         /\ Discovered(w) = FlattenSeq(SourceEvents(w))
<1>1. PICK ss \in Seq(Input) : ss = SourcesOf(w)
  BY WalkBrings, BeforeEnds
<1>2. PICK N \in Nat : N = Len(ss) /\ DOMAIN ss = 1 .. N
  BY LenProperties
<1>3. PICK f : f = SourceEvents(w)
  OBVIOUS
<1>4. f = [k \in 1 .. N |-> EventsOf(ss[k], k - 1)]
  BY <1>1, <1>2, <1>3 DEF SourceEvents
<1>5. \A k \in 1 .. N : EventsOf(ss[k], k - 1) \in Seq(Emission)
  <2> SUFFICES ASSUME NEW k \in 1 .. N PROVE EventsOf(ss[k], k - 1) \in Seq(Emission)
    OBVIOUS
  <2>1. PICK i \in Nat : i = k - 1
    BY <1>2
  <2>2. ss[k] \in Input
    BY <1>2, ElementOfSeq
  <2> QED BY <2>1, <2>2, EventsAre
<1>6. f \in [1 .. N -> Seq(Emission)]
  BY <1>4, <1>5
<1>7. f \in Seq(Seq(Emission))
  BY <1>6, IsASeq
<1>8. Len(f) = N
  BY <1>4, <1>7, LenProperties
<1>9. Discovered(w) = FlattenSeq(f)
  BY <1>3 DEF Discovered, SourceEvents
<1> QED BY <1>1, <1>2, <1>3, <1>4, <1>7, <1>8, <1>9

-----------------------------------------------------------------------------
(* The buffer.                                                              *)

\* The token is taken from the front of the buffer.
LEMMA WindowCut ==
  ASSUME NEW data \in Seq(Byte), NEW c \in 0 .. Len(data), NEW b \in c .. Len(data),
         NEW w, Window(data, c, b, w), NEW a \in 1 .. b - c
  PROVE  Window(data, c + a, b, SubSeq(w, a + 1, Len(w)))
<1>1. PICK N \in Nat : N = Len(data)
  BY LenProperties
<1>2. PICK M \in Nat : M = b - c
  BY <1>1
<1>3. w \in Seq(Byte) /\ Len(w) = M /\ \A j \in 1 .. M : w[j] = data[c + j]
  BY <1>1, <1>2, WindowIs
<1>4. PICK p, q : p = SubSeq(w, a + 1, M) /\ q = SubSeq(data, c + a + 1, b)
  OBVIOUS
<1>5. PICK a1, ca : a1 = a + 1 /\ ca = c + a + 1
  OBVIOUS
<1>6. a1 \in 1 .. M + 1 /\ M \in a1 - 1 .. M /\ M - a1 + 1 = M - a
  BY <1>2, <1>5
<1>7. p \in Seq(Byte) /\ Len(p) = M - a
  BY <1>3, <1>4, <1>5, <1>6, SubSeqIs
<1>8. \A j \in 1 .. M - a : p[j] = w[a1 + j - 1]
  <2>1. \A j \in 1 .. M - a1 + 1 : p[j] = w[a1 + j - 1]
    BY <1>3, <1>4, <1>5, <1>6, SubSeqIs
  <2> QED BY <1>6, <2>1
<1>9. ca \in 1 .. N + 1 /\ b \in ca - 1 .. N /\ b - ca + 1 = M - a
  BY <1>1, <1>2, <1>5
<1>10. q \in Seq(Byte) /\ Len(q) = b - ca + 1
  BY <1>1, <1>4, <1>5, <1>9, SubSeqIs
<1>11. \A j \in 1 .. M - a : q[j] = data[ca + j - 1]
  <2>1. \A j \in 1 .. b - ca + 1 : q[j] = data[ca + j - 1]
    BY <1>1, <1>4, <1>5, <1>9, SubSeqIs
  <2> QED BY <1>9, <2>1
<1>12. \A j \in 1 .. M - a : p[j] = q[j]
  <2> SUFFICES ASSUME NEW j \in 1 .. M - a PROVE p[j] = q[j]
    OBVIOUS
  <2>1. PICK i : i = a1 + j - 1
    OBVIOUS
  <2>2. i \in 1 .. M /\ ca + j - 1 = c + i
    BY <1>1, <1>2, <1>5, <2>1
  <2>3. w[i] = data[c + i]
    BY <1>3, <2>2
  <2> QED BY <1>8, <1>11, <2>1, <2>2, <2>3
<1>13. p = q
  BY <1>7, <1>9, <1>10, <1>12, SameSeq
<1> QED BY <1>3, <1>4, <1>13 DEF Window

\* What is read is put behind it.
LEMMA WindowGrow ==
  ASSUME NEW data \in Seq(Byte), NEW c \in 0 .. Len(data), NEW b \in c .. Len(data),
         NEW w, Window(data, c, b, w), NEW r, Window(data, b, Len(data), r),
         NEW n \in 1 .. Len(data) - b
  PROVE  Window(data, c, b + n, w \o SubSeq(r, 1, n))
<1>1. PICK N \in Nat : N = Len(data)
  BY LenProperties
<1>2. PICK M \in Nat, L \in Nat : M = b - c /\ L = N - b
  <2>1. b - c \in Nat /\ N - b \in Nat
    BY <1>1
  <2> QED BY <2>1
<1>3. w \in Seq(Byte) /\ Len(w) = M /\ \A j \in 1 .. M : w[j] = data[c + j]
  BY <1>1, <1>2, WindowIs
<1>4. r \in Seq(Byte) /\ Len(r) = L /\ \A j \in 1 .. L : r[j] = data[b + j]
  <2>1. b \in 0 .. Len(data) /\ N \in b .. Len(data) /\ Window(data, b, N, r)
    BY <1>1
  <2> QED BY <1>2, <2>1, WindowIs
<1>5. PICK t : t = SubSeq(r, 1, n)
  OBVIOUS
<1>6. t \in Seq(Byte) /\ Len(t) = n /\ \A j \in 1 .. n : t[j] = r[j]
  <2>1. 1 \in 1 .. L + 1 /\ n \in 1 - 1 .. L /\ n - 1 + 1 = n
    BY <1>1, <1>2
  <2>2. t \in Seq(Byte) /\ Len(t) = n - 1 + 1
    BY <1>4, <1>5, <2>1, SubSeqIs
  <2>3. \A j \in 1 .. n - 1 + 1 : t[j] = r[1 + j - 1]
    BY <1>4, <1>5, <2>1, SubSeqIs
  <2>4. \A j \in 1 .. n : 1 + j - 1 = j
    OBVIOUS
  <2> QED BY <2>1, <2>2, <2>3, <2>4
<1>7. PICK p, q : p = w \o t /\ q = SubSeq(data, c + 1, b + n)
  OBVIOUS
<1>8. /\ p \in Seq(Byte) /\ Len(p) = M + n
      /\ \A j \in 1 .. M + n : p[j] = IF j <= M THEN w[j] ELSE t[j - M]
  <2>1. /\ w \o t \in Seq(Byte) /\ Len(w \o t) = Len(w) + Len(t)
        /\ \A j \in 1 .. Len(w) + Len(t) : (w \o t)[j] = IF j <= Len(w) THEN w[j] ELSE t[j - Len(w)]
    BY ONLY <1>3, <1>6, ConcatProperties
  <2> QED BY <1>3, <1>6, <1>7, <2>1
<1>9. PICK c1, bn : c1 = c + 1 /\ bn = b + n
  OBVIOUS
<1>10. c1 \in 1 .. N + 1 /\ bn \in c1 - 1 .. N /\ bn - c1 + 1 = M + n
  BY <1>1, <1>2, <1>9
<1>11. q \in Seq(Byte) /\ Len(q) = bn - c1 + 1
  BY <1>1, <1>7, <1>9, <1>10, SubSeqIs
<1>12. \A j \in 1 .. M + n : q[j] = data[c1 + j - 1]
  <2>1. \A j \in 1 .. bn - c1 + 1 : q[j] = data[c1 + j - 1]
    BY <1>1, <1>7, <1>9, <1>10, SubSeqIs
  <2> QED BY <1>10, <2>1
<1>13. \A j \in 1 .. M + n : p[j] = q[j]
  <2> SUFFICES ASSUME NEW j \in 1 .. M + n PROVE p[j] = q[j]
    OBVIOUS
  <2>1. CASE j <= M
    <3>1. j \in 1 .. M /\ c1 + j - 1 = c + j
      BY <1>1, <1>2, <1>9, <2>1
    <3>2. p[j] = w[j] /\ w[j] = data[c + j]
      BY <1>3, <1>8, <3>1, <2>1
    <3> QED BY <1>12, <3>1, <3>2
  <2>2. CASE ~(j <= M)
    <3>1. PICK i : i = j - M
      OBVIOUS
    <3>2. i \in 1 .. n /\ i \in 1 .. L /\ c1 + j - 1 = b + i
      BY <1>1, <1>2, <1>9, <2>2, <3>1
    <3>3. p[j] = t[i] /\ t[i] = r[i] /\ r[i] = data[b + i]
      BY <1>4, <1>6, <1>8, <2>2, <3>1, <3>2
    <3> QED BY <1>12, <3>2, <3>3
  <2> QED BY <2>1, <2>2
<1>14. p = q
  BY <1>8, <1>10, <1>11, <1>13, SameSeq
<1> QED BY <1>5, <1>7, <1>14 DEF Window

-----------------------------------------------------------------------------
(* A directory.                                                             *)

\* The directories among the first n entries that WalkDir does not enter.
Hiding(es, n) == {es[d].label : d \in {d \in 1 .. n : Hides(es, d) /\ ~Hidden(es, d)}}

\* How many sources the first n entries bring.
EntriesTo(es, n) == Len(Before(EntrySources(es), n))

\* What a directory hides is what the directories that were not entered hide.
LEMMA HiddenIs ==
  ASSUME NEW es \in Seq(Entry), IsTree(es), NEW k \in 1 .. Len(es)
  PROVE  es[k].within \cap Hiding(es, k - 1) # {} <=> Hidden(es, k)
<1>1. PICK N \in Nat : N = Len(es) /\ DOMAIN es = 1 .. N
  BY LenProperties
<1>2. ASSUME es[k].within \cap Hiding(es, k - 1) # {}
      PROVE  Hidden(es, k)
  <2>1. PICK d \in 1 .. k - 1 : Hides(es, d) /\ es[d].label \in es[k].within
    BY <1>2 DEF Hiding
  <2>2. d \in DOMAIN es
    BY <1>1
  <2> QED BY <2>1, <2>2 DEF Hidden
<1>3. ASSUME Hidden(es, k)
      PROVE  es[k].within \cap Hiding(es, k - 1) # {}
  <2>1. PICK H : H = {d \in 1 .. N : es[d].label \in es[k].within /\ Hides(es, d)}
    OBVIOUS
  <2>2. H # {} /\ H \subseteq Nat
    BY <1>1, <1>3, <2>1 DEF Hidden
  <2>3. PICK d : d \in H /\ \A y \in H : d <= y
    BY <2>2, MinIsLeast
  <2>4. /\ d \in 1 .. N /\ k \in 1 .. N
        /\ es[d].label \in es[k].within /\ Hides(es, d) /\ es[d].dir
    BY <1>1, <2>1, <2>3 DEF Hides
  <2>5. d < k /\ es[d].within \subseteq es[k].within
    BY <1>1, <2>4 DEF IsTree
  <2>6. ASSUME Hidden(es, d) PROVE FALSE
    <3>1. PICK e \in 1 .. N : es[e].label \in es[d].within /\ Hides(es, e)
      BY <1>1, <2>6 DEF Hidden
    <3>2. e \in H
      BY <2>1, <2>5, <3>1
    <3>3. e < d
      BY <1>1, <2>4, <3>1 DEF IsTree, Hides
    <3> QED BY <2>3, <2>4, <3>1, <3>2, <3>3
  <2>7. d \in 1 .. k - 1
    BY <1>1, <2>4, <2>5
  <2>8. es[d].label \in Hiding(es, k - 1)
    BY <2>4, <2>6, <2>7 DEF Hiding
  <2> QED BY <2>4, <2>8
<1> QED BY <1>2, <1>3

\* One entry more.
LEMMA HidingStep ==
  ASSUME NEW es, NEW k \in Nat \ {0}
  PROVE  Hiding(es, k) = Hiding(es, k - 1) \cup
           (IF Hides(es, k) /\ ~Hidden(es, k) THEN {es[k].label} ELSE {})
<1>1. 1 .. k = (1 .. k - 1) \cup {k}
  OBVIOUS
<1> QED BY <1>1 DEF Hiding

\* Before the first entry nothing is hidden.
LEMMA HidingNothing ==
  ASSUME NEW es
  PROVE  Hiding(es, 0) = {}
BY DEF Hiding

\* What one entry adds.
LEMMA EntryStep ==
  ASSUME NEW es \in Seq(Entry), NEW k \in 1 .. Len(es)
  PROVE  /\ EntriesTo(es, k - 1) \in Nat
         /\ EntriesTo(es, k) \in Nat
         /\ EntriesTo(es, k) = EntriesTo(es, k - 1) + IF Takes(es, k) THEN 1 ELSE 0
         /\ EntriesTo(es, k) <= EntriesTo(es, Len(es))
         /\ Takes(es, k) =>
              FlattenSeq(EntrySources(es))[EntriesTo(es, k - 1) + 1] =
                IF es[k].dir THEN FromBuild(es[k]) ELSE FromFile(es[k])
<1>1. PICK ss \in Seq(Seq(Input)) : ss = EntrySources(es)
  BY EntriesBring
<1>2. Len(ss) = Len(es) /\ ss[k] = FromEntry(es, k) /\ k \in 1 .. Len(ss)
  BY <1>1, EntriesBring
<1>3. PICK n \in Nat : n = Len(Before(ss, k - 1))
  BY <1>2, FlattenAt
<1>4. Len(Before(ss, k)) = n + Len(ss[k])
  BY <1>2, <1>3, FlattenAt
<1>5. \A i \in 1 .. Len(ss[k]) : FlattenSeq(ss)[n + i] = ss[k][i]
  BY <1>2, <1>3, FlattenAt
<1>6. Before(ss, Len(ss)) = FlattenSeq(ss)
  BY BeforeEnds
<1>7. Len(Before(ss, k)) <= Len(FlattenSeq(ss))
  BY <1>2, FlattenAt
<1>8. CASE Takes(es, k)
  <2>1. PICK x : x = IF es[k].dir THEN FromBuild(es[k]) ELSE FromFile(es[k])
    OBVIOUS
  <2>2. ss[k] = <<x>>
    BY <1>2, <1>8, <2>1 DEF FromEntry
  <2>3. Len(ss[k]) = 1 /\ ss[k][1] = x /\ 1 \in 1 .. 1
    BY <2>2
  <2>4. FlattenSeq(ss)[n + 1] = x
    BY <1>5, <2>3
  <2> QED BY <1>1, <1>2, <1>3, <1>4, <1>6, <1>7, <1>8, <2>1, <2>3, <2>4 DEF EntriesTo
<1>9. CASE ~Takes(es, k)
  <2>1. ss[k] = <<>>
    BY <1>2, <1>9 DEF FromEntry
  <2>2. Len(ss[k]) = 0
    BY <2>1
  <2> QED BY <1>1, <1>2, <1>3, <1>4, <1>6, <1>7, <1>9, <2>2 DEF EntriesTo
<1> QED BY <1>8, <1>9

\* Nothing is read behind the first directory that cannot be listed.
LEMMA UnlistableEnds ==
  ASSUME NEW es \in Seq(Entry), NEW k \in Unlistable(es), \A u \in Unlistable(es) : k <= u
  PROVE  FlattenSeq(EntrySources(es)) = Before(EntrySources(es), k - 1)
<1>1. PICK N \in Nat : N = Len(es) /\ DOMAIN es = 1 .. N
  BY LenProperties
<1>2. k \in 1 .. N
  BY <1>1 DEF Unlistable, Seen
<1>3. PICK ss \in Seq(Seq(Input)) : ss = EntrySources(es)
  BY EntriesBring
<1>4. Len(ss) = N /\ \A j \in 1 .. N : ss[j] = FromEntry(es, j)
  BY <1>1, <1>3, EntriesBring
<1>5. PICK m : m = k - 1
  OBVIOUS
<1>6. m \in 0 .. Len(ss) /\ N \in m .. Len(ss)
  BY <1>2, <1>4, <1>5
<1>7. \A j \in m + 1 .. N : ss[j] = <<>>
  <2> SUFFICES ASSUME NEW j \in m + 1 .. N PROVE ss[j] = <<>>
    OBVIOUS
  <2>1. j \in 1 .. N /\ ~(j < k)
    BY <1>2, <1>5
  <2>2. ~Reached(es, j)
    BY <2>1 DEF Reached
  <2> QED BY <1>4, <2>1, <2>2 DEF FromEntry, Takes
<1>8. Before(ss, N) = Before(ss, m)
  BY <1>6, <1>7, BeforeSame
<1>9. Before(ss, N) = FlattenSeq(ss)
  BY <1>4, BeforeEnds
<1> QED BY <1>3, <1>5, <1>8, <1>9

-----------------------------------------------------------------------------
(* Where the walk is, and how many sources it has begun.                    *)

\* How many sources the first n paths bring.
PathsTo(w, n) == Len(Before(PathSources(w), n))

\* Before path p.
AtPath(w, p, n) == p \in 1 .. Len(w) + 1 /\ n = PathsTo(w, p - 1)

\* In directory p, behind its first k entries.
InDirectory(w, p, k, hides, n) ==
  /\ p \in 1 .. Len(w) /\ w[p].what = "directory"
  /\ k \in 0 .. Len(w[p].entries)
  /\ \A u \in Unlistable(w[p].entries) : u > k
  /\ hides = Hiding(w[p].entries, k)
  /\ n = PathsTo(w, p - 1) + EntriesTo(w[p].entries, k)

\* Path p has nothing more than its failure.
Failing(w, p, n) ==
  /\ p \in 1 .. Len(w)
  /\ n + 1 \in 1 .. Len(SourcesOf(w)) /\ PathsTo(w, p) = n + 1
  /\ SourcesOf(w)[n + 1] = Failed(w[p])

\* One path more.
LEMMA PathStep ==
  ASSUME NEW w \in Walks, NEW p \in 1 .. Len(w)
  PROVE  /\ w[p] \in Path /\ WellFormed(w[p]) /\ FromPath(w[p]) \in Seq(Input)
         /\ PathsTo(w, p - 1) \in Nat /\ Len(SourcesOf(w)) \in Nat
         /\ PathsTo(w, p) = PathsTo(w, p - 1) + Len(FromPath(w[p]))
         /\ PathsTo(w, p) <= Len(SourcesOf(w))
         /\ \A i \in 1 .. Len(FromPath(w[p])) :
              SourcesOf(w)[PathsTo(w, p - 1) + i] = FromPath(w[p])[i]
<1>1. w[p] \in Path /\ WellFormed(w[p])
  BY WalksAre
<1>2. FromPath(w[p]) \in Seq(Input)
  BY <1>1, PathBrings
<1>3. PICK ss \in Seq(Seq(Input)) : ss = PathSources(w)
  BY WalkBrings
<1>4. Len(ss) = Len(w) /\ ss[p] = FromPath(w[p]) /\ SourcesOf(w) = FlattenSeq(ss)
  BY <1>3, WalkBrings
<1>5. p \in 1 .. Len(ss)
  BY <1>4
<1>6. Len(Before(ss, p - 1)) \in Nat /\ FlattenSeq(ss) \in Seq(Input)
  BY <1>5, FlattenAt
<1>7. Len(Before(ss, p)) = Len(Before(ss, p - 1)) + Len(ss[p])
  BY <1>5, FlattenAt
<1>8. Len(Before(ss, p)) <= Len(FlattenSeq(ss))
  BY <1>5, FlattenAt
<1>9. \A i \in 1 .. Len(ss[p]) : FlattenSeq(ss)[Len(Before(ss, p - 1)) + i] = ss[p][i]
  BY <1>5, FlattenAt
<1>10. Len(FlattenSeq(ss)) \in Nat
  BY <1>6, LenProperties
<1> QED BY <1>1, <1>2, <1>3, <1>4, <1>6, <1>7, <1>8, <1>9, <1>10 DEF PathsTo

\* The first path.
LEMMA WalkBegins ==
  ASSUME NEW w \in Walks
  PROVE  AtPath(w, 1, 0)
<1>1. PICK ss \in Seq(Seq(Input)) : ss = PathSources(w)
  BY WalkBrings
<1>2. Len(Before(ss, 0)) = 0
  BY BeforeEnds
<1>3. Len(w) \in Nat
  BY WalksAre, LenProperties
<1> QED BY <1>1, <1>2, <1>3 DEF AtPath, PathsTo

\* Behind the last path every source has begun.
LEMMA WalkStops ==
  ASSUME NEW w \in Walks, NEW p, NEW n, AtPath(w, p, n), p \notin DOMAIN w
  PROVE  n = Len(SourcesOf(w))
<1>1. PICK N \in Nat : N = Len(w) /\ DOMAIN w = 1 .. N
  BY WalksAre, LenProperties
<1>2. p - 1 = N
  BY <1>1 DEF AtPath
<1>3. PICK ss \in Seq(Seq(Input)) : ss = PathSources(w)
  BY WalkBrings
<1>4. Len(ss) = N /\ SourcesOf(w) = FlattenSeq(ss)
  BY <1>1, <1>3, WalkBrings
<1>5. Before(ss, N) = FlattenSeq(ss)
  BY <1>4, BeforeEnds
<1> QED BY <1>2, <1>3, <1>4, <1>5 DEF AtPath, PathsTo

\* Behind what a path brings is the next path.
LEMMA PathEnds ==
  ASSUME NEW w \in Walks, NEW p \in 1 .. Len(w), NEW n, n = PathsTo(w, p)
  PROVE  AtPath(w, p + 1, n)
<1>1. Len(w) \in Nat
  BY WalksAre, LenProperties
<1>2. p + 1 \in 1 .. Len(w) + 1 /\ p + 1 - 1 = p
  BY <1>1
<1> QED BY <1>2 DEF AtPath

\* A path that is one source.
LEMMA PathOfOne ==
  ASSUME NEW w \in Walks, NEW p \in 1 .. Len(w), NEW n, AtPath(w, p, n),
         w[p].what # "directory"
  PROVE  /\ n \in Nat /\ n + 1 \in 1 .. Len(SourcesOf(w)) /\ PathsTo(w, p) = n + 1
         /\ w[p].what = "missing" => SourcesOf(w)[n + 1] = Failed(w[p])
         /\ w[p].what = "reader" => SourcesOf(w)[n + 1] = FromFile(w[p].entries[1])
         /\ w[p].what = "kustomization" => SourcesOf(w)[n + 1] = FromBuild(w[p].entries[1])
<1>1. w[p].what \in {"missing", "reader", "kustomization"}
  BY PathStep DEF Path
<1>2. n = PathsTo(w, p - 1)
  BY DEF AtPath
<1>3. PICK x : /\ FromPath(w[p]) = <<x>>
               /\ w[p].what = "missing" => x = Failed(w[p])
               /\ w[p].what = "reader" => x = FromFile(w[p].entries[1])
               /\ w[p].what = "kustomization" => x = FromBuild(w[p].entries[1])
  BY <1>1, PathStep, PathBrings
<1>4. Len(<<x>>) = 1 /\ <<x>>[1] = x /\ 1 \in 1 .. 1
  OBVIOUS
<1>5. n \in Nat /\ PathsTo(w, p) = n + 1 /\ PathsTo(w, p) <= Len(SourcesOf(w)) /\ Len(SourcesOf(w)) \in Nat
  BY <1>2, <1>3, <1>4, PathStep
<1>6. SourcesOf(w)[n + 1] = x
  BY <1>2, <1>3, <1>4, PathStep
<1> QED BY <1>3, <1>5, <1>6

\* A directory before its root.
LEMMA DirectoryBegins ==
  ASSUME NEW w \in Walks, NEW p \in 1 .. Len(w), NEW n, AtPath(w, p, n),
         w[p].what = "directory"
  PROVE  InDirectory(w, p, 0, {}, n)
<1>1. PICK es \in Seq(Entry) : es = w[p].entries
  BY PathStep DEF Path
<1>2. PICK N \in Nat : N = Len(es) /\ DOMAIN es = 1 .. N
  BY LenProperties
<1>3. \A u \in Unlistable(es) : u > 0
  BY <1>2 DEF Unlistable, Seen
<1>4. EntriesTo(es, 0) = 0
  <2>1. PICK ss \in Seq(Seq(Input)) : ss = EntrySources(es)
    BY EntriesBring
  <2> QED BY <2>1, BeforeEnds DEF EntriesTo
<1>5. PathsTo(w, p - 1) \in Nat /\ n = PathsTo(w, p - 1)
  BY PathStep DEF AtPath
<1>6. {} = Hiding(es, 0)
  BY HidingNothing
<1> QED BY <1>1, <1>2, <1>3, <1>4, <1>5, <1>6 DEF InDirectory

\* What a directory is in the middle of.
LEMMA DirectoryIs ==
  ASSUME NEW w \in Walks, NEW p, NEW k, NEW hides, NEW n, InDirectory(w, p, k, hides, n)
  PROVE  /\ w[p].entries \in Seq(Entry) /\ IsTree(w[p].entries)
         /\ PathsTo(w, p - 1) \in Nat /\ Len(SourcesOf(w)) \in Nat
         /\ PathsTo(w, p) = PathsTo(w, p - 1) + Len(FromDirectory(w[p]))
         /\ PathsTo(w, p) <= Len(SourcesOf(w))
         /\ Len(FromDirectory(w[p])) \in Nat
         /\ \A i \in 1 .. Len(FromDirectory(w[p])) :
              SourcesOf(w)[PathsTo(w, p - 1) + i] = FromDirectory(w[p])[i]
<1>1. p \in 1 .. Len(w) /\ w[p].what = "directory"
  BY DEF InDirectory
<1>2. w[p] \in Path /\ WellFormed(w[p]) /\ FromPath(w[p]) \in Seq(Input)
  BY <1>1, PathStep
<1>3. FromPath(w[p]) = FromDirectory(w[p])
  BY <1>1, <1>2, PathBrings
<1>4. w[p].entries \in Seq(Entry) /\ IsTree(w[p].entries)
  BY <1>1, <1>2 DEF Path, WellFormed
<1>5. Len(FromDirectory(w[p])) \in Nat
  BY <1>2, <1>3, LenProperties
<1>6. /\ PathsTo(w, p - 1) \in Nat /\ Len(SourcesOf(w)) \in Nat
      /\ PathsTo(w, p) = PathsTo(w, p - 1) + Len(FromPath(w[p]))
      /\ PathsTo(w, p) <= Len(SourcesOf(w))
  BY <1>1, PathStep
<1>7. \A i \in 1 .. Len(FromPath(w[p])) : SourcesOf(w)[PathsTo(w, p - 1) + i] = FromPath(w[p])[i]
  BY <1>1, PathStep
<1> QED BY <1>3, <1>4, <1>5, <1>6, <1>7

\* The context of entry k: who hides it.
LEMMA EntryHidden ==
  ASSUME NEW w \in Walks, NEW p, NEW k, NEW hides, NEW n, InDirectory(w, p, k - 1, hides, n),
         NEW es, es = w[p].entries, k \in DOMAIN es
  PROVE  /\ k \in 1 .. Len(es) /\ es[k] \in Entry
         /\ es[k].within \cap hides # {} <=> Hidden(es, k)
         /\ Hides(es, k) /\ ~Hidden(es, k) => Hiding(es, k) = hides \cup {es[k].label}
         /\ ~(Hides(es, k) /\ ~Hidden(es, k)) => Hiding(es, k) = hides
<1>1. es \in Seq(Entry) /\ IsTree(es)
  BY DirectoryIs
<1>2. k \in 1 .. Len(es) /\ k \in Nat \ {0}
  BY <1>1, LenProperties
<1>3. hides = Hiding(es, k - 1)
  BY DEF InDirectory
<1>4. es[k].within \cap hides # {} <=> Hidden(es, k)
  BY <1>1, <1>2, <1>3, HiddenIs
<1>5. Hiding(es, k) = IF Hides(es, k) /\ ~Hidden(es, k) THEN hides \cup {es[k].label} ELSE hides
  <2>1. Hiding(es, k) = Hiding(es, k - 1) \cup
          (IF Hides(es, k) /\ ~Hidden(es, k) THEN {es[k].label} ELSE {})
    BY ONLY <1>2, HidingStep
  <2> QED BY ONLY <1>3, <2>1
<1>6. es[k] \in Entry
  BY <1>1, <1>2, ElementOfSeq
<1> QED BY <1>2, <1>4, <1>5, <1>6

\* An entry that brings nothing.
LEMMA EntryPassed ==
  ASSUME NEW w \in Walks, NEW p, NEW k, NEW hides, NEW n, InDirectory(w, p, k - 1, hides, n),
         NEW es, es = w[p].entries, k \in DOMAIN es,
         ~Takes(es, k), k \notin Unlistable(es)
  PROVE  InDirectory(w, p, k, Hiding(es, k), n)
<1>1. es \in Seq(Entry) /\ k \in 1 .. Len(es) /\ Len(es) \in Nat
  BY DirectoryIs, EntryHidden, LenProperties
<1>2. EntriesTo(es, k) = EntriesTo(es, k - 1)
  <2>1. EntriesTo(es, k - 1) \in Nat
    BY <1>1, EntryStep
  <2>2. EntriesTo(es, k) = EntriesTo(es, k - 1) + 0
    BY <1>1, EntryStep
  <2> QED BY <2>1, <2>2
<1>3. \A u \in Unlistable(es) : u > k
  <2>1. \A u \in Unlistable(es) : u \in 1 .. Len(es) /\ u > k - 1 /\ u # k
    BY <1>1, LenProperties DEF InDirectory, Unlistable, Seen
  <2> QED BY <1>1, <2>1
<1> QED BY <1>1, <1>2, <1>3 DEF InDirectory

\* An entry that brings a source.
LEMMA EntryTaken ==
  ASSUME NEW w \in Walks, NEW p, NEW k, NEW hides, NEW n, InDirectory(w, p, k - 1, hides, n),
         NEW es, es = w[p].entries, k \in DOMAIN es, Takes(es, k)
  PROVE  /\ InDirectory(w, p, k, Hiding(es, k), n + 1)
         /\ n \in Nat /\ n + 1 \in 1 .. Len(SourcesOf(w))
         /\ SourcesOf(w)[n + 1] = IF es[k].dir THEN FromBuild(es[k]) ELSE FromFile(es[k])
<1>1. es \in Seq(Entry) /\ k \in 1 .. Len(es) /\ Len(es) \in Nat
  BY DirectoryIs, EntryHidden, LenProperties
<1>2. PICK a \in Nat : a = EntriesTo(es, k - 1)
  BY <1>1, EntryStep
<1>3. EntriesTo(es, k) = a + 1 /\ a + 1 <= EntriesTo(es, Len(es))
  BY <1>1, <1>2, EntryStep
<1>4. PICK f : f = FlattenSeq(EntrySources(es))
  OBVIOUS
<1>5. f[a + 1] = IF es[k].dir THEN FromBuild(es[k]) ELSE FromFile(es[k])
  BY <1>1, <1>2, <1>4, EntryStep
<1>6. f \in Seq(Input) /\ EntriesTo(es, Len(es)) = Len(f) /\ Len(f) \in Nat
  <2>1. PICK ss \in Seq(Seq(Input)) : ss = EntrySources(es)
    BY <1>1, EntriesBring
  <2>2. Len(ss) = Len(es)
    BY <1>1, <2>1, EntriesBring
  <2>3. Before(ss, Len(ss)) = FlattenSeq(ss) /\ FlattenSeq(ss) \in Seq(Input)
    BY <2>1, BeforeEnds
  <2> QED BY <1>4, <2>1, <2>2, <2>3, LenProperties DEF EntriesTo
<1>7. PICK d : d = FromDirectory(w[p])
  OBVIOUS
<1>8. a + 1 \in 1 .. Len(d) /\ d[a + 1] = f[a + 1]
  <2>1. w[p] \in Path
    BY PathStep DEF InDirectory
  <2>2. Unlistable(es) = {} => d = f
    BY <1>1, <1>4, <1>7, <2>1, DirectoryBrings
  <2>3. Unlistable(es) # {} => d = Append(f, Failed(w[p]))
    BY <1>1, <1>4, <1>7, <2>1, DirectoryBrings
  <2>4. a + 1 \in 1 .. Len(f)
    BY <1>2, <1>3, <1>6
  <2>5. CASE Unlistable(es) = {}
    BY <2>2, <2>4, <2>5
  <2>6. CASE Unlistable(es) # {}
    <3>1. PICK x \in Input : x = Failed(w[p])
      BY <2>1, FailedIsInput
    <3>2. Len(Append(f, x)) = Len(f) + 1 /\ \A i \in 1 .. Len(f) : Append(f, x)[i] = f[i]
      BY <1>6
    <3> QED BY <1>6, <2>3, <2>4, <2>6, <3>1, <3>2
  <2> QED BY <2>5, <2>6
<1>9. PICK b \in Nat : b = PathsTo(w, p - 1)
  BY DirectoryIs
<1>10. n = b + a
  BY <1>2, <1>9 DEF InDirectory
<1>11. PathsTo(w, p) = b + Len(d) /\ PathsTo(w, p) <= Len(SourcesOf(w)) /\ Len(SourcesOf(w)) \in Nat
       /\ Len(d) \in Nat
  BY <1>7, <1>9, DirectoryIs
<1>12. SourcesOf(w)[b + (a + 1)] = d[a + 1]
  BY <1>7, <1>8, <1>9, DirectoryIs
<1>13. b + (a + 1) = n + 1 /\ n \in Nat /\ n + 1 \in 1 .. Len(SourcesOf(w))
  BY <1>8, <1>10, <1>11
<1>14. \A u \in Unlistable(es) : u > k
  BY <1>1 DEF Takes, Reached, Unlistable, Seen
<1>15. n + 1 = PathsTo(w, p - 1) + EntriesTo(es, k)
  BY <1>3, <1>9, <1>10
<1>16. InDirectory(w, p, k, Hiding(es, k), n + 1)
  BY <1>1, <1>14, <1>15 DEF InDirectory
<1> QED BY <1>5, <1>8, <1>12, <1>13, <1>16

\* A directory that cannot be listed ends its path.
LEMMA DirectoryFails ==
  ASSUME NEW w \in Walks, NEW p, NEW k, NEW hides, NEW n, InDirectory(w, p, k - 1, hides, n),
         NEW es, es = w[p].entries, k \in Unlistable(es)
  PROVE  Failing(w, p, n) /\ n \in Nat
<1>1. k \in DOMAIN es
  BY DEF Unlistable, Seen
<1>2. es \in Seq(Entry) /\ k \in 1 .. Len(es) /\ Len(es) \in Nat
  BY <1>1, DirectoryIs, EntryHidden, LenProperties
<1>3. \A u \in Unlistable(es) : k <= u
  <2>1. \A u \in Unlistable(es) : u \in 1 .. Len(es) /\ u > k - 1
    BY <1>2, LenProperties DEF InDirectory, Unlistable, Seen
  <2> QED BY <1>2, <2>1
<1>4. PICK f \in Seq(Input) : f = FlattenSeq(EntrySources(es))
  BY <1>2, EntriesBring, BeforeEnds
<1>5. f = Before(EntrySources(es), k - 1)
  BY <1>2, <1>3, <1>4, UnlistableEnds
<1>6. PICK a \in Nat : a = EntriesTo(es, k - 1) /\ a = Len(f)
  BY <1>2, <1>5, EntryStep DEF EntriesTo
<1>7. w[p] \in Path /\ p \in 1 .. Len(w)
  BY PathStep DEF InDirectory
<1>8. PICK x \in Input : x = Failed(w[p])
  BY <1>7, FailedIsInput
<1>9. PICK d : d = FromDirectory(w[p])
  OBVIOUS
<1>10. d = Append(f, x)
  BY <1>2, <1>4, <1>7, <1>8, <1>9, DirectoryBrings
<1>11. Len(d) = a + 1 /\ d[a + 1] = x
  BY <1>4, <1>6, <1>8, <1>10
<1>12. PICK b \in Nat : b = PathsTo(w, p - 1)
  BY DirectoryIs
<1>13. n = b + a
  BY <1>6, <1>12 DEF InDirectory
<1>14. PathsTo(w, p) = b + Len(d) /\ PathsTo(w, p) <= Len(SourcesOf(w)) /\ Len(SourcesOf(w)) \in Nat
  BY <1>9, <1>12, DirectoryIs
<1>15. SourcesOf(w)[b + (a + 1)] = d[a + 1]
  <2>1. a + 1 \in 1 .. Len(d)
    BY <1>11
  <2> QED BY <1>9, <1>12, <2>1, DirectoryIs
<1>16. b + (a + 1) = n + 1 /\ n \in Nat /\ n + 1 \in 1 .. Len(SourcesOf(w)) /\ PathsTo(w, p) = n + 1
  BY <1>11, <1>13, <1>14
<1> QED BY <1>7, <1>8, <1>11, <1>15, <1>16 DEF Failing

\* Behind its last entry a directory has brought everything.
LEMMA DirectoryEnds ==
  ASSUME NEW w \in Walks, NEW p, NEW k, NEW hides, NEW n, InDirectory(w, p, k - 1, hides, n),
         k \in Nat, k \notin DOMAIN w[p].entries, k # 0
  PROVE  p \in 1 .. Len(w) /\ n = PathsTo(w, p)
<1>1. PICK es \in Seq(Entry) : es = w[p].entries
  BY DirectoryIs
<1>2. PICK N \in Nat : N = Len(es) /\ DOMAIN es = 1 .. N
  BY LenProperties
<1>3. k - 1 = N
  BY <1>1, <1>2 DEF InDirectory
<1>4. Unlistable(es) = {}
  <2>1. \A u \in Unlistable(es) : u \in 1 .. N /\ u > N
    BY <1>1, <1>2, <1>3 DEF InDirectory, Unlistable, Seen
  <2> QED BY <2>1
<1>5. w[p] \in Path /\ p \in 1 .. Len(w)
  BY PathStep DEF InDirectory
<1>6. FromDirectory(w[p]) = FlattenSeq(EntrySources(es))
  BY <1>1, <1>4, <1>5, DirectoryBrings
<1>7. EntriesTo(es, N) = Len(FlattenSeq(EntrySources(es)))
  <2>1. PICK ss \in Seq(Seq(Input)) : ss = EntrySources(es)
    BY EntriesBring
  <2>2. Len(ss) = N
    BY <1>2, <2>1, EntriesBring
  <2> QED BY <2>1, <2>2, BeforeEnds DEF EntriesTo
<1>8. n = PathsTo(w, p - 1) + EntriesTo(es, N)
  BY <1>1, <1>3 DEF InDirectory
<1>9. PathsTo(w, p) = PathsTo(w, p - 1) + Len(FromDirectory(w[p]))
  BY DirectoryIs
<1> QED BY <1>5, <1>6, <1>7, <1>8, <1>9

-----------------------------------------------------------------------------
(* What has been emitted.                                                   *)

\* How many events the first n sources have.
EventsTo(w, n) == Len(Before(SourceEvents(w), n))

\* The first k of all the events.
Emitted(w, ev, k) ==
  /\ ev \in Seq(Emission) /\ Len(ev) = k
  /\ k <= Len(Discovered(w))
  /\ \A j \in 1 .. k : ev[j] = Discovered(w)[j]

\* One source more.
LEMMA SourceEmits ==
  ASSUME NEW w \in Walks, NEW m \in 1 .. Len(SourcesOf(w)),
         NEW s, s = SourcesOf(w)[m], NEW e, e = EventsOf(s, m - 1)
  PROVE  /\ s \in Input /\ m - 1 \in Nat
         /\ EventsTo(w, m - 1) \in Nat /\ Len(Discovered(w)) \in Nat
         /\ EventsTo(w, m) = EventsTo(w, m - 1) + Len(e)
         /\ EventsTo(w, m) <= Len(Discovered(w))
         /\ \A i \in 1 .. Len(e) : Discovered(w)[EventsTo(w, m - 1) + i] = e[i]
<1>1. PICK ss \in Seq(Seq(Emission)) : ss = SourceEvents(w)
  BY WalkEmits
<1>2. Len(ss) = Len(SourcesOf(w)) /\ ss[m] = e /\ Discovered(w) = FlattenSeq(ss)
  BY <1>1, WalkEmits
<1>3. m \in 1 .. Len(ss)
  BY <1>2
<1>4. Len(Before(ss, m - 1)) \in Nat /\ FlattenSeq(ss) \in Seq(Emission)
  BY <1>3, FlattenAt
<1>5. Len(Before(ss, m)) = Len(Before(ss, m - 1)) + Len(ss[m])
  BY <1>3, FlattenAt
<1>6. Len(Before(ss, m)) <= Len(FlattenSeq(ss))
  BY <1>3, FlattenAt
<1>7. \A i \in 1 .. Len(ss[m]) : FlattenSeq(ss)[Len(Before(ss, m - 1)) + i] = ss[m][i]
  BY <1>3, FlattenAt
<1>8. SourcesOf(w) \in Seq(Input)
  BY WalkEmits
<1>9. Len(SourcesOf(w)) \in Nat /\ s \in Input
  BY <1>8, LenProperties, ElementOfSeq
<1>10. Len(FlattenSeq(ss)) \in Nat
  BY <1>4, LenProperties
<1>11. EventsTo(w, m - 1) = Len(Before(ss, m - 1)) /\ EventsTo(w, m) = Len(Before(ss, m))
  BY <1>1 DEF EventsTo
<1>12. \A i \in 1 .. Len(e) : Discovered(w)[EventsTo(w, m - 1) + i] = e[i]
  BY <1>2, <1>7, <1>11
<1>13. EventsTo(w, m) = EventsTo(w, m - 1) + Len(e) /\ EventsTo(w, m) <= Len(Discovered(w))
  BY <1>2, <1>5, <1>6, <1>11
<1>14. m - 1 \in Nat /\ EventsTo(w, m - 1) \in Nat /\ Len(Discovered(w)) \in Nat
  BY <1>2, <1>4, <1>9, <1>10, <1>11
<1> QED BY <1>9, <1>12, <1>13, <1>14

\* The next event of a source is the next of all.
LEMMA Emits ==
  ASSUME NEW w \in Walks, NEW m \in 1 .. Len(SourcesOf(w)),
         NEW s, s = SourcesOf(w)[m], NEW e, e = EventsOf(s, m - 1),
         NEW i \in 1 .. Len(e), NEW ev, Emitted(w, ev, EventsTo(w, m - 1) + (i - 1))
  PROVE  Emitted(w, Append(ev, e[i]), EventsTo(w, m - 1) + i)
<1>1. s \in Input /\ m - 1 \in Nat
  BY SourceEmits
<1>2. e \in Seq(Emission)
  BY <1>1, EventsAre
<1>3. PICK L \in Nat : L = Len(e)
  BY <1>2, LenProperties
<1>4. PICK x \in Emission : x = e[i]
  BY <1>2, ElementOfSeq
<1>5. PICK a \in Nat, D \in Nat : a = EventsTo(w, m - 1) /\ D = Len(Discovered(w))
  BY SourceEmits
<1>6. a + L <= D
  <2>1. EventsTo(w, m) = a + L
    BY <1>3, <1>5, SourceEmits
  <2> QED BY <1>5, <2>1, SourceEmits
<1>7. Discovered(w)[a + i] = x
  BY <1>3, <1>4, <1>5, SourceEmits
<1>8. PICK k \in Nat : k = a + i /\ a + (i - 1) = k - 1 /\ k <= D /\ k # 0
  <2>1. i \in 1 .. L
    BY <1>3
  <2>2. a + i \in Nat /\ a + (i - 1) = (a + i) - 1 /\ a + i <= D /\ a + i # 0
    BY <1>6, <2>1
  <2> QED BY <2>2
<1>9. ev \in Seq(Emission) /\ Len(ev) = k - 1 /\ \A j \in 1 .. k - 1 : ev[j] = Discovered(w)[j]
  BY <1>5, <1>8 DEF Emitted
<1>10. PICK f : f = Append(ev, x)
  OBVIOUS
<1>11. f \in Seq(Emission) /\ Len(f) = k /\ f[k] = x /\ \A j \in 1 .. k - 1 : f[j] = ev[j]
  BY <1>8, <1>9, <1>10
<1>12. \A j \in 1 .. k : f[j] = Discovered(w)[j]
  <2> SUFFICES ASSUME NEW j \in 1 .. k PROVE f[j] = Discovered(w)[j]
    OBVIOUS
  <2>1. j = k \/ j \in 1 .. k - 1
    OBVIOUS
  <2> QED BY <1>7, <1>8, <1>9, <1>11, <2>1
<1> QED BY <1>4, <1>5, <1>8, <1>10, <1>11, <1>12 DEF Emitted

\* The empty prefix.
LEMMA EmittedNothing ==
  ASSUME NEW w \in Walks
  PROVE  Emitted(w, <<>>, EventsTo(w, 0))
<1>1. PICK ss \in Seq(Seq(Emission)) : ss = SourceEvents(w)
  BY WalkEmits
<1>2. Len(Before(ss, 0)) = 0 /\ FlattenSeq(ss) \in Seq(Emission)
  BY <1>1, BeforeEnds
<1>3. Len(Discovered(w)) \in Nat
  BY <1>1, <1>2, WalkEmits, LenProperties
<1>4. <<>> \in Seq(Emission) /\ Len(<<>>) = 0
  BY EmptySeq
<1>5. EventsTo(w, 0) = 0
  BY <1>1, <1>2 DEF EventsTo
<1> QED BY <1>3, <1>4, <1>5 DEF Emitted

\* The whole of it.
LEMMA EmittedAll ==
  ASSUME NEW w \in Walks, NEW ev, Emitted(w, ev, EventsTo(w, Len(SourcesOf(w))))
  PROVE  ev = Discovered(w)
<1>1. PICK ss \in Seq(Seq(Emission)) : ss = SourceEvents(w)
  BY WalkEmits
<1>2. Len(ss) = Len(SourcesOf(w)) /\ Discovered(w) = FlattenSeq(ss)
  BY <1>1, WalkEmits
<1>3. Before(ss, Len(ss)) = FlattenSeq(ss) /\ FlattenSeq(ss) \in Seq(Emission)
  BY <1>1, BeforeEnds
<1>4. PICK d \in Seq(Emission) : d = Discovered(w)
  BY <1>2, <1>3
<1>5. ev \in Seq(Emission) /\ Len(ev) = Len(d) /\ \A j \in 1 .. Len(ev) : ev[j] = d[j]
  BY <1>1, <1>2, <1>3, <1>4 DEF Emitted, EventsTo
<1>6. ev = d
  BY ONLY <1>5, SeqEqual
<1> QED BY <1>4, <1>6

\* What has been emitted is a prefix.
LEMMA EmittedIsPrefix ==
  ASSUME NEW w \in Walks, NEW ev, NEW k, Emitted(w, ev, k)
  PROVE  IsPrefix(ev, Discovered(w))
<1>1. PICK d \in Seq(Emission) : d = Discovered(w)
  BY WalkEmits, BeforeEnds
<1>2. PICK n \in Nat, N \in Nat : n = Len(ev) /\ N = Len(d)
  BY <1>1, LenProperties DEF Emitted
<1>3. ev \in Seq(Emission) /\ n <= N /\ \A j \in 1 .. n : ev[j] = d[j]
  BY <1>1, <1>2 DEF Emitted
<1>4. PICK x : x = SubSeq(d, 1, n)
  OBVIOUS
<1>5. x \in Seq(Emission) /\ Len(x) = n /\ \A j \in 1 .. n : x[j] = d[j]
  <2>1. 1 \in 1 .. N + 1 /\ n \in 1 - 1 .. N /\ n - 1 + 1 = n
    BY <1>3
  <2>2. x \in Seq(Emission) /\ Len(x) = n - 1 + 1
    BY <1>2, <1>4, <2>1, SubSeqIs
  <2>3. \A j \in 1 .. n - 1 + 1 : x[j] = d[1 + j - 1]
    BY <1>2, <1>4, <2>1, SubSeqIs
  <2>4. \A j \in 1 .. n : 1 + j - 1 = j
    OBVIOUS
  <2> QED BY <2>1, <2>2, <2>3, <2>4
<1>6. PICK y : y = SubSeq(ev, 1, n)
  OBVIOUS
<1>7. y \in Seq(Emission) /\ Len(y) = n /\ \A j \in 1 .. n : y[j] = ev[j]
  <2>1. 1 \in 1 .. n + 1 /\ n \in 1 - 1 .. n /\ n - 1 + 1 = n
    OBVIOUS
  <2>2. y \in Seq(Emission) /\ Len(y) = n - 1 + 1
    BY <1>2, <1>3, <1>6, <2>1, SubSeqIs
  <2>3. \A j \in 1 .. n - 1 + 1 : y[j] = ev[1 + j - 1]
    BY <1>2, <1>3, <1>6, <2>1, SubSeqIs
  <2>4. \A j \in 1 .. n : 1 + j - 1 = j
    OBVIOUS
  <2> QED BY <2>1, <2>2, <2>3, <2>4
<1>8. x = y
  <2>1. Len(x) = Len(y) /\ \A j \in 1 .. Len(x) : x[j] = y[j]
    BY <1>3, <1>5, <1>7
  <2> QED BY ONLY <1>5, <1>7, <2>1, SeqEqual
<1> QED BY <1>1, <1>2, <1>3, <1>4, <1>6, <1>8 DEF IsPrefix

-----------------------------------------------------------------------------
(* A stream that is being scanned: how many documents have been sent, what  *)
(* is in the buffer, and what has not been read.                            *)

Scanning(data, d, w, r, end) ==
  \E c \in 0 .. Len(data) : \E b \in c .. Len(data) :
    /\ Cut(data, c)
    /\ Window(data, c, b, w) /\ Window(data, b, Len(data), r)
    /\ d = Len(Before(ReadAt(data), c))
    /\ end => b = Len(data)

\* Its n-th document.
Holds(data, n, raw) == n \in 1 .. Len(Documents(data)) /\ Documents(data)[n] = raw

\* A file that has been opened.
LEMMA ScanBegins ==
  ASSUME NEW data \in Seq(Byte)
  PROVE  Scanning(data, 0, <<>>, data, FALSE)
<1>1. PICK N \in Nat : N = Len(data)
  BY LenProperties
<1>2. Cut(data, 0)
  BY <1>1 DEF Cut, Starts
<1>3. Window(data, 0, 0, <<>>)
  <2>1. SubSeq(data, 0 + 1, 0) = <<>>
    BY SubSeqEmpty
  <2> QED BY <2>1 DEF Window
<1>4. Window(data, 0, N, data)
  <2>1. PICK a : a = 0 + 1
    OBVIOUS
  <2>2. a \in 1 .. N + 1 /\ N \in a - 1 .. N /\ N - a + 1 = N /\ a = 1
    BY <2>1
  <2>3. PICK x : x = SubSeq(data, a, N)
    OBVIOUS
  <2>4. x \in Seq(Byte) /\ Len(x) = N - a + 1
    BY <1>1, <2>2, <2>3, SubSeqIs
  <2>5. \A k \in 1 .. N - a + 1 : x[k] = data[a + k - 1]
    BY <1>1, <2>2, <2>3, SubSeqIs
  <2>6. \A k \in 1 .. N : a + k - 1 = k
    BY <2>2
  <2>7. Len(x) = Len(data) /\ \A k \in 1 .. Len(x) : x[k] = data[k]
    BY <1>1, <2>2, <2>4, <2>5, <2>6
  <2>8. x = data
    BY ONLY <2>4, <2>7, SeqEqual
  <2> QED BY <2>1, <2>3, <2>8 DEF Window
<1>5. 0 = Len(Before(ReadAt(data), 0))
  <2>1. PICK ss \in Seq(Seq(Seq(Byte))) : ss = ReadAt(data)
    BY ReadType
  <2> QED BY <2>1, BeforeEnds
<1> QED BY <1>1, <1>2, <1>3, <1>4, <1>5 DEF Scanning

\* The documents in front of c, and behind it.
LEMMA DocumentsTo ==
  ASSUME NEW data \in Seq(Byte), NEW c \in 0 .. Len(data)
  PROVE  /\ Before(ReadAt(data), c) \in Seq(Seq(Byte))
         /\ Before(ReadAt(data), Len(data)) = Documents(data)
         /\ \E u \in Seq(Seq(Byte)) : Documents(data) = Before(ReadAt(data), c) \o u
<1>1. PICK ss \in Seq(Seq(Seq(Byte))) : ss = ReadAt(data)
  BY ReadType
<1>2. Len(ss) = Len(data) /\ Documents(data) = FlattenSeq(ss)
  BY <1>1, ReadType
<1>3. c \in 0 .. Len(ss) /\ Len(ss) \in c .. Len(ss)
  BY <1>2, LenProperties
<1>4. Before(ss, Len(ss)) = FlattenSeq(ss)
  BY BeforeStep
<1>5. Before(ss, c) \in Seq(Seq(Byte))
  BY <1>3, BeforeStep
<1>6. \E u \in Seq(Seq(Byte)) : Before(ss, Len(ss)) = Before(ss, c) \o u
  BY <1>3, BeforeExtends
<1> QED BY <1>1, <1>2, <1>4, <1>5, <1>6

\* A token is passed over, or it is the next document.
LEMMA ScanTakes ==
  ASSUME NEW data \in Seq(Byte), NEW d, NEW w, NEW r, NEW end \in BOOLEAN,
         Scanning(data, d, w, r, end),
         NEW s, s = SplitDocument(w, end), s.found,
         NEW raw, raw = Trim(s.token), NEW w2, w2 = SubSeq(w, s.advance + 1, Len(w))
  PROVE  /\ IsContentFree(raw) => Scanning(data, d, w2, r, end)
         /\ ~IsContentFree(raw) =>
              Scanning(data, d + 1, w2, r, end) /\ d \in Nat /\ Holds(data, d + 1, raw)
<1>1. PICK N \in Nat : N = Len(data)
  BY LenProperties
<1>2. PICK c \in 0 .. N : \E b \in c .. N :
         /\ Cut(data, c)
         /\ Window(data, c, b, w) /\ Window(data, b, N, r)
         /\ d = Len(Before(ReadAt(data), c))
         /\ end => b = N
  BY <1>1 DEF Scanning
<1>3. PICK b \in c .. N :
         /\ Cut(data, c)
         /\ Window(data, c, b, w) /\ Window(data, b, N, r)
         /\ d = Len(Before(ReadAt(data), c))
         /\ end => b = N
  BY <1>2
<1>4. /\ s.advance \in 1 .. b - c /\ Cut(data, c + s.advance)
      /\ s.token \in Seq(Byte)
      /\ Yields(data, c, c + s.advance, ReadOf(raw))
  BY <1>1, <1>3, ScanStep
<1>5. PICK a \in 1 .. b - c : a = s.advance
  BY <1>4
<1>6. PICK c2 : c2 = c + a
  OBVIOUS
<1>7. c2 \in 0 .. N /\ b \in c2 .. N
  BY <1>1, <1>5, <1>6
<1>8. Window(data, c2, b, w2)
  BY <1>1, <1>3, <1>5, <1>6, WindowCut
<1>9. Cut(data, c2) /\ Before(ReadAt(data), c2) = Before(ReadAt(data), c) \o ReadOf(raw)
  BY <1>4, <1>5, <1>6 DEF Yields
<1>10. PICK p \in Seq(Seq(Byte)) : p = Before(ReadAt(data), c)
  BY <1>1, DocumentsTo
<1>11. d \in Nat /\ d = Len(p)
  BY <1>3, <1>10, LenProperties
<1>12. \A e : e = Len(Before(ReadAt(data), c2)) => Scanning(data, e, w2, r, end)
  BY <1>1, <1>3, <1>7, <1>8, <1>9 DEF Scanning
<1>13. CASE IsContentFree(raw)
  <2>1. Before(ReadAt(data), c2) = p \o <<>>
    BY <1>9, <1>10, <1>13 DEF ReadOf
  <2>2. p \o <<>> = p
    BY ONLY ConcatEmptySeq
  <2> QED BY <1>11, <1>12, <1>13, <2>1, <2>2
<1>14. CASE ~IsContentFree(raw)
  <2>1. raw \in Seq(Byte)
    BY <1>4, TrimType
  <2>2. PICK q \in Seq(Seq(Byte)) : q = Before(ReadAt(data), c2)
    BY <1>1, <1>7, DocumentsTo
  <2>3. q = p \o <<raw>>
    BY <1>9, <1>10, <1>14, <2>2 DEF ReadOf
  <2>4. Len(q) = d + 1 /\ q[d + 1] = raw
    BY ONLY <1>11, <2>1, <2>3
  <2>5. PICK u \in Seq(Seq(Byte)) : Documents(data) = q \o u
    BY <1>1, <1>7, <2>2, DocumentsTo
  <2>6. Len(q \o u) = Len(q) + Len(u) /\ \A i \in 1 .. Len(q) : (q \o u)[i] = q[i]
    <3>1. Len(q) \in Nat /\ Len(u) \in Nat
      BY LenProperties
    <3>2. /\ Len(q \o u) = Len(q) + Len(u)
          /\ \A i \in 1 .. Len(q) + Len(u) : (q \o u)[i] = IF i <= Len(q) THEN q[i] ELSE u[i - Len(q)]
      BY ONLY ConcatProperties
    <3> QED BY <3>1, <3>2
  <2>7. Len(u) \in Nat
    BY LenProperties
  <2>8. d + 1 \in 1 .. Len(Documents(data)) /\ Documents(data)[d + 1] = raw
    BY <1>11, <2>4, <2>5, <2>6, <2>7
  <2>9. Scanning(data, d + 1, w2, r, end)
    BY <1>12, <2>2, <2>4
  <2> QED BY <1>11, <1>14, <2>8, <2>9 DEF Holds
<1> QED BY <1>13, <1>14

\* The buffer grows, by a chunk of any size.
LEMMA ScanReadsMore ==
  ASSUME NEW data \in Seq(Byte), NEW d, NEW w, NEW r, Scanning(data, d, w, r, FALSE)
  PROVE  /\ r = <<>> => Scanning(data, d, w, r, TRUE)
         /\ \A n \in DOMAIN r :
              Scanning(data, d, w \o SubSeq(r, 1, n), SubSeq(r, n + 1, Len(r)), FALSE)
<1>1. PICK N \in Nat : N = Len(data)
  BY LenProperties
<1>2. PICK c \in 0 .. N : \E b \in c .. N :
         /\ Cut(data, c)
         /\ Window(data, c, b, w) /\ Window(data, b, N, r)
         /\ d = Len(Before(ReadAt(data), c))
  BY <1>1 DEF Scanning
<1>3. PICK b \in c .. N :
         /\ Cut(data, c)
         /\ Window(data, c, b, w) /\ Window(data, b, N, r)
         /\ d = Len(Before(ReadAt(data), c))
  BY <1>2
<1>4. r \in Seq(Byte) /\ Len(r) = N - b
  <2>1. b \in 0 .. Len(data) /\ N \in b .. Len(data)
    BY <1>1, <1>3
  <2> QED BY <1>3, <2>1, WindowIs
<1>5. ASSUME r = <<>> PROVE Scanning(data, d, w, r, TRUE)
  <2>1. b = N
    BY <1>3, <1>4, <1>5
  <2> QED BY <1>1, <1>3, <2>1 DEF Scanning
<1>6. ASSUME NEW n \in DOMAIN r
      PROVE  Scanning(data, d, w \o SubSeq(r, 1, n), SubSeq(r, n + 1, Len(r)), FALSE)
  <2>1. n \in 1 .. N - b
    BY <1>4, LenProperties
  <2>2. PICK b2 : b2 = b + n
    OBVIOUS
  <2>3. b2 \in c .. N
    BY <2>1, <2>2
  <2>4. Window(data, c, b2, w \o SubSeq(r, 1, n))
    BY <1>1, <1>3, <2>1, <2>2, WindowGrow
  <2>5. Window(data, b2, N, SubSeq(r, n + 1, Len(r)))
    <3>1. b \in 0 .. Len(data) /\ N \in b .. Len(data) /\ Window(data, b, N, r)
      BY <1>1, <1>3
    <3> QED BY <2>1, <2>2, <3>1, WindowCut
  <2> QED BY <1>1, <1>3, <2>3, <2>4, <2>5 DEF Scanning
<1> QED BY <1>5, <1>6

\* At the end of the stream, with no token left, all documents have been sent.
LEMMA ScanStops ==
  ASSUME NEW data \in Seq(Byte), NEW d, NEW w, NEW r, Scanning(data, d, w, r, TRUE),
         ~SplitDocument(w, TRUE).found
  PROVE  d \in Nat /\ d = Len(Documents(data))
<1>1. PICK N \in Nat : N = Len(data)
  BY LenProperties
<1>2. PICK c \in 0 .. N : \E b \in c .. N :
         /\ Cut(data, c) /\ Window(data, c, b, w) /\ b = N
         /\ d = Len(Before(ReadAt(data), c))
  BY <1>1 DEF Scanning
<1>3. Cut(data, c) /\ Window(data, c, N, w) /\ d = Len(Before(ReadAt(data), c))
  BY <1>2
<1>4. Yields(data, c, Len(data), <<>>)
  <2>1. c \in 0 .. Len(data) /\ N \in c .. Len(data) /\ N = Len(data)
    BY <1>1
  <2> QED BY <1>3, <2>1, ScanStep
<1>5. PICK p \in Seq(Seq(Byte)) : p = Before(ReadAt(data), c)
  BY <1>1, DocumentsTo
<1>6. p \o <<>> = p
  BY ONLY ConcatEmptySeq
<1>7. Documents(data) = p
  BY <1>1, <1>4, <1>5, <1>6, DocumentsTo DEF Yields
<1> QED BY <1>3, <1>5, <1>7, LenProperties

-----------------------------------------------------------------------------
(* The invariant.                                                           *)

\* A source is being produced.
InSource == pc \in {"scan", "build", "run", "render", "strip", "docs", "error", "finish"}

\* The source that is being produced.
This == SourcesOf(paths)[nextIndex]

\* Everything of the first n sources has been emitted.
Whole(w, ev, n) == Emitted(w, ev, EventsTo(w, n))

\* And the first k events of the last of them.
Partly(w, ev, n, k) == Emitted(w, ev, EventsTo(w, n - 1) + k)

\* Source n comes from path p, and from its entry k if that is not 0.
Producing(w, p, k, hides, n, src) ==
  /\ p \in 1 .. Len(w) /\ n \in 1 .. Len(SourcesOf(w))
  /\ src = [label |-> SourcesOf(w)[n].label, index |-> n - 1]
  /\ k = 0 => n = PathsTo(w, p)
  /\ k # 0 => InDirectory(w, p, k, hides, n)

\* The OpenAPI schemas of a build that begins with none.
Schemas(k) == IF k.openapi THEN {k.label} ELSE {}

\* Where the walk can be, and what its counters are.
WalkType ==
  /\ paths \in Walks /\ ctxDone \in BOOLEAN
  /\ pc \in {"path", "visit", "fail", "scan", "build", "run", "render", "strip",
             "docs", "error", "finish", "returned"}
  /\ at \in Nat /\ nextIndex \in Nat /\ docs \in Nat

\* Before a path, or behind the last: all of the sources begun are whole.
PathInv ==
  pc = "path" => at = 0 /\ AtPath(paths, path, nextIndex) /\ Whole(paths, events, nextIndex)
\* Before an entry of a directory.
VisitInv ==
  pc = "visit" =>
    /\ at # 0 /\ InDirectory(paths, path, at - 1, pruned, nextIndex)
    /\ Whole(paths, events, nextIndex)
\* Before the failure of the path.
FailInv ==
  pc = "fail" => Failing(paths, path, nextIndex) /\ Whole(paths, events, nextIndex)
\* The source and the place in the command line it comes from.
SourceInv ==
  InSource => Producing(paths, path, at, pruned, nextIndex, source)
\* A file: the documents sent are those in front of the buffer.
ScanInv ==
  pc = "scan" =>
    /\ Current \in Entry /\ IsFile(Current) /\ Current.fails # "open"
    /\ This = FromFile(Current) /\ eof \in BOOLEAN
    /\ Scanning(Current.content, docs, buf, rest, eof)
    /\ Partly(paths, events, nextIndex, docs)
\* A kustomization of which nothing has been sent.
BuildInv ==
  pc \in {"build", "run", "render", "strip"} =>
    /\ Current \in Entry /\ IsKustomization(Current) /\ This = FromBuild(Current)
    /\ docs = 0 /\ Partly(paths, events, nextIndex, 0)
\* Nothing but its own schema is rendered with.
RenderInv ==
  /\ pc \in {"run", "render"} => openapi \subseteq Schemas(Current)
  /\ pc \in {"render", "strip"} => injected = ~Current.asks
  /\ pc = "strip" => /\ Current.fails \in {"no", "origin"}
                     /\ rendered = [n \in 1 .. Current.built |-> Rendering(TRUE, Schemas(Current))]
\* What it has rendered is what kustomize alone renders.
DocsInv ==
  pc = "docs" =>
    /\ Current \in Entry /\ Current.fails = "no" /\ This = FromBuild(Current)
    /\ rendered = RenderedAlone(Current) /\ docs <= Current.built
    /\ Partly(paths, events, nextIndex, docs)
\* The documents have all been sent, and there is an error.
ErrorInv ==
  pc = "error" =>
    /\ This.error = TRUE /\ docs = Len(This.docs)
    /\ Partly(paths, events, nextIndex, docs)
\* All but the Final has been sent.
FinishInv ==
  pc = "finish" =>
    Partly(paths, events, nextIndex, Len(EventsOf(This, nextIndex - 1)) - 1)
\* All has been sent, or the context is done.
ReturnInv ==
  pc = "returned" =>
    /\ \E k : Emitted(paths, events, k)
    /\ ctxDone \/ events = Discovered(paths)

\* The inductive invariant.
WalkInv ==
  /\ WalkType /\ PathInv /\ VisitInv /\ FailInv /\ SourceInv /\ ScanInv
  /\ BuildInv /\ RenderInv /\ DocsInv /\ ErrorInv /\ FinishInv /\ ReturnInv

-----------------------------------------------------------------------------
(* The steps: a source begins.                                              *)

\* None of the events of the next source.
LEMMA SourceBegins ==
  ASSUME NEW w \in Walks, NEW ev, NEW n \in Nat, n + 1 \in 1 .. Len(SourcesOf(w)), Whole(w, ev, n)
  PROVE  Partly(w, ev, n + 1, 0)
<1>1. PICK m \in 1 .. Len(SourcesOf(w)) : m = n + 1
  OBVIOUS
<1>2. n = m - 1
  BY <1>1
<1>3. EventsTo(w, m - 1) \in Nat
  BY SourceEmits
<1>4. EventsTo(w, n) = EventsTo(w, m - 1) + 0
  BY <1>2, <1>3
<1> QED BY <1>1, <1>4 DEF Whole, Partly

\* A file or a kustomization that the walk has come to.
LEMMA FileBegins ==
  ASSUME WalkType, paths' = paths, events' = events, ctxDone' = ctxDone, at' \in Nat,
         NEW e \in Entry, IsFile(e), Reads(e), Current' = e,
         Whole(paths, events, nextIndex),
         nextIndex + 1 \in 1 .. Len(SourcesOf(paths)), SourcesOf(paths)[nextIndex + 1] = FromFile(e),
         path' \in 1 .. Len(paths),
         at' = 0 => nextIndex + 1 = PathsTo(paths, path'),
         at' # 0 => InDirectory(paths, path', at', pruned', nextIndex + 1)
  PROVE  WalkInv'
<1>1. /\ paths \in Walks /\ nextIndex \in Nat
      /\ nextIndex' = nextIndex + 1 /\ docs' = 0 /\ nextIndex' \in Nat
      /\ source' = [label |-> e.label, index |-> nextIndex]
      /\ buf' = <<>> /\ rest' = e.content /\ eof' = FALSE
      /\ pc' = IF e.fails = "open" THEN "error" ELSE "scan"
  BY DEF WalkType, Reads, NewSource
<1>2. This' = FromFile(e)
  BY <1>1 DEF This
<1>3. Partly(paths, events, nextIndex + 1, 0)
  BY <1>1, SourceBegins
<1>4. Producing(paths, path', at', pruned', nextIndex', source')
  <2>1. FromFile(e).label = e.label /\ nextIndex' - 1 = nextIndex
    BY <1>1 DEF FromFile, SourceOf
  <2> QED BY <1>1, <2>1 DEF Producing
<1>5. WalkType'
  BY <1>1 DEF WalkType
<1>6. CASE e.fails = "open"
  <2>1. pc' = "error"
    BY <1>1, <1>6
  <2>2. FromFile(e).error = TRUE /\ Len(FromFile(e).docs) = 0
    BY <1>6 DEF FromFile, SourceOf
  <2>3. ErrorInv'
    BY <1>1, <1>2, <1>3, <2>2 DEF ErrorInv
  <2> QED BY <1>4, <1>5, <2>1, <2>3
       DEF WalkInv, PathInv, VisitInv, FailInv, SourceInv, InSource, ScanInv, BuildInv, RenderInv,
           DocsInv, FinishInv, ReturnInv
<1>7. CASE e.fails # "open"
  <2>1. pc' = "scan"
    BY <1>1, <1>7
  <2>2. e.content \in Seq(Byte)
    BY DEF Entry
  <2>3. Scanning(e.content, 0, <<>>, e.content, FALSE)
    BY <2>2, ScanBegins
  <2>4. ScanInv'
    BY <1>1, <1>2, <1>3, <1>7, <2>3 DEF ScanInv
  <2> QED BY <1>4, <1>5, <2>1, <2>4
       DEF WalkInv, PathInv, VisitInv, FailInv, SourceInv, InSource, BuildInv, RenderInv,
           DocsInv, ErrorInv, FinishInv, ReturnInv
<1> QED BY <1>6, <1>7

\* The same for a kustomization.
LEMMA KustomizationBegins ==
  ASSUME WalkType, paths' = paths, events' = events, ctxDone' = ctxDone, at' \in Nat,
         NEW e \in Entry, IsKustomization(e), Builds(e), Current' = e,
         Whole(paths, events, nextIndex),
         nextIndex + 1 \in 1 .. Len(SourcesOf(paths)), SourcesOf(paths)[nextIndex + 1] = FromBuild(e),
         path' \in 1 .. Len(paths),
         at' = 0 => nextIndex + 1 = PathsTo(paths, path'),
         at' # 0 => InDirectory(paths, path', at', pruned', nextIndex + 1)
  PROVE  WalkInv'
<1>1. /\ paths \in Walks /\ nextIndex \in Nat
      /\ nextIndex' = nextIndex + 1 /\ docs' = 0 /\ nextIndex' \in Nat
      /\ source' = [label |-> e.label, index |-> nextIndex]
      /\ pc' = "build"
  BY DEF WalkType, Builds, NewSource
<1>2. This' = FromBuild(e)
  BY <1>1 DEF This
<1>3. Partly(paths, events, nextIndex + 1, 0)
  BY <1>1, SourceBegins
<1>4. Producing(paths, path', at', pruned', nextIndex', source')
  <2>1. FromBuild(e).label = e.label /\ nextIndex' - 1 = nextIndex
    BY <1>1 DEF FromBuild, SourceOf
  <2> QED BY <1>1, <2>1 DEF Producing
<1>5. WalkType'
  BY <1>1 DEF WalkType
<1>6. BuildInv'
  BY <1>1, <1>2, <1>3 DEF BuildInv
<1> QED BY <1>1, <1>4, <1>5, <1>6
     DEF WalkInv, PathInv, VisitInv, FailInv, SourceInv, InSource, ScanInv, RenderInv,
         DocsInv, ErrorInv, FinishInv, ReturnInv

-----------------------------------------------------------------------------
(* The steps: paths.                                                        *)

\* The walk between two sources.
LEMMA ToPath ==
  ASSUME WalkType, paths' = paths, ctxDone' = ctxDone, docs' \in Nat, nextIndex' \in Nat,
         pc' = "path", at' = 0, AtPath(paths, path', nextIndex'), Whole(paths, events', nextIndex')
  PROVE  WalkInv'
BY DEF WalkInv, WalkType, PathInv, VisitInv, FailInv, SourceInv, InSource, ScanInv, BuildInv,
       RenderInv, DocsInv, ErrorInv, FinishInv, ReturnInv

\* The walk between two entries.
LEMMA ToVisit ==
  ASSUME WalkType, paths' = paths, ctxDone' = ctxDone, docs' \in Nat, nextIndex' \in Nat,
         pc' = "visit", at' \in Nat, at' # 0,
         InDirectory(paths, path', at' - 1, pruned', nextIndex'),
         Whole(paths, events', nextIndex')
  PROVE  WalkInv'
BY DEF WalkInv, WalkType, PathInv, VisitInv, FailInv, SourceInv, InSource, ScanInv, BuildInv,
       RenderInv, DocsInv, ErrorInv, FinishInv, ReturnInv

\* The walk before the failure of its path.
LEMMA ToFail ==
  ASSUME WalkType, paths' = paths, ctxDone' = ctxDone, docs' \in Nat, nextIndex' \in Nat,
         pc' = "fail", at' \in Nat,
         Failing(paths, path', nextIndex'), Whole(paths, events', nextIndex')
  PROVE  WalkInv'
BY DEF WalkInv, WalkType, PathInv, VisitInv, FailInv, SourceInv, InSource, ScanInv, BuildInv,
       RenderInv, DocsInv, ErrorInv, FinishInv, ReturnInv

\* The action BeginPath.
LEMMA BeginPathStep ==
  ASSUME WalkInv, BeginPath
  PROVE  WalkInv'
<1>1. /\ pc = "path" /\ path \in DOMAIN paths
      /\ pruned' = {} /\ paths' = paths /\ ctxDone' = ctxDone /\ path' = path /\ events' = events
  BY DEF BeginPath
<1>2. WalkType /\ paths \in Walks /\ nextIndex \in Nat /\ docs \in Nat /\ at \in Nat
  BY DEF WalkInv, WalkType
<1>3. at = 0 /\ AtPath(paths, path, nextIndex) /\ Whole(paths, events, nextIndex)
  BY <1>1 DEF WalkInv, PathInv
<1>4. path \in 1 .. Len(paths)
  BY <1>1, <1>2, WalksAre, LenProperties
<1>5. Here \in Path /\ WellFormed(Here) /\ Here' = Here
  BY <1>1, <1>2, <1>4, PathStep DEF Here
<1>6. Here.entries \in Seq(Entry)
  BY <1>5 DEF Path
<1>7. CASE Here.what = "missing" /\ pc' = "fail" /\ SameSource /\ UNCHANGED at
  <2>1. nextIndex' = nextIndex /\ docs' = docs
    BY <1>7 DEF SameSource
  <2>2. Failing(paths, path, nextIndex)
    BY <1>2, <1>3, <1>4, <1>7, PathOfOne DEF Failing, Here
  <2> QED BY <1>1, <1>2, <1>3, <1>7, <2>1, <2>2, ToFail
<1>8. CASE Here.what = "reader" /\ Reads(Here.entries[1]) /\ UNCHANGED at
  <2>1. PICK e \in Entry : e = Here.entries[1] /\ IsFile(e)
    <3>1. Here.entries # <<>> /\ IsFile(Here.entries[1])
      BY <1>5, <1>8 DEF WellFormed
    <3>2. 1 \in 1 .. Len(Here.entries)
      BY <1>6, <3>1, EmptySeq
    <3> QED BY <1>6, <3>1, <3>2, ElementOfSeq
  <2>2. Current' = e
    BY <1>3, <1>5, <1>8, <2>1 DEF Current
  <2>3. /\ nextIndex + 1 \in 1 .. Len(SourcesOf(paths))
        /\ PathsTo(paths, path) = nextIndex + 1
        /\ SourcesOf(paths)[nextIndex + 1] = FromFile(e)
    BY <1>2, <1>3, <1>4, <1>8, <2>1, PathOfOne DEF Here
  <2> QED BY <1>1, <1>2, <1>3, <1>4, <1>8, <2>1, <2>2, <2>3, FileBegins
<1>9. CASE Here.what = "kustomization" /\ Builds(Here.entries[1]) /\ UNCHANGED at
  <2>1. PICK e \in Entry : e = Here.entries[1] /\ IsKustomization(e)
    <3>1. Here.entries # <<>> /\ IsKustomization(Here.entries[1])
      BY <1>5, <1>9 DEF WellFormed
    <3>2. 1 \in 1 .. Len(Here.entries)
      BY <1>6, <3>1, EmptySeq
    <3> QED BY <1>6, <3>1, <3>2, ElementOfSeq
  <2>2. Current' = e
    BY <1>3, <1>5, <1>9, <2>1 DEF Current
  <2>3. /\ nextIndex + 1 \in 1 .. Len(SourcesOf(paths))
        /\ PathsTo(paths, path) = nextIndex + 1
        /\ SourcesOf(paths)[nextIndex + 1] = FromBuild(e)
    BY <1>2, <1>3, <1>4, <1>9, <2>1, PathOfOne DEF Here
  <2> QED BY <1>1, <1>2, <1>3, <1>4, <1>9, <2>1, <2>2, <2>3, KustomizationBegins
<1>10. CASE Here.what = "directory" /\ pc' = "visit" /\ at' = 1 /\ SameSource
  <2>1. nextIndex' = nextIndex /\ docs' = docs
    BY <1>10 DEF SameSource
  <2>2. InDirectory(paths, path, 0, {}, nextIndex)
    BY <1>2, <1>3, <1>4, <1>10, DirectoryBegins DEF Here
  <2>3. at' \in Nat /\ at' # 0 /\ at' - 1 = 0
    BY <1>10
  <2> QED BY <1>1, <1>2, <1>3, <1>10, <2>1, <2>2, <2>3, ToVisit
<1> QED BY <1>7, <1>8, <1>9, <1>10 DEF BeginPath

\* The action FailPath.
LEMMA FailPathStep ==
  ASSUME WalkInv, FailPath
  PROVE  WalkInv'
<1>1. /\ pc = "fail" /\ pc' = "error" /\ at' = 0
      /\ paths' = paths /\ ctxDone' = ctxDone /\ path' = path /\ pruned' = pruned /\ events' = events
      /\ source' = [label |-> Here.label, index |-> nextIndex]
      /\ nextIndex' = nextIndex + 1 /\ docs' = 0
  BY DEF FailPath, NewSource
<1>2. paths \in Walks /\ nextIndex \in Nat /\ ctxDone \in BOOLEAN
  BY DEF WalkInv, WalkType
<1>3. Failing(paths, path, nextIndex) /\ Whole(paths, events, nextIndex)
  BY <1>1 DEF WalkInv, FailInv
<1>4. Partly(paths, events, nextIndex + 1, 0)
  BY <1>2, <1>3, SourceBegins DEF Failing
<1>5. This' = Failed(Here)
  BY <1>1, <1>3 DEF This, Failing, Here
<1>6. This'.label = Here.label /\ This'.error = TRUE /\ Len(This'.docs) = 0
  BY <1>5 DEF Failed, SourceOf
<1>7. Producing(paths, path, 0, pruned, nextIndex', source')
  <2>1. nextIndex' - 1 = nextIndex
    BY <1>1, <1>2
  <2> QED BY <1>1, <1>3, <1>6, <2>1 DEF Producing, Failing, This
<1>8. WalkType'
  BY <1>1, <1>2 DEF WalkType
<1>9. ErrorInv'
  BY <1>1, <1>4, <1>6 DEF ErrorInv
<1> QED BY <1>1, <1>7, <1>8, <1>9
     DEF WalkInv, PathInv, VisitInv, FailInv, SourceInv, InSource, ScanInv, BuildInv, RenderInv,
         DocsInv, FinishInv, ReturnInv

\* The action WalkReturns.
LEMMA WalkReturnsStep ==
  ASSUME WalkInv, WalkReturns
  PROVE  WalkInv'
<1>1. /\ pc = "path" /\ path \notin DOMAIN paths /\ pc' = "returned"
      /\ paths' = paths /\ ctxDone' = ctxDone /\ at' = at /\ events' = events
      /\ nextIndex' = nextIndex /\ docs' = docs
  BY DEF WalkReturns, cursorVars, SameSource
<1>2. paths \in Walks /\ WalkType
  BY DEF WalkInv, WalkType
<1>3. AtPath(paths, path, nextIndex) /\ Whole(paths, events, nextIndex)
  BY <1>1 DEF WalkInv, PathInv
<1>4. nextIndex = Len(SourcesOf(paths))
  BY <1>1, <1>2, <1>3, WalkStops
<1>5. events = Discovered(paths)
  BY <1>2, <1>3, <1>4, EmittedAll DEF Whole
<1>6. ReturnInv'
  BY <1>1, <1>3, <1>5 DEF ReturnInv, Whole
<1>7. WalkType'
  BY <1>1, <1>2 DEF WalkType
<1> QED BY <1>1, <1>6, <1>7
     DEF WalkInv, PathInv, VisitInv, FailInv, SourceInv, InSource, ScanInv, BuildInv, RenderInv,
         DocsInv, ErrorInv, FinishInv

\* What has been emitted, wherever the walk is.
LEMMA AlwaysEmitted ==
  ASSUME WalkInv
  PROVE  \E k : Emitted(paths, events, k)
BY DEF WalkInv, WalkType, PathInv, VisitInv, FailInv, ScanInv, BuildInv, DocsInv, ErrorInv,
       FinishInv, ReturnInv, Whole, Partly

\* The action Abort.
LEMMA AbortStep ==
  ASSUME WalkInv, Abort
  PROVE  WalkInv'
<1>1. /\ ctxDone = TRUE /\ pc' = "returned"
      /\ paths' = paths /\ ctxDone' = ctxDone /\ at' = at /\ events' = events
      /\ nextIndex' = nextIndex /\ docs' = docs
  BY DEF Abort, cursorVars, SameSource, WalkInv, WalkType
<1>2. ReturnInv'
  BY <1>1, AlwaysEmitted DEF ReturnInv
<1>3. WalkType'
  BY <1>1 DEF WalkInv, WalkType
<1> QED BY <1>1, <1>2, <1>3
     DEF WalkInv, PathInv, VisitInv, FailInv, SourceInv, InSource, ScanInv, BuildInv, RenderInv,
         DocsInv, ErrorInv, FinishInv

-----------------------------------------------------------------------------
(* The steps: entries of a directory.                                       *)

\* What the callback sees of its entry.
LEMMA Visits ==
  ASSUME WalkInv, pc = "visit"
  PROVE  /\ WalkType /\ paths \in Walks /\ nextIndex \in Nat /\ docs \in Nat
         /\ at \in Nat /\ at # 0 /\ at + 1 \in Nat /\ at + 1 # 0 /\ at + 1 - 1 = at
         /\ InDirectory(paths, path, at - 1, pruned, nextIndex)
         /\ path \in 1 .. Len(paths)
         /\ Whole(paths, events, nextIndex)
         /\ Current = Here.entries[at]
BY DEF WalkInv, WalkType, VisitInv, InDirectory, Current

\* The entry: what hides it, what it is.
LEMMA VisitsEntry ==
  ASSUME WalkInv, pc = "visit", at \in DOMAIN Here.entries,
         NEW es, es = Here.entries
  PROVE  /\ Current = es[at] /\ es[at] \in Entry
         /\ Pruned(Current) <=> Hidden(es, at)
         /\ Hiding(es, at) = IF Hides(es, at) /\ ~Hidden(es, at) THEN pruned \cup {es[at].label} ELSE pruned
         /\ IsFile(es[at]) \/ IsPlainDir(es[at]) \/ IsKustomization(es[at])
         /\ es[1].dir
<1>1. InDirectory(paths, path, at - 1, pruned, nextIndex) /\ paths \in Walks /\ Current = es[at]
  BY Visits
<1>2. es = paths[path].entries
  BY DEF Here
<1>3. es[at] \in Entry
  BY <1>1, <1>2, EntryHidden
<1>4. es[at].within \cap pruned # {} <=> Hidden(es, at)
  BY <1>1, <1>2, EntryHidden
<1>5. Hiding(es, at) = IF Hides(es, at) /\ ~Hidden(es, at) THEN pruned \cup {es[at].label} ELSE pruned
  <2>1. PICK k, hides, n, w, p : k = at /\ hides = pruned /\ n = nextIndex /\ w = paths /\ p = path
    OBVIOUS
  <2>2. w \in Walks /\ InDirectory(w, p, k - 1, hides, n) /\ es = w[p].entries /\ k \in DOMAIN es
    BY <1>1, <1>2, <2>1
  <2>3. Hides(es, k) /\ ~Hidden(es, k) => Hiding(es, k) = hides \cup {es[k].label}
    BY <2>2, EntryHidden
  <2>4. ~(Hides(es, k) /\ ~Hidden(es, k)) => Hiding(es, k) = hides
    BY <2>2, EntryHidden
  <2> QED BY <2>1, <2>3, <2>4
<1>6. IsTree(es)
  BY <1>1, <1>2, DirectoryIs
<1>7. /\ IsFile(es[at]) \/ IsPlainDir(es[at]) \/ IsKustomization(es[at])
      /\ es[1].dir
  BY <1>6 DEF IsTree
<1> QED BY <1>1, <1>3, <1>4, <1>5, <1>7 DEF Pruned

\* An entry that brings nothing.
LEMMA PassesOver ==
  ASSUME WalkInv, pc = "visit", at \in DOMAIN Here.entries,
         NEW es, es = Here.entries, ~Takes(es, at), at \notin Unlistable(es),
         pruned' = Hiding(es, at), at' = at + 1, pc' = pc, path' = path, paths' = paths,
         ctxDone' = ctxDone, events' = events, SameSource
  PROVE  WalkInv'
<1>1. /\ WalkType /\ paths \in Walks /\ nextIndex \in Nat /\ docs \in Nat
      /\ at + 1 \in Nat /\ at + 1 # 0 /\ at + 1 - 1 = at
      /\ InDirectory(paths, path, at - 1, pruned, nextIndex)
      /\ Whole(paths, events, nextIndex)
  BY Visits
<1>2. es = paths[path].entries
  BY DEF Here
<1>3. InDirectory(paths, path, at, Hiding(es, at), nextIndex)
  BY <1>1, <1>2, EntryPassed
<1>4. nextIndex' = nextIndex /\ docs' = docs
  BY DEF SameSource
<1>5. docs' \in Nat /\ nextIndex' \in Nat /\ at' \in Nat /\ at' # 0 /\ pc' = "visit"
  BY <1>1, <1>4
<1>6. at' - 1 = at
  <2>1. at \in Nat /\ at' = at + 1
    BY Visits
  <2> QED BY ONLY <2>1
<1>7. InDirectory(paths, path', at' - 1, pruned', nextIndex') /\ Whole(paths, events', nextIndex')
  BY <1>1, <1>3, <1>4, <1>6
<1> QED BY <1>1, <1>5, <1>7, ToVisit

LEMMA PruneDirStep ==
  ASSUME WalkInv, PruneDir
  PROVE  WalkInv'
<1>1. PICK es : es = Here.entries
  OBVIOUS
<1>2. /\ pc = "visit" /\ at \in DOMAIN Here.entries
      /\ ~Pruned(Current) /\ Current.dir /\ Current.skip /\ at # 1
      /\ pruned' = pruned \cup {Current.label} /\ at' = at + 1
      /\ paths' = paths /\ ctxDone' = ctxDone /\ pc' = pc /\ path' = path /\ events' = events
      /\ SameSource
  BY DEF PruneDir, IsRoot
<1>3. /\ Current = es[at]
      /\ Pruned(Current) <=> Hidden(es, at)
      /\ Hiding(es, at) = IF Hides(es, at) /\ ~Hidden(es, at) THEN pruned \cup {es[at].label} ELSE pruned
  BY <1>1, <1>2, VisitsEntry
<1>4. Hides(es, at) /\ ~Hidden(es, at)
  BY <1>2, <1>3 DEF Hides
<1>5. at \notin Seen(es)
  BY <1>2, <1>3 DEF Seen
<1>6. ~Takes(es, at) /\ at \notin Unlistable(es)
  BY <1>5 DEF Takes, Unlistable
<1> QED BY <1>1, <1>2, <1>3, <1>4, <1>6, PassesOver

LEMMA VisitOtherStep ==
  ASSUME WalkInv, VisitOther
  PROVE  WalkInv'
<1>1. PICK es : es = Here.entries
  OBVIOUS
<1>2. /\ pc = "visit" /\ at \in DOMAIN Here.entries
      /\ \/ Pruned(Current)
         \/ ~Current.dir /\ (Current.skip \/ ~Current.yaml)
         \/ Current.dir /\ ~Skips(Current) /\ ~Current.kustomization /\ Current.fails # "read"
      /\ pruned' = pruned /\ at' = at + 1
      /\ paths' = paths /\ ctxDone' = ctxDone /\ pc' = pc /\ path' = path /\ events' = events
      /\ SameSource
  BY DEF VisitOther
<1>3. /\ Current = es[at] /\ es[1].dir
      /\ Pruned(Current) <=> Hidden(es, at)
      /\ Hiding(es, at) = IF Hides(es, at) /\ ~Hidden(es, at) THEN pruned \cup {es[at].label} ELSE pruned
  BY <1>1, <1>2, VisitsEntry
<1>4. CASE Pruned(Current)
  <2>1. ~Takes(es, at) /\ at \notin Unlistable(es) /\ Hiding(es, at) = pruned
    BY <1>3, <1>4 DEF Takes, Unlistable, Seen
  <2> QED BY <1>1, <1>2, <2>1, PassesOver
<1>5. CASE ~Current.dir /\ (Current.skip \/ ~Current.yaml)
  <2>1. at # 1
    BY <1>3, <1>5
  <2>2. ~Takes(es, at) /\ at \notin Unlistable(es)
    BY <1>3, <1>5, <2>1 DEF Takes, Unlistable, Seen
  <2>3. Hiding(es, at) = pruned
    BY <1>3, <1>5 DEF Hides
  <2> QED BY <1>1, <1>2, <2>2, <2>3, PassesOver
<1>6. CASE Current.dir /\ ~Skips(Current) /\ ~Current.kustomization /\ Current.fails # "read"
  <2>1. ~Takes(es, at) /\ at \notin Unlistable(es)
    BY <1>3, <1>6 DEF Takes, Unlistable
  <2>2. ~Hides(es, at)
    BY <1>3, <1>6 DEF Hides, Skips, IsRoot
  <2>3. Hiding(es, at) = pruned
    BY <1>3, <2>2
  <2> QED BY <1>1, <1>2, <2>1, <2>3, PassesOver
<1> QED BY <1>2, <1>4, <1>5, <1>6

LEMMA VisitUnlistableStep ==
  ASSUME WalkInv, VisitUnlistable
  PROVE  WalkInv'
<1>1. PICK es : es = Here.entries
  OBVIOUS
<1>2. /\ pc = "visit" /\ at \in DOMAIN Here.entries
      /\ ~Pruned(Current) /\ Current.dir /\ ~Skips(Current) /\ ~Current.kustomization
      /\ Current.fails = "read" /\ pc' = "fail"
      /\ at' = at
      /\ paths' = paths /\ ctxDone' = ctxDone /\ path' = path /\ events' = events
      /\ nextIndex' = nextIndex /\ docs' = docs
  BY DEF VisitUnlistable, cursorVars, SameSource
<1>3. Current = es[at] /\ (Pruned(Current) <=> Hidden(es, at))
  BY <1>1, <1>2, VisitsEntry
<1>4. at \in Unlistable(es)
  BY <1>1, <1>2, <1>3 DEF Unlistable, Seen, Skips, IsRoot
<1>5. /\ WalkType /\ paths \in Walks /\ nextIndex \in Nat /\ docs \in Nat /\ at \in Nat
      /\ InDirectory(paths, path, at - 1, pruned, nextIndex)
      /\ Whole(paths, events, nextIndex)
  BY <1>2, Visits
<1>6. es = paths[path].entries
  BY <1>1 DEF Here
<1>7. Failing(paths, path, nextIndex)
  BY <1>4, <1>5, <1>6, DirectoryFails
<1> QED BY <1>2, <1>5, <1>7, ToFail

LEMMA VisitFileStep ==
  ASSUME WalkInv, VisitFile
  PROVE  WalkInv'
<1>1. PICK es : es = Here.entries
  OBVIOUS
<1>2. /\ pc = "visit" /\ at \in DOMAIN Here.entries
      /\ ~Pruned(Current) /\ ~Current.dir /\ ~Skips(Current) /\ Current.yaml
      /\ Reads(Current)
      /\ at' = at /\ pruned' = pruned
      /\ paths' = paths /\ ctxDone' = ctxDone /\ path' = path /\ events' = events
  BY DEF VisitFile, cursorVars
<1>3. /\ Current = es[at] /\ es[at] \in Entry
      /\ Pruned(Current) <=> Hidden(es, at)
      /\ Hiding(es, at) = IF Hides(es, at) /\ ~Hidden(es, at) THEN pruned \cup {es[at].label} ELSE pruned
      /\ IsFile(es[at]) \/ IsPlainDir(es[at]) \/ IsKustomization(es[at])
  BY <1>1, <1>2, VisitsEntry
<1>4. IsFile(es[at])
  BY <1>2, <1>3 DEF IsPlainDir, IsKustomization
<1>5. at \in Seen(es) /\ Hiding(es, at) = pruned
  BY <1>1, <1>2, <1>3 DEF Seen, Skips, Hides
<1>6. /\ WalkType /\ paths \in Walks /\ nextIndex \in Nat /\ docs \in Nat /\ at \in Nat /\ at # 0
      /\ InDirectory(paths, path, at - 1, pruned, nextIndex)
      /\ path \in 1 .. Len(paths)
      /\ Whole(paths, events, nextIndex)
  BY <1>2, Visits
<1>7. es = paths[path].entries
  BY <1>1 DEF Here
<1>8. Takes(es, at)
  <2>1. \A u \in Unlistable(es) : at < u
    <3> SUFFICES ASSUME NEW u \in Unlistable(es) PROVE at < u
      OBVIOUS
    <3>1. u > at - 1
      BY <1>6, <1>7 DEF InDirectory
    <3>2. u # at
      BY <1>2, <1>3 DEF Unlistable
    <3>3. u \in Nat
      <4>1. es \in Seq(Entry)
        BY <1>6, <1>7, DirectoryIs
      <4> QED BY <4>1, LenProperties DEF Unlistable, Seen
    <3> QED BY <1>6, <3>1, <3>2, <3>3
  <2> QED BY <1>2, <1>3, <1>5, <2>1 DEF Takes, Reached
<1>9. /\ InDirectory(paths, path, at, pruned, nextIndex + 1)
      /\ nextIndex + 1 \in 1 .. Len(SourcesOf(paths))
      /\ SourcesOf(paths)[nextIndex + 1] = FromFile(es[at])
  <2>1. InDirectory(paths, path, at, Hiding(es, at), nextIndex + 1)
    BY <1>1, <1>2, <1>6, <1>7, <1>8, EntryTaken
  <2>2. nextIndex + 1 \in 1 .. Len(SourcesOf(paths))
    BY <1>1, <1>2, <1>6, <1>7, <1>8, EntryTaken
  <2>3. SourcesOf(paths)[nextIndex + 1] = IF es[at].dir THEN FromBuild(es[at]) ELSE FromFile(es[at])
    BY <1>1, <1>2, <1>6, <1>7, <1>8, EntryTaken
  <2> QED BY <1>2, <1>3, <1>5, <2>1, <2>2, <2>3
<1>10. Current' = es[at]
  BY <1>2, <1>6, <1>7 DEF Current, Here
<1>11. PICK e \in Entry : e = es[at]
  BY <1>3
<1> QED BY <1>2, <1>3, <1>4, <1>6, <1>9, <1>10, <1>11, FileBegins

LEMMA VisitKustomizationStep ==
  ASSUME WalkInv, VisitKustomization
  PROVE  WalkInv'
<1>1. PICK es : es = Here.entries
  OBVIOUS
<1>2. /\ pc = "visit" /\ at \in DOMAIN Here.entries
      /\ ~Pruned(Current) /\ Current.dir /\ ~Skips(Current) /\ Current.kustomization
      /\ Builds(Current)
      /\ at' = at /\ pruned' = pruned \cup {Current.label}
      /\ paths' = paths /\ ctxDone' = ctxDone /\ path' = path /\ events' = events
  BY DEF VisitKustomization
<1>3. /\ Current = es[at] /\ es[at] \in Entry
      /\ Pruned(Current) <=> Hidden(es, at)
      /\ Hiding(es, at) = IF Hides(es, at) /\ ~Hidden(es, at) THEN pruned \cup {es[at].label} ELSE pruned
      /\ IsFile(es[at]) \/ IsPlainDir(es[at]) \/ IsKustomization(es[at])
  BY <1>1, <1>2, VisitsEntry
<1>4. IsKustomization(es[at])
  BY <1>2, <1>3 DEF IsPlainDir, IsFile
<1>5. at \in Seen(es)
  BY <1>1, <1>2, <1>3 DEF Seen, Skips, IsRoot
<1>6. Hiding(es, at) = pruned'
  BY <1>2, <1>3 DEF Hides
<1>7. /\ WalkType /\ paths \in Walks /\ nextIndex \in Nat /\ docs \in Nat /\ at \in Nat /\ at # 0
      /\ InDirectory(paths, path, at - 1, pruned, nextIndex)
      /\ path \in 1 .. Len(paths)
      /\ Whole(paths, events, nextIndex)
  BY <1>2, Visits
<1>8. es = paths[path].entries
  BY <1>1 DEF Here
<1>9. Takes(es, at)
  <2>1. \A u \in Unlistable(es) : at < u
    <3> SUFFICES ASSUME NEW u \in Unlistable(es) PROVE at < u
      OBVIOUS
    <3>1. u > at - 1
      BY <1>7, <1>8 DEF InDirectory
    <3>2. u # at
      BY <1>2, <1>3 DEF Unlistable
    <3>3. u \in Nat
      <4>1. es \in Seq(Entry)
        BY <1>7, <1>8, DirectoryIs
      <4> QED BY <4>1, LenProperties DEF Unlistable, Seen
    <3> QED BY <1>7, <3>1, <3>2, <3>3
  <2> QED BY <1>2, <1>3, <1>5, <2>1 DEF Takes, Reached
<1>10. /\ InDirectory(paths, path, at, pruned', nextIndex + 1)
       /\ nextIndex + 1 \in 1 .. Len(SourcesOf(paths))
       /\ SourcesOf(paths)[nextIndex + 1] = FromBuild(es[at])
  <2>1. InDirectory(paths, path, at, Hiding(es, at), nextIndex + 1)
    BY <1>1, <1>2, <1>7, <1>8, <1>9, EntryTaken
  <2>2. nextIndex + 1 \in 1 .. Len(SourcesOf(paths))
    BY <1>1, <1>2, <1>7, <1>8, <1>9, EntryTaken
  <2>3. SourcesOf(paths)[nextIndex + 1] = IF es[at].dir THEN FromBuild(es[at]) ELSE FromFile(es[at])
    BY <1>1, <1>2, <1>7, <1>8, <1>9, EntryTaken
  <2> QED BY <1>2, <1>3, <1>6, <2>1, <2>2, <2>3
<1>11. Current' = es[at]
  BY <1>2, <1>7, <1>8 DEF Current, Here
<1>12. PICK e \in Entry : e = es[at]
  BY <1>3
<1> QED BY <1>2, <1>3, <1>4, <1>7, <1>10, <1>11, <1>12, KustomizationBegins

LEMMA LeaveDirStep ==
  ASSUME WalkInv, LeaveDir
  PROVE  WalkInv'
<1>1. /\ pc = "visit" /\ at \notin DOMAIN Here.entries
      /\ pc' = "path" /\ path' = path + 1 /\ at' = 0
      /\ paths' = paths /\ ctxDone' = ctxDone /\ events' = events
      /\ nextIndex' = nextIndex /\ docs' = docs
  BY DEF LeaveDir, SameSource
<1>2. /\ WalkType /\ paths \in Walks /\ nextIndex \in Nat /\ docs \in Nat /\ at \in Nat /\ at # 0
      /\ InDirectory(paths, path, at - 1, pruned, nextIndex)
      /\ Whole(paths, events, nextIndex)
  BY <1>1, Visits
<1>3. path \in 1 .. Len(paths) /\ nextIndex = PathsTo(paths, path)
  BY <1>1, <1>2, DirectoryEnds DEF Here
<1>4. AtPath(paths, path + 1, nextIndex)
  BY <1>2, <1>3, PathEnds
<1> QED BY <1>1, <1>2, <1>4, ToPath

-----------------------------------------------------------------------------
(* The steps: what is emitted.                                              *)

\* The next event of a source.
LEMMA EmitsOne ==
  ASSUME NEW w \in Walks, NEW n \in 1 .. Len(SourcesOf(w)),
         NEW e, e = EventsOf(SourcesOf(w)[n], n - 1),
         NEW k \in Nat, k + 1 \in 1 .. Len(e), NEW ev, Partly(w, ev, n, k)
  PROVE  Partly(w, Append(ev, e[k + 1]), n, k + 1)
<1>1. PICK i \in 1 .. Len(e) : i = k + 1
  OBVIOUS
<1>2. i - 1 = k
  BY <1>1
<1>3. Emitted(w, ev, EventsTo(w, n - 1) + (i - 1))
  BY <1>2 DEF Partly
<1>4. PICK s : s = SourcesOf(w)[n]
  OBVIOUS
<1>5. e = EventsOf(s, n - 1)
  BY <1>4
<1>6. Emitted(w, Append(ev, e[i]), EventsTo(w, n - 1) + i)
  BY <1>3, <1>4, <1>5, Emits
<1> QED BY <1>1, <1>6 DEF Partly

\* What the n-th source emits.
LEMMA SourceIs ==
  ASSUME NEW w \in Walks, NEW n \in 1 .. Len(SourcesOf(w)),
         NEW s, s = SourcesOf(w)[n], NEW e, e = EventsOf(s, n - 1)
  PROVE  /\ n \in Nat /\ n - 1 \in Nat /\ Len(s.docs) \in Nat /\ Len(e) \in Nat \ {0}
         /\ s \in Input
         /\ s.error => Len(e) = Len(s.docs) + 2
         /\ ~s.error => Len(e) = Len(s.docs) + 1
         /\ \A d \in 1 .. Len(s.docs) : e[d] = EventOf(s.label, n - 1, "doc", d, s.docs[d])
         /\ s.error => e[Len(s.docs) + 1] = EventOf(s.label, n - 1, "error", 0, <<>>)
         /\ e[Len(e)] = EventOf(s.label, n - 1, "final", 0, <<>>)
<1>1. s \in Input /\ n - 1 \in Nat
  BY SourceEmits
<1>2. n \in Nat
  BY <1>1
<1>3. PICK m \in Nat : m = n - 1
  BY <1>1
<1>4. e = EventsOf(s, m)
  BY <1>3
<1>5. /\ Len(s.docs) \in Nat
      /\ s.error => Len(e) = Len(s.docs) + 2
      /\ ~s.error => Len(e) = Len(s.docs) + 1
  BY <1>1, <1>4, EventsAre
<1>6. Len(e) \in Nat \ {0}
  BY <1>5
<1>7. \A d \in 1 .. Len(s.docs) : e[d] = EventOf(s.label, m, "doc", d, s.docs[d])
  BY <1>1, <1>4, EventsAre
<1>8. s.error => e[Len(s.docs) + 1] = EventOf(s.label, m, "error", 0, <<>>)
  BY <1>1, <1>4, EventsAre
<1>9. e[Len(e)] = EventOf(s.label, m, "final", 0, <<>>)
  BY <1>1, <1>4, EventsAre
<1> QED BY <1>1, <1>2, <1>3, <1>5, <1>6, <1>7, <1>8, <1>9

\* Its next document.
LEMMA EmitsDocument ==
  ASSUME NEW w \in Walks, NEW n \in 1 .. Len(SourcesOf(w)), NEW s, s = SourcesOf(w)[n],
         NEW k \in Nat, k + 1 \in 1 .. Len(s.docs), NEW ev, Partly(w, ev, n, k),
         NEW x, x = EventOf(s.label, n - 1, "doc", k + 1, s.docs[k + 1])
  PROVE  Partly(w, Append(ev, x), n, k + 1)
<1>1. PICK e : e = EventsOf(s, n - 1)
  OBVIOUS
<1>2. /\ Len(s.docs) \in Nat /\ Len(e) \in Nat
      /\ s.error => Len(e) = Len(s.docs) + 2
      /\ ~s.error => Len(e) = Len(s.docs) + 1
  BY <1>1, SourceIs
<1>3. e[k + 1] = x
  BY <1>1, SourceIs
<1>4. k + 1 \in 1 .. Len(e)
  BY <1>2
<1>5. e = EventsOf(SourcesOf(w)[n], n - 1)
  BY <1>1
<1> QED BY <1>3, <1>4, <1>5, EmitsOne

\* Its error, behind all documents.
LEMMA EmitsError ==
  ASSUME NEW w \in Walks, NEW n \in 1 .. Len(SourcesOf(w)), NEW s, s = SourcesOf(w)[n],
         s.error = TRUE, NEW ev, Partly(w, ev, n, Len(s.docs)),
         NEW x, x = EventOf(s.label, n - 1, "error", 0, <<>>)
  PROVE  Partly(w, Append(ev, x), n, Len(EventsOf(s, n - 1)) - 1)
<1>1. PICK e : e = EventsOf(s, n - 1)
  OBVIOUS
<1>2. PICK k \in Nat : k = Len(s.docs)
  BY <1>1, SourceIs
<1>3. Len(e) = k + 2
  BY <1>1, <1>2, SourceIs
<1>4. k + 1 \in 1 .. Len(e) /\ Len(e) - 1 = k + 1
  BY <1>3
<1>5. e[k + 1] = x
  BY <1>1, <1>2, SourceIs
<1>6. e = EventsOf(SourcesOf(w)[n], n - 1)
  BY <1>1
<1>7. Partly(w, Append(ev, x), n, k + 1)
  BY <1>2, <1>4, <1>5, <1>6, EmitsOne
<1> QED BY <1>1, <1>4, <1>7

\* Its Final, and the source is whole.
LEMMA EmitsFinal ==
  ASSUME NEW w \in Walks, NEW n \in 1 .. Len(SourcesOf(w)), NEW s, s = SourcesOf(w)[n],
         NEW ev, Partly(w, ev, n, Len(EventsOf(s, n - 1)) - 1),
         NEW x, x = EventOf(s.label, n - 1, "final", 0, <<>>)
  PROVE  Whole(w, Append(ev, x), n)
<1>1. PICK e : e = EventsOf(s, n - 1)
  OBVIOUS
<1>2. Len(e) \in Nat \ {0}
  BY <1>1, SourceIs
<1>3. PICK k \in Nat : k = Len(e) - 1
  BY <1>2
<1>4. k + 1 = Len(e) /\ k + 1 \in 1 .. Len(e)
  BY <1>2, <1>3
<1>5. e[Len(e)] = x
  BY <1>1, SourceIs
<1>6. e = EventsOf(SourcesOf(w)[n], n - 1)
  BY <1>1
<1>7. Partly(w, ev, n, k)
  BY <1>1, <1>3
<1>8. Partly(w, Append(ev, e[k + 1]), n, k + 1)
  BY <1>4, <1>6, <1>7, EmitsOne
<1>9. EventsTo(w, n) = EventsTo(w, n - 1) + Len(e)
  BY <1>6, SourceEmits
<1> QED BY <1>4, <1>5, <1>8, <1>9 DEF Partly, Whole

\* A source that ends without an error.
LEMMA SourceFinishes ==
  ASSUME NEW w \in Walks, NEW n \in 1 .. Len(SourcesOf(w)), NEW s, s = SourcesOf(w)[n],
         s.error = FALSE
  PROVE  Len(EventsOf(s, n - 1)) - 1 = Len(s.docs)
<1>1. PICK e : e = EventsOf(s, n - 1)
  OBVIOUS
<1>2. Len(s.docs) \in Nat /\ Len(e) = Len(s.docs) + 1
  BY <1>1, SourceIs
<1>3. Len(e) - 1 = Len(s.docs)
  BY ONLY <1>2
<1> QED BY <1>1, <1>3

-----------------------------------------------------------------------------
(* The steps: a file.                                                       *)

\* The source that is being produced, and what it emits.
LEMMA ThisSource ==
  ASSUME WalkInv, InSource
  PROVE  /\ WalkType /\ paths \in Walks /\ docs \in Nat /\ nextIndex \in Nat
         /\ nextIndex \in 1 .. Len(SourcesOf(paths))
         /\ This = SourcesOf(paths)[nextIndex]
         /\ Producing(paths, path, at, pruned, nextIndex, source)
         /\ \A kind, d, raw : Event(kind, d, raw) = EventOf(This.label, nextIndex - 1, kind, d, raw)
<1>1. WalkType /\ paths \in Walks /\ docs \in Nat /\ nextIndex \in Nat
  BY DEF WalkInv, WalkType
<1>2. Producing(paths, path, at, pruned, nextIndex, source)
  BY DEF WalkInv, SourceInv
<1>3. nextIndex \in 1 .. Len(SourcesOf(paths))
      /\ source = [label |-> This.label, index |-> nextIndex - 1]
  BY <1>2 DEF Producing, This
<1>4. \A kind, d, raw : Event(kind, d, raw) = EventOf(This.label, nextIndex - 1, kind, d, raw)
  BY <1>3 DEF Event, EventOf
<1> QED BY <1>1, <1>2, <1>3, <1>4 DEF This

LEMMA ScanTokenStep ==
  ASSUME WalkInv, ScanToken
  PROVE  WalkInv'
<1>1. PICK s, raw : s = SplitDocument(buf, eof) /\ raw = Trim(s.token)
  OBVIOUS
<1>2. /\ pc = "scan" /\ s.found
      /\ buf' = SubSeq(buf, s.advance + 1, Len(buf))
      /\ IsContentFree(raw) => docs' = docs /\ events' = events
      /\ ~IsContentFree(raw) =>
           /\ docs' = docs + 1 /\ events' = Append(events, Event("doc", docs + 1, raw))
      /\ paths' = paths /\ ctxDone' = ctxDone /\ pc' = pc /\ path' = path /\ at' = at /\ pruned' = pruned
      /\ nextIndex' = nextIndex /\ source' = source /\ rest' = rest /\ eof' = eof
  BY <1>1 DEF ScanToken, Send, cursorVars
<1>3. InSource
  BY <1>2 DEF InSource
<1>4. /\ WalkType /\ paths \in Walks /\ docs \in Nat /\ nextIndex \in Nat
      /\ nextIndex \in 1 .. Len(SourcesOf(paths)) /\ This = SourcesOf(paths)[nextIndex]
      /\ Producing(paths, path, at, pruned, nextIndex, source)
  BY <1>3, ThisSource
<1>5. /\ Current \in Entry /\ IsFile(Current) /\ Current.fails # "open"
      /\ This = FromFile(Current) /\ eof \in BOOLEAN
      /\ Scanning(Current.content, docs, buf, rest, eof)
      /\ Partly(paths, events, nextIndex, docs)
  BY <1>2 DEF WalkInv, ScanInv
<1>6. PICK data \in Seq(Byte) : data = Current.content
  BY <1>5 DEF Entry
<1>7. This.docs = Documents(data)
  BY <1>5, <1>6 DEF FromFile, SourceOf
<1>8. Scanning(data, docs, buf, rest, eof)
  BY <1>5, <1>6
<1>9. IsContentFree(raw) => Scanning(data, docs, buf', rest, eof)
  BY <1>1, <1>2, <1>5, <1>8, ScanTakes
<1>10. ASSUME ~IsContentFree(raw)
       PROVE  /\ Scanning(data, docs + 1, buf', rest, eof)
              /\ docs + 1 \in 1 .. Len(Documents(data)) /\ Documents(data)[docs + 1] = raw
  <2>1. PICK d, w, r, end, w2 : d = docs /\ w = buf /\ r = rest /\ end = eof /\ w2 = buf'
    OBVIOUS
  <2>2. /\ end \in BOOLEAN /\ Scanning(data, d, w, r, end) /\ s = SplitDocument(w, end) /\ s.found
        /\ raw = Trim(s.token) /\ w2 = SubSeq(w, s.advance + 1, Len(w))
    BY <1>1, <1>2, <1>5, <1>8, <2>1
  <2>3. Scanning(data, d + 1, w2, r, end)
    BY <1>10, <2>2, ScanTakes
  <2>4. Holds(data, d + 1, raw)
    BY <1>10, <2>2, ScanTakes
  <2> QED BY <2>1, <2>3, <2>4 DEF Holds
<1>11. /\ docs' \in Nat
       /\ Scanning(data, docs', buf', rest, eof)
       /\ Partly(paths, events', nextIndex, docs')
  <2>1. CASE IsContentFree(raw)
    BY <1>2, <1>4, <1>5, <1>9, <2>1
  <2>2. CASE ~IsContentFree(raw)
    <3>1. PICK x : x = Event("doc", docs + 1, raw)
      OBVIOUS
    <3>2. x = EventOf(This.label, nextIndex - 1, "doc", docs + 1, This.docs[docs + 1])
      BY <1>3, <1>7, <1>10, <2>2, <3>1, ThisSource
    <3>3. docs + 1 \in 1 .. Len(This.docs)
      BY <1>7, <1>10, <2>2
    <3>4. PICK this : this = This
      OBVIOUS
    <3>5. PICK k \in Nat : k = docs
      BY <1>4
    <3>6. /\ this = SourcesOf(paths)[nextIndex] /\ k + 1 \in 1 .. Len(this.docs)
          /\ Partly(paths, events, nextIndex, k)
          /\ x = EventOf(this.label, nextIndex - 1, "doc", k + 1, this.docs[k + 1])
      BY <1>4, <1>5, <3>2, <3>3, <3>4, <3>5
    <3>7. Partly(paths, Append(events, x), nextIndex, k + 1)
      BY <1>4, <3>6, EmitsDocument
    <3>8. docs' = k + 1 /\ events' = Append(events, x)
      BY <1>2, <2>2, <3>1, <3>5
    <3>9. Scanning(data, docs', buf', rest, eof)
      BY <1>10, <2>2, <3>5, <3>8
    <3> QED BY <3>5, <3>7, <3>8, <3>9
  <2> QED BY <2>1, <2>2
<1>12. Current' = Current /\ This' = This
  BY <1>2 DEF Current, Here, This
<1>13. ScanInv'
  BY <1>2, <1>5, <1>6, <1>11, <1>12 DEF ScanInv
<1>14. WalkType' /\ SourceInv'
  BY <1>2, <1>4, <1>11 DEF WalkType, SourceInv
<1> QED BY <1>2, <1>13, <1>14
     DEF WalkInv, PathInv, VisitInv, FailInv, BuildInv, RenderInv, DocsInv, ErrorInv, FinishInv, ReturnInv

LEMMA ScanReadStep ==
  ASSUME WalkInv, ScanRead
  PROVE  WalkInv'
<1>1. /\ pc = "scan" /\ eof # TRUE
      /\ \/ rest = <<>> /\ eof' = TRUE /\ buf' = buf /\ rest' = rest
         \/ /\ \E n \in DOMAIN rest :
                 buf' = buf \o SubSeq(rest, 1, n) /\ rest' = SubSeq(rest, n + 1, Len(rest))
            /\ eof' = eof
      /\ paths' = paths /\ ctxDone' = ctxDone /\ pc' = pc /\ path' = path /\ at' = at /\ pruned' = pruned
      /\ nextIndex' = nextIndex /\ source' = source /\ docs' = docs /\ events' = events
  BY DEF ScanRead, cursorVars
<1>2. InSource
  BY <1>1 DEF InSource
<1>3. /\ WalkType /\ Producing(paths, path, at, pruned, nextIndex, source)
  BY <1>2, ThisSource
<1>4. /\ Current \in Entry /\ IsFile(Current) /\ Current.fails # "open"
      /\ This = FromFile(Current) /\ eof \in BOOLEAN
      /\ Scanning(Current.content, docs, buf, rest, eof)
      /\ Partly(paths, events, nextIndex, docs)
  BY <1>1 DEF WalkInv, ScanInv
<1>5. PICK data \in Seq(Byte) : data = Current.content
  BY <1>4 DEF Entry
<1>6. eof = FALSE
  BY <1>1, <1>4
<1>7. PICK d, w, r : d = docs /\ w = buf /\ r = rest
  OBVIOUS
<1>8. Scanning(data, d, w, r, FALSE)
  BY <1>4, <1>5, <1>6, <1>7
<1>9. Scanning(data, docs, buf', rest', eof') /\ eof' \in BOOLEAN
  <2>1. CASE rest = <<>> /\ eof' = TRUE /\ buf' = buf /\ rest' = rest
    <3>1. Scanning(data, d, w, r, TRUE)
      BY <1>7, <1>8, <2>1, ScanReadsMore
    <3> QED BY <1>7, <2>1, <3>1
  <2>2. ASSUME NEW n \in DOMAIN rest,
               buf' = buf \o SubSeq(rest, 1, n), rest' = SubSeq(rest, n + 1, Len(rest)), eof' = eof
        PROVE  Scanning(data, docs, buf', rest', eof') /\ eof' \in BOOLEAN
    <3>1. Scanning(data, d, w \o SubSeq(r, 1, n), SubSeq(r, n + 1, Len(r)), FALSE)
      BY <1>7, <1>8, ScanReadsMore
    <3> QED BY <1>6, <1>7, <2>2, <3>1
  <2> QED BY <1>1, <2>1, <2>2
<1>10. Current' = Current /\ This' = This
  BY <1>1 DEF Current, Here, This
<1>11. ScanInv'
  BY <1>1, <1>4, <1>5, <1>9, <1>10 DEF ScanInv
<1>12. WalkType' /\ SourceInv'
  BY <1>1, <1>3 DEF WalkType, SourceInv
<1> QED BY <1>1, <1>11, <1>12
     DEF WalkInv, PathInv, VisitInv, FailInv, BuildInv, RenderInv, DocsInv, ErrorInv, FinishInv, ReturnInv

LEMMA ScanEndStep ==
  ASSUME WalkInv, ScanEnd
  PROVE  WalkInv'
<1>1. /\ pc = "scan" /\ eof /\ ~SplitDocument(buf, eof).found
      /\ pc' = IF Current.fails = "read" THEN "error" ELSE "finish"
      /\ paths' = paths /\ ctxDone' = ctxDone /\ path' = path /\ at' = at /\ pruned' = pruned
      /\ nextIndex' = nextIndex /\ source' = source /\ docs' = docs /\ events' = events
  BY DEF ScanEnd, cursorVars, SameSource
<1>2. InSource
  BY <1>1 DEF InSource
<1>3. /\ WalkType /\ paths \in Walks /\ nextIndex \in 1 .. Len(SourcesOf(paths))
      /\ This = SourcesOf(paths)[nextIndex]
      /\ Producing(paths, path, at, pruned, nextIndex, source)
  BY <1>2, ThisSource
<1>4. /\ Current \in Entry /\ IsFile(Current) /\ Current.fails # "open"
      /\ This = FromFile(Current) /\ eof \in BOOLEAN
      /\ Scanning(Current.content, docs, buf, rest, eof)
      /\ Partly(paths, events, nextIndex, docs)
  BY <1>1 DEF WalkInv, ScanInv
<1>5. PICK data \in Seq(Byte) : data = Current.content
  BY <1>4 DEF Entry
<1>6. eof = TRUE
  BY <1>1, <1>4
<1>7. Scanning(data, docs, buf, rest, TRUE) /\ ~SplitDocument(buf, TRUE).found
  BY <1>1, <1>4, <1>5, <1>6
<1>8. docs = Len(Documents(data))
  BY <1>7, ScanStops
<1>9. docs = Len(This.docs) /\ This.error = (Current.fails # "no")
  BY <1>4, <1>5, <1>8 DEF FromFile, SourceOf
<1>10. This' = This
  BY <1>1 DEF This
<1>11. WalkType' /\ SourceInv'
  BY <1>1, <1>3 DEF WalkType, SourceInv
<1>12. CASE Current.fails = "read"
  <2>1. pc' = "error" /\ This.error = TRUE
    BY <1>1, <1>9, <1>12
  <2>2. ErrorInv'
    BY <1>1, <1>4, <1>9, <1>10, <2>1 DEF ErrorInv
  <2> QED BY <1>11, <2>1, <2>2
       DEF WalkInv, PathInv, VisitInv, FailInv, ScanInv, BuildInv, RenderInv, DocsInv, FinishInv, ReturnInv
<1>13. CASE Current.fails # "read"
  <2>1. pc' = "finish" /\ This.error = FALSE
    BY <1>1, <1>4, <1>9, <1>13 DEF IsFile
  <2>2. Len(EventsOf(This, nextIndex - 1)) - 1 = docs
    BY <1>3, <1>9, <2>1, SourceFinishes
  <2>3. FinishInv'
    BY <1>1, <1>4, <1>10, <2>2 DEF FinishInv
  <2> QED BY <1>11, <2>1, <2>3
       DEF WalkInv, PathInv, VisitInv, FailInv, ScanInv, BuildInv, RenderInv, DocsInv, ErrorInv, ReturnInv
<1> QED BY <1>12, <1>13

-----------------------------------------------------------------------------
(* The steps: a kustomization.                                              *)

\* What stays while a source is produced.
Standing ==
  /\ paths' = paths /\ ctxDone' = ctxDone /\ path' = path /\ at' = at /\ pruned' = pruned
  /\ nextIndex' = nextIndex /\ source' = source

\* Then the source and its place stay what they are.
LEMMA StandingStays ==
  ASSUME WalkInv, InSource, Standing, docs' \in Nat
  PROVE  /\ This' = This /\ Current' = Current
         /\ Producing(paths, path, at, pruned, nextIndex, source)'
         /\ pc' \in {"path", "visit", "fail", "scan", "build", "run", "render", "strip",
                     "docs", "error", "finish", "returned"} => WalkType'
<1>1. WalkType /\ Producing(paths, path, at, pruned, nextIndex, source)
  BY ThisSource
<1>2. This' = This /\ Current' = Current
  BY DEF Standing, This, Current, Here
<1>3. Producing(paths, path, at, pruned, nextIndex, source)'
  BY <1>1 DEF Standing
<1>4. pc' \in {"path", "visit", "fail", "scan", "build", "run", "render", "strip",
               "docs", "error", "finish", "returned"} => WalkType'
  BY <1>1 DEF Standing, WalkType
<1> QED BY <1>2, <1>3, <1>4

\* The build stays as it is, and what it has rendered is as pc' wants it.
LEMMA ToBuild ==
  ASSUME WalkInv, pc \in {"build", "run", "render", "strip"}, Standing,
         docs' = docs, events' = events, pc' \in {"run", "render", "strip"}, RenderInv'
  PROVE  WalkInv'
<1>1. InSource
  BY DEF InSource
<1>2. docs' \in Nat
  BY <1>1, ThisSource
<1>3. /\ This' = This /\ Current' = Current
      /\ Producing(paths, path, at, pruned, nextIndex, source)' /\ WalkType'
  BY <1>1, <1>2, StandingStays
<1>4. BuildInv'
  BY <1>3 DEF WalkInv, BuildInv, Standing
<1> QED BY <1>3, <1>4
     DEF WalkInv, PathInv, VisitInv, FailInv, SourceInv, ScanInv, DocsInv, ErrorInv, FinishInv, ReturnInv

\* The build has failed.
LEMMA ToBuildError ==
  ASSUME WalkInv, pc \in {"build", "run", "render", "strip"}, Standing,
         docs' = docs, events' = events, pc' = "error", Current.fails # "no"
  PROVE  WalkInv'
<1>1. InSource
  BY DEF InSource
<1>2. docs' \in Nat
  BY <1>1, ThisSource
<1>3. /\ This' = This
      /\ Producing(paths, path, at, pruned, nextIndex, source)' /\ WalkType'
  BY <1>1, <1>2, StandingStays
<1>4. This = FromBuild(Current) /\ docs = 0 /\ Partly(paths, events, nextIndex, 0)
  BY DEF WalkInv, BuildInv
<1>5. This.error = TRUE /\ Len(This.docs) = 0
  BY <1>4 DEF FromBuild, SourceOf
<1>6. ErrorInv'
  BY <1>3, <1>4, <1>5 DEF ErrorInv, Standing
<1> QED BY <1>3, <1>6
     DEF WalkInv, PathInv, VisitInv, FailInv, SourceInv, ScanInv, BuildInv, RenderInv, DocsInv,
         FinishInv, ReturnInv

LEMMA BuildRefusedStep ==
  ASSUME WalkInv, BuildRefused
  PROVE  WalkInv'
<1>1. /\ pc = "build" /\ pc' = "error" /\ Current.fails # "no"
      /\ Standing /\ docs' = docs /\ events' = events
  BY DEF BuildRefused, Standing, cursorVars, SameSource
<1> QED BY <1>1, ToBuildError

LEMMA BuildBeginsStep ==
  ASSUME WalkInv, BuildBegins
  PROVE  WalkInv'
<1>1. /\ pc = "build" /\ pc' = "run"
      /\ Standing /\ docs' = docs /\ events' = events
      /\ openapi' = {}
  BY DEF BuildBegins, Begin, Standing, cursorVars, SameSource
<1>2. RenderInv'
  BY <1>1 DEF RenderInv
<1> QED BY <1>1, <1>2, ToBuild

LEMMA BuildReadsStep ==
  ASSUME WalkInv, BuildReads
  PROVE  WalkInv'
<1>1. /\ pc = "run" /\ pc' = "render"
      /\ Standing /\ docs' = docs /\ events' = events
      /\ injected' = ~Current.asks /\ openapi' = openapi
  BY DEF BuildReads, ReadRoot, Standing, cursorVars, SameSource
<1>2. openapi \subseteq Schemas(Current)
  BY <1>1 DEF WalkInv, RenderInv
<1>3. Current' = Current
  BY <1>1 DEF Standing, Current, Here
<1>4. RenderInv'
  BY <1>1, <1>2, <1>3 DEF RenderInv
<1> QED BY <1>1, <1>4, ToBuild

LEMMA BuildLoadsStep ==
  ASSUME WalkInv, BuildLoads
  PROVE  WalkInv'
<1>1. /\ pc = "render" /\ pc' = pc
      /\ Standing /\ docs' = docs /\ events' = events
      /\ Current.openapi /\ openapi' = openapi \cup {Current.label} /\ injected' = injected
  BY DEF BuildLoads, LoadSchema, Standing, cursorVars, SameSource
<1>2. openapi \subseteq Schemas(Current) /\ injected = ~Current.asks
  BY <1>1 DEF WalkInv, RenderInv
<1>3. Current' = Current
  BY <1>1 DEF Standing, Current, Here
<1>4. openapi' \subseteq Schemas(Current)
  BY <1>1, <1>2 DEF Schemas
<1>5. RenderInv'
  BY <1>1, <1>2, <1>3, <1>4 DEF RenderInv
<1> QED BY <1>1, <1>5, ToBuild

LEMMA BuildRunsStep ==
  ASSUME WalkInv, BuildRuns
  PROVE  WalkInv'
<1>1. /\ pc = "render" /\ pc' = "strip" /\ Current.fails \in {"no", "origin"}
      /\ Standing /\ docs' = docs /\ events' = events
      /\ Current.openapi => Current.label \in openapi
      /\ rendered' = [n \in 1 .. Current.built |-> Rendering(TRUE, openapi)]
      /\ injected' = injected
  BY DEF BuildRuns, RunReturns, Standing, cursorVars, SameSource
<1>2. openapi \subseteq Schemas(Current) /\ injected = ~Current.asks
  BY <1>1 DEF WalkInv, RenderInv
<1>3. Current' = Current
  BY <1>1 DEF Standing, Current, Here
<1>4. openapi = Schemas(Current)
  BY <1>1, <1>2 DEF Schemas
<1>5. RenderInv'
  BY <1>1, <1>2, <1>3, <1>4 DEF RenderInv
<1> QED BY <1>1, <1>5, ToBuild

LEMMA BuildBreaksStep ==
  ASSUME WalkInv, BuildBreaks
  PROVE  WalkInv'
<1>1. /\ pc \in {"run", "render"} /\ pc' = "error" /\ Current.fails # "no"
      /\ Standing /\ docs' = docs /\ events' = events
  BY DEF BuildBreaks, Building, Standing, cursorVars, SameSource
<1> QED BY <1>1, ToBuildError

LEMMA BuildStripsStep ==
  ASSUME WalkInv, BuildStrips
  PROVE  WalkInv'
<1>1. /\ pc = "strip" /\ Standing /\ docs' = docs /\ events' = events
      /\ Current.fails = "origin" => pc' = "error"
      /\ Current.fails # "origin" =>
           /\ pc' = "docs"
           /\ rendered' = [n \in DOMAIN rendered |->
                IF injected THEN [rendered[n] EXCEPT !.annotated = FALSE] ELSE rendered[n]]
  BY DEF BuildStrips, StripOrigins, Standing, cursorVars, SameSource
<1>2. InSource
  BY <1>1 DEF InSource
<1>3. /\ Current \in Entry /\ This = FromBuild(Current)
      /\ docs = 0 /\ Partly(paths, events, nextIndex, 0)
  BY <1>1 DEF WalkInv, BuildInv
<1>4. /\ injected = ~Current.asks /\ Current.fails \in {"no", "origin"}
      /\ rendered = [n \in 1 .. Current.built |-> Rendering(TRUE, Schemas(Current))]
  BY <1>1 DEF WalkInv, RenderInv
<1>5. CASE Current.fails = "origin"
  BY <1>1, <1>5, ToBuildError
<1>6. CASE Current.fails = "no"
  <2>1. Current.asks \in BOOLEAN /\ Current.built \in Nat
    BY <1>3 DEF Entry
  <2>2. rendered' = RenderedAlone(Current)
    <3>1. DOMAIN rendered = 1 .. Current.built
      BY <1>4
    <3>2. \A n \in 1 .. Current.built : rendered[n] = [annotated |-> TRUE, schemas |-> Schemas(Current)]
      BY <1>4 DEF Rendering
    <3>3. \A n \in 1 .. Current.built :
            (IF injected THEN [rendered[n] EXCEPT !.annotated = FALSE] ELSE rendered[n])
              = Rendering(Current.asks, Schemas(Current))
      BY <1>4, <2>1, <3>2 DEF Rendering
    <3>4. rendered' = [n \in 1 .. Current.built |-> Rendering(Current.asks, Schemas(Current))]
      BY <1>1, <1>6, <3>1, <3>3
    <3> QED BY <3>4 DEF RenderedAlone, Schemas
  <2>3. docs' \in Nat /\ pc' = "docs"
    BY <1>1, <1>3, <1>6
  <2>4. /\ This' = This /\ Current' = Current
        /\ Producing(paths, path, at, pruned, nextIndex, source)' /\ WalkType'
    BY <1>1, <1>2, <2>3, StandingStays
  <2>5. DocsInv'
    <3>1. docs' <= Current.built
      BY <1>1, <1>3, <2>1
    <3> QED BY <1>1, <1>3, <1>6, <2>2, <2>4, <3>1 DEF DocsInv, Standing
  <2> QED BY <2>3, <2>4, <2>5
       DEF WalkInv, PathInv, VisitInv, FailInv, SourceInv, ScanInv, BuildInv, RenderInv, ErrorInv,
           FinishInv, ReturnInv
<1> QED BY <1>4, <1>5, <1>6

LEMMA BuildDocStep ==
  ASSUME WalkInv, BuildDoc, NoBuild
  PROVE  WalkInv'
<1>1. /\ pc = "docs" /\ Standing /\ rendered' = rendered
      /\ \/ /\ docs < Len(rendered) /\ docs' = docs + 1 /\ pc' = pc
            /\ events' = Append(events, Event("doc", docs + 1, rendered[docs + 1]))
         \/ /\ ~(docs < Len(rendered)) /\ docs' = docs /\ pc' = "finish" /\ events' = events
  BY DEF BuildDoc, NoBuild, buildVars, Send, Standing, cursorVars
<1>2. InSource
  BY <1>1 DEF InSource
<1>3. /\ paths \in Walks /\ docs \in Nat /\ nextIndex \in 1 .. Len(SourcesOf(paths))
      /\ This = SourcesOf(paths)[nextIndex]
  BY <1>2, ThisSource
<1>4. /\ Current \in Entry /\ Current.fails = "no" /\ This = FromBuild(Current)
      /\ rendered = RenderedAlone(Current) /\ docs <= Current.built
      /\ Partly(paths, events, nextIndex, docs)
  BY <1>1 DEF WalkInv, DocsInv
<1>5. This.docs = rendered /\ This.error = FALSE
  BY <1>4 DEF FromBuild, SourceOf
<1>6. Current.built \in Nat /\ Len(rendered) = Current.built
  BY <1>4 DEF Entry, RenderedAlone
<1>7. docs' \in Nat
  BY <1>1, <1>3
<1>8. /\ This' = This /\ Current' = Current
      /\ Producing(paths, path, at, pruned, nextIndex, source)'
  BY <1>1, <1>2, <1>7, StandingStays
<1>9. CASE /\ docs < Len(rendered) /\ docs' = docs + 1 /\ pc' = pc
           /\ events' = Append(events, Event("doc", docs + 1, rendered[docs + 1]))
  <2>1. PICK x, this : x = Event("doc", docs + 1, rendered[docs + 1]) /\ this = This
    OBVIOUS
  <2>2. PICK k \in Nat : k = docs
    BY <1>3
  <2>3. x = EventOf(this.label, nextIndex - 1, "doc", k + 1, this.docs[k + 1])
    BY <1>2, <1>5, <2>1, <2>2, ThisSource
  <2>4. k + 1 \in 1 .. Len(this.docs)
    BY <1>5, <1>6, <1>9, <2>1, <2>2
  <2>5. Partly(paths, Append(events, x), nextIndex, k + 1)
    BY <1>3, <1>4, <2>1, <2>2, <2>3, <2>4, EmitsDocument
  <2>6. docs' <= Current.built
    BY <1>3, <1>6, <1>9
  <2>7. DocsInv'
    BY <1>1, <1>4, <1>8, <1>9, <2>1, <2>2, <2>5, <2>6 DEF DocsInv, Standing
  <2>8. WalkType' /\ pc' = "docs"
    BY <1>1, <1>2, <1>7, <1>9, StandingStays
  <2> QED BY <1>8, <2>7, <2>8
       DEF WalkInv, PathInv, VisitInv, FailInv, SourceInv, ScanInv, BuildInv, RenderInv, ErrorInv,
           FinishInv, ReturnInv
<1>10. CASE ~(docs < Len(rendered)) /\ docs' = docs /\ pc' = "finish" /\ events' = events
  <2>1. docs = Len(This.docs)
    BY <1>3, <1>4, <1>5, <1>6, <1>10
  <2>2. Len(EventsOf(This, nextIndex - 1)) - 1 = docs
    BY <1>3, <1>5, <2>1, SourceFinishes
  <2>3. FinishInv'
    BY <1>1, <1>4, <1>8, <1>10, <2>2 DEF FinishInv, Standing
  <2>4. WalkType'
    BY <1>1, <1>2, <1>7, <1>10, StandingStays
  <2> QED BY <1>8, <1>10, <2>3, <2>4
       DEF WalkInv, PathInv, VisitInv, FailInv, SourceInv, ScanInv, BuildInv, RenderInv, DocsInv,
           ErrorInv, ReturnInv
<1> QED BY <1>1, <1>9, <1>10

-----------------------------------------------------------------------------
(* The steps: the end of a source.                                          *)

LEMMA SendErrorStep ==
  ASSUME WalkInv, SendError
  PROVE  WalkInv'
<1>1. /\ pc = "error" /\ pc' = "finish" /\ Standing /\ docs' = docs
      /\ events' = Append(events, Event("error", 0, <<>>))
  BY DEF SendError, Send, Standing, cursorVars, SameSource
<1>2. InSource
  BY <1>1 DEF InSource
<1>3. /\ paths \in Walks /\ docs \in Nat /\ nextIndex \in 1 .. Len(SourcesOf(paths))
      /\ This = SourcesOf(paths)[nextIndex]
  BY <1>2, ThisSource
<1>4. /\ This.error = TRUE /\ docs = Len(This.docs) /\ Partly(paths, events, nextIndex, docs)
  BY <1>1 DEF WalkInv, ErrorInv
<1>5. docs' \in Nat
  BY <1>1, <1>3
<1>6. This' = This /\ Producing(paths, path, at, pruned, nextIndex, source)' /\ WalkType'
  BY <1>1, <1>2, <1>5, StandingStays
<1>7. PICK x, this : x = Event("error", 0, <<>>) /\ this = This
  OBVIOUS
<1>8. x = EventOf(this.label, nextIndex - 1, "error", 0, <<>>)
  BY <1>2, <1>7, ThisSource
<1>9. Partly(paths, Append(events, x), nextIndex, Len(EventsOf(this, nextIndex - 1)) - 1)
  BY <1>3, <1>4, <1>7, <1>8, EmitsError
<1>10. FinishInv'
  BY <1>1, <1>6, <1>7, <1>9 DEF FinishInv, Standing
<1> QED BY <1>1, <1>6, <1>10
     DEF WalkInv, PathInv, VisitInv, FailInv, SourceInv, ScanInv, BuildInv, RenderInv, DocsInv,
         ErrorInv, ReturnInv

LEMMA FinishStep ==
  ASSUME WalkInv, Finish
  PROVE  WalkInv'
<1>1. /\ pc = "finish"
      /\ events' = Append(events, Event("final", 0, <<>>))
      /\ pc' = IF at = 0 THEN "path" ELSE "visit"
      /\ path' = IF at = 0 THEN path + 1 ELSE path
      /\ at' = IF at = 0 THEN 0 ELSE at + 1
      /\ paths' = paths /\ ctxDone' = ctxDone /\ pruned' = pruned
      /\ nextIndex' = nextIndex /\ docs' = docs
  BY DEF Finish, Send, SameSource
<1>2. InSource
  BY <1>1 DEF InSource
<1>3. /\ WalkType /\ paths \in Walks /\ docs \in Nat /\ nextIndex \in Nat
      /\ nextIndex \in 1 .. Len(SourcesOf(paths))
      /\ This = SourcesOf(paths)[nextIndex]
      /\ Producing(paths, path, at, pruned, nextIndex, source)
  BY <1>2, ThisSource
<1>4. Partly(paths, events, nextIndex, Len(EventsOf(This, nextIndex - 1)) - 1)
  BY <1>1 DEF WalkInv, FinishInv
<1>5. PICK x, this : x = Event("final", 0, <<>>) /\ this = This
  OBVIOUS
<1>6. x = EventOf(this.label, nextIndex - 1, "final", 0, <<>>)
  BY <1>2, <1>5, ThisSource
<1>7. Whole(paths, Append(events, x), nextIndex)
  BY <1>3, <1>4, <1>5, <1>6, EmitsFinal
<1>8. Whole(paths, events', nextIndex')
  BY <1>1, <1>5, <1>7
<1>9. CASE at = 0
  <2>1. path \in 1 .. Len(paths) /\ nextIndex = PathsTo(paths, path)
    BY <1>3, <1>9 DEF Producing
  <2>2. AtPath(paths, path + 1, nextIndex)
    BY <1>3, <2>1, PathEnds
  <2>3. pc' = "path" /\ at' = 0 /\ AtPath(paths, path', nextIndex')
    BY <1>1, <1>9, <2>2
  <2>4. docs' \in Nat /\ nextIndex' \in Nat
    BY <1>1, <1>3
  <2> QED BY <1>1, <1>3, <1>8, <2>3, <2>4, ToPath
<1>10. CASE at # 0
  <2>1. at \in Nat
    BY <1>3 DEF WalkType
  <2>2. InDirectory(paths, path, at, pruned, nextIndex)
    BY <1>3, <1>10 DEF Producing
  <2>3. pc' = "visit" /\ path' = path /\ at' = at + 1
    BY <1>1, <1>10
  <2>4. at' \in Nat /\ at' # 0 /\ at' - 1 = at
    BY ONLY <2>1, <2>3
  <2>5. InDirectory(paths, path', at' - 1, pruned', nextIndex')
    BY <1>1, <2>2, <2>3, <2>4
  <2>6. docs' \in Nat /\ nextIndex' \in Nat
    BY <1>1, <1>3
  <2> QED BY <1>1, <1>3, <1>8, <2>3, <2>4, <2>5, <2>6, ToVisit
<1> QED BY <1>9, <1>10

-----------------------------------------------------------------------------
(* The walk.                                                                *)

\* Nothing but the context changes.
LEMMA NothingMoves ==
  ASSUME WalkInv,
         paths' = paths, ctxDone' \in BOOLEAN, pc' = pc, path' = path, at' = at, pruned' = pruned,
         nextIndex' = nextIndex, source' = source, docs' = docs, buf' = buf, rest' = rest,
         eof' = eof, events' = events,
         openapi' = openapi, injected' = injected, rendered' = rendered,
         pc = "returned" => ctxDone' = ctxDone
  PROVE  WalkInv'
<1>1. WalkType' /\ ReturnInv'
  BY DEF WalkInv, WalkType, ReturnInv
<1>2. This' = This /\ Current' = Current
  BY DEF This, Current, Here
<1>3. PathInv' /\ VisitInv' /\ FailInv' /\ SourceInv'
  BY DEF WalkInv, PathInv, VisitInv, FailInv, SourceInv, InSource
<1>4. ScanInv' /\ BuildInv' /\ DocsInv'
  BY <1>2 DEF WalkInv, ScanInv, BuildInv, DocsInv
<1>5. RenderInv'
  BY <1>2 DEF WalkInv, RenderInv
<1>6. ErrorInv' /\ FinishInv'
  BY <1>2 DEF WalkInv, ErrorInv, FinishInv
<1> QED BY <1>1, <1>3, <1>4, <1>5, <1>6 DEF WalkInv

\* Nothing at all changes.
LEMMA StutterStep ==
  ASSUME WalkInv, UNCHANGED vars
  PROVE  WalkInv'
<1>1. /\ paths' = paths /\ ctxDone' = ctxDone /\ pc' = pc /\ path' = path /\ at' = at
      /\ pruned' = pruned /\ nextIndex' = nextIndex /\ source' = source /\ docs' = docs
      /\ buf' = buf /\ rest' = rest /\ eof' = eof /\ events' = events
      /\ openapi' = openapi /\ injected' = injected /\ rendered' = rendered
  BY DEF vars, buildVars
<1>2. ctxDone' \in BOOLEAN
  BY <1>1 DEF WalkInv, WalkType
<1> QED BY <1>1, <1>2, NothingMoves

\* The context is cancelled.
LEMMA CancelStep ==
  ASSUME WalkInv, Cancel, NoBuild
  PROVE  WalkInv'
<1>1. /\ paths' = paths /\ ctxDone' = TRUE /\ pc' = pc /\ path' = path /\ at' = at
      /\ pruned' = pruned /\ nextIndex' = nextIndex /\ source' = source /\ docs' = docs
      /\ buf' = buf /\ rest' = rest /\ eof' = eof /\ events' = events
      /\ openapi' = openapi /\ injected' = injected /\ rendered' = rendered
      /\ pc # "returned"
  BY DEF Cancel, NoBuild, cursorVars, SameSource, scanVars, buildVars
<1> QED BY <1>1, NothingMoves

\* The invariant holds at first,
LEMMA WalkInvInit == Init => WalkInv
<1> SUFFICES ASSUME Init PROVE WalkInv
  OBVIOUS
<1>1. /\ paths \in Walks /\ ctxDone = FALSE /\ pc = "path" /\ path = 1 /\ at = 0
      /\ nextIndex = 0 /\ docs = 0 /\ events = <<>>
  BY DEF Init
<1>2. AtPath(paths, path, nextIndex)
  BY <1>1, WalkBegins
<1>3. Emitted(paths, <<>>, EventsTo(paths, 0))
  BY <1>1, EmittedNothing
<1>4. PathInv
  BY <1>1, <1>2, <1>3 DEF PathInv, Whole
<1>5. WalkType
  BY <1>1 DEF WalkType
<1> QED BY <1>1, <1>4, <1>5
     DEF WalkInv, VisitInv, FailInv, SourceInv, InSource, ScanInv, BuildInv, RenderInv, DocsInv,
         ErrorInv, FinishInv, ReturnInv

\* is preserved by every step,
LEMMA WalkInvStep == WalkInv /\ [Next]_vars => WalkInv'
<1> SUFFICES ASSUME WalkInv, [Next]_vars PROVE WalkInv'
  OBVIOUS
<1>1. CASE Reading /\ NoBuild
  <2>1. CASE BeginPath \/ FailPath \/ WalkReturns \/ Abort
    BY <2>1, BeginPathStep, FailPathStep, WalkReturnsStep, AbortStep
  <2>2. CASE PruneDir \/ VisitKustomization \/ VisitFile \/ VisitUnlistable \/ VisitOther \/ LeaveDir
    BY <2>2, PruneDirStep, VisitKustomizationStep, VisitFileStep, VisitUnlistableStep,
       VisitOtherStep, LeaveDirStep
  <2>3. CASE ScanToken \/ ScanRead \/ ScanEnd
    BY <2>3, ScanTokenStep, ScanReadStep, ScanEndStep
  <2>4. CASE BuildRefused \/ BuildDoc \/ SendError \/ Finish
    BY <1>1, <2>4, BuildRefusedStep, BuildDocStep, SendErrorStep, FinishStep
  <2> QED BY <1>1, <2>1, <2>2, <2>3, <2>4 DEF Reading
<1>2. CASE BuildBegins \/ BuildReads \/ BuildLoads \/ BuildRuns \/ BuildBreaks \/ BuildStrips
  BY <1>2, BuildBeginsStep, BuildReadsStep, BuildLoadsStep, BuildRunsStep, BuildBreaksStep,
     BuildStripsStep
<1>3. CASE Cancel /\ NoBuild
  BY <1>3, CancelStep
<1>4. CASE Terminated
  BY <1>4, StutterStep DEF Terminated
<1>5. CASE UNCHANGED vars
  BY <1>5, StutterStep
<1> QED BY <1>1, <1>2, <1>3, <1>4, <1>5 DEF Next, Walk

\* and says what the walk emits.
LEMMA WalkInvDiscovers == WalkInv => DiscoversExactly
<1> SUFFICES ASSUME WalkInv PROVE DiscoversExactly
  OBVIOUS
<1>1. paths \in Walks /\ ctxDone \in BOOLEAN
  BY DEF WalkInv, WalkType
<1>2. DiscoveredBy[paths] = Discovered(paths)
  BY <1>1 DEF DiscoveredBy
<1>3. PICK k : Emitted(paths, events, k)
  BY AlwaysEmitted
<1>4. IsPrefix(events, Discovered(paths))
  BY <1>1, <1>3, EmittedIsPrefix
<1>5. pc = "returned" /\ ~ctxDone => events = Discovered(paths)
  BY DEF WalkInv, ReturnInv
<1> QED BY <1>2, <1>4, <1>5 DEF DiscoversExactly

\* The walk emits what the command line holds, for every command line, every
\* tree of files and kustomizations, every content of a file and every way to
\* cut it into chunks; cancelled, it emits a prefix of that.
THEOREM WalkDiscoversExactly == Spec => []DiscoversExactly
<1>1. Spec => []WalkInv
  BY WalkInvInit, WalkInvStep, PTL DEF Spec
<1> QED BY <1>1, WalkInvDiscovers, PTL

-----------------------------------------------------------------------------
(* A build leaves nothing behind.                                           *)

\* The mutex is held by a build that has begun, and by nobody else.
HeldInv == (Building <=> buildMutex = TRUE) /\ (~Building => openapi = {})

\* The mutex is free at first.
LEMMA HeldInit == Init => HeldInv
  BY DEF Init, BuildInit, HeldInv, Building

\* Reading and cancelling are outside of every build.
LEMMA ReadingStep ==
  ASSUME HeldInv, (Reading \/ Cancel) /\ NoBuild
  PROVE  HeldInv'
<1>1. buildMutex' = buildMutex /\ openapi' = openapi
  BY DEF NoBuild, buildVars
<1>2. CASE Cancel
  BY <1>1, <1>2 DEF Cancel, HeldInv, Building
<1>3. CASE Reading
  <2>1. pc \notin {"run", "render"} /\ pc' \notin {"run", "render"}
    <3>1. CASE BeginPath \/ FailPath \/ WalkReturns \/ Abort
      BY <3>1 DEF BeginPath, FailPath, WalkReturns, Abort, Reads, Builds, Building
    <3>2. CASE PruneDir \/ VisitKustomization \/ VisitFile \/ VisitUnlistable \/ VisitOther
               \/ LeaveDir
      BY <3>2 DEF PruneDir, VisitKustomization, VisitFile, VisitUnlistable, VisitOther, LeaveDir,
                  Reads, Builds
    <3>3. CASE ScanToken \/ ScanRead \/ ScanEnd
      BY <3>3 DEF ScanToken, ScanRead, ScanEnd
    <3>4. CASE BuildRefused \/ BuildDoc \/ SendError \/ Finish
      BY <3>4 DEF BuildRefused, BuildDoc, SendError, Finish
    <3> QED BY <1>3, <3>1, <3>2, <3>3, <3>4 DEF Reading
  <2> QED BY <1>1, <2>1 DEF HeldInv, Building
<1> QED BY <1>2, <1>3

\* A build takes the mutex, and every way out of krusty unwinds.
LEMMA BuildStep ==
  ASSUME HeldInv,
         BuildBegins \/ BuildReads \/ BuildLoads \/ BuildRuns \/ BuildBreaks \/ BuildStrips
  PROVE  HeldInv'
<1> USE DEF HeldInv, Building
<1>1. CASE BuildBegins
  BY <1>1 DEF BuildBegins, Begin
<1>2. CASE BuildReads \/ BuildLoads
  BY <1>2 DEF BuildReads, BuildLoads, ReadRoot, LoadSchema
<1>3. CASE BuildRuns
  BY <1>3 DEF BuildRuns, RunReturns, Unwind
<1>4. CASE BuildBreaks
  BY <1>4 DEF BuildBreaks, RunFails, RunPanics, Unwind
<1>5. CASE BuildStrips
  BY <1>5 DEF BuildStrips, StripOrigins, NoBuild, buildVars
<1> QED BY <1>1, <1>2, <1>3, <1>4, <1>5

\* Every step keeps to that.
LEMMA HeldStep == HeldInv /\ [Next]_vars => HeldInv'
<1>1. CASE UNCHANGED vars
  BY <1>1 DEF vars, buildVars, HeldInv, Building
<1> QED BY <1>1, ReadingStep, BuildStep DEF Next, Walk, Terminated

\* The mutex and the schemas, always.
LEMMA HeldInvariant == Spec => []HeldInv
  BY HeldInit, HeldStep, PTL DEF Spec

-----------------------------------------------------------------------------
(* The theorem.                                                             *)

\* Whatever was built, failed or panicked before, the next build finds the
\* mutex free and no schema but kustomize's own.
THEOREM BuildsLeaveNothing == Spec => []LeavesNothingBehind
<1>1. HeldInv => LeavesNothingBehind
  BY DEF HeldInv, LeavesNothingBehind
<1> QED BY <1>1, HeldInvariant, PTL
=============================================================================

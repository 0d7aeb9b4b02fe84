--------------------------- MODULE Fetchers_proofs ---------------------------

(***************************************************************************)
(* Theorems about Fetchers, for every value of its constants.              *)
(***************************************************************************)
EXTENDS Fetchers, WellFoundedInduction, FiniteSetTheorems, TLAPS

(* The numbers after a, up to b.                                            *)
Run(a, b) == [n \in 1 .. b - a |-> a + n]

(* A run is a sequence.                                                     *)
LEMMA RunIs ==
  ASSUME NEW a \in Nat, NEW b \in Nat, a <= b
  PROVE  /\ Run(a, b) \in Seq(Int) /\ Len(Run(a, b)) = b - a
         /\ \A n \in 1 .. b - a : Run(a, b)[n] = a + n
         /\ Run(a, b) = <<>> <=> a = b
  BY DEF Run

(* Two that meet are one.                                                   *)
LEMMA RunJoin ==
  ASSUME NEW a \in Nat, NEW b \in Nat, NEW c \in Nat, a <= b, b <= c
  PROVE  Run(a, b) \o Run(b, c) = Run(a, c)
  BY DEF Run

(* One is divided anywhere.                                                 *)
LEMMA RunSplit ==
  ASSUME NEW a \in Nat, NEW b \in Nat, a <= b, NEW n \in 0 .. b - a
  PROVE  /\ SubSeq(Run(a, b), 1, n) = Run(a, a + n)
         /\ SubSeq(Run(a, b), n + 1, Len(Run(a, b))) = Run(a + n, b)
  BY DEF Run

(* How many numbers there are after a, up to b.                             *)
LEMMA CountOfInterval ==
  ASSUME NEW a \in Nat, NEW b \in Nat, a <= b
  PROVE  IsFiniteSet(a + 1 .. b) /\ Cardinality(a + 1 .. b) = b - a
<1>1. a + 1 \in Int /\ b \in Int /\ (a + 1 > b <=> a = b) /\ b - (a + 1) + 1 = b - a /\ b - b = 0
  OBVIOUS
<1> QED
  BY <1>1, FS_Interval, Zenon

(* The rank of one of them.                                                 *)
LEMMA RankInInterval ==
  ASSUME NEW a \in Nat, NEW b \in Nat, NEW i \in a + 1 .. b
  PROVE  Cardinality({j \in a + 1 .. b : j <= i}) = i - a
<1>1. {j \in a + 1 .. b : j <= i} = a + 1 .. i /\ i \in Nat /\ a <= i
  OBVIOUS
<1> QED
  BY <1>1, CountOfInterval

(* The first n of them.                                                     *)
LEMMA FirstOfInterval ==
  ASSUME NEW a \in Nat, NEW b \in Nat, a <= b, NEW n \in Nat
  PROVE  \E h \in Nat : /\ FirstOf(a + 1 .. b, n) = a + 1 .. h
                        /\ a <= h /\ h <= b /\ h = IF a + n <= b THEN a + n ELSE b
<1> DEFINE h == IF a + n <= b THEN a + n ELSE b
<1>1. h \in Nat /\ a <= h /\ h <= b
  OBVIOUS
<1>2. ASSUME NEW i \in a + 1 .. b
      PROVE  Cardinality({j \in a + 1 .. b : j <= i}) <= n <=> i <= h
  <2>1. Cardinality({j \in a + 1 .. b : j <= i}) = i - a
    BY RankInInterval
  <2> QED
    BY <2>1
<1>3. FirstOf(a + 1 .. b, n) = a + 1 .. h
  <2>1. FirstOf(a + 1 .. b, n) = {i \in a + 1 .. b : i <= h}
    <3> HIDE DEF h
    <3> QED
      BY <1>2 DEF FirstOf
  <2> QED
    BY <1>1, <2>1
<1> QED
  BY <1>1, <1>3

(* Consecutive items in order are a run.                                    *)
LEMMA RunOfInterval ==
  ASSUME NEW a \in Nat, NEW b \in Nat, a <= b
  PROVE  InOrder(a + 1 .. b) = Run(a, b)
<1> DEFINE S == a + 1 .. b
<1>1. Cardinality(S) = b - a
  BY CountOfInterval
<1>2. \A i \in S : Cardinality({j \in S : j <= i}) = i - a
  BY RankInInterval
<1>3. ASSUME NEW n \in 1 .. b - a
      PROVE  (CHOOSE i \in S : Cardinality({j \in S : j <= i}) = n) = a + n
  <2>1. a + n \in S
    OBVIOUS
  <2>2. \A i \in S : Cardinality({j \in S : j <= i}) = n <=> i = a + n
    BY <1>2
  <2> QED
    BY <2>1, <2>2
<1> QED
  BY <1>1, <1>3 DEF InOrder, Run

-----------------------------------------------------------------------------

(* Induction over the natural numbers, from their well-foundedness.         *)
LessThan == OpToRel(<, Nat)

(* A set of natural numbers that is not empty has a least one.              *)
LEMMA LeastNat ==
  ASSUME NEW T, T \subseteq Nat, T # {}
  PROVE  \E n \in T : \A m \in T : n <= m
<1>1. IsWellFoundedOn(LessThan, Nat)
  BY NatLessThanWellFounded DEF LessThan
<1>2. \A x, y \in Nat : x < y => <<x, y>> \in LessThan
  BY DEF LessThan, OpToRel
<1>3. PICK x \in T : \A y \in T : ~(<<y, x>> \in LessThan)
  BY <1>1, WFMin
<1>4. ASSUME NEW m \in T
      PROVE  x <= m
  <2>1. x \in Nat /\ m \in Nat
    OBVIOUS
  <2>2. ~(m < x)
    BY <1>2, <1>3, <2>1
  <2> QED
    BY <2>1, <2>2
<1> QED
  BY <1>4

(* Induction, with the set of the numbers a fact holds of.                  *)
LEMMA NatInduct ==
  ASSUME NEW S, 0 \in S, \A n \in Nat : n \in S => n + 1 \in S
  PROVE  \A n \in Nat : n \in S
<1> SUFFICES ASSUME {n \in Nat : n \notin S} # {} PROVE FALSE
  OBVIOUS
<1>1. PICK n \in {n \in Nat : n \notin S} : \A m \in {k \in Nat : k \notin S} : n <= m
  BY LeastNat
<1>2. n # 0
  BY <1>1
<1>3. n - 1 \in Nat /\ n - 1 \in S
  BY <1>1, <1>2
<1> QED
  BY <1>1, <1>3

(* Min is the least of them.                                                *)
LEMMA MinIs ==
  ASSUME NEW T, T \subseteq Nat, T # {}
  PROVE  Min(T) \in T /\ \A m \in T : Min(T) <= m
<1>1. \E n \in T : \A m \in T : n <= m
  BY LeastNat
<1> QED
  BY <1>1 DEF Min

(* Max is the greatest of a set of natural numbers with an upper bound.     *)
LEMMA MaxIs ==
  ASSUME NEW T, T \subseteq Nat, T # {}, NEW u \in Nat, \A m \in T : m <= u
  PROVE  Max(T) \in T /\ \A m \in T : m <= Max(T)
<1> DEFINE D == {u - m : m \in T}
<1>0. \A m \in T : u - m \in Nat
  OBVIOUS
<1>1. D \subseteq Nat /\ D # {}
  BY <1>0
<1>2. PICK d \in D : \A e \in D : d <= e
  BY <1>1, LeastNat
<1>3. PICK n \in T : d = u - n
  BY <1>2
<1>4. ASSUME NEW m \in T PROVE m <= n
  <2>1. u - m \in D /\ d <= u - m
    BY <1>2
  <2> QED
    BY <1>3, <2>1
<1> QED
  BY <1>3, <1>4 DEF Max

-----------------------------------------------------------------------------

(* A chain is a sequence c of the levels of its items, in order.            *)
Sorted(c) == \A i, j \in 1 .. Len(c) : i <= j => c[i] <= c[j]

(* The last item up to level l.                                             *)
IsCut(c, l, n) == \A i \in 1 .. Len(c) : c[i] <= l <=> i <= n
Cut(c, l) == CHOOSE n \in 0 .. Len(c) : IsCut(c, l, n)

(* No level goes on after item e.                                           *)
Ends(c, e) == \A i, j \in 1 .. Len(c) : i <= e /\ e < j => c[i] < c[j]

(* There is one for every level.                                            *)
LEMMA CutIs ==
  ASSUME NEW c \in Seq(Int), Sorted(c), NEW l \in Int
  PROVE  Cut(c, l) \in 0 .. Len(c) /\ IsCut(c, l, Cut(c, l)) /\ Ends(c, Cut(c, l))
<1> DEFINE T == {i \in 1 .. Len(c) : c[i] > l}
<1>0. Len(c) \in Nat /\ \A i \in 1 .. Len(c) : c[i] \in Int
  OBVIOUS
<1>1. \E n \in 0 .. Len(c) : IsCut(c, l, n)
  <2>1. CASE T = {}
    <3>1. IsCut(c, l, Len(c))
      BY <2>1, <1>0 DEF IsCut
    <3>2. Len(c) \in 0 .. Len(c)
      BY <1>0
    <3> QED
      BY <3>1, <3>2
  <2>2. CASE T # {}
    <3>0. T \subseteq Nat
      BY <1>0
    <3>1. PICK m \in T : \A i \in T : m <= i
      <4> HIDE DEF T
      <4> QED
        BY <2>2, <3>0, LeastNat
    <3>2. IsCut(c, l, m - 1)
      BY <3>1, <1>0 DEF IsCut, Sorted
    <3>3. m - 1 \in 0 .. Len(c)
      BY <3>1, <1>0
    <3> QED
      BY <3>2, <3>3
  <2> QED
    BY <2>1, <2>2
<1>2. Cut(c, l) \in 0 .. Len(c) /\ IsCut(c, l, Cut(c, l))
  BY <1>1 DEF Cut
<1>3. Ends(c, Cut(c, l))
  BY <1>0, <1>2 DEF IsCut, Ends
<1> QED
  BY <1>2, <1>3

(* There is no other.                                                       *)
LEMMA CutUnique ==
  ASSUME NEW c \in Seq(Int), NEW l \in Int, NEW n \in 0 .. Len(c), IsCut(c, l, n)
  PROVE  Cut(c, l) = n
<1>1. Cut(c, l) \in 0 .. Len(c) /\ IsCut(c, l, Cut(c, l))
  BY DEF Cut
<1> DEFINE m == Cut(c, l)
<1> HIDE DEF m
<1>2. m \in 0 .. Len(c) /\ IsCut(c, l, m)
  BY <1>1 DEF m
<1>3. m <= n
  BY <1>2 DEF IsCut
<1>4. n <= m
  BY <1>2 DEF IsCut
<1> QED
  BY <1>2, <1>3, <1>4 DEF m

(* A higher level is no earlier.                                            *)
LEMMA CutMonotone ==
  ASSUME NEW c \in Seq(Int), Sorted(c), NEW l \in Int, NEW m \in Int, l <= m
  PROVE  Cut(c, l) <= Cut(c, m)
<1> DEFINE a == Cut(c, l)  b == Cut(c, m)
<1>1. a \in 0 .. Len(c) /\ IsCut(c, l, a) /\ b \in 0 .. Len(c) /\ IsCut(c, m, b)
  BY CutIs
<1> HIDE DEF a, b
<1>2. ASSUME b < a PROVE FALSE
  <2>1. a \in 1 .. Len(c) /\ c[a] <= l /\ ~(c[a] <= m) /\ c[a] \in Int
    BY <1>1, <1>2 DEF IsCut
  <2> QED
    BY <2>1
<1>3. a <= b
  BY <1>1, <1>2
<1> QED
  BY <1>3 DEF a, b

(* The items of the levels from .. to, in order.                            *)
LEMMA ItemsBetween ==
  ASSUME NEW c \in Seq(Int), Sorted(c), NEW from \in Int, NEW to \in Int, from <= to + 1
  PROVE  /\ {i \in 1 .. Len(c) : c[i] \in from .. to} = Cut(c, from - 1) + 1 .. Cut(c, to)
         /\ Cut(c, from - 1) <= Cut(c, to)
<1> DEFINE a == Cut(c, from - 1)  b == Cut(c, to)
<1>1. a \in 0 .. Len(c) /\ IsCut(c, from - 1, a) /\ b \in 0 .. Len(c) /\ IsCut(c, to, b)
  BY CutIs
<1>2. a <= b
  BY CutMonotone
<1> HIDE DEF a, b
<1>3. {i \in 1 .. Len(c) : c[i] \in from .. to} = a + 1 .. b
  BY <1>1 DEF IsCut
<1> QED
  BY <1>2, <1>3 DEF a, b

-----------------------------------------------------------------------------

(* Between the iterator and the index: e[j] is the last item of the j-th    *)
(* batch of the queue ra, e[0] of what the index is done with; the items    *)
(* its in front of yield_by_level follow, up to g.                          *)
QueuedAt(c, l, ra, its, g, e) ==
  /\ e[0] = Cut(c, l)
  /\ \A j \in 0 .. Len(ra) : e[j] \in 0 .. Len(c) /\ Ends(c, e[j])
  /\ \A j \in 1 .. Len(ra) :
       /\ e[j - 1] < e[j] /\ ra[j] = Run(e[j - 1], e[j])
       /\ \A i \in e[j - 1] + 1 .. e[j] : c[i] = c[e[j]]
  /\ e[Len(ra)] <= g /\ its = Run(e[Len(ra)], g)

Queued(c, l, ra, its, g) ==
  /\ g \in 0 .. Len(c) /\ ra \in Seq(Seq(Int))
  /\ \E e \in [0 .. Len(ra) -> Nat] : QueuedAt(c, l, ra, its, g, e)

(* Nothing is queued for a new fetcher.                                     *)
LEMMA QueueNew ==
  ASSUME NEW c \in Seq(Int), Sorted(c), NEW l \in Int
  PROVE  Queued(c, l, <<>>, <<>>, Cut(c, l))
<1> DEFINE g == Cut(c, l)
<1>1. g \in 0 .. Len(c) /\ Ends(c, g) /\ g \in Nat
  BY CutIs
<1>2. <<>> = Run(g, g)
  BY <1>1, RunIs
<1> DEFINE e == [j \in 0 .. 0 |-> g]
<1>3. e \in [0 .. 0 -> Nat] /\ e[0] = g
  BY <1>1
<1>4. Len(<<>>) = 0 /\ <<>> \in Seq(Seq(Int))
  OBVIOUS
<1> HIDE DEF e
<1>5. QueuedAt(c, l, <<>>, <<>>, g, e)
  BY <1>1, <1>2, <1>3, <1>4 DEF QueuedAt
<1> QED
  BY <1>1, <1>3, <1>4, <1>5 DEF Queued

(* When nothing is queued, the index is done with what has been fetched.    *)
LEMMA QueueEmpty ==
  ASSUME NEW c \in Seq(Int), NEW l \in Int, NEW g, Queued(c, l, <<>>, <<>>, g)
  PROVE  g = Cut(c, l)
<1>1. PICK e \in [0 .. Len(<<>>) -> Nat] : QueuedAt(c, l, <<>>, <<>>, g, e)
  BY DEF Queued
<1>2. Len(<<>>) = 0 /\ g \in Nat
  BY DEF Queued
<1>3. e[0] \in Nat /\ e[0] <= g /\ Run(e[0], g) = <<>> /\ e[0] = Cut(c, l)
  BY <1>1, <1>2 DEF QueuedAt
<1> QED
  BY <1>2, <1>3, RunIs

(* The iterator yields the items that follow.                               *)
LEMMA QueueReceive ==
  ASSUME NEW c \in Seq(Int), NEW l \in Int, NEW ra, NEW its, NEW g, NEW h \in 0 .. Len(c),
         Queued(c, l, ra, its, g), g <= h
  PROVE  Queued(c, l, ra, its \o Run(g, h), h)
<1>1. PICK e \in [0 .. Len(ra) -> Nat] : QueuedAt(c, l, ra, its, g, e)
  BY DEF Queued
<1>0. g \in Nat /\ h \in Nat /\ Len(ra) \in Nat
  BY DEF Queued
<1> DEFINE a == e[Len(ra)]
<1>2. a \in Nat
  BY <1>0
<1>3. a <= g /\ its = Run(a, g)
  BY <1>1 DEF QueuedAt
<1>4. a <= h /\ its \o Run(g, h) = Run(a, h)
  <2> HIDE DEF a
  <2>1. Run(a, g) \o Run(g, h) = Run(a, h)
    BY <1>0, <1>2, <1>3, RunJoin
  <2> QED
    BY <1>0, <1>2, <1>3, <2>1
<1>5. QueuedAt(c, l, ra, its \o Run(g, h), h, e)
  BY <1>1, <1>4 DEF QueuedAt
<1> QED
  BY <1>5 DEF Queued

(* What has been fetched is a sequence of items.                            *)
LEMMA QueueItems ==
  ASSUME NEW c \in Seq(Int), NEW l \in Int, NEW ra, NEW its, NEW g, Queued(c, l, ra, its, g)
  PROVE  /\ its \in Seq(Int) /\ Cut(c, l) <= g /\ Cut(c, l) \in Nat
         /\ \A k \in 1 .. Len(its) : its[k] \in 1 .. Len(c) /\ its[k] = g - Len(its) + k
<1>1. PICK e \in [0 .. Len(ra) -> Nat] : QueuedAt(c, l, ra, its, g, e)
  BY DEF Queued
<1>2. g \in 0 .. Len(c) /\ g \in Nat /\ Len(ra) \in Nat /\ Len(c) \in Nat
  BY DEF Queued
<1> DEFINE a == e[Len(ra)]
<1>3. a \in Nat /\ a <= g /\ its = Run(a, g)
  BY <1>1, <1>2 DEF QueuedAt
<1>4. its \in Seq(Int) /\ Len(its) = g - a /\ \A k \in 1 .. g - a : its[k] = a + k
  <2> HIDE DEF a
  <2> QED
    BY ZenonT(40), <1>2, <1>3, RunIs
<1>5. \A k \in 1 .. Len(its) : its[k] \in 1 .. Len(c) /\ its[k] = g - Len(its) + k
  <2> HIDE DEF a
  <2>1. Len(its) = g - a /\ Len(its) \in Nat
    BY <1>4
  <2>2. SUFFICES ASSUME NEW k \in 1 .. Len(its) PROVE its[k] \in 1 .. Len(c)
                                                       /\ its[k] = g - Len(its) + k
    OBVIOUS
  <2>3. k \in 1 .. g - a /\ its[k] = a + k
    BY <2>1, <1>4
  <2> QED
    BY <1>2, <1>3, <2>1, <2>3
<1>6. Cut(c, l) \in Nat /\ Cut(c, l) <= a
  <2> DEFINE S == {n \in Nat : n <= Len(ra) => e[0] <= e[n]}
  <2>1. \A n \in 0 .. Len(ra) : e[n] \in Nat
    BY <1>2
  <2>2. \A n \in Nat : n \in S => n + 1 \in S
    <3> SUFFICES ASSUME NEW n \in Nat, n \in S, n + 1 <= Len(ra) PROVE e[0] <= e[n + 1]
      OBVIOUS
    <3>1. n + 1 \in 1 .. Len(ra) /\ n \in 0 .. Len(ra) /\ n + 1 - 1 = n /\ n + 1 \in 0 .. Len(ra)
      BY <1>2
    <3>2. e[n] < e[n + 1]
      BY <1>1, <3>1 DEF QueuedAt
    <3> QED
      BY <1>2, <2>1, <3>1, <3>2
  <2>3. 0 \in S
    BY <1>2, <2>1
  <2>4. Len(ra) \in S
    <3> HIDE DEF S
    <3> QED
      BY <1>2, <2>2, <2>3, NatInduct
  <2>5. e[0] \in Nat /\ e[0] = Cut(c, l)
    BY <1>1, <1>2, <2>1 DEF QueuedAt
  <2> QED
    BY <1>2, <2>4, <2>5
<1> QED
  BY <1>2, <1>3, <1>4, <1>5, <1>6

(* A batch that ends with its level is queued.                              *)
LEMMA QueuePush ==
  ASSUME NEW c \in Seq(Int), Sorted(c), NEW l \in Int, NEW ra, NEW its, NEW g,
         Queued(c, l, ra, its, g), NEW n \in 1 .. Len(its),
         \A k \in 1 .. n - 1 : c[its[k]] = c[its[k + 1]],
         n < Len(its) => c[its[n]] # c[its[n + 1]],
         n = Len(its) => Ends(c, g)
  PROVE  Queued(c, l, Append(ra, SubSeq(its, 1, n)), SubSeq(its, n + 1, Len(its)), g)
<1>1. PICK e \in [0 .. Len(ra) -> Nat] : QueuedAt(c, l, ra, its, g, e)
  BY DEF Queued
<1>2. /\ g \in 0 .. Len(c) /\ g \in Nat /\ ra \in Seq(Seq(Int)) /\ Len(ra) \in Nat
      /\ Len(c) \in Nat /\ \A i \in 1 .. Len(c) : c[i] \in Int
  BY SMTT(30) DEF Queued
<1>3. PICK a : a = e[Len(ra)]
  OBVIOUS
<1>4. a \in Nat /\ a <= g /\ its = Run(a, g) /\ Ends(c, a)
  BY SMTT(30), <1>1, <1>2, <1>3 DEF QueuedAt
<1>5. Len(its) = g - a /\ \A k \in 1 .. g - a : its[k] = a + k
  <2>1. Len(Run(a, g)) = g - a /\ \A k \in 1 .. g - a : Run(a, g)[k] = a + k
    BY <1>2, <1>4, RunIs
  <2> QED
    BY <1>4, <2>1
<1>6. n \in 1 .. g - a /\ n \in Nat /\ n - 1 \in Nat /\ a + n \in 1 .. Len(c)
  BY <1>2, <1>4, <1>5
<1>7. \A i \in a + 1 .. a + n : c[i] = c[a + n]
  <2> DEFINE S == {m \in Nat : m < n => c[a + n - m] = c[a + n]}
  <2>1. 0 \in S
    BY <1>4, <1>6
  <2>2. ASSUME NEW m \in Nat, m \in S PROVE m + 1 \in S
    <3> SUFFICES ASSUME m + 1 < n PROVE c[a + n - (m + 1)] = c[a + n]
      OBVIOUS
    <3>1. n - (m + 1) \in 1 .. n - 1 /\ n - (m + 1) \in 1 .. g - a /\ n - (m + 1) + 1 \in 1 .. g - a
      BY <1>2, <1>4, <1>6
    <3>2. /\ its[n - (m + 1)] = a + n - (m + 1)
          /\ its[n - (m + 1) + 1] = a + n - m
      BY <1>4, <1>5, <1>6, <3>1
    <3>3. c[its[n - (m + 1)]] = c[its[n - (m + 1) + 1]]
      BY <3>1
    <3>4. c[a + n - m] = c[a + n]
      BY <2>2, <1>6
    <3> QED
      BY <3>2, <3>3, <3>4
  <2>3. \A m \in Nat : m \in S
    <3> HIDE DEF S
    <3> QED
      BY <2>1, <2>2, NatInduct
  <2>4. ASSUME NEW i \in a + 1 .. a + n PROVE c[i] = c[a + n]
    <3>1. a + n - i \in Nat /\ a + n - i < n /\ a + n - (a + n - i) = i
      BY <1>4, <1>6
    <3> QED
      BY <2>3, <3>1
  <2> QED
    BY <2>4
<1>8. Ends(c, a + n)
  <2>1. CASE n = Len(its)
    <3>1. a + n = g
      BY <1>2, <1>4, <1>5, <1>6, <2>1
    <3> QED
      BY <2>1, <3>1
  <2>2. CASE n < Len(its)
    <3>1. /\ a + n + 1 \in 1 .. Len(c) /\ n + 1 \in 1 .. g - a
          /\ its[n] = a + n /\ its[n + 1] = a + n + 1
      BY <1>2, <1>4, <1>5, <1>6, <2>2
    <3>2. c[a + n] < c[a + n + 1]
      <4>1. c[a + n] # c[a + n + 1] /\ c[a + n] <= c[a + n + 1]
        BY <1>4, <1>6, <2>2, <3>1 DEF Sorted
      <4>2. c[a + n] \in Int /\ c[a + n + 1] \in Int
        BY <1>2, <1>6, <3>1
      <4> QED
        BY <4>1, <4>2
    <3>3. ASSUME NEW i \in 1 .. Len(c), NEW j \in 1 .. Len(c), i <= a + n, a + n < j
          PROVE  c[i] < c[j]
      <4>1. c[i] <= c[a + n] /\ c[a + n + 1] <= c[j]
        BY <1>4, <1>6, <3>1, <3>3 DEF Sorted
      <4>2. c[i] \in Int /\ c[a + n] \in Int /\ c[a + n + 1] \in Int /\ c[j] \in Int
        BY <1>2, <1>6, <3>1
      <4>3. PICK x, y : x = c[a + n] /\ y = c[a + n + 1]
        OBVIOUS
      <4>4. x \in Int /\ y \in Int /\ x < y /\ c[i] <= x /\ y <= c[j]
        BY <3>2, <4>1, <4>2, <4>3
      <4> QED
        BY SMTT(30), <4>2, <4>4
    <3> QED
      BY <3>3 DEF Ends
  <2> QED
    BY <1>4, <1>5, <1>6, <2>1, <2>2
<1>9. PICK ra2 : ra2 = Append(ra, SubSeq(its, 1, n))
  OBVIOUS
<1>10. /\ SubSeq(its, 1, n) = Run(a, a + n) /\ SubSeq(its, n + 1, Len(its)) = Run(a + n, g)
  <2>1. n \in 0 .. g - a
    BY <1>6
  <2> QED
    BY <1>2, <1>4, <2>1, RunSplit
<1>11. /\ ra2 \in Seq(Seq(Int)) /\ Len(ra2) = Len(ra) + 1 /\ ra2[Len(ra) + 1] = Run(a, a + n)
       /\ \A j \in 1 .. Len(ra) : ra2[j] = ra[j]
  <2>1. Run(a, a + n) \in Seq(Int)
    BY <1>4, <1>6, RunIs
  <2>2. PICK s : s = Run(a, a + n)
    OBVIOUS
  <2>3. ra2 = Append(ra, s) /\ s \in Seq(Int)
    BY <1>9, <1>10, <2>1, <2>2
  <2> QED
    BY <1>2, <2>2, <2>3
<1>12. PICK f : f = [j \in 0 .. Len(ra) + 1 |-> IF j <= Len(ra) THEN e[j] ELSE a + n]
  OBVIOUS
<1>13. /\ f \in [0 .. Len(ra2) -> Nat] /\ f[Len(ra) + 1] = a + n
       /\ \A j \in 0 .. Len(ra) : f[j] = e[j]
  <2>1. \A j \in 0 .. Len(ra) : e[j] \in Nat
    BY <1>2
  <2>2. \A j \in 0 .. Len(ra) + 1 : f[j] \in Nat
    BY <1>2, <1>4, <1>6, <1>12, <2>1
  <2>3. f \in [0 .. Len(ra) + 1 -> Nat]
    BY <1>12, <2>2
  <2>4. f[Len(ra) + 1] = a + n
    BY <1>2, <1>12
  <2>5. \A j \in 0 .. Len(ra) : f[j] = e[j]
    BY <1>2, <1>12
  <2> QED
    BY <1>11, <2>3, <2>4, <2>5
<1>14. QueuedAt(c, l, ra2, Run(a + n, g), g, f)
  <2>1. f[0] = Cut(c, l)
    BY <1>1, <1>2, <1>13 DEF QueuedAt
  <2>2. ASSUME NEW j \in 0 .. Len(ra2) PROVE f[j] \in 0 .. Len(c) /\ Ends(c, f[j])
    <3>1. CASE j = Len(ra) + 1
      BY <1>6, <1>8, <1>13, <3>1
    <3>2. CASE j \in 0 .. Len(ra)
      BY <1>1, <1>13, <3>2 DEF QueuedAt
    <3> QED
      BY <1>2, <1>11, <3>1, <3>2
  <2>3. ASSUME NEW j \in 1 .. Len(ra2)
        PROVE  /\ f[j - 1] < f[j] /\ ra2[j] = Run(f[j - 1], f[j])
               /\ \A i \in f[j - 1] + 1 .. f[j] : c[i] = c[f[j]]
    <3>1. CASE j = Len(ra) + 1
      <4>1. f[j] = a + n /\ f[j - 1] = a /\ ra2[j] = Run(a, a + n)
        BY <1>2, <1>3, <1>11, <1>13, <3>1
      <4> QED
        BY <1>4, <1>6, <1>7, <4>1
    <3>2. CASE j \in 1 .. Len(ra)
      <4>0. j \in 0 .. Len(ra) /\ j - 1 \in 0 .. Len(ra)
        BY <1>2, <3>2
      <4>1. f[j] = e[j] /\ f[j - 1] = e[j - 1] /\ ra2[j] = ra[j]
        BY <1>11, <1>13, <3>2, <4>0
      <4> QED
        BY <1>1, <3>2, <4>1 DEF QueuedAt
    <3> QED
      BY <1>2, <1>11, <3>1, <3>2
  <2>4. f[Len(ra2)] <= g /\ Run(a + n, g) = Run(f[Len(ra2)], g)
    BY <1>2, <1>4, <1>6, <1>11, <1>13
  <2> QED
    BY <2>1, <2>2, <2>3, <2>4 DEF QueuedAt
<1> QED
  BY <1>2, <1>9, <1>10, <1>11, <1>13, <1>14 DEF Queued

(* The index takes the first batch: the items of the next level there are.  *)
LEMMA QueuePop ==
  ASSUME NEW c \in Seq(Int), Sorted(c), NEW l \in Int, NEW ra, NEW its, NEW g,
         Queued(c, l, ra, its, g), ra # <<>>
  PROVE  \E b \in 1 .. Len(c) :
           /\ Cut(c, l) \in Nat /\ Cut(c, l) < b /\ b <= g
           /\ Head(ra) = Run(Cut(c, l), b)
           /\ l < c[b] /\ Cut(c, c[b]) = b
           /\ {i \in 1 .. Len(c) : c[i] = c[b]} = Cut(c, l) + 1 .. b
           /\ Queued(c, c[b], Tail(ra), its, g)
<1>1. PICK e \in [0 .. Len(ra) -> Nat] : QueuedAt(c, l, ra, its, g, e)
  BY DEF Queued
<1>2. /\ g \in 0 .. Len(c) /\ g \in Nat /\ ra \in Seq(Seq(Int)) /\ Len(ra) \in Nat /\ Len(ra) > 0
      /\ Len(c) \in Nat /\ \A i \in 1 .. Len(c) : c[i] \in Int
  BY DEF Queued
<1>3. PICK a, b : a = e[0] /\ b = e[1]
  OBVIOUS
<1>4. /\ a \in Nat /\ a < b /\ b \in 1 .. Len(c) /\ a = Cut(c, l) /\ Ends(c, a) /\ Ends(c, b)
      /\ ra[1] = Run(a, b) /\ \A i \in a + 1 .. b : c[i] = c[b]
  <2>1. 0 \in 0 .. Len(ra) /\ 1 \in 0 .. Len(ra) /\ 1 \in 1 .. Len(ra) /\ 1 - 1 = 0
    BY <1>2
  <2>2. e[1 - 1] < e[1] /\ ra[1] = Run(e[1 - 1], e[1])
        /\ \A i \in e[1 - 1] + 1 .. e[1] : c[i] = c[e[1]]
    BY <1>1, <2>1 DEF QueuedAt
  <2>3. e[0] = Cut(c, l) /\ Ends(c, e[0]) /\ Ends(c, e[1]) /\ e[0] \in 0 .. Len(c)
        /\ e[1] \in 0 .. Len(c)
    BY <1>1, <2>1 DEF QueuedAt
  <2> QED
    BY <1>2, <1>3, <2>1, <2>2, <2>3
<1>5. IsCut(c, l, a)
  BY <1>4, CutIs
<1>6. l < c[b] /\ c[b] \in Int
  BY <1>2, <1>4, <1>5 DEF IsCut
<1>7. Cut(c, c[b]) = b
  <2>1. ASSUME NEW i \in 1 .. Len(c) PROVE c[i] <= c[b] <=> i <= b
    BY SMTT(30), <1>2, <1>4 DEF Ends, Sorted
  <2>2. IsCut(c, c[b], b) /\ b \in 0 .. Len(c)
    BY <1>2, <1>4, <2>1 DEF IsCut
  <2> QED
    BY <1>6, <2>2, CutUnique
<1>8. {i \in 1 .. Len(c) : c[i] = c[b]} = a + 1 .. b
  <2>1. ASSUME NEW i \in 1 .. Len(c) PROVE c[i] = c[b] <=> i \in a + 1 .. b
    <3>1. c[i] \in Int /\ c[b] \in Int /\ i \in Nat /\ b \in Nat
      BY <1>2, <1>4
    <3>2. i <= a => c[i] < c[b]
      BY <1>4 DEF Ends
    <3>3. b < i => c[b] < c[i]
      BY <1>4, <3>1 DEF Ends
    <3> QED
      BY <1>4, <3>1, <3>2, <3>3
  <2>2. \A i \in a + 1 .. b : i \in 1 .. Len(c)
    BY <1>2, <1>4
  <2> QED
    BY <2>1, <2>2
<1>9. PICK rb : rb = Tail(ra)
  OBVIOUS
<1>10. /\ rb \in Seq(Seq(Int)) /\ Len(rb) = Len(ra) - 1 /\ Head(ra) = ra[1]
       /\ \A j \in 1 .. Len(ra) - 1 : rb[j] = ra[j + 1]
  BY <1>2, <1>9
<1>11. PICK f : f = [j \in 0 .. Len(ra) - 1 |-> e[j + 1]]
  OBVIOUS
<1>12. f \in [0 .. Len(rb) -> Nat] /\ \A j \in 0 .. Len(ra) - 1 : f[j] = e[j + 1]
  BY <1>2, <1>10, <1>11
<1>13. QueuedAt(c, c[b], rb, its, g, f)
  <2>1. f[0] = Cut(c, c[b])
    BY <1>2, <1>3, <1>7, <1>12
  <2>2. ASSUME NEW j \in 0 .. Len(rb) PROVE f[j] \in 0 .. Len(c) /\ Ends(c, f[j])
    <3>1. f[j] = e[j + 1] /\ j + 1 \in 0 .. Len(ra)
      BY <1>2, <1>10, <1>12
    <3> QED
      BY <1>1, <3>1 DEF QueuedAt
  <2>3. ASSUME NEW j \in 1 .. Len(rb)
        PROVE  /\ f[j - 1] < f[j] /\ rb[j] = Run(f[j - 1], f[j])
               /\ \A i \in f[j - 1] + 1 .. f[j] : c[i] = c[f[j]]
    <3>1. PICK k : k = j + 1
      OBVIOUS
    <3>2. f[j] = e[k] /\ f[j - 1] = e[k - 1] /\ k \in 1 .. Len(ra) /\ rb[j] = ra[k]
      <4>1. j \in 0 .. Len(ra) - 1 /\ j - 1 \in 0 .. Len(ra) - 1 /\ j \in 1 .. Len(ra) - 1
        BY <1>2, <1>10
      <4>2. k \in 1 .. Len(ra) /\ j - 1 + 1 = k - 1
        BY <1>2, <3>1, <4>1
      <4> QED
        BY <1>10, <1>12, <3>1, <4>1, <4>2
    <3>3. e[k - 1] < e[k] /\ ra[k] = Run(e[k - 1], e[k])
          /\ \A i \in e[k - 1] + 1 .. e[k] : c[i] = c[e[k]]
      BY <1>1, <3>2 DEF QueuedAt
    <3> QED
      BY <3>2, <3>3
  <2>4. f[Len(rb)] = e[Len(ra)]
    BY <1>2, <1>10, <1>12
  <2>5. e[Len(ra)] <= g /\ its = Run(e[Len(ra)], g)
    BY <1>1 DEF QueuedAt
  <2> QED
    BY <2>1, <2>2, <2>3, <2>4, <2>5 DEF QueuedAt
<1>14. Queued(c, c[b], Tail(ra), its, g)
  BY <1>2, <1>9, <1>10, <1>12, <1>13 DEF Queued
<1>15. b <= g
  BY <1>6, <1>7, <1>14, QueueItems
<1> QED
  BY <1>4, <1>6, <1>7, <1>8, <1>10, <1>14, <1>15

-----------------------------------------------------------------------------

(* The invariant.                                                           *)

(* What Init chooses and nothing changes.                                   *)
ChainInv ==
  /\ kind \in Kinds /\ content \in Seq(Levels) /\ Sorted(content)
  /\ routes \in [Items -> (SUBSET Channels) \ {{}}]
  /\ kind = "events" => Len(content) < PageSize
  /\ kind \in MergedKinds => LevelsFitPages
  /\ kind = "starknet" => Len(content) < 9

IndexInv ==
  /\ status \in {"idle", "syncing", "failed"} /\ level \in 0 .. MaxLevel
  /\ failure = "assertion" => "unordered_block" \in Hazards
  /\ task \in {"running", "waiting", "done", "failed"} /\ exhausted \in BOOLEAN
  /\ source \in {"node", "subsquid"} /\ reach \in Nat

(* How far each iterator is when it has yielded the items up to g.          *)
PagesAt(g) ==
  LET start == Cut(content, first - 1) IN
  /\ kind = "token_transfers" => \/ offset = 0 /\ g = start
                                 \/ offset = Id(g) /\ g > start
  /\ kind = "big_maps" => offset \in Nat /\ g = start + offset
  /\ kind = "events" => offset = 0 /\ g = start

BlocksAt(g) ==
  /\ position \in first .. target /\ g = Cut(content, position - 1)
  /\ source = "node" => target <= reach

(* The levels on their way through the pipeline are consecutive: the queue  *)
(* before stage s has those after low[s] up to top[s], the batch of s those *)
(* that follow down to the top of the next queue.                           *)
PipedAt(g, top, low) ==
  /\ top[1] = target /\ first - 1 <= low[4] /\ g = Cut(content, low[4])
  /\ \A s \in 1 .. 4 : low[s] <= top[s] /\ queues[s] = Run(low[s], top[s])
  /\ \A s \in Stages : top[s + 1] <= low[s] /\ batch[s] = Run(top[s + 1], low[s])

PipelineAt(g) ==
  /\ queues \in [1 .. 4 -> Seq(Int)] /\ batch \in [Stages -> Seq(Int)]
  /\ loop \in [Stages -> {"collecting", "asking", "last", "done"}]
  /\ \A s \in Stages : /\ loop[s] = "done" => batch[s] = <<>>
                       /\ loop[s] = "collecting" => Len(batch[s]) < PageSize
  /\ \E top, low \in [1 .. 4 -> Nat] : PipedAt(g, top, low)

(* Channel c has returned item i; every channel is past it.                 *)
Received(c, i) == i <= offsets[c] \/ heads[c] = target
Complete(i) == \A c \in Channels : content[i] <= heads[c] /\ (c \in routes[i] => Received(c, i))

ChannelsAt(g) ==
  /\ heads \in [Channels -> 0 .. target] /\ offsets \in [Channels -> Nat]
  /\ \E c \in Channels : heads[c] < target
  /\ mergedHead \in Nat /\ \A c \in Channels : mergedHead <= heads[c]
  /\ \A c \in Channels : \A i \in Returns(c) :
       content[i] <= heads[c] =>
         \/ Received(c, i)
         \/ kind = "starknet" /\ content[i] = heads[c] /\ ~Shared(content[i])
  /\ \A i \in Items : i <= g <=> content[i] < first \/ (InRange(i) /\ Complete(i))
  /\ buffer = {i \in Items : InRange(i) /\ g < i /\ \E c \in routes[i] : Received(c, i)}

ByChannels == kind = "operations" \/ (kind = "starknet" /\ source = "node")
ByPipeline == kind = "substrate" /\ source = "node"

IteratorAt(g) ==
  /\ kind \in PagedKinds => PagesAt(g)
  /\ kind \in SubsquidKinds /\ ~ByChannels /\ ~ByPipeline => BlocksAt(g)
  /\ ByPipeline => PipelineAt(g)
  /\ ByChannels => ChannelsAt(g)

SyncAt(g) ==
  /\ Queued(content, level, readahead, items, g)
  /\ first \in 1 .. level + 1 /\ target \in level .. MaxLevel
  /\ g <= Cut(content, target)
  /\ exhausted /\ task # "failed" => g = Cut(content, target)
  /\ task = "done" => exhausted /\ items = <<>>
  /\ ~exhausted /\ task # "failed" => first <= target /\ IteratorAt(g)

Inv == ChainInv /\ IndexInv /\ (status = "syncing" => \E g \in Nat : SyncAt(g))

(* A sequence is one over more elements.                                    *)
LEMMA SeqWider ==
  ASSUME NEW S, NEW T, S \subseteq T, NEW s \in Seq(S)
  PROVE  s \in Seq(T) /\ Len(s) \in Nat /\ DOMAIN s = 1 .. Len(s)
         /\ \A i \in 1 .. Len(s) : s[i] \in S
  OBVIOUS

(* The chain is a sequence of levels in order, and stays it.                *)
LEMMA ChainIs ==
  ASSUME ChainInv
  PROVE  /\ content \in Seq(Int) /\ Sorted(content) /\ Items = 1 .. Len(content)
         /\ Len(content) \in Nat /\ \A i \in Items : content[i] \in Levels /\ content[i] \in Int
<1>1. content \in Seq(Levels) /\ Sorted(content)
  BY DEF ChainInv
<1>2. Levels \subseteq Int
  BY DEF Levels
<1>3. content \in Seq(Int) /\ Items = 1 .. Len(content) /\ Len(content) \in Nat
  BY <1>1, <1>2, SeqWider DEF Items
<1>4. \A i \in Items : content[i] \in Levels
  BY <1>1, <1>3, SeqWider
<1> QED
  BY <1>1, <1>2, <1>3, <1>4

(* Nothing changes it.                                                      *)
LEMMA ChainKept ==
  ASSUME ChainInv, UNCHANGED chainVars
  PROVE  ChainInv' /\ content' = content /\ kind' = kind /\ routes' = routes /\ Items' = Items
<1>1. kind' = kind /\ content' = content /\ routes' = routes /\ Items' = Items
  BY DEF chainVars, Items
<1>2. LevelsFitPages' <=> LevelsFitPages
  BY <1>1 DEF LevelsFitPages
<1> QED
  BY <1>1, <1>2 DEF ChainInv

(* Cuts of the chain at levels that matter here.                            *)
LEMMA Cuts ==
  ASSUME ChainInv, NEW l \in Int
  PROVE  /\ Cut(content, l) \in 0 .. Len(content) /\ Cut(content, l) \in Nat
         /\ IsCut(content, l, Cut(content, l)) /\ Ends(content, Cut(content, l))
         /\ \A m \in Int : l <= m => Cut(content, l) <= Cut(content, m)
<1>1. content \in Seq(Int) /\ Sorted(content) /\ Len(content) \in Nat
  BY ChainIs
<1>2. Cut(content, l) \in 0 .. Len(content) /\ IsCut(content, l, Cut(content, l))
      /\ Ends(content, Cut(content, l))
  BY <1>1, CutIs
<1>3. \A m \in Int : l <= m => Cut(content, l) <= Cut(content, m)
  BY <1>1, CutMonotone
<1> QED
  BY <1>1, <1>2, <1>3

(* The iterator yields the items after g up to h.                           *)
LEMMA Receives ==
  ASSUME ChainInv, IndexInv, NEW g \in Nat, SyncAt(g), Wanted, NEW h \in Nat, g <= h,
         h <= Cut(content, target), NEW ended \in BOOLEAN,
         Receive(Run(g, h), ended), Answered,
         ended => h = Cut(content, target), ~ended => IteratorAt(h)'
  PROVE  SyncAt(h)'
<1>1. /\ content' = content /\ level' = level /\ first' = first /\ target' = target
      /\ readahead' = readahead /\ task' = task /\ items' = items \o Run(g, h)
      /\ exhausted' = ended
  BY DEF Receive, Answered, chainVars
<1>2. Queued(content, level, readahead, items, g) /\ target \in Int /\ level \in Int
  BY DEF SyncAt, IndexInv
<1>3. content \in Seq(Int) /\ Cut(content, target) \in 0 .. Len(content) /\ h \in 0 .. Len(content)
  <2>1. Cut(content, target) \in 0 .. Len(content) /\ Len(content) \in Nat /\ content \in Seq(Int)
    BY <1>2, Cuts, ChainIs
  <2> QED
    BY <2>1
<1>4. Queued(content, level, readahead, items \o Run(g, h), h)
  BY <1>2, <1>3, QueueReceive
<1>5. task = "running" /\ ~exhausted
  BY DEF Wanted
<1>6. /\ first \in 1 .. level + 1 /\ target \in level .. MaxLevel /\ first <= target
  BY <1>5 DEF SyncAt
<1> QED
  BY <1>1, <1>4, <1>5, <1>6 DEF SyncAt

(* A fetcher is created for the levels after the index's.                   *)
LEMMA Starts ==
  ASSUME FetcherAssumption, ChainInv, IndexInv, NEW to \in level .. MaxLevel, StartFetcher(to),
         exhausted' \in BOOLEAN, exhausted' => to = level,
         \A g \in Nat : g = Cut(content, level) /\ ~exhausted' => level < to /\ IteratorAt(g)'
  PROVE  \E g \in Nat : SyncAt(g)'
<1>1. PICK g : g = Cut(content, level)
  OBVIOUS
<1>2. /\ content' = content /\ level' = level /\ first' = level + 1 /\ target' = to
      /\ readahead' = <<>> /\ items' = <<>> /\ task' = "running"
  BY DEF StartFetcher, chainVars
<1>3. content \in Seq(Int) /\ Sorted(content) /\ level \in Int /\ to \in Int /\ level <= to
      /\ level \in Nat
  BY ChainIs DEF IndexInv
<1>4. g \in Nat /\ g <= Cut(content, to)
  BY <1>1, <1>3, Cuts
<1>5. Queued(content, level, <<>>, <<>>, g)
  BY <1>1, <1>3, QueueNew
<1>6. level + 1 \in 1 .. level + 1 /\ to \in level .. MaxLevel
  BY <1>3
<1>7. exhausted' => g = Cut(content, to)
  BY <1>1
<1>8. ~exhausted' => level + 1 <= to /\ IteratorAt(g)'
  BY <1>1, <1>3, <1>4
<1>9. SyncAt(g)'
  BY <1>2, <1>4, <1>5, <1>6, <1>7, <1>8 DEF SyncAt
<1> QED
  BY <1>4, <1>9

(* The iterator raises.                                                     *)
LEMMA Raises ==
  ASSUME NEW g \in Nat, SyncAt(g), NEW why, Wanted, Raise(why),
         UNCHANGED <<content, level, first, target>>
  PROVE  SyncAt(g)'
  BY DEF Raise, SyncAt

-----------------------------------------------------------------------------

(* Pages.                                                                   *)

(* A page is of the items that follow, and not full if they are the last.   *)
LEMMA PageIs ==
  ASSUME FetcherAssumption, ChainInv, NEW g \in Nat, SyncAt(g), Wanted, kind \in PagedKinds
  PROVE  \E h \in Nat : /\ Page = g + 1 .. h /\ g <= h /\ h <= Cut(content, target)
                        /\ Cardinality(Page) = h - g /\ h - g <= PageSize
                        /\ h - g < PageSize => h = Cut(content, target)
<1> DEFINE a == Cut(content, first - 1)  z == Cut(content, target)
<1>1. /\ PagesAt(g) /\ first \in 1 .. level + 1 /\ target \in level .. MaxLevel /\ first <= target
      /\ first \in Int /\ target \in Int /\ first - 1 <= target /\ g <= z
  BY DEF SyncAt, IteratorAt, Wanted
<1>2. a \in Nat /\ z \in Nat /\ a <= z
  <2>1. first - 1 \in Int
    BY <1>1
  <2> QED
    BY <1>1, <2>1, Cuts
<1>3. {i \in Items : InRange(i)} = a + 1 .. z
  <2>1. content \in Seq(Int) /\ Sorted(content) /\ Items = 1 .. Len(content) /\ first <= target + 1
    BY <1>1, ChainIs
  <2>2. {i \in 1 .. Len(content) : content[i] \in first .. target} = a + 1 .. z
    BY <1>1, <2>1, ItemsBetween
  <2> QED
    BY <2>1, <2>2 DEF InRange
<1> HIDE DEF a, z
<1>4. a <= g
  <2>1. a = Cut(content, first - 1)
    BY DEF a
  <2> QED
    BY <1>1, <1>2, <2>1 DEF PagesAt, PagedKinds
<1>5. Page = FirstOf(g + 1 .. z, PageSize)
  <2>1. CASE CursorGetter
    <3>1. {i \in a + 1 .. z : offset = 0 \/ Id(i) > offset} = g + 1 .. z
      <4>1. a = Cut(content, first - 1)
        BY DEF a
      <4>2. CASE offset = 0 /\ g = a
        BY <4>2
      <4>3. CASE offset = Id(g)
        BY <1>2, <1>4, <4>3 DEF Id, FirstId
      <4> QED
        BY <1>1, <2>1, <4>1, <4>2, <4>3 DEF PagesAt, CursorGetter
    <3> QED
      BY <1>3, <2>1, <3>1 DEF Page
  <2>2. CASE ~CursorGetter
    <3>1. offset \in Nat /\ g = a + offset
      <4>1. a = Cut(content, first - 1)
        BY DEF a
      <4> QED
        BY <1>1, <2>2, <4>1 DEF PagesAt, CursorGetter, PagedKinds
    <3>2. PICK h \in Nat : /\ FirstOf(a + 1 .. z, offset) = a + 1 .. h
                           /\ a <= h /\ h <= z /\ h = IF a + offset <= z THEN a + offset ELSE z
      BY <1>2, <3>1, FirstOfInterval
    <3>3. z = Cut(content, target)
      BY DEF z
    <3>4. (a + 1 .. z) \ (a + 1 .. h) = g + 1 .. z
      BY <1>1, <1>2, <1>4, <3>1, <3>2, <3>3
    <3> QED
      BY <1>3, <2>2, <3>2, <3>4 DEF Page
  <2> QED
    BY <2>1, <2>2
<1>6. g <= z
  BY <1>1 DEF z
<1>7. PageSize \in Nat /\ z \in Nat
  BY <1>2 DEF FetcherAssumption
<1>8. PICK h \in Nat : /\ FirstOf(g + 1 .. z, PageSize) = g + 1 .. h
                       /\ g <= h /\ h <= z /\ h = IF g + PageSize <= z THEN g + PageSize ELSE z
  <2>1. \A n \in Nat : \E h \in Nat :
          /\ FirstOf(g + 1 .. z, n) = g + 1 .. h
          /\ g <= h /\ h <= z /\ h = IF g + n <= z THEN g + n ELSE z
    BY <1>6, <1>7, FirstOfInterval
  <2> QED
    BY <1>7, <2>1
<1>9. Cardinality(g + 1 .. h) = h - g
  BY <1>8, CountOfInterval
<1>10. h - g <= PageSize /\ (h - g < PageSize => h = z)
  BY <1>2, <1>7, <1>8
<1> QED
  BY <1>5, <1>8, <1>9, <1>10 DEF z

(* A page is fetched.                                                       *)
LEMMA FetchPageKeeps ==
  ASSUME FetcherAssumption, ChainInv, IndexInv, NEW g \in Nat, SyncAt(g), FetchPage
  PROVE  \E h \in Nat : SyncAt(h)'
<1>1. /\ Wanted /\ kind \in PagedKinds /\ Answered
      /\ Receive(InOrder(Page), Cardinality(Page) < PageSize)
      /\ offset' = IF Page = {} THEN offset
                   ELSE IF CursorIterator THEN Id(Max(Page)) ELSE offset + PageSize
  BY DEF FetchPage
<1>2. PICK h \in Nat : /\ Page = g + 1 .. h /\ g <= h /\ h <= Cut(content, target)
                       /\ Cardinality(Page) = h - g /\ h - g <= PageSize
                       /\ h - g < PageSize => h = Cut(content, target)
  BY <1>1, PageIs
<1>3. InOrder(Page) = Run(g, h)
  BY <1>2, RunOfInterval
<1>4. PICK ended : ended = (h - g < PageSize)
  OBVIOUS
<1>5. Receive(Run(g, h), ended) /\ ended \in BOOLEAN
  BY <1>1, <1>2, <1>3, <1>4
<1>6. /\ PagesAt(g) /\ first' = first /\ content' = content /\ kind' = kind /\ target \in Int
      /\ first \in 1 .. level + 1 /\ first \in Int
  BY <1>1 DEF SyncAt, IteratorAt, Wanted, Answered, chainVars
<1>7. ASSUME ~ended PROVE IteratorAt(h)'
  <2>0. ~(h - g < PageSize)
    BY <1>4, <1>7, Zenon
  <2>1. PageSize \in Nat \ {0} /\ h = g + PageSize /\ g < h
    BY <1>2, <2>0 DEF FetcherAssumption
  <2>2. h \in Page /\ \A i \in Page : i <= h
    BY <1>2, <2>1
  <2>3. Max(Page) = h /\ Page # {}
    <3>1. Page \subseteq Nat
      BY <1>2
    <3>2. Max(Page) \in Page /\ \A i \in Page : i <= Max(Page)
      BY <2>2, <3>1, MaxIs
    <3> QED
      BY <1>2, <2>2, <3>2
  <2>4. kind # "events"
    <3>1. h <= Len(content) /\ Len(content) \in Nat
      BY SMTT(30), <1>2, <1>6, Cuts, ChainIs
    <3> QED
      BY <2>1, <3>1 DEF ChainInv
  <2>5. /\ kind = "token_transfers" => offset' = Id(h)
        /\ kind = "big_maps" => offset' = offset + PageSize
    BY <1>1, <2>3 DEF CursorIterator
  <2>6. PICK start : start = Cut(content, first - 1)
    OBVIOUS
  <2>7. start \in Nat
    <3>1. first - 1 \in Int
      BY <1>6
    <3> QED
      BY <2>6, <3>1, Cuts
  <2>8. kind = "token_transfers" => h > start
    BY <1>6, <2>1, <2>6, <2>7 DEF PagesAt
  <2>9. kind = "big_maps" => offset' \in Nat /\ h = start + offset'
    BY <1>6, <2>1, <2>5, <2>6, <2>7 DEF PagesAt
  <2>10. PagesAt(h)'
    BY <1>6, <2>4, <2>5, <2>6, <2>8, <2>9 DEF PagesAt, Id
  <2> QED
    BY <1>1, <1>6, <2>10 DEF IteratorAt, PagedKinds, SubsquidKinds, ByChannels, ByPipeline
<1>8. ended => h = Cut(content, target)
  BY <1>2, <1>4
<1>9. SyncAt(h)'
  BY <1>1, <1>2, <1>5, <1>7, <1>8, Receives
<1> QED
  BY <1>9

(* A sync of a kind that is fetched page by page begins after the index.    *)
LEMMA StartPagesKeeps ==
  ASSUME FetcherAssumption, ChainInv, IndexInv, StartPages
  PROVE  \E g \in Nat : SyncAt(g)'
<1>1. PICK to \in level + 1 .. MaxLevel : StartFetcher(to)
  BY DEF StartPages
<1>2. /\ kind \in PagedKinds /\ kind' = kind /\ content' = content /\ first' = level + 1
      /\ offset' = 0 /\ exhausted' = FALSE /\ level \in Nat
  BY <1>1 DEF StartPages, StartFetcher, chainVars, IndexInv
<1>3. to \in level .. MaxLevel /\ level < to
  BY <1>2
<1>4. ASSUME NEW g \in Nat, g = Cut(content, level) PROVE IteratorAt(g)'
  <2>1. g = Cut(content', first' - 1)
    BY <1>2, <1>4
  <2>2. PagesAt(g)'
    BY <1>2, <2>1 DEF PagesAt
  <2> QED
    BY <1>2, <2>2 DEF IteratorAt, PagedKinds, SubsquidKinds, ByChannels, ByPipeline
<1> QED
  BY <1>1, <1>2, <1>3, <1>4, Starts

-----------------------------------------------------------------------------

(* Blocks.                                                                  *)

(* Circumstances under which levels are delivered in order and whole: that  *)
(* of the others breaks it, and so do nine events of a level of Starknet,   *)
(* as the tenth transaction of a block sorts before the second.             *)
Ordinary ==
  /\ Hazards \subseteq {"slow_requests", "unordered_block"}
  /\ "starknet" \in Kinds => MaxItems < 9

(* The smaller of two numbers.                                              *)
LEMMA MinOfTwo ==
  ASSUME NEW x \in Int, NEW y \in Int
  PROVE  Min({x, y}) \in {x, y} /\ Min({x, y}) <= x /\ Min({x, y}) <= y
<1>1. \E m \in {x, y} : \A n \in {x, y} : m <= n
  BY DEF Min
<1> QED
  BY <1>1 DEF Min

(* The items of a range of blocks.                                          *)
LEMMA ItemsInIs ==
  ASSUME ChainInv, NEW from \in Int, NEW to \in Int, from <= to + 1
  PROVE  /\ ItemsIn(from, to) = Run(Cut(content, from - 1), Cut(content, to))
         /\ Cut(content, from - 1) <= Cut(content, to)
<1>1. PICK a, b : a = Cut(content, from - 1) /\ b = Cut(content, to)
  OBVIOUS
<1>2. {i \in Items : content[i] \in from .. to} = a + 1 .. b /\ a <= b
  BY <1>1, ChainIs, ItemsBetween
<1>3. a \in Nat /\ b \in Nat
  <2>1. from - 1 \in Int
    OBVIOUS
  <2> QED
    BY <1>1, <2>1, Cuts
<1> QED
  BY <1>1, <1>2, <1>3, RunOfInterval DEF ItemsIn

(* A range of blocks has been fetched.                                      *)
LEMMA BlocksReceived ==
  ASSUME ChainInv, IndexInv, NEW g \in Nat, SyncAt(g), Wanted, BlocksAt(g),
         kind \in SubsquidKinds, ~ByChannels, ~ByPipeline, NEW last \in position .. target,
         Receive(ItemsIn(position, last), last = target), Answered, position' = last + 1,
         UNCHANGED <<source, reach>>
  PROVE  \E h \in Nat : SyncAt(h)'
<1>1. PICK h : h = Cut(content, last)
  OBVIOUS
<1>2. /\ first \in 1 .. level + 1 /\ first \in Int /\ target \in Int /\ first <= target
      /\ position \in first .. target /\ position \in Int /\ last \in Int
      /\ last <= target /\ position <= last
      /\ g = Cut(content, position - 1) /\ (source = "node" => target <= reach)
  BY DEF SyncAt, Wanted, BlocksAt
<1>3. h \in Nat /\ h <= Cut(content, target)
  BY <1>1, <1>2, Cuts
<1>4. ItemsIn(position, last) = Run(g, h) /\ g <= h
  BY <1>1, <1>2, ItemsInIs
<1>5. PICK ended : ended = (last = target)
  OBVIOUS
<1>6. Receive(Run(g, h), ended) /\ ended \in BOOLEAN
  BY <1>4, <1>5
<1>7. /\ kind' = kind /\ content' = content /\ first' = first /\ target' = target
      /\ source' = source /\ reach' = reach /\ position' = last + 1
  BY DEF Answered, chainVars
<1>8. ASSUME ~ended PROVE IteratorAt(h)'
  <2>1. last # target
    BY <1>5, <1>8, Zenon
  <2>2. last + 1 \in first .. target /\ last + 1 - 1 = last
    BY <1>2, <2>1
  <2>3. BlocksAt(h)'
    BY <1>1, <1>2, <1>7, <2>2 DEF BlocksAt
  <2> QED
    BY <1>7, <2>3 DEF IteratorAt, PagedKinds, SubsquidKinds, ByChannels, ByPipeline
<1>9. ended => h = Cut(content, target)
  BY <1>1, <1>5, Zenon
<1>10. SyncAt(h)'
  BY <1>3, <1>4, <1>6, <1>8, <1>9, Receives
<1> QED
  BY <1>3, <1>10

(* The last block of a range is between its first one and the target.       *)
LEMMA BatchLastIs ==
  ASSUME NEW g \in Nat, SyncAt(g), BlocksAt(g), NEW last \in BatchLasts
  PROVE  last \in position .. target
<1>1. PICK size \in 1 .. MaxBatch : last = Min({position + size, target})
  BY DEF BatchLasts
<1>2. position \in first .. target /\ position \in Int /\ target \in Int /\ position <= target
  BY DEF BlocksAt, SyncAt
<1>3. position + size \in Int /\ position <= position + size
  BY <1>2
<1>4. last \in {position + size, target} /\ last <= target
  BY <1>1, <1>2, <1>3, MinOfTwo
<1> QED
  BY <1>2, <1>3, <1>4

(* No node lags behind the one that reported the head.                      *)
LEMMA NodeHasIs ==
  ASSUME Ordinary, NEW g \in Nat, SyncAt(g), BlocksAt(g), source = "node",
         reach \in Nat, NEW last \in position .. target, NEW has \in NodeHas(last)
  PROVE  has = last
<1>1. "lagging_node" \notin Hazards
  BY DEF Ordinary
<1>2. last \in Int /\ last <= reach /\ target \in Int
  BY DEF BlocksAt, SyncAt
<1>3. Min({last, reach}) \in {last, reach} /\ Min({last, reach}) <= last
  BY <1>2, MinOfTwo
<1>4. has \in Min({last, reach}) .. last
  BY <1>1 DEF NodeHas
<1> QED
  BY <1>2, <1>3, <1>4

(* A step of one of the iterators over blocks.                              *)
LEMMA FetchRangeKeeps ==
  ASSUME Ordinary, ChainInv, IndexInv, NEW g \in Nat, SyncAt(g),
         FetchLogs \/ FetchBlocks \/ FromSubsquid
  PROVE  \E h \in Nat : SyncAt(h)'
<1>1. CASE FetchLogs
  <2>1. /\ kind = "evm_events" /\ source = "node" /\ Wanted /\ Answered
        /\ UNCHANGED <<source, reach>>
    BY <1>1 DEF FetchLogs
  <2>2. PICK last \in BatchLasts :
          /\ \E hasLogs, hasBlocks \in NodeHas(last) :
               LET logs == ItemsIn(position, hasLogs) IN
               IF BlocksThere({content[i] : i \in Range(logs)}, hasBlocks)
                 THEN Receive(logs, last = target) /\ UNCHANGED failure
                 ELSE Raise("request")
          /\ position' = last + 1
    BY <1>1 DEF FetchLogs
  <2>3. BlocksAt(g) /\ ~ByChannels /\ ~ByPipeline /\ kind \in SubsquidKinds
    BY <2>1 DEF SyncAt, Wanted, IteratorAt, ByChannels, ByPipeline, SubsquidKinds
  <2>4. last \in position .. target
    BY <2>3, BatchLastIs
  <2>5. \A has \in NodeHas(last) : has = last
    BY <2>1, <2>3, <2>4, NodeHasIs DEF IndexInv
  <2>6. Receive(ItemsIn(position, last), last = target) \/ Raise("request")
    BY <2>2, <2>5
  <2>7. CASE Receive(ItemsIn(position, last), last = target)
    BY <2>1, <2>2, <2>3, <2>4, <2>7, BlocksReceived
  <2>8. CASE Raise("request")
    <3>1. UNCHANGED <<content, level, first, target>>
      BY <2>1 DEF Answered, chainVars
    <3> QED
      BY <2>1, <2>8, <3>1, Raises
  <2> QED
    BY <2>6, <2>7, <2>8
<1>2. CASE FetchBlocks
  <2>1. /\ kind = "evm_transactions" /\ source = "node" /\ Wanted /\ Answered
        /\ UNCHANGED <<source, reach>>
    BY <1>2 DEF FetchBlocks
  <2>2. PICK last \in BatchLasts :
          /\ Receive(ItemsIn(position, last), last = target) \/ Raise("request")
          /\ position' = last + 1
    BY <1>2 DEF FetchBlocks
  <2>3. BlocksAt(g) /\ ~ByChannels /\ ~ByPipeline /\ kind \in SubsquidKinds
    BY <2>1 DEF SyncAt, Wanted, IteratorAt, ByChannels, ByPipeline, SubsquidKinds
  <2>4. last \in position .. target
    BY <2>3, BatchLastIs
  <2>5. CASE Receive(ItemsIn(position, last), last = target)
    BY <2>1, <2>2, <2>3, <2>4, <2>5, BlocksReceived
  <2>6. CASE Raise("request")
    <3>1. UNCHANGED <<content, level, first, target>>
      BY <2>1 DEF Answered, chainVars
    <3> QED
      BY <2>1, <2>6, <3>1, Raises
  <2> QED
    BY <2>2, <2>5, <2>6
<1>3. CASE FromSubsquid
  <2>1. /\ kind \in SubsquidKinds /\ Wanted /\ Answered /\ source = "subsquid"
        /\ FromWorker \/ Raise("assertion")
    BY <1>3 DEF FromSubsquid, IterEvmEvents, IterEvmTransactions, IterStarknetEvents,
                IterSubstrateEvents, FromWorker, SubsquidKinds
  <2>2. BlocksAt(g) /\ ~ByChannels /\ ~ByPipeline
    BY <2>1 DEF SyncAt, Wanted, IteratorAt, ByChannels, ByPipeline, SubsquidKinds
  <2>3. CASE FromWorker
    <3>1. PICK last \in position .. target :
            /\ Receive(ItemsIn(position, last), last = target) /\ position' = last + 1
      BY <2>3 DEF FromWorker
    <3>2. UNCHANGED <<source, reach>>
      BY <2>3 DEF FromWorker
    <3> QED
      BY <2>1, <2>2, <3>1, <3>2, BlocksReceived
  <2>4. CASE Raise("assertion")
    <3>1. UNCHANGED <<content, level, first, target>>
      BY <2>1 DEF Answered, chainVars
    <3> QED
      BY <2>1, <2>4, <3>1, Raises
  <2> QED
    BY <2>1, <2>3, <2>4
<1> QED
  BY <1>1, <1>2, <1>3

(* The target of a sync is between the index and the head it was given.     *)
LEMMA StartBlocksIs ==
  ASSUME FetcherAssumption, Ordinary, IndexInv, StartBlocks
  PROVE  \E to \in level .. MaxLevel :
           /\ StartFetcher(to) /\ exhausted' = (to <= level /\ kind # "substrate")
           /\ to = level => kind # "substrate"
           /\ source' \in {"node", "subsquid"} /\ reach' \in Nat /\ to <= reach'
           /\ position' = level + 1
<1>1. PICK choice :
        /\ choice \in {Choose(to, squidHead, nodeHead) :
                         to \in level + 1 .. MaxLevel, squidHead, nodeHead \in 0 .. MaxLevel}
        /\ IF choice.target > level
             THEN UNCHANGED faults
             ELSE /\ faults < MaxFaults /\ faults' = faults + 1
                  /\ \/ choice.target = level /\ kind # "substrate"
                     \/ "lagging_head" \in Hazards
        /\ StartFetcher(choice.target)
        /\ source' = choice.source /\ reach' = choice.reach
        /\ exhausted' = (choice.target <= level /\ kind # "substrate")
  BY DEF StartBlocks
<1>2. PICK to \in level + 1 .. MaxLevel, squidHead \in 0 .. MaxLevel, nodeHead \in 0 .. MaxLevel :
        choice = Choose(to, squidHead, nodeHead)
  BY <1>1
<1>3. level \in Nat /\ MaxLevel \in Nat
  BY DEF IndexInv, FetcherAssumption
<1>4. PICK head \in 0 .. MaxLevel : /\ choice.target = Min({to, head}) /\ choice.reach = head
                                    /\ choice.source \in {"node", "subsquid"}
  <2>1. \/ choice = [source |-> "node", reach |-> nodeHead, target |-> Min({to, nodeHead})]
        \/ choice = [source |-> "subsquid", reach |-> squidHead, target |-> Min({to, squidHead})]
    <3>1. CASE squidHead - level <= LastMile /\ nodeHead # 0
      BY <1>2, <3>1 DEF Choose
    <3>2. CASE ~(squidHead - level <= LastMile /\ nodeHead # 0)
      BY <1>2, <3>2 DEF Choose
    <3> QED
      BY <3>1, <3>2
  <2>2. CASE choice = [source |-> "node", reach |-> nodeHead, target |-> Min({to, nodeHead})]
    <3>1. choice.target = Min({to, nodeHead}) /\ choice.reach = nodeHead /\ choice.source = "node"
      BY <2>2
    <3> QED
      BY <3>1
  <2>3. CASE choice = [source |-> "subsquid", reach |-> squidHead, target |-> Min({to, squidHead})]
    <3>1. /\ choice.target = Min({to, squidHead}) /\ choice.reach = squidHead
          /\ choice.source = "subsquid"
      BY <2>3
    <3> QED
      BY <3>1
  <2> QED
    BY <2>1, <2>2, <2>3
<1>5. choice.target \in {to, head} /\ choice.target <= to /\ choice.target <= head
  <2>1. to \in Int /\ head \in Int
    BY <1>3
  <2>2. Min({to, head}) \in {to, head} /\ Min({to, head}) <= to /\ Min({to, head}) <= head
    BY <2>1, MinOfTwo
  <2> QED
    BY <1>4, <2>2
<1>9. choice.target > level \/ (choice.target = level /\ kind # "substrate")
  <2>1. "lagging_head" \notin Hazards
    BY DEF Ordinary
  <2> QED
    BY <1>1, <2>1
<1>6. choice.target \in level .. MaxLevel /\ choice.target <= head /\ head \in Nat
  BY <1>9, <1>3, <1>5
<1>7. position' = level + 1
  BY DEF StartBlocks
<1>8. choice.target = level => kind # "substrate"
  BY <1>9, <1>3
<1> QED
  BY <1>1, <1>4, <1>6, <1>7, <1>8

(* A sync of a kind that has Subsquid's fetcher or a node's over blocks.    *)
LEMMA StartsBlocks ==
  ASSUME FetcherAssumption, Ordinary, ChainInv, IndexInv, StartBlocks, kind \in SubsquidKinds,
         \A to \in level .. MaxLevel, g \in Nat :
           StartFetcher(to) /\ g = Cut(content, level) =>
             /\ ByPipeline' => PipelineAt(g)'
             /\ ByChannels' /\ level < to => ChannelsAt(g)'
  PROVE  \E g \in Nat : SyncAt(g)'
<1>1. PICK to \in level .. MaxLevel :
        /\ StartFetcher(to) /\ exhausted' = (to <= level /\ kind # "substrate")
        /\ to = level => kind # "substrate"
        /\ source' \in {"node", "subsquid"} /\ reach' \in Nat /\ to <= reach'
        /\ position' = level + 1
  BY StartBlocksIs
<1>2. /\ kind' = kind /\ content' = content /\ first' = level + 1 /\ target' = to
      /\ level \in Nat /\ MaxLevel \in Nat /\ to \in Nat /\ level <= to
  BY <1>1 DEF StartFetcher, chainVars, IndexInv, FetcherAssumption
<1>3. exhausted' \in BOOLEAN
  BY <1>1
<1>0. exhausted' <=> to <= level /\ kind # "substrate"
  BY <1>1, Zenon
<1>4. exhausted' => to = level
  <2>1. exhausted' => to <= level
    BY <1>0, Zenon
  <2> QED
    BY <1>2, <2>1
<1>5. ~exhausted' => level < to
  <2>1. ~exhausted' => ~(to <= level) \/ kind = "substrate"
    BY <1>0, Zenon
  <2> QED
    BY <1>1, <1>2, <2>1
<1>6. ASSUME NEW g \in Nat, g = Cut(content, level), ~exhausted' PROVE IteratorAt(g)'
  <2>1. BlocksAt(g)'
    <3>1. level + 1 \in level + 1 .. to /\ level + 1 - 1 = level
      BY <1>2, <1>5, <1>6
    <3> QED
      BY <1>1, <1>2, <1>6, <3>1 DEF BlocksAt
  <2>2. ByPipeline' => PipelineAt(g)'
    BY <1>1, <1>6
  <2>3. ByChannels' => ChannelsAt(g)'
    BY <1>1, <1>5, <1>6
  <2>4. ~(kind' \in PagedKinds)
    BY <1>2 DEF PagedKinds, SubsquidKinds
  <2> QED
    BY <2>1, <2>2, <2>3, <2>4 DEF IteratorAt
<1> QED
  BY <1>1, <1>3, <1>4, <1>5, <1>6, Starts

-----------------------------------------------------------------------------

(* The pipeline of a Substrate node.                                        *)

(* It starts with all the levels in its first queue.                        *)
LEMMA PipelineStarts ==
  ASSUME FetcherAssumption, IndexInv, NEW to \in level .. MaxLevel, StartFetcher(to), QueueLevels,
         NEW g \in Nat, g = Cut(content, level)
  PROVE  PipelineAt(g)'
<1>1. level \in Nat /\ to \in Nat /\ level <= to
  BY DEF IndexInv
<1>2. content' = content /\ first' = level + 1 /\ target' = to
  BY DEF StartFetcher, chainVars
<1>3. /\ queues' = <<Run(level, to), <<>>, <<>>, <<>>>> /\ batch' = [s \in Stages |-> <<>>]
      /\ loop' = [s \in Stages |-> IF s = 1 /\ queues'[1] = <<>> THEN "done" ELSE "collecting"]
  BY <1>2 DEF QueueLevels, Run
<1>4. Run(level, to) \in Seq(Int)
  BY <1>1, RunIs
<1>5. PICK q : q = Run(level, to)
  OBVIOUS
<1>6. /\ queues' \in [1 .. 4 -> Seq(Int)] /\ queues'[1] = Run(level, to)
      /\ \A s \in 2 .. 4 : queues'[s] = <<>>
  <2>1. queues' = <<q, <<>>, <<>>, <<>>>> /\ q \in Seq(Int) /\ <<>> \in Seq(Int)
    BY <1>3, <1>4, <1>5
  <2>2. \A e \in Seq(Int) : <<q, e, e, e>> \in [1 .. 4 -> Seq(Int)]
    BY <2>1
  <2>3. /\ <<q, <<>>, <<>>, <<>>>>[1] = q /\ <<q, <<>>, <<>>, <<>>>>[2] = <<>>
        /\ <<q, <<>>, <<>>, <<>>>>[3] = <<>> /\ <<q, <<>>, <<>>, <<>>>>[4] = <<>>
    OBVIOUS
  <2>4. \A s \in 2 .. 4 : s = 2 \/ s = 3 \/ s = 4
    OBVIOUS
  <2> QED
    BY <1>5, <2>1, <2>2, <2>3, <2>4
<1>7. /\ batch' \in [Stages -> Seq(Int)] /\ \A s \in Stages : batch'[s] = <<>> /\ Len(batch'[s]) = 0
  BY <1>3
<1>8. loop' \in [Stages -> {"collecting", "asking", "last", "done"}]
  BY <1>3
<1>9. PICK top : top = [s \in 1 .. 4 |-> IF s = 1 THEN to ELSE level]
  OBVIOUS
<1>10. PICK low : low = [s \in 1 .. 4 |-> level]
  OBVIOUS
<1>11. /\ top \in [1 .. 4 -> Nat] /\ low \in [1 .. 4 -> Nat] /\ top[1] = to
       /\ \A s \in 2 .. 4 : top[s] = level
       /\ \A s \in 1 .. 4 : low[s] = level
  BY <1>1, <1>9, <1>10
<1>12. Run(level, level) = <<>>
  BY <1>1, RunIs
<1>13. PipedAt(g, top, low)'
  <2>1. top[1] = target' /\ first' - 1 <= low[4] /\ g = Cut(content', low[4])
    BY <1>1, <1>2, <1>11
  <2>2. \A s \in 1 .. 4 : low[s] <= top[s] /\ queues'[s] = Run(low[s], top[s])
    BY <1>1, <1>6, <1>11, <1>12
  <2>3. \A s \in Stages : top[s + 1] <= low[s] /\ batch'[s] = Run(top[s + 1], low[s])
    <3> SUFFICES ASSUME NEW s \in Stages
                 PROVE  top[s + 1] <= low[s] /\ batch'[s] = Run(top[s + 1], low[s])
      OBVIOUS
    <3>1. s + 1 \in 2 .. 4 /\ s \in 1 .. 4
      BY DEF Stages
    <3> QED
      BY <1>1, <1>7, <1>11, <1>12, <3>1
  <2> QED
    BY <2>1, <2>2, <2>3 DEF PipedAt
<1>14. PageSize > 0
  BY DEF FetcherAssumption
<1> QED
  BY <1>6, <1>7, <1>8, <1>11, <1>13, <1>14 DEF PipelineAt

(* A task collects levels.                                                  *)
LEMMA CollectKeeps ==
  ASSUME FetcherAssumption, NEW g \in Nat, PipelineAt(g), NEW s \in Stages, Collect(s)
  PROVE  PipelineAt(g)'
<1>1. /\ queues \in [1 .. 4 -> Seq(Int)] /\ batch \in [Stages -> Seq(Int)]
      /\ loop \in [Stages -> {"collecting", "asking", "last", "done"}]
      /\ loop[s] = "collecting" /\ queues[s] # <<>> /\ Len(batch[s]) < PageSize /\ PageSize \in Nat
      /\ content' = content /\ first' = first /\ target' = target /\ s \in 1 .. 4
  <2>1. /\ queues \in [1 .. 4 -> Seq(Int)] /\ batch \in [Stages -> Seq(Int)]
        /\ loop \in [Stages -> {"collecting", "asking", "last", "done"}]
        /\ loop[s] = "collecting" => Len(batch[s]) < PageSize
    BY DEF PipelineAt
  <2>2. loop[s] = "collecting" /\ queues[s] # <<>>
    BY DEF Collect
  <2>3. content' = content /\ first' = first /\ target' = target
    BY DEF Collect, fetcherVars, chainVars, indexVars
  <2>4. s \in 1 .. 4 /\ PageSize \in Nat
    BY DEF Stages, FetcherAssumption
  <2> QED
    BY <2>1, <2>2, <2>3, <2>4
<1>2. PICK top \in [1 .. 4 -> Nat], low \in [1 .. 4 -> Nat] : PipedAt(g, top, low)
  BY DEF PipelineAt
<1>3. PICK n : n = Min({PageSize - Len(batch[s]), Len(queues[s])})
  OBVIOUS
<1>4. n \in 0 .. Len(queues[s]) /\ Len(batch[s]) + n <= PageSize /\ Len(queues[s]) \in Nat
      /\ Len(batch[s]) \in Nat
  <2>1. queues[s] \in Seq(Int) /\ batch[s] \in Seq(Int)
    BY <1>1
  <2>2. Len(queues[s]) \in Nat /\ Len(batch[s]) \in Nat
    BY SMTT(30), <2>1
  <2>3. PICK x, y : x = PageSize - Len(batch[s]) /\ y = Len(queues[s])
    OBVIOUS
  <2>4. x \in Int /\ y \in Int /\ x >= 0 /\ n = Min({x, y})
    BY <1>1, <1>3, <2>2, <2>3
  <2>5. Min({x, y}) \in {x, y} /\ Min({x, y}) <= x /\ Min({x, y}) <= y
    BY <2>4, MinOfTwo
  <2>6. n \in {x, y} /\ n <= x /\ n <= y
    BY <2>4, <2>5
  <2>7. n \in 0 .. y /\ n \in Int
    <3>1. y \in Nat
      BY <2>2, <2>3
    <3>2. x \in Int /\ x >= 0
      BY <2>4
    <3> QED
      BY <2>6, <3>1, <3>2
  <2>8. Len(batch[s]) + n <= PageSize
    <3>1. PICK p : p = Len(batch[s])
      OBVIOUS
    <3>2. p \in Nat /\ PageSize \in Nat /\ n \in Int /\ n <= PageSize - p
      BY <1>1, <2>2, <2>3, <2>6, <2>7, <3>1
    <3>3. p + n <= PageSize
      BY <3>2
    <3> QED
      BY <3>1, <3>3
  <2> QED
    BY <2>2, <2>3, <2>7, <2>8
<1>5. /\ queues' = [queues EXCEPT ![s] = SubSeq(@, n + 1, Len(@))]
      /\ batch' = [batch EXCEPT ![s] = @ \o SubSeq(queues[s], 1, n)]
      /\ loop' = [loop EXCEPT ![s] =
           IF ~(Len(batch[s]) + n = PageSize)
                /\ DrainedBefore(s, [queues EXCEPT ![s] = SubSeq(@, n + 1, Len(@))])
             THEN "last"
             ELSE IF Len(batch[s]) + n = PageSize THEN "asking" ELSE "collecting"]
  BY <1>3 DEF Collect
<1>6. PICK a, b, z : a = low[s] /\ b = top[s] /\ z = top[s + 1]
  OBVIOUS
<1>7. /\ a \in Nat /\ b \in Nat /\ z \in Nat /\ z <= a /\ a <= b
      /\ queues[s] = Run(a, b) /\ batch[s] = Run(z, a)
  <2>1. s + 1 \in 1 .. 4
    BY DEF Stages
  <2> QED
    BY <1>1, <1>2, <1>6, <2>1 DEF PipedAt
<1>8. Len(queues[s]) = b - a /\ Len(batch[s]) = a - z
  BY <1>7, RunIs
<1>9. SubSeq(queues[s], 1, n) = Run(a, a + n)
      /\ SubSeq(queues[s], n + 1, Len(queues[s])) = Run(a + n, b)
  <2>1. n \in 0 .. b - a
    BY <1>4, <1>8
  <2>2. \A m \in 0 .. b - a : /\ SubSeq(Run(a, b), 1, m) = Run(a, a + m)
                              /\ SubSeq(Run(a, b), m + 1, Len(Run(a, b))) = Run(a + m, b)
    BY <1>7, RunSplit
  <2> QED
    BY <1>7, <2>1, <2>2
<1>10. batch[s] \o SubSeq(queues[s], 1, n) = Run(z, a + n)
  <2>1. a + n \in Nat /\ a <= a + n
    <3>1. n \in Nat
      BY <1>4
    <3> QED
      BY <1>7, <3>1
  <2>2. Run(z, a) \o Run(a, a + n) = Run(z, a + n)
    BY ZenonT(40), <1>7, <2>1, RunJoin
  <2> QED
    BY <1>7, <1>9, <2>2
<1>11. a + n \in Nat /\ a + n <= b /\ z <= a + n
  BY <1>4, <1>7, <1>8
<1>12. /\ queues'[s] = Run(a + n, b) /\ batch'[s] = Run(z, a + n)
       /\ \A r \in 1 .. 4 : r # s => queues'[r] = queues[r]
       /\ \A r \in Stages : r # s => batch'[r] = batch[r] /\ loop'[r] = loop[r]
       /\ DOMAIN queues' = 1 .. 4 /\ DOMAIN batch' = Stages /\ DOMAIN loop' = Stages
  BY <1>1, <1>5, <1>9, <1>10
<1>13. Run(a + n, b) \in Seq(Int) /\ Run(z, a + n) \in Seq(Int) /\ Len(Run(z, a + n)) = a + n - z
  <2>1. \A m \in Nat : m <= b /\ z <= m =>
          Run(m, b) \in Seq(Int) /\ Run(z, m) \in Seq(Int) /\ Len(Run(z, m)) = m - z
    BY <1>7, RunIs
  <2>2. n \in Nat
    BY <1>4
  <2>3. Run(a + n, b) \in Seq(Int) /\ Run(z, a + n) \in Seq(Int)
    BY <1>11, <2>1
  <2>4. Len(Run(z, a + n)) = a + n - z
    BY <1>7, <1>11, <2>1, <2>2
  <2> QED
    BY <2>3, <2>4
<1>14. queues' \in [1 .. 4 -> Seq(Int)] /\ batch' \in [Stages -> Seq(Int)]
  <2>1. queues' = [r \in 1 .. 4 |-> queues'[r]] /\ batch' = [r \in Stages |-> batch'[r]]
    BY <1>1, <1>5
  <2>2. \A r \in 1 .. 4 : queues'[r] \in Seq(Int)
    BY <1>1, <1>12, <1>13
  <2>3. \A r \in Stages : batch'[r] \in Seq(Int)
    BY <1>1, <1>12, <1>13
  <2> QED
    BY <2>1, <2>2, <2>3
<1>15. loop' \in [Stages -> {"collecting", "asking", "last", "done"}]
  BY <1>1, <1>5
<1>16. /\ loop'[s] # "done"
       /\ loop'[s] = "collecting" => ~(Len(batch[s]) + n = PageSize)
  BY <1>1, <1>5
<1>17. \A r \in Stages : /\ loop'[r] = "done" => batch'[r] = <<>>
                         /\ loop'[r] = "collecting" => Len(batch'[r]) < PageSize
  <2>1. loop'[s] = "collecting" => Len(batch'[s]) < PageSize
    BY <1>1, <1>4, <1>7, <1>8, <1>12, <1>13, <1>16
  <2> QED
    BY <1>12, <1>16, <2>1 DEF PipelineAt
<1>18. PICK low2 : low2 = [low EXCEPT ![s] = a + n]
  OBVIOUS
<1>19. low2 \in [1 .. 4 -> Nat] /\ low2[s] = a + n /\ \A r \in 1 .. 4 : r # s => low2[r] = low[r]
  BY <1>1, <1>11, <1>18
<1>20. PipedAt(g, top, low2)'
  <2>1. top[1] = target' /\ first' - 1 <= low2[4] /\ g = Cut(content', low2[4])
    <3>1. 4 # s /\ 4 \in 1 .. 4
      BY DEF Stages
    <3>2. low2[4] = low[4]
      BY <1>19, <3>1
    <3> QED
      BY <1>1, <1>2, <3>2 DEF PipedAt
  <2>2. ASSUME NEW r \in 1 .. 4 PROVE low2[r] <= top[r] /\ queues'[r] = Run(low2[r], top[r])
    <3>1. CASE r = s
      BY <1>6, <1>11, <1>12, <1>19, <3>1
    <3>2. CASE r # s
      BY <1>2, <1>12, <1>19, <3>2 DEF PipedAt
    <3> QED
      BY <3>1, <3>2
  <2>3. ASSUME NEW r \in Stages
        PROVE  top[r + 1] <= low2[r] /\ batch'[r] = Run(top[r + 1], low2[r])
    <3>1. CASE r = s
      BY <1>6, <1>11, <1>12, <1>19, <3>1
    <3>2. CASE r # s
      <4>1. r \in 1 .. 4
        BY DEF Stages
      <4> QED
        BY <1>2, <1>12, <1>19, <3>2, <4>1 DEF PipedAt
    <3> QED
      BY <3>1, <3>2
  <2> QED
    BY <2>1, <2>2, <2>3 DEF PipedAt
<1> QED
  BY <1>14, <1>15, <1>17, <1>19, <1>20 DEF PipelineAt

(* The answers go to the next queue.                                        *)
LEMMA AnswerKeeps ==
  ASSUME FetcherAssumption, NEW g \in Nat, PipelineAt(g), NEW s \in Stages, Answer(s)
  PROVE  PipelineAt(g)'
<1>1. /\ queues \in [1 .. 4 -> Seq(Int)] /\ batch \in [Stages -> Seq(Int)]
      /\ loop \in [Stages -> {"collecting", "asking", "last", "done"}]
  BY DEF PipelineAt
<1>2. PICK top \in [1 .. 4 -> Nat], low \in [1 .. 4 -> Nat] : PipedAt(g, top, low)
  BY DEF PipelineAt
<1>3. content' = content /\ first' = first /\ target' = target
  BY DEF Answer, fetcherVars, chainVars, indexVars
<1>4. /\ queues' = [queues EXCEPT ![s + 1] = @ \o batch[s]]
      /\ batch' = [batch EXCEPT ![s] = <<>>]
      /\ loop' = [loop EXCEPT ![s] = IF @ = "last" \/ DrainedBefore(s, queues)
                                       THEN "done" ELSE "collecting"]
  BY DEF Answer
<1>5. PICK r : r = s + 1
  OBVIOUS
<1>6. r \in 1 .. 4 /\ s \in 1 .. 4 /\ r # s /\ r # 1 /\ r \in Int /\ s \in Int
  BY <1>5 DEF Stages
<1>7. PICK a, b, z : a = low[r] /\ b = top[r] /\ z = low[s]
  OBVIOUS
<1>8. /\ a \in Nat /\ b \in Nat /\ z \in Nat /\ a <= b /\ b <= z
      /\ queues[r] = Run(a, b) /\ batch[s] = Run(b, z)
  BY <1>2, <1>5, <1>6, <1>7 DEF PipedAt
<1>9. /\ queues'[r] = Run(a, z) /\ \A q \in 1 .. 4 : q # r => queues'[q] = queues[q]
      /\ queues' = [q \in 1 .. 4 |-> queues'[q]]
  <2>1. Run(a, b) \o Run(b, z) = Run(a, z)
    BY ZenonT(40), <1>8, RunJoin
  <2>2. queues[r] \o batch[s] = Run(a, z)
    BY <1>8, <2>1
  <2> QED
    BY <1>1, <1>4, <1>5, <1>6, <2>2
<1>10. /\ batch'[s] = <<>> /\ \A q \in Stages : q # s => batch'[q] = batch[q] /\ loop'[q] = loop[q]
       /\ batch' = [q \in Stages |-> batch'[q]]
  BY <1>1, <1>4
<1>11. loop' \in [Stages -> {"collecting", "asking", "last", "done"}]
  BY <1>1, <1>4
<1>12. queues' \in [1 .. 4 -> Seq(Int)]
  <2>1. Run(a, z) \in Seq(Int)
    <3>1. a <= z
      BY <1>8
    <3> QED
      BY <1>8, <3>1, RunIs
  <2>2. \A q \in 1 .. 4 : queues'[q] \in Seq(Int)
    BY <1>1, <1>9, <2>1
  <2> QED
    BY <1>9, <2>2
<1>13. batch' \in [Stages -> Seq(Int)]
  <2>1. \A e \in Seq(Int) : [batch EXCEPT ![s] = e] \in [Stages -> Seq(Int)]
    BY <1>1
  <2>2. <<>> \in Seq(Int)
    OBVIOUS
  <2> QED
    BY <1>4, <2>1, <2>2
<1>14. \A q \in Stages : /\ loop'[q] = "done" => batch'[q] = <<>>
                         /\ loop'[q] = "collecting" => Len(batch'[q]) < PageSize
  <2>1. Len(batch'[s]) = 0 /\ 0 < PageSize
    BY SMTT(30), <1>10 DEF FetcherAssumption
  <2> QED
    BY <1>10, <2>1 DEF PipelineAt
<1>15. PICK top2 : top2 = [top EXCEPT ![r] = z]
  OBVIOUS
<1>16. /\ top2 \in [1 .. 4 -> Nat] /\ top2[r] = z
       /\ \A q \in 1 .. 4 : q # r => top2[q] = top[q]
  BY <1>6, <1>8, <1>15
<1>17. PipedAt(g, top2, low)'
  <2>1. top2[1] = target' /\ first' - 1 <= low[4] /\ g = Cut(content', low[4])
    <3>1. top2[1] = top[1]
      BY <1>6, <1>16
    <3> QED
      BY <1>2, <1>3, <3>1 DEF PipedAt
  <2>2. ASSUME NEW q \in 1 .. 4 PROVE low[q] <= top2[q] /\ queues'[q] = Run(low[q], top2[q])
    <3>1. CASE q = r
      BY <1>7, <1>8, <1>9, <1>16, <3>1
    <3>2. CASE q # r
      BY <1>2, <1>9, <1>16, <3>2 DEF PipedAt
    <3> QED
      BY <3>1, <3>2
  <2>3. ASSUME NEW q \in Stages
        PROVE  top2[q + 1] <= low[q] /\ batch'[q] = Run(top2[q + 1], low[q])
    <3>1. CASE q = s
      <4>1. top2[q + 1] = z /\ low[q] = z
        BY <1>5, <1>7, <1>16, <3>1
      <4>2. Run(z, z) = <<>> /\ z <= z
        <5>1. z \in Nat /\ z <= z
          BY <1>8
        <5> QED
          BY <5>1, RunIs
      <4>3. PICK x, y : x = top2[q + 1] /\ y = low[q]
        OBVIOUS
      <4>4. x <= y /\ Run(x, y) = <<>>
        BY <4>1, <4>2, <4>3
      <4>5. batch'[q] = <<>>
        BY <1>10, <3>1
      <4> QED
        BY <4>3, <4>4, <4>5
    <3>2. CASE q # s
      <4>1. q + 1 \in 1 .. 4 /\ q + 1 # r
        BY <1>5, <1>6, <3>2 DEF Stages
      <4> QED
        BY <1>2, <1>10, <1>16, <3>2, <4>1 DEF PipedAt
    <3> QED
      BY <3>1, <3>2
  <2> QED
    BY <2>1, <2>2, <2>3 DEF PipedAt
<1> QED
  BY <1>11, <1>12, <1>13, <1>14, <1>16, <1>17 DEF PipelineAt

(* What the channels have returned depends on nothing else.                 *)
LEMMA ChannelsKept ==
  ASSUME NEW g \in Nat, UNCHANGED <<kind, content, routes, first, target>>,
         UNCHANGED <<heads, offsets, buffer, mergedHead>>
  PROVE  ChannelsAt(g) => ChannelsAt(g)'
<1>1. Items' = Items
  BY DEF Items
<1>2. \A i : InRange(i)' <=> InRange(i)
  BY DEF InRange
<1>3. \A c, i : Received(c, i)' <=> Received(c, i)
  BY DEF Received
<1>4. \A i : Complete(i)' <=> Complete(i)
  BY <1>3 DEF Complete
<1>5. \A c, i : i \in Returns(c)' <=> i \in Returns(c)
  BY <1>1, <1>2 DEF Returns
<1> SUFFICES ASSUME ChannelsAt(g) PROVE ChannelsAt(g)'
  OBVIOUS
<1>7. /\ heads' \in [Channels -> 0 .. target'] /\ offsets' \in [Channels -> Nat]
      /\ \E c \in Channels : heads'[c] < target'
      /\ mergedHead' \in Nat /\ \A c \in Channels : mergedHead' <= heads'[c]
  BY DEF ChannelsAt
<1>8. \A c \in Channels : \A i \in Returns(c)' :
        content'[i] <= heads'[c] =>
          \/ Received(c, i)'
          \/ kind' = "starknet" /\ content'[i] = heads'[c] /\ ~Shared(content[i])'
  <2>1. \A i : Shared(content[i])' <=> Shared(content[i])
    BY <1>1 DEF Shared
  <2> QED
    BY <1>3, <1>5, <2>1 DEF ChannelsAt
<1>9. \A i \in Items' : i <= g <=> content'[i] < first' \/ (InRange(i)' /\ Complete(i)')
  BY <1>1, <1>2, <1>4 DEF ChannelsAt
<1>10. buffer' = {i \in Items' : InRange(i)' /\ g < i /\ \E c \in routes'[i] : Received(c, i)'}
  BY <1>1, <1>2, <1>3 DEF ChannelsAt
<1> QED
  BY <1>7, <1>8, <1>9, <1>10 DEF ChannelsAt

(* A step of one of its tasks.                                              *)
LEMMA PipelineKeeps ==
  ASSUME FetcherAssumption, NEW g \in Nat, SyncAt(g), NEW s \in Stages, Collect(s) \/ Answer(s),
         UNCHANGED othersThanSubstrate
  PROVE  SyncAt(g)'
<1>1. /\ UNCHANGED <<kind, content, routes, level, first, target>>
      /\ UNCHANGED <<items, exhausted, task, readahead>>
      /\ UNCHANGED <<offset, source, reach, position, heads, offsets, buffer, mergedHead>>
  BY DEF Collect, Answer, fetcherVars, chainVars, indexVars, taskVars, othersThanSubstrate,
         blockVars, channelVars
<1>2. PipelineAt(g) => PipelineAt(g)'
  BY CollectKeeps, AnswerKeeps
<1>3. /\ PagesAt(g) => PagesAt(g)'
      /\ BlocksAt(g) => BlocksAt(g)'
      /\ (ByPipeline' <=> ByPipeline) /\ (ByChannels' <=> ByChannels)
  BY <1>1 DEF PagesAt, BlocksAt, ByPipeline, ByChannels
<1>4. ChannelsAt(g) => ChannelsAt(g)'
  BY <1>1, ChannelsKept
<1>5. IteratorAt(g) => IteratorAt(g)'
  BY <1>1, <1>2, <1>3, <1>4 DEF IteratorAt
<1> QED
  BY <1>1, <1>5 DEF SyncAt

(* The main loop takes what has come out.                                   *)
LEMMA TakeEventsKeeps ==
  ASSUME Ordinary, FetcherAssumption, ChainInv, IndexInv, NEW g \in Nat, SyncAt(g), TakeEvents,
         source = "node", UNCHANGED othersThanSubstrate
  PROVE  \E h \in Nat : SyncAt(h)'
<1>1. /\ kind = "substrate" /\ Wanted /\ Answered /\ UNCHANGED <<batch, loop>>
      /\ kind' = kind /\ content' = content /\ first' = first /\ target' = target
      /\ source' = source
  BY DEF TakeEvents, Answered, chainVars, othersThanSubstrate, blockVars
<1>2. /\ PipelineAt(g) /\ first <= target /\ g <= Cut(content, target)
      /\ first \in 1 .. level + 1 /\ target \in level .. MaxLevel /\ first \in Int /\ target \in Int
  BY <1>1 DEF SyncAt, Wanted, IteratorAt, ByPipeline
<1>3. PICK top \in [1 .. 4 -> Nat], low \in [1 .. 4 -> Nat] : PipedAt(g, top, low)
  BY <1>2 DEF PipelineAt
<1>4. PICK a, b : a = low[4] /\ b = top[4]
  OBVIOUS
<1>5. /\ a \in Nat /\ b \in Nat /\ a <= b /\ queues[4] = Run(a, b) /\ g = Cut(content, a)
      /\ first - 1 <= a
  BY <1>3, <1>4 DEF PipedAt
<1>6. \A s \in Stages : low[s + 1] <= low[s] /\ top[s + 1] <= top[s] /\ top[s + 1] <= low[s]
  <2> SUFFICES ASSUME NEW s \in Stages
               PROVE  low[s + 1] <= low[s] /\ top[s + 1] <= top[s] /\ top[s + 1] <= low[s]
    OBVIOUS
  <2>1. s \in 1 .. 4 /\ s + 1 \in 1 .. 4
    BY DEF Stages
  <2>2. /\ low[s + 1] \in Nat /\ low[s] \in Nat /\ top[s + 1] \in Nat /\ top[s] \in Nat
        /\ low[s + 1] <= top[s + 1] /\ low[s] <= top[s] /\ top[s + 1] <= low[s]
    BY <1>3, <2>1 DEF PipedAt
  <2> QED
    BY <2>2
<1>7. b <= target
  <2>1. 1 \in Stages /\ 2 \in Stages /\ 3 \in Stages /\ 1 + 1 = 2 /\ 2 + 1 = 3 /\ 3 + 1 = 4
    BY DEF Stages
  <2>2. top[2] <= top[1] /\ top[3] <= top[2] /\ top[4] <= top[3]
    BY <1>6, <2>1
  <2>3. top[1] \in Nat /\ top[2] \in Nat /\ top[3] \in Nat /\ top[4] \in Nat /\ top[1] = target
    BY <1>3 DEF PipedAt
  <2> QED
    BY <1>4, <2>2, <2>3
<1>8. CASE queues[4] # <<>>
  <2>1. PICK l : l = a + 1
    OBVIOUS
  <2>0. a # b
    <3>1. Run(a, b) = <<>> <=> a = b
      BY <1>5, RunIs
    <3> QED
      BY <1>5, <1>8, <3>1
  <2>2. a < b /\ l \in Nat /\ l <= b /\ l <= target /\ l - 1 = a /\ l \in Int
    BY <1>2, <1>5, <1>7, <2>0, <2>1
  <2>3. Head(queues[4]) = l /\ Tail(queues[4]) = Run(l, b)
    <3>1. Head(Run(a, b)) = a + 1
      BY <1>5, <2>2 DEF Run
    <3>2. Tail(Run(a, b)) = Run(a + 1, b)
      <4>1. SubSeq(Run(a, b), 2, Len(Run(a, b))) = Run(a + 1, b)
        <5>1. 1 \in 0 .. b - a /\ 1 + 1 = 2
          BY <1>5, <2>2
        <5>2. \A n \in 0 .. b - a : SubSeq(Run(a, b), n + 1, Len(Run(a, b))) = Run(a + n, b)
          BY ZenonT(40), <1>5, RunSplit
        <5> QED
          BY <5>1, <5>2
      <4>2. Run(a, b) \in Seq(Int)
        BY <1>5, RunIs
      <4>3. \A q \in Seq(Int) : Tail(q) = SubSeq(q, 2, Len(q))
        OBVIOUS
      <4> QED
        BY <4>1, <4>2, <4>3
    <3> QED
      BY <1>5, <2>1, <3>1, <3>2
  <2>4. PICK h : h = Cut(content, l)
    OBVIOUS
  <2>5. h \in Nat /\ h <= Cut(content, target) /\ g <= h
    BY SMTT(30), <1>2, <1>5, <2>2, <2>4, Cuts
  <2>6. InOrder({i \in Items : content[i] = l}) = Run(g, h)
    <3>1. ItemsIn(l, l) = Run(g, h)
      BY <1>5, <2>2, <2>4, ItemsInIs
    <3>2. {i \in Items : content[i] \in l .. l} = {i \in Items : content[i] = l}
      BY <2>2, ChainIs
    <3> QED
      BY <3>1, <3>2 DEF ItemsIn
  <2>7. /\ Receive(Run(g, h), FALSE) /\ queues' = [queues EXCEPT ![4] = Tail(@)]
    BY <1>8, <2>3, <2>6 DEF TakeEvents
  <2>8. PICK low2 : low2 = [low EXCEPT ![4] = l]
    OBVIOUS
  <2>9. low2 \in [1 .. 4 -> Nat] /\ low2[4] = l /\ \A q \in 1 .. 4 : q # 4 => low2[q] = low[q]
    BY <2>2, <2>8
  <2>10. /\ queues'[4] = Run(l, b) /\ (\A q \in 1 .. 4 : q # 4 => queues'[q] = queues[q])
         /\ queues' = [q \in 1 .. 4 |-> queues'[q]]
    <3>1. DOMAIN queues = 1 .. 4 /\ queues = [q \in 1 .. 4 |-> queues[q]]
      BY <1>2 DEF PipelineAt
    <3>2. PICK q4 : q4 = Run(l, b)
      OBVIOUS
    <3>3. queues' = [queues EXCEPT ![4] = q4]
      BY <2>3, <2>7, <3>2
    <3>4. DOMAIN queues' = 1 .. 4 /\ queues'[4] = q4
      BY <3>1, <3>3
    <3>5. \A q \in 1 .. 4 : q # 4 => queues'[q] = queues[q]
      BY <3>1, <3>3
    <3>6. queues' = [q \in 1 .. 4 |-> queues'[q]]
      BY <3>1, <3>3
    <3> QED
      BY <3>2, <3>4, <3>5, <3>6
  <2>11. queues' \in [1 .. 4 -> Seq(Int)]
    <3>1. Run(l, b) \in Seq(Int) /\ queues \in [1 .. 4 -> Seq(Int)]
      BY <1>2, <1>5, <2>2, RunIs DEF PipelineAt
    <3>2. \A q \in 1 .. 4 : queues'[q] \in Seq(Int)
      BY <2>10, <3>1
    <3> QED
      BY <2>10, <3>2
  <2>12. PipedAt(h, top, low2)'
    <3>1. top[1] = target' /\ first' - 1 <= low2[4] /\ h = Cut(content', low2[4])
      <4>1. top[1] = target
        BY <1>3 DEF PipedAt
      <4> QED
        BY <1>1, <1>2, <1>5, <2>1, <2>4, <2>9, <4>1
    <3>2. ASSUME NEW q \in 1 .. 4 PROVE low2[q] <= top[q] /\ queues'[q] = Run(low2[q], top[q])
      <4>1. CASE q = 4
        BY <1>4, <2>2, <2>9, <2>10, <4>1
      <4>2. CASE q # 4
        BY <1>3, <2>9, <2>10, <4>2 DEF PipedAt
      <4> QED
        BY <4>1, <4>2
    <3>3. ASSUME NEW q \in Stages
          PROVE  top[q + 1] <= low2[q] /\ batch'[q] = Run(top[q + 1], low2[q])
      <4>1. q # 4 /\ q \in 1 .. 4
        BY DEF Stages
      <4> QED
        BY <1>1, <1>3, <2>9, <4>1 DEF PipedAt
    <3> QED
      BY <3>1, <3>2, <3>3 DEF PipedAt
  <2>13. PipelineAt(h)'
    <3>1. \E t, w \in [1 .. 4 -> Nat] : PipedAt(h, t, w)'
      BY <2>9, <2>12
    <3> QED
      BY <1>1, <1>2, <2>11, <3>1 DEF PipelineAt
  <2>14. IteratorAt(h)'
    BY <1>1, <2>13 DEF IteratorAt, PagedKinds, ByChannels, ByPipeline
  <2> QED
    BY <1>1, <2>5, <2>7, <2>14, Receives
<1>9. CASE queues[4] = <<>>
  <2>1. Receive(<<>>, TRUE) /\ \A s \in Stages : loop[s] = "done" /\ queues[s] = <<>>
    BY <1>9 DEF TakeEvents
  <2>2. \A s \in Stages : batch[s] = <<>>
    BY <1>2, <2>1 DEF PipelineAt
  <2>3. \A s \in Stages : low[s] = top[s] /\ top[s + 1] = low[s]
    <3> SUFFICES ASSUME NEW s \in Stages PROVE low[s] = top[s] /\ top[s + 1] = low[s]
      OBVIOUS
    <3>1. s \in 1 .. 4 /\ s + 1 \in 1 .. 4
      BY DEF Stages
    <3>2. /\ low[s] \in Nat /\ top[s] \in Nat /\ top[s + 1] \in Nat
          /\ low[s] <= top[s] /\ top[s + 1] <= low[s]
          /\ Run(low[s], top[s]) = <<>> /\ Run(top[s + 1], low[s]) = <<>>
      BY <1>3, <2>1, <2>2, <3>1 DEF PipedAt
    <3>3. \A m, n \in Nat : m <= n /\ Run(m, n) = <<>> => m = n
      BY RunIs
    <3> QED
      BY <3>2, <3>3
  <2>4. a = b
    BY <1>5, <1>9, RunIs
  <2>5. a = target
    <3>1. 1 \in Stages /\ 2 \in Stages /\ 3 \in Stages /\ 1 + 1 = 2 /\ 2 + 1 = 3 /\ 3 + 1 = 4
      BY DEF Stages
    <3>2. top[2] = top[1] /\ top[3] = top[2] /\ top[4] = top[3] /\ top[1] = target
      BY <1>3, <2>3, <3>1 DEF PipedAt
    <3> QED
      BY <1>4, <2>4, <3>2
  <2>6. <<>> = Run(g, g) /\ g = Cut(content, target)
    BY <1>5, <2>5, RunIs
  <2>7. Receive(Run(g, g), TRUE)
    BY <2>1, <2>6
  <2> QED
    BY <1>1, <1>2, <2>6, <2>7, Receives
<1> QED
  BY <1>8, <1>9

(* _synchronize of a kind with Subsquid whose node is read block by block,  *)
(* or by the pipeline.                                                      *)
LEMMA SynchronizeBlocksKeeps ==
  ASSUME FetcherAssumption, Ordinary, ChainInv, IndexInv,
         SynchronizeEvmEvents \/ SynchronizeEvmTransactions \/ SynchronizeSubstrate
  PROVE  \E g \in Nat : SyncAt(g)'
<1>1. /\ StartBlocks /\ kind \in {"evm_events", "evm_transactions", "substrate"}
      /\ kind = "substrate" /\ source' = "node" => QueueLevels
  BY DEF SynchronizeEvmEvents, SynchronizeEvmTransactions, SynchronizeSubstrate
<1>2. ASSUME NEW to \in level .. MaxLevel, NEW g \in Nat, StartFetcher(to), g = Cut(content, level)
      PROVE  /\ ByPipeline' => PipelineAt(g)'
             /\ ByChannels' /\ level < to => ChannelsAt(g)'
  <2>1. kind' = kind
    BY <1>2 DEF StartFetcher, chainVars
  <2>2. ~ByChannels'
    BY <1>1, <2>1 DEF ByChannels
  <2>3. ByPipeline' => QueueLevels
    BY <1>1, <2>1 DEF ByPipeline
  <2> QED
    BY <1>2, <2>2, <2>3, PipelineStarts
<1>3. kind \in SubsquidKinds
  BY <1>1 DEF SubsquidKinds
<1> QED
  BY <1>1, <1>2, <1>3, StartsBlocks
-----------------------------------------------------------------------------

(* Channels.                                                                *)

(* Sets of items are finite.                                                *)
LEMMA SubsetOfItems ==
  ASSUME NEW n \in Nat, NEW S, S \subseteq 1 .. n
  PROVE  IsFiniteSet(S) /\ Cardinality(S) \in Nat
<1>1. IsFiniteSet(1 .. n)
  BY FS_Interval
<1>2. IsFiniteSet(S)
  BY <1>1, FS_Subset
<1> QED
  BY <1>2, FS_CardinalityType

(* The first k members of a set.                                            *)
LEMMA FirstOfIs ==
  ASSUME NEW n \in Nat, NEW S, S \subseteq 1 .. n, NEW k \in Nat
  PROVE  /\ FirstOf(S, k) \subseteq S
         /\ \A i \in FirstOf(S, k), j \in S : j <= i => j \in FirstOf(S, k)
         /\ Cardinality(FirstOf(S, k)) < k => FirstOf(S, k) = S
<1> DEFINE below(i) == {j \in S : j <= i}
<1>1. PICK F : F = FirstOf(S, k)
  OBVIOUS
<1>2. \A i : i \in F <=> i \in S /\ Cardinality(below(i)) <= k
  BY <1>1 DEF FirstOf
<1>3. \A i : below(i) \subseteq 1 .. n /\ IsFiniteSet(below(i)) /\ Cardinality(below(i)) \in Nat
  <2> SUFFICES ASSUME NEW i
               PROVE  below(i) \subseteq 1 .. n /\ IsFiniteSet(below(i))
                      /\ Cardinality(below(i)) \in Nat
    OBVIOUS
  <2>1. below(i) \subseteq 1 .. n
    OBVIOUS
  <2> HIDE DEF below
  <2> QED
    BY <2>1, SubsetOfItems
<1>0. \A m \in S : m \in Nat /\ m \in Int
  OBVIOUS
<1>4. ASSUME NEW i \in F, NEW j \in S, j <= i PROVE j \in F
  <2>1. below(j) \subseteq below(i)
    <3>1. i \in S
      BY <1>2
    <3>2. \A m \in S : m <= j => m <= i
      BY <1>0, <1>4, <3>1
    <3> QED
      BY <3>2
  <2>2. Cardinality(below(j)) <= Cardinality(below(i)) /\ Cardinality(below(j)) \in Nat
        /\ Cardinality(below(i)) \in Nat /\ Cardinality(below(i)) <= k
    <3> HIDE DEF below
    <3> QED
      BY <1>2, <1>3, <2>1, FS_Subset
  <2>3. Cardinality(below(j)) <= k
    <3> HIDE DEF below
    <3> QED
      BY <2>2
  <2> QED
    BY <1>2, <2>3
<1>5. ASSUME Cardinality(F) < k, F # S PROVE FALSE
  <2>1. S \ F # {} /\ S \ F \subseteq Nat
    <3>1. F \subseteq S
      BY <1>2
    <3> QED
      BY <1>0, <1>5, <3>1
  <2>2. PICK m \in S \ F : \A j \in S \ F : m <= j
    BY <2>1, LeastNat
  <2>3. below(m) = F \cup {m}
    <3>1. \A j \in F : j <= m
      <4> SUFFICES ASSUME NEW j \in F, ~(j <= m) PROVE FALSE
        OBVIOUS
      <4>0. j \in S /\ m \in S
        BY <1>2, <2>2
      <4>1. j \in Int /\ m \in Int /\ m \in S
        BY <1>0, <4>0
      <4>2. m <= j
        BY <4>1
      <4> QED
        BY <1>4, <2>2, <4>1, <4>2
    <3>2. \A j \in S : j <= m => j \in F \/ j = m
      BY <2>2
    <3> QED
      BY <1>2, <2>2, <3>1, <3>2
  <2>4. F \subseteq 1 .. n /\ m \notin F
    BY <1>2, <2>2
  <2>5. IsFiniteSet(F) /\ Cardinality(F) \in Nat
    BY <2>4, SubsetOfItems
  <2>6. Cardinality(F \cup {m}) = Cardinality(F) + 1
    BY <2>4, <2>5, FS_AddElement
  <2>7. Cardinality(below(m)) <= k
    <3> HIDE DEF below
    <3> QED
      BY <1>5, <2>3, <2>5, <2>6
  <2> QED
    BY <1>2, <2>2, <2>7
<1> QED
  BY <1>1, <1>2, <1>4, <1>5

(* A set of items that has all before each of its members is of the first.  *)
LEMMA PrefixIs ==
  ASSUME NEW n \in Nat, NEW Q, Q \subseteq 1 .. n, \A i \in Q, j \in 1 .. n : j <= i => j \in Q
  PROVE  \E h \in 0 .. n : Q = 1 .. h
<1>1. CASE Q = {}
  <2>1. 0 \in 0 .. n /\ 1 .. 0 = {}
    OBVIOUS
  <2> QED
    BY <1>1, <2>1
<1>2. CASE Q # {}
  <2>1. Q \subseteq Nat /\ \A m \in Q : m <= n
    OBVIOUS
  <2>2. Max(Q) \in Q /\ \A m \in Q : m <= Max(Q)
    BY <1>2, <2>1, MaxIs
  <2>3. PICK h : h = Max(Q)
    OBVIOUS
  <2>4. h \in Q /\ h \in 1 .. n /\ \A m \in Q : m <= h
    BY <2>2, <2>3
  <2>5. Q = 1 .. h
    <3>1. \A j \in 1 .. h : j \in 1 .. n /\ j <= h
      BY <2>4
    <3>2. \A m \in Q : m \in 1 .. n /\ m \in 1 .. h
      BY <2>4
    <3> QED
      BY <2>4, <3>1, <3>2
  <2> QED
    BY <2>4, <2>5
<1> QED
  BY <1>1, <1>2

(* What can be expected of an answer [page, head, offset] to channel c: the *)
(* next items, and all of the levels up to the head, but for the part of    *)
(* the last that no other channel can have returned something of.           *)
Proper(c, a) ==
  /\ a.page \subseteq Remaining(c) /\ a.head \in heads[c] .. target /\ a.offset \in Nat
  /\ \A i \in Returns(c) :
       (i <= a.offset \/ a.head = target) <=> (i <= offsets[c] \/ i \in a.page)
  /\ \A i \in Returns(c) : content[i] <= a.head =>
       \/ i <= offsets[c] \/ i \in a.page
       \/ kind = "starknet" /\ content[i] = a.head /\ ~Shared(content[i])

(* What a channel that is behind has not returned is not below its head.    *)
LEMMA RemainingIs ==
  ASSUME ChainInv, NEW g \in Nat, ChannelsAt(g), target \in Nat, first \in Nat,
         NEW c \in Channels, heads[c] < target
  PROVE  /\ Remaining(c) \subseteq Returns(c) /\ Returns(c) \subseteq 1 .. Len(content)
         /\ \A i \in Returns(c) : /\ i \in Nat /\ i \in Items /\ content[i] \in Nat
                                  /\ content[i] <= target /\ first <= content[i]
                                  /\ c \in routes[i] /\ InRange(i)
                                  /\ i \in Remaining(c) <=> ~(i <= offsets[c])
         /\ \A i \in Remaining(c) : heads[c] <= content[i]
         /\ heads[c] \in Nat /\ offsets[c] \in Nat
<1>1. /\ Items = 1 .. Len(content) /\ Len(content) \in Nat
      /\ \A i \in Items : i \in Nat /\ content[i] \in Nat
  <2>1. /\ Items = 1 .. Len(content) /\ Len(content) \in Nat
        /\ \A i \in Items : content[i] \in Levels
    BY ChainIs
  <2> QED
    BY <2>1 DEF Levels
<1>2. heads[c] \in Nat /\ offsets[c] \in Nat
  BY DEF ChannelsAt
<1>3. \A i \in Returns(c) : /\ i \in Items /\ c \in routes[i] /\ InRange(i)
                            /\ content[i] <= target /\ first <= content[i]
  BY <1>1 DEF Returns, InRange
<1>4. \A i \in Returns(c) : i \in Remaining(c) <=> ~(i <= offsets[c])
  BY <1>1, <1>2, <1>3 DEF Remaining
<1>5. Remaining(c) \subseteq Returns(c)
  BY DEF Remaining
<1>6. ASSUME NEW i \in Remaining(c) PROVE heads[c] <= content[i]
  <2>1. i \in Returns(c) /\ ~(i <= offsets[c]) /\ content[i] \in Nat
    BY <1>1, <1>3, <1>4, <1>5
  <2>2. ~Received(c, i)
    BY <1>2, <2>1 DEF Received
  <2>3. content[i] <= heads[c] => content[i] = heads[c]
    BY <2>1, <2>2 DEF ChannelsAt
  <2> QED
    BY <1>2, <2>1, <2>3
<1> QED
  BY <1>1, <1>2, <1>3, <1>4, <1>5, <1>6

(* Pages of operations are proper as long as no level needs more than one.  *)
LEMMA OperationPagesAre ==
  ASSUME FetcherAssumption, ChainInv, NEW g \in Nat, ChannelsAt(g), target \in Nat, first \in Nat,
         NEW c \in Channels, heads[c] < target, kind = "operations",
         NEW a \in OperationPages(c)
  PROVE  Proper(c, a)
<1>1. PICK rest : rest = Remaining(c)
  OBVIOUS
<1>2. PICK page : page = FirstOf(rest, PageSize)
  OBVIOUS
<1>3. /\ rest \subseteq Returns(c) /\ Returns(c) \subseteq 1 .. Len(content)
      /\ \A i \in Returns(c) : /\ i \in Nat /\ i \in Items /\ content[i] \in Nat
                               /\ content[i] <= target /\ first <= content[i] /\ c \in routes[i]
                               /\ i \in rest <=> ~(i <= offsets[c])
      /\ \A i \in rest : heads[c] <= content[i]
      /\ heads[c] \in Nat /\ offsets[c] \in Nat /\ Len(content) \in Nat
      /\ Sorted(content) /\ Items = 1 .. Len(content) /\ PageSize \in Nat /\ PageSize > 0
  BY <1>1, RemainingIs, ChainIs DEF FetcherAssumption
<1>4. /\ page \subseteq rest /\ (\A i \in page, j \in rest : j <= i => j \in page)
      /\ Cardinality(page) < PageSize => page = rest
      /\ IsFiniteSet(page) /\ Cardinality(page) \in Nat
  <2>1. rest \subseteq 1 .. Len(content)
    BY <1>3
  <2>2. /\ page \subseteq rest /\ (\A i \in page, j \in rest : j <= i => j \in page)
        /\ Cardinality(page) < PageSize => page = rest
    BY <1>2, <1>3, <2>1, FirstOfIs
  <2>3. page \subseteq 1 .. Len(content)
    BY <2>1, <2>2
  <2>4. IsFiniteSet(page) /\ Cardinality(page) \in Nat
    BY <1>3, <2>3, SubsetOfItems
  <2> QED
    BY <2>2, <2>4
<1>5. a = IF Cardinality(page) < PageSize
            THEN [page |-> page, head |-> target, offset |-> offsets[c]]
            ELSE [page |-> page, head |-> get_operations_head(page), offset |-> Max(page)]
  BY <1>1, <1>2 DEF OperationPages
<1>6. CASE Cardinality(page) < PageSize
  <2>1. a.page = rest /\ a.head = target /\ a.offset = offsets[c]
    BY <1>4, <1>5, <1>6
  <2>2. a.head \in heads[c] .. target
    BY <1>3, <2>1
  <2> QED
    BY <1>1, <1>3, <2>1, <2>2 DEF Proper
<1>7. CASE ~(Cardinality(page) < PageSize)
  <2>1. PICK m, head : m = Max(page) /\ head = get_operations_head(page)
    OBVIOUS
  <2>2. a.page = page /\ a.head = head /\ a.offset = m
    BY <1>5, <1>7, <2>1
  <2>3. page # {}
    BY <1>3, <1>7, FS_EmptySet
  <2>4. m \in page /\ \A i \in page : i <= m
    <3>1. page \subseteq Nat /\ \A i \in page : i <= Len(content)
      BY <1>3, <1>4
    <3> QED
      BY <1>3, <2>1, <2>3, <3>1, MaxIs
  <2>5. /\ m \in rest /\ m \in Nat /\ m \in Items /\ content[m] \in Nat /\ content[m] <= target
        /\ \A i \in rest : i \in page <=> i <= m
    BY <1>3, <1>4, <2>4
  <2>6. \A i \in page : content[i] <= content[m]
    BY <1>3, <1>4, <2>4, <2>5 DEF Sorted
  <2>7. Max(LevelsOf(page)) = content[m]
    <3>1. LevelsOf(page) \subseteq Nat /\ content[m] \in LevelsOf(page)
          /\ \A l \in LevelsOf(page) : l <= content[m]
      BY <1>3, <1>4, <2>4, <2>6 DEF LevelsOf
    <3>2. Max(LevelsOf(page)) \in LevelsOf(page)
          /\ \A l \in LevelsOf(page) : l <= Max(LevelsOf(page))
      BY <2>5, <3>1, MaxIs
    <3> QED
      BY <2>5, <3>1, <3>2
  <2>8. \/ head = content[m] /\ LevelsOf(page) = {content[m]}
        \/ head \in LevelsOf(page) /\ head < content[m]
    <3>1. CASE LevelsOf(page) = {content[m]}
      BY <2>1, <2>7, <3>1 DEF get_operations_head
    <3>2. CASE LevelsOf(page) # {content[m]}
      <4>1. PICK others : others = LevelsOf(page) \ {content[m]}
        OBVIOUS
      <4>2. head = Max(others)
        BY <2>1, <2>7, <3>2, <4>1 DEF get_operations_head
      <4>3. others # {} /\ others \subseteq Nat
            /\ \A l \in others : l <= content[m] /\ l # content[m]
        BY <1>3, <1>4, <2>4, <2>6, <3>2, <4>1 DEF LevelsOf
      <4>4. head \in others
        BY <2>5, <4>2, <4>3, MaxIs
      <4>5. head \in Nat /\ head <= content[m] /\ head # content[m]
        BY <4>3, <4>4
      <4> QED
        BY <2>5, <4>1, <4>4, <4>5
    <3> QED
      BY <3>1, <3>2
  <2>9. /\ head \in Nat /\ heads[c] <= head /\ head <= content[m] /\ head <= target
    <3>1. head \in LevelsOf(page) /\ head <= content[m]
      <4>1. content[m] \in LevelsOf(page) /\ content[m] <= content[m]
        BY <2>4, <2>5 DEF LevelsOf
      <4>2. \A l \in LevelsOf(page) : l \in Nat
        BY <1>3, <1>4 DEF LevelsOf
      <4> QED
        BY <2>5, <2>8, <4>1, <4>2
    <3>2. PICK i \in page : head = content[i]
      BY <3>1 DEF LevelsOf
    <3>3. i \in rest /\ i \in Returns(c)
      BY <1>3, <1>4, <3>2
    <3> QED
      BY <1>3, <2>5, <3>1, <3>2, <3>3
  <2>10. ASSUME NEW i \in Returns(c), ~(i <= m), head = content[m], content[i] = content[m]
         PROVE  FALSE
    <3>1. LevelsOf(page) = {content[m]}
      BY <2>5, <2>8, <2>10
    <3>2. PICK L : L = {j \in Items : content[j] = content[m] /\ c \in routes[j]}
      OBVIOUS
    <3>3. page \subseteq L
      BY <1>3, <1>4, <3>1, <3>2 DEF LevelsOf
    <3>4. L \subseteq 1 .. Len(content)
      BY <1>3, <3>2
    <3>5. IsFiniteSet(L) /\ Cardinality(L) \in Nat
      BY <1>3, <3>4, SubsetOfItems
    <3>6. Cardinality(L) <= PageSize
      <4>1. content[m] \in Levels
        BY <2>5, ChainIs
      <4>2. LevelsFitPages
        BY DEF ChainInv, MergedKinds
      <4> QED
        BY <3>2, <4>1, <4>2 DEF LevelsFitPages
    <3>7. page = L
      <4>1. page \in SUBSET L /\ Cardinality(page) <= Cardinality(L)
            /\ (Cardinality(L) = Cardinality(page) => L = page)
        BY <3>3, <3>5, FS_Subset
      <4> QED
        BY <1>3, <1>4, <1>7, <3>5, <3>6, <4>1
    <3>8. i \in L
      BY <1>3, <2>10, <3>2
    <3> QED
      BY <2>4, <2>10, <3>7, <3>8
  <2>11. ASSUME NEW i \in Returns(c), ~(i <= m) PROVE ~(content[i] <= head)
    <3>1. content[m] <= content[i] /\ content[i] \in Nat
      BY <1>3, <2>5, <2>11 DEF Sorted
    <3> QED
      BY <2>5, <2>9, <2>10, <2>11, <3>1
  <2>12. \A i \in Returns(c) : i <= m <=> i <= offsets[c] \/ i \in page
    <3>1. ~(m <= offsets[c])
      BY <1>3, <2>5
    <3> QED
      BY <1>3, <2>5, <3>1
  <2>13. head = target => \A i \in Returns(c) : i <= m
    BY <1>3, <2>11
  <2>14. page \subseteq Remaining(c)
    BY <1>1, <1>4
  <2>15. head \in heads[c] .. target
    BY <1>3, <2>9
  <2>16. \A i \in Returns(c) : i <= m \/ head = target <=> i <= offsets[c] \/ i \in page
    BY <2>12, <2>13
  <2>17. \A i \in Returns(c) : content[i] <= head => i <= offsets[c] \/ i \in page
    BY <2>11, <2>12
  <2> QED
    BY <2>2, <2>5, <2>14, <2>15, <2>16, <2>17 DEF Proper
<1> QED
  BY <1>6, <1>7

(* So are chunks of events, wherever they may be cut.                       *)
LEMMA EventChunksAre ==
  ASSUME Ordinary, FetcherAssumption, ChainInv, NEW g \in Nat, ChannelsAt(g),
         target \in Nat, first \in Nat,
         NEW c \in Channels, heads[c] < target, kind = "starknet",
         NEW a \in EventChunks(c)
  PROVE  Proper(c, a)
<1>1. PICK rest : rest = Remaining(c)
  OBVIOUS
<1>2. /\ rest \subseteq Returns(c) /\ Returns(c) \subseteq 1 .. Len(content)
      /\ \A i \in Returns(c) : /\ i \in Nat /\ i \in Items /\ content[i] \in Nat
                               /\ content[i] <= target /\ first <= content[i] /\ c \in routes[i]
                               /\ i \in rest <=> ~(i <= offsets[c])
      /\ \A i \in rest : heads[c] <= content[i]
      /\ heads[c] \in Nat /\ offsets[c] \in Nat /\ Len(content) \in Nat
      /\ Sorted(content) /\ Items = 1 .. Len(content) /\ PageSize \in Nat
  BY <1>1, RemainingIs, ChainIs DEF FetcherAssumption
<1>3. CASE a = [page |-> rest, head |-> target, offset |-> 0]
  <2>1. a.page = rest /\ a.head = target /\ a.offset = 0
    BY <1>3
  <2>2. a.head \in heads[c] .. target
    BY <1>2, <2>1
  <2> QED
    BY <1>1, <1>2, <2>1, <2>2 DEF Proper
<1>4. ASSUME NEW m \in FirstOf(rest, PageSize), \E i \in rest : i > m, Whole(c, m),
             a = [page |-> {i \in rest : i <= m}, head |-> content[m], offset |-> m]
      PROVE  Proper(c, a)
  <2>1. PICK page : page = {i \in rest : i <= m}
    OBVIOUS
  <2>2. a.page = page /\ a.head = content[m] /\ a.offset = m
    BY <1>4, <2>1
  <2>3. m \in rest /\ m \in Returns(c) /\ m \in Nat /\ m \in Items /\ content[m] \in Nat
        /\ content[m] <= target /\ ~(m <= offsets[c]) /\ heads[c] <= content[m]
    <3>1. m \in rest
      BY DEF FirstOf
    <3> QED
      BY <1>2, <3>1
  <2>4. content[m] # target
    <3> SUFFICES ASSUME content[m] = target PROVE FALSE
      OBVIOUS
    <3>1. PICK i \in rest : i > m
      BY <1>4
    <3>2. i \in Returns(c) /\ i \in Nat /\ i \in Items /\ content[i] \in Nat /\ content[i] <= target
      BY <1>2, <3>1
    <3>3. content[m] <= content[i]
      BY <1>2, <2>3, <3>1, <3>2 DEF Sorted
    <3>4. content[i] = content[m]
      BY <2>3, <3>2, <3>3
    <3> QED
      BY <1>1, <1>4, <3>1, <3>4 DEF Whole
  <2>5. ASSUME NEW i \in Returns(c), content[i] <= content[m], ~(i <= m)
        PROVE  content[i] = content[m] /\ ~Shared(content[m])
    <3>1. i \in Nat /\ i \in Items /\ content[i] \in Nat /\ i > m
      BY <1>2, <2>3, <2>5
    <3>2. content[m] <= content[i]
      BY <1>2, <2>3, <3>1 DEF Sorted
    <3>3. content[i] = content[m]
      BY <2>3, <2>5, <3>1, <3>2
    <3>4. i \in rest
      BY <1>2, <2>3, <2>5, <3>1
    <3> QED
      BY <1>1, <1>4, <3>1, <3>3, <3>4 DEF Whole
  <2>6. \A i \in Returns(c) : i <= m <=> i <= offsets[c] \/ i \in page
    BY <1>2, <2>1, <2>3
  <2>7. \A i \in Returns(c) : content[i] <= content[m] =>
          i <= offsets[c] \/ i \in page \/ (content[i] = content[m] /\ ~Shared(content[m]))
    BY <2>5, <2>6
  <2>8. page \subseteq Remaining(c) /\ content[m] \in heads[c] .. target
    BY <1>1, <1>2, <2>1, <2>3
  <2> QED
    BY <2>2, <2>3, <2>4, <2>6, <2>7, <2>8 DEF Proper
<1>5. "torn_level" \notin Hazards
  BY DEF Ordinary
<1> QED
  BY <1>1, <1>3, <1>4, <1>5 DEF EventChunks

(* Less than nine events of a level are sorted by their number.             *)
LEMMA BeforeIs ==
  ASSUME Ordinary, ChainInv, Len(content) < 9,
         NEW i \in 1 .. Len(content), NEW j \in 1 .. Len(content)
  PROVE  Before(i, j) <=> i <= j
<1>1. /\ content \in Seq(Int) /\ Sorted(content) /\ Len(content) \in Nat
      /\ \A k \in 1 .. Len(content) : content[k] \in Int
  <2>1. content \in Seq(Int) /\ Sorted(content) /\ Len(content) \in Nat
    BY ChainIs
  <2> QED
    BY <2>1
<1>2. ASSUME NEW k \in 1 .. Len(content)
      PROVE  LET p == Cut(content, content[k] - 1)
             IN p \in Nat /\ p < k /\ TextOrder(TransactionIndex(k)) = 100 * (k - p + 1)
  <2>1. PICK p : p = Cut(content, content[k] - 1)
    OBVIOUS
  <2>2. content[k] - 1 \in Int /\ content[k] \in Int /\ k \in Nat
    BY <1>1
  <2>3. p \in 0 .. Len(content) /\ p \in Nat /\ IsCut(content, content[k] - 1, p)
    BY <2>1, <2>2, Cuts
  <2>4. p < k
    BY <2>2, <2>3 DEF IsCut
  <2>5. {m \in 1 .. k : content[m] = content[k]} = {m \in p + 1 .. k : m <= k}
    <3>1. ASSUME NEW m \in 1 .. k PROVE content[m] = content[k] <=> m \in p + 1 .. k
      <4>1. m \in 1 .. Len(content) /\ m \in Nat /\ m <= k
        BY <1>1, <2>2
      <4>2. content[m] <= content[k] /\ content[m] \in Int
        BY <1>1, <2>2, <4>1 DEF Sorted
      <4>3. content[m] <= content[k] - 1 <=> m <= p
        BY <2>3, <4>1 DEF IsCut
      <4> QED
        BY <2>2, <2>3, <4>1, <4>2, <4>3
    <3>2. \A m \in p + 1 .. k : m \in 1 .. k /\ m <= k
      BY <2>3
    <3> QED
      BY <3>1, <3>2
  <2>6. Cardinality({m \in 1 .. k : content[m] = content[k]}) = k - p
    <3>1. k \in p + 1 .. k
      BY <2>2, <2>3, <2>4
    <3>2. Cardinality({m \in p + 1 .. k : m <= k}) = k - p
      BY <2>2, <2>3, <3>1, RankInInterval
    <3> QED
      BY <2>5, <3>2
  <2>7. TransactionIndex(k) = k - p + 1
    <3>1. "two_digits" \notin Hazards
      BY DEF Ordinary
    <3> QED
      BY <2>6, <3>1 DEF TransactionIndex
  <2>8. k - p + 1 < 10 /\ k - p + 1 \in Nat
    BY <1>1, <2>2, <2>3, <2>4
  <2>9. TextOrder(TransactionIndex(k)) = 100 * (k - p + 1)
    BY <2>7, <2>8 DEF TextOrder
  <2> QED
    BY <2>1, <2>3, <2>4, <2>9
<1>3. PICK p, q : p = Cut(content, content[i] - 1) /\ q = Cut(content, content[j] - 1)
  OBVIOUS
<1>4. /\ p \in Nat /\ p < i /\ TextOrder(TransactionIndex(i)) = 100 * (i - p + 1)
      /\ q \in Nat /\ q < j /\ TextOrder(TransactionIndex(j)) = 100 * (j - q + 1)
  BY <1>2, <1>3
<1>5. content[i] \in Int /\ content[j] \in Int /\ i \in Nat /\ j \in Nat
  BY <1>1
<1>6. CASE content[i] < content[j]
  <2>1. ~(j <= i)
    BY <1>1, <1>5, <1>6 DEF Sorted
  <2> QED
    BY <1>5, <1>6, <2>1 DEF Before
<1>7. CASE content[i] = content[j]
  <2>1. p = q
    BY <1>3, <1>7
  <2>2. 100 * (i - p + 1) <= 100 * (j - q + 1) <=> i <= j
    BY <1>4, <1>5, <2>1
  <2>3. ~(content[i] < content[j])
    BY <1>5, <1>7
  <2> QED
    BY <1>4, <1>7, <2>2, <2>3 DEF Before
<1>8. CASE content[j] < content[i]
  <2>1. ~(i <= j)
    BY <1>1, <1>5, <1>8 DEF Sorted
  <2>2. ~(content[i] < content[j]) /\ content[i] # content[j]
    BY <1>5, <1>8
  <2> QED
    BY <2>1, <2>2 DEF Before
<1> QED
  BY <1>5, <1>6, <1>7, <1>8

(* Complete levels come out in the order of the chain.                      *)
LEMMA SortItemsIs ==
  ASSUME Ordinary, ChainInv, kind \in MergedKinds,
         NEW a \in Nat, NEW b \in Nat, a <= b, b <= Len(content)
  PROVE  SortItems(a + 1 .. b) = Run(a, b)
<1>1. CASE kind = "operations"
  BY <1>1, RunOfInterval DEF SortItems
<1>2. CASE kind = "starknet"
  <2>1. Len(content) < 9 /\ Len(content) \in Nat
    BY <1>2, ChainIs DEF ChainInv
  <2> DEFINE S == a + 1 .. b
  <2>2. Cardinality(S) = b - a
    BY CountOfInterval
  <2>3. ASSUME NEW i \in S PROVE Cardinality({j \in S : Before(j, i)}) = i - a
    <3>1. \A j \in S : j \in 1 .. Len(content)
      BY <2>1
    <3>2. \A j \in S : Before(j, i) <=> j <= i
      BY <2>1, <3>1, BeforeIs
    <3>3. {j \in S : Before(j, i)} = {j \in S : j <= i}
      <4> HIDE DEF S
      <4> QED
        BY <3>2
    <3> QED
      BY <3>3, RankInInterval
  <2>4. ASSUME NEW n \in 1 .. b - a
        PROVE  (CHOOSE i \in S : Cardinality({j \in S : Before(j, i)}) = n) = a + n
    <3>1. a + n \in S
      OBVIOUS
    <3>2. \A i \in S : Cardinality({j \in S : Before(j, i)}) = n <=> i = a + n
      BY <2>3
    <3> QED
      BY <3>1, <3>2
  <2>5. SortEvents(S) = Run(a, b)
    BY <2>2, <2>4 DEF SortEvents, Run
  <2> QED
    BY <1>2, <2>5 DEF SortItems
<1> QED
  BY <1>1, <1>2 DEF MergedKinds

(* A level one channel has nothing of is of the other alone.                *)
LEMMA AloneIs ==
  ASSUME ChainInv, NEW i \in Items, NEW j \in Items, content[i] = content[j],
         NEW c \in Channels, c \in routes[j], ~Shared(content[j])
  PROVE  routes[i] = {c}
<1>1. routes[i] \subseteq Channels /\ routes[i] # {}
  <2>1. routes[i] \in (SUBSET Channels) \ {{}}
    BY DEF ChainInv
  <2> QED
    BY <2>1
<1>2. PICK d \in Channels : \A k \in Items : content[k] = content[j] => d \notin routes[k]
  BY DEF Shared
<1>3. d # c /\ d \notin routes[i]
  BY <1>2
<1>4. Channels = {c, d}
  BY <1>3 DEF Channels
<1>5. \A e \in routes[i] : e = c
  BY <1>1, <1>3, <1>4
<1> QED
  BY <1>1, <1>5

(* What a proper answer changes: the items of the levels no channel has     *)
(* anything more for are the next ones, g + 1 up to some h.                 *)
LEMMA MergeIs ==
  ASSUME ChainInv, NEW g \in Nat, g <= Len(content), ChannelsAt(g),
         target \in Nat, first \in Nat, first <= target + 1,
         NEW c \in Channels, heads[c] < target, NEW a, Proper(c, a),
         UNCHANGED <<kind, content, routes, first, target>>,
         heads' = [heads EXCEPT ![c] = a.head], offsets' = [offsets EXCEPT ![c] = a.offset],
         NEW buf, buf = buffer \cup a.page
  PROVE  /\ \A d \in Channels : mergedHead <= heads'[d]
         /\ \A i \in buf : mergedHead <= content[i]
         /\ \E h \in Nat :
              /\ g <= h /\ h <= Cut(content, target) /\ Mergeable(heads', buf) = g + 1 .. h
              /\ (\A d \in Channels : heads'[d] >= target) =>
                   Mergeable(heads', buf) = buf /\ h = Cut(content, target)
              /\ /\ \E d \in Channels : heads'[d] < target
                 /\ buffer' = buf \ (g + 1 .. h)
                 /\ mergedHead' = IF g + 1 .. h = {} THEN mergedHead ELSE Max(LevelsOf(g + 1 .. h))
                 => ChannelsAt(h)'
<1> DEFINE rec(d, i) == i <= offsets'[d] \/ heads'[d] = target
           comp(i) == \A d \in Channels : content[i] <= heads'[d] /\ (d \in routes[i] => rec(d, i))
           Q == {i \in Items : content[i] < first \/ (InRange(i) /\ comp(i))}
<1>1. /\ Items = 1 .. Len(content) /\ Len(content) \in Nat /\ Sorted(content)
      /\ \A i \in Items : /\ i \in Nat /\ content[i] \in Nat
                          /\ routes[i] \subseteq Channels /\ routes[i] # {}
                          /\ InRange(i) <=> first <= content[i] /\ content[i] <= target
                          /\ \A d \in routes[i] : InRange(i) => i \in Returns(d)
  <2>1. /\ Items = 1 .. Len(content) /\ Len(content) \in Nat /\ Sorted(content)
        /\ \A i \in Items : content[i] \in Levels
    BY ChainIs
  <2>2. \A i \in Items : i \in Nat /\ content[i] \in Nat
    BY <2>1 DEF Levels
  <2>3. \A i \in Items : routes[i] \subseteq Channels /\ routes[i] # {}
    <3>1. \A i \in Items : routes[i] \in (SUBSET Channels) \ {{}}
      BY DEF ChainInv
    <3> QED
      BY <3>1
  <2>4. \A i \in Items : InRange(i) <=> first <= content[i] /\ content[i] <= target
    BY <2>2 DEF InRange
  <2>5. \A i \in Items : \A d \in routes[i] : InRange(i) => i \in Returns(d)
    BY DEF Returns
  <2> QED
    BY <2>1, <2>2, <2>3, <2>4, <2>5
<1>2. \A d \in Channels : \A i \in Returns(d) : i \in Items /\ InRange(i) /\ d \in routes[i]
  BY DEF Returns
<1>3. /\ Remaining(c) \subseteq Returns(c) /\ \A i \in Remaining(c) : heads[c] <= content[i]
      /\ \A i \in Returns(c) : i \in Remaining(c) <=> ~(i <= offsets[c])
      /\ heads[c] \in Nat /\ offsets[c] \in Nat
  BY RemainingIs
<1>4. /\ heads \in [Channels -> 0 .. target] /\ offsets \in [Channels -> Nat]
      /\ mergedHead \in Nat /\ \A d \in Channels : mergedHead <= heads[d]
      /\ \A d \in Channels : \A i \in Returns(d) :
           content[i] <= heads[d] =>
             \/ Received(d, i)
             \/ kind = "starknet" /\ content[i] = heads[d] /\ ~Shared(content[i])
      /\ \A i \in Items : i <= g <=> content[i] < first \/ (InRange(i) /\ Complete(i))
      /\ buffer = {i \in Items : InRange(i) /\ g < i /\ \E d \in routes[i] : Received(d, i)}
  BY DEF ChannelsAt
<1>5. /\ a.page \subseteq Remaining(c) /\ a.head \in heads[c] .. target /\ a.offset \in Nat
      /\ \A i \in Returns(c) :
           (i <= a.offset \/ a.head = target) <=> (i <= offsets[c] \/ i \in a.page)
      /\ \A i \in Returns(c) : content[i] <= a.head =>
           \/ i <= offsets[c] \/ i \in a.page
           \/ kind = "starknet" /\ content[i] = a.head /\ ~Shared(content[i])
  BY DEF Proper
<1>6. /\ heads'[c] = a.head /\ offsets'[c] = a.offset /\ a.head \in Nat /\ a.head <= target
      /\ heads[c] <= a.head
      /\ \A d \in Channels : d # c => heads'[d] = heads[d] /\ offsets'[d] = offsets[d]
      /\ heads' \in [Channels -> 0 .. target] /\ offsets' \in [Channels -> Nat]
  BY <1>3, <1>4, <1>5
<1>7. \A d \in Channels : /\ heads[d] \in Nat /\ heads'[d] \in Nat /\ heads[d] <= heads'[d]
                          /\ heads'[d] <= target /\ mergedHead <= heads'[d]
  <2>1. \A d \in Channels : heads[d] \in Nat /\ heads'[d] \in Nat /\ heads'[d] <= target
    BY <1>4, <1>6
  <2>2. \A d \in Channels : heads[d] <= heads'[d]
    BY <1>6, <2>1
  <2> QED
    BY <1>4, <2>1, <2>2
<1>8. \A d \in Channels : \A i \in Returns(d) :
        rec(d, i) <=> Received(d, i) \/ (d = c /\ i \in a.page)
  <2> SUFFICES ASSUME NEW d \in Channels, NEW i \in Returns(d)
               PROVE  rec(d, i) <=> Received(d, i) \/ (d = c /\ i \in a.page)
    OBVIOUS
  <2>1. CASE d = c
    <3>1. Received(c, i) <=> i <= offsets[c]
      BY <1>3 DEF Received
    <3> QED
      BY <1>5, <1>6, <2>1, <3>1
  <2>2. CASE d # c
    BY <1>6, <2>2 DEF Received
  <2> QED
    BY <2>1, <2>2
<1>9. \A d \in Channels : \A i \in Returns(d) :
        content[i] <= heads'[d] =>
          rec(d, i) \/ (kind = "starknet" /\ content[i] = heads'[d] /\ ~Shared(content[i]))
  <2> SUFFICES ASSUME NEW d \in Channels, NEW i \in Returns(d), content[i] <= heads'[d], ~rec(d, i)
               PROVE  kind = "starknet" /\ content[i] = heads'[d] /\ ~Shared(content[i])
    OBVIOUS
  <2>1. ~Received(d, i) /\ ~(d = c /\ i \in a.page)
    <3> HIDE DEF rec
    <3> QED
      BY <1>8
  <2>2. CASE d = c
    <3>1. ~(i <= offsets[c]) /\ content[i] <= a.head /\ i \in Returns(c) /\ i \notin a.page
      BY <1>6, <2>1, <2>2 DEF Received
    <3> QED
      BY <1>5, <1>6, <2>2, <3>1
  <2>3. CASE d # c
    BY <1>4, <1>6, <2>1, <2>3
  <2> QED
    BY <2>2, <2>3
<1>10. \A i \in Items : InRange(i) /\ Complete(i) => comp(i)
  <2> SUFFICES ASSUME NEW i \in Items, InRange(i), Complete(i), NEW d \in Channels
               PROVE  content[i] <= heads'[d] /\ (d \in routes[i] => rec(d, i))
    OBVIOUS
  <2>1. content[i] <= heads[d] /\ (d \in routes[i] => Received(d, i))
    BY DEF Complete
  <2>2. content[i] <= heads'[d]
    <3>1. content[i] \in Nat /\ heads[d] \in Nat /\ heads'[d] \in Nat /\ heads[d] <= heads'[d]
      BY <1>1, <1>7
    <3> QED
      BY <2>1, <3>1
  <2>3. d \in routes[i] => rec(d, i)
    <3> HIDE DEF rec
    <3> QED
      BY <1>1, <1>8, <2>1
  <2> QED
    BY <2>2, <2>3
<1>11. \A i \in Q, j \in 1 .. Len(content) : j <= i => j \in Q
  <2> SUFFICES ASSUME NEW i \in Q, NEW j \in 1 .. Len(content), j <= i, j \notin Q PROVE FALSE
    OBVIOUS
  <2>1. i \in Items /\ j \in Items /\ content[i] \in Nat /\ content[j] \in Nat /\ i \in Nat
        /\ j \in Nat
    BY <1>1
  <2>2. content[j] <= content[i]
    BY <1>1, <2>1 DEF Sorted
  <2>3. first <= content[j] /\ first <= content[i] /\ InRange(i) /\ comp(i)
    BY <2>1, <2>2
  <2>4. InRange(j) /\ ~comp(j)
    <3>1. content[i] <= target /\ content[j] <= target
      BY <1>1, <2>1, <2>2, <2>3
    <3>2. InRange(j)
      BY <1>1, <2>1, <2>3, <3>1
    <3> QED
      BY <2>1, <3>2
  <2>5. \A d \in Channels : content[j] <= heads'[d] /\ content[i] <= heads'[d]
    <3> SUFFICES ASSUME NEW d \in Channels PROVE content[j] <= heads'[d] /\ content[i] <= heads'[d]
      OBVIOUS
    <3>1. content[i] <= heads'[d] /\ heads'[d] \in Nat
      BY <1>7, <2>3
    <3> QED
      BY <2>1, <2>2, <3>1
  <2>6. PICK d \in Channels : d \in routes[j] /\ ~rec(d, j)
    BY <2>4, <2>5
  <2>7. kind = "starknet" /\ content[j] = heads'[d] /\ ~Shared(content[j])
    <3>1. j \in Returns(d)
      BY <1>1, <2>1, <2>4, <2>6
    <3> HIDE DEF rec
    <3> QED
      BY <1>9, <2>5, <2>6, <3>1
  <2>8. content[i] = content[j]
    BY <1>7, <2>1, <2>2, <2>5, <2>7
  <2>9. routes[i] = {d}
    BY <2>1, <2>6, <2>7, <2>8, AloneIs
  <2>10. rec(d, i)
    BY <2>3, <2>9
  <2>11. offsets'[d] \in Nat
    BY <1>6
  <2> QED
    BY <2>1, <2>6, <2>10, <2>11
<1>12. PICK h \in 0 .. Len(content) : Q = 1 .. h
  <2>1. Q \subseteq 1 .. Len(content)
    BY <1>1
  <2> HIDE DEF Q
  <2> QED
    BY <1>1, <1>11, <2>1, PrefixIs
<1>13. /\ h \in Nat /\ \A i \in Items : i <= h <=> i \in Q
       /\ g <= h
  <2>1. \A i \in Items : i <= h <=> i \in Q
    <3> HIDE DEF Q
    <3> QED
      BY <1>1, <1>12
  <2>2. g <= h
    <3> SUFFICES ASSUME ~(g <= h) PROVE FALSE
      OBVIOUS
    <3>1. h + 1 \in Items /\ h + 1 <= g /\ ~(h + 1 <= h)
      BY <1>1, <1>12
    <3>2. content[h + 1] < first \/ (InRange(h + 1) /\ comp(h + 1))
      <4>1. content[h + 1] < first \/ (InRange(h + 1) /\ Complete(h + 1))
        BY <1>4, <3>1
      <4> HIDE DEF comp
      <4> QED
        BY <1>10, <3>1, <4>1
    <3>3. h + 1 \in Q
      <4> HIDE DEF comp
      <4> QED
        BY <3>1, <3>2
    <3> QED
      BY <2>1, <3>1, <3>3
  <2> QED
    BY <1>12, <2>1, <2>2
<1>14. h <= Cut(content, target)
  <2>1. /\ Cut(content, target) \in Nat /\ IsCut(content, target, Cut(content, target))
    BY Cuts
  <2>2. CASE h = 0
    BY <2>1, <2>2
  <2>3. CASE h # 0
    <3>1. h \in Items /\ h \in 1 .. Len(content) /\ h \in Q /\ content[h] \in Nat
      <4>1. h \in Items /\ h <= h
        BY <1>1, <1>12, <2>3
      <4> HIDE DEF Q
      <4> QED
        BY <1>1, <1>13, <4>1
    <3>2. content[h] <= target
      <4>1. content[h] < first \/ InRange(h)
        BY <3>1
      <4> QED
        BY <1>1, <3>1, <4>1
    <3> QED
      BY <2>1, <3>1, <3>2 DEF IsCut
  <2> QED
    BY <2>2, <2>3
<1>15. \A i \in Items : i \in buf <=> InRange(i) /\ g < i /\ \E d \in routes[i] : rec(d, i)
  <2>1. ASSUME NEW i \in Items, i \in buf
        PROVE  InRange(i) /\ g < i /\ \E d \in routes[i] : rec(d, i)
    <3>1. CASE i \in buffer
      <4>1. InRange(i) /\ g < i
        BY <1>4, <3>1
      <4>2. PICK d \in routes[i] : Received(d, i)
        BY <1>4, <3>1
      <4>3. d \in Channels /\ i \in Returns(d)
        BY <1>1, <4>1, <4>2
      <4>4. rec(d, i)
        <5> HIDE DEF rec
        <5> QED
          BY <1>8, <4>2, <4>3
      <4> QED
        BY <4>1, <4>2, <4>4
    <3>2. CASE i \in a.page
      <4>1. i \in Returns(c) /\ ~(i <= offsets[c]) /\ InRange(i) /\ c \in routes[i]
        BY <1>2, <1>3, <1>5, <3>2
      <4>2. rec(c, i)
        <5> HIDE DEF rec
        <5> QED
          BY <1>8, <3>2, <4>1
      <4>3. ~Complete(i)
        BY <1>3, <4>1 DEF Complete, Received
      <4>4. ~(i <= g)
        BY <1>1, <1>4, <4>1, <4>3
      <4> QED
        BY <1>1, <4>1, <4>2, <4>4
    <3> QED
      BY <2>1, <3>1, <3>2
  <2>2. ASSUME NEW i \in Items, InRange(i), g < i, NEW d \in routes[i], rec(d, i) PROVE i \in buf
    <3>1. d \in Channels /\ i \in Returns(d)
      BY <1>1, <2>2
    <3>2. Received(d, i) \/ (d = c /\ i \in a.page)
      <4> HIDE DEF rec
      <4> QED
        BY <1>8, <2>2, <3>1
    <3> QED
      BY <1>4, <2>2, <3>2
  <2> QED
    BY <2>1, <2>2
<1>16. buf \subseteq Items
  <2>1. buffer \subseteq Items /\ a.page \subseteq Items
    BY <1>2, <1>3, <1>4, <1>5
  <2> QED
    BY <2>1
<1>17. \A i \in buf : mergedHead <= content[i]
  <2> SUFFICES ASSUME NEW i \in buf, ~(mergedHead <= content[i]) PROVE FALSE
    OBVIOUS
  <2>1. i \in Items /\ content[i] \in Nat /\ InRange(i)
    BY <1>1, <1>15, <1>16
  <2>2. \A d \in Channels : content[i] < heads[d]
    BY <1>4, <1>7, <2>1
  <2>3. CASE i \in a.page
    <3>1. heads[c] <= content[i]
      BY <1>3, <1>5, <2>3
    <3> QED
      BY <1>7, <2>1, <2>2, <3>1
  <2>4. CASE i \in buffer
    <3>1. g < i
      BY <1>4, <2>4
    <3>2. Complete(i)
      <4> SUFFICES ASSUME NEW d \in Channels
                   PROVE  content[i] <= heads[d] /\ (d \in routes[i] => Received(d, i))
        BY DEF Complete
      <4>1. content[i] < heads[d] /\ content[i] \in Nat /\ heads[d] \in Nat
        BY <1>7, <2>1, <2>2
      <4>2. content[i] <= heads[d] /\ content[i] # heads[d]
        BY <4>1
      <4> QED
        BY <1>1, <1>4, <2>1, <4>2
    <3>3. i <= g
      BY <1>4, <2>1, <3>2
    <3> QED
      BY <1>1, <2>1, <3>1, <3>3
  <2> QED
    BY <2>3, <2>4
<1>18. Mergeable(heads', buf) = g + 1 .. h
  <2>1. ASSUME NEW i \in buf, \A d \in Channels : content[i] <= heads'[d] PROVE i \in g + 1 .. h
    <3>1. i \in Items /\ i \in Nat /\ InRange(i) /\ g < i
      BY <1>1, <1>15, <1>16
    <3>2. PICK e \in routes[i] : rec(e, i)
      BY <1>15, <3>1
    <3>3. ASSUME NEW d \in routes[i], ~rec(d, i) PROVE FALSE
      <4>1. d \in Channels /\ i \in Returns(d)
        BY <1>1, <3>1
      <4>2. ~Shared(content[i])
        <5> HIDE DEF rec
        <5> QED
          BY <1>9, <2>1, <3>3, <4>1
      <4>3. routes[i] = {d}
        BY <3>1, <4>1, <4>2, AloneIs
      <4> QED
        BY <3>2, <3>3, <4>3
    <3>4. i \in Q
      BY <2>1, <3>1, <3>3
    <3> QED
      BY <1>12, <1>13, <3>1, <3>4
  <2>2. ASSUME NEW i \in g + 1 .. h
        PROVE  i \in buf /\ \A d \in Channels : content[i] <= heads'[d]
    <3>1. i \in Items /\ i \in Nat /\ g < i /\ i <= h
      BY <1>1, <1>12
    <3>2. i \in Q
      BY <1>13, <3>1
    <3>3. ~(content[i] < first)
      BY <1>4, <3>1
    <3>4. InRange(i) /\ comp(i)
      BY <3>2, <3>3
    <3>5. PICK d : d \in routes[i] /\ d \in Channels
      BY <1>1, <3>1
    <3>6. rec(d, i)
      BY <3>4, <3>5
    <3> QED
      BY <1>15, <3>1, <3>4, <3>5, <3>6
  <2> QED
    BY <2>1, <2>2 DEF Mergeable
<1>19. ASSUME \A d \in Channels : heads'[d] >= target
       PROVE  Mergeable(heads', buf) = buf /\ h = Cut(content, target)
  <2>1. \A d \in Channels : heads'[d] = target
    BY <1>7, <1>19
  <2>2. \A i \in buf : content[i] <= target
    BY <1>1, <1>15, <1>16
  <2>3. Mergeable(heads', buf) = buf
    BY <2>1, <2>2 DEF Mergeable
  <2>4. ASSUME NEW i \in 1 .. Len(content) PROVE content[i] <= target <=> i <= h
    <3>1. i \in Items /\ content[i] \in Nat
      BY <1>1
    <3>2. content[i] <= target <=> content[i] < first \/ InRange(i)
      BY <1>1, <3>1
    <3>3. content[i] <= target => comp(i)
      BY <2>1
    <3>4. i \in Q <=> content[i] <= target
      <4> HIDE DEF comp
      <4> QED
        BY <3>1, <3>2, <3>3
    <3> QED
      BY <1>13, <3>1, <3>4
  <2>5. h = Cut(content, target)
    <3>1. content \in Seq(Int) /\ target \in Int /\ IsCut(content, target, h)
      BY <2>4, ChainIs DEF IsCut
    <3> QED
      BY <3>1, CutUnique
  <2> QED
    BY <2>3, <2>5
<1>20. ASSUME \E d \in Channels : heads'[d] < target, buffer' = buf \ (g + 1 .. h),
              mergedHead' = IF g + 1 .. h = {} THEN mergedHead ELSE Max(LevelsOf(g + 1 .. h))
       PROVE  ChannelsAt(h)'
  <2>1. Items' = Items /\ target' = target /\ first' = first /\ kind' = kind /\ content' = content
        /\ routes' = routes
    BY DEF Items
  <2>2. \A i : InRange(i)' <=> InRange(i)
    BY DEF InRange
  <2>3. \A d, i : Received(d, i)' <=> rec(d, i)
    BY DEF Received
  <2>4. \A i : Complete(i)' <=> comp(i)
    BY <2>1, <2>3 DEF Complete
  <2>5. \A d, i : i \in Returns(d)' <=> i \in Returns(d)
    BY <2>1, <2>2 DEF Returns
  <2>6. \A i : Shared(content[i])' <=> Shared(content[i])
    BY <2>1 DEF Shared
  <2>7. mergedHead' \in Nat /\ \A d \in Channels : mergedHead' <= heads'[d]
    <3>1. CASE g + 1 .. h = {}
      BY <1>4, <1>7, <1>20, <3>1
    <3>2. CASE g + 1 .. h # {}
      <4>1. PICK T : T = LevelsOf(g + 1 .. h)
        OBVIOUS
      <4>2. \A i \in g + 1 .. h : content[i] \in Nat /\ \A d \in Channels : content[i] <= heads'[d]
        BY <1>1, <1>16, <1>18 DEF Mergeable
      <4>3. T # {} /\ T \subseteq Nat /\ \A l \in T : \A d \in Channels : l <= heads'[d]
        BY <3>2, <4>1, <4>2 DEF LevelsOf
      <4>4. heads'[c] \in Nat /\ \A l \in T : l <= heads'[c]
        BY <1>7, <4>3
      <4>5. Max(T) \in T
        BY <4>3, <4>4, MaxIs
      <4> QED
        BY <1>20, <3>2, <4>1, <4>3, <4>5
    <3> QED
      BY <3>1, <3>2
  <2>8. \A i \in Items : i <= h <=> content[i] < first \/ (InRange(i) /\ comp(i))
    <3> HIDE DEF comp
    <3> QED
      BY <1>13
  <2>9. buffer' = {i \in Items : InRange(i) /\ h < i /\ \E d \in routes[i] : rec(d, i)}
    <3>1. \A i \in Items : i \in buf \ (g + 1 .. h) <=>
                             InRange(i) /\ h < i /\ \E d \in routes[i] : rec(d, i)
      <4> SUFFICES ASSUME NEW i \in Items
                   PROVE  i \in buf \ (g + 1 .. h) <=>
                            InRange(i) /\ h < i /\ \E d \in routes[i] : rec(d, i)
        OBVIOUS
      <4>1. i \in Nat /\ (g < i /\ i \notin g + 1 .. h <=> h < i)
        BY <1>1, <1>13
      <4> HIDE DEF rec
      <4> QED
        BY <1>15, <4>1
    <3> HIDE DEF rec
    <3> QED
      BY <1>16, <1>20, <3>1
  <2>10. \A d \in Channels : \A i \in Returns(d)' :
           content'[i] <= heads'[d] =>
             \/ Received(d, i)'
             \/ kind' = "starknet" /\ content'[i] = heads'[d] /\ ~Shared(content[i])'
    <3> HIDE DEF rec
    <3> QED
      BY <1>9, <2>1, <2>3, <2>5, <2>6
  <2>11. \A i \in Items' : i <= h <=> content'[i] < first' \/ (InRange(i)' /\ Complete(i)')
    <3> HIDE DEF comp
    <3> QED
      BY <2>1, <2>2, <2>4, <2>8
  <2>12. buffer' = {i \in Items' : InRange(i)' /\ h < i /\ \E d \in routes'[i] : Received(d, i)'}
    <3> HIDE DEF rec
    <3> QED
      BY <2>1, <2>2, <2>3, <2>9
  <2>13. heads' \in [Channels -> 0 .. target'] /\ offsets' \in [Channels -> Nat]
         /\ \E d \in Channels : heads'[d] < target'
    BY <1>6, <1>20, <2>1
  <2> QED
    BY <2>7, <2>10, <2>11, <2>12, <2>13 DEF ChannelsAt
<1> QED
  BY <1>7, <1>13, <1>14, <1>17, <1>18, <1>19, <1>20

(* A channel is fetched.                                                    *)
LEMMA FetchChannelKeeps ==
  ASSUME Ordinary, FetcherAssumption, ChainInv, IndexInv, NEW g \in Nat, SyncAt(g), FetchChannel,
         kind = "starknet" => source = "node", UNCHANGED othersThanChannels
  PROVE  (\E h \in Nat : SyncAt(h)') /\ failure' = failure
<1>1. /\ kind \in MergedKinds /\ Wanted /\ Answered /\ ByChannels
      /\ UNCHANGED <<kind, content, routes, first, target, source>>
  BY DEF FetchChannel, Answered, chainVars, othersThanChannels, blockVars, MergedKinds, ByChannels
<1>2. PICK c, a :
        /\ c \in Channels /\ \A d \in Channels : heads[c] <= heads[d]
        /\ a \in IF kind = "operations" THEN OperationPages(c) ELSE EventChunks(c)
        /\ LET hs == [heads EXCEPT ![c] = a.head]
               buf == buffer \cup a.page
               behind == \E d \in Channels : hs[d] < mergedHead
               ready == IF behind THEN {} ELSE Mergeable(hs, buf)
               ended == \A d \in Channels : hs[d] >= target
               invalid == \/ ~behind /\ \E i \in buf : content[i] < mergedHead
                          \/ ended /\ ready # buf
           IN /\ heads' = hs /\ offsets' = [offsets EXCEPT ![c] = a.offset]
              /\ buffer' = buf \ ready
              /\ mergedHead' = IF ready = {} THEN mergedHead ELSE Max(LevelsOf(ready))
              /\ IF invalid
                   THEN Raise("assertion")
                   ELSE Receive(SortItems(ready), ended) /\ UNCHANGED failure
  BY ZenonT(40) DEF FetchChannel
<1>0. c \in Channels
  BY <1>2
<1>3. /\ ChannelsAt(g) /\ first \in 1 .. level + 1 /\ target \in level .. MaxLevel
      /\ first <= target
      /\ first \in Nat /\ target \in Nat /\ level \in Nat /\ g <= Len(content)
      /\ Len(content) \in Nat
  <2>1. /\ IteratorAt(g) /\ first \in 1 .. level + 1 /\ target \in level .. MaxLevel
        /\ first <= target /\ g \in 0 .. Len(content)
    BY <1>1 DEF SyncAt, Wanted, Queued
  <2>2. level \in Nat /\ Len(content) \in Nat
    BY ChainIs DEF IndexInv
  <2> QED
    BY <1>1, <2>1, <2>2 DEF IteratorAt
<1>4. heads[c] < target
  <2>1. PICK d \in Channels : heads[d] < target
    BY <1>3 DEF ChannelsAt
  <2>2. heads[c] \in Nat /\ heads[d] \in Nat /\ heads[c] <= heads[d]
    BY <1>2, <1>3 DEF ChannelsAt
  <2> QED
    BY <1>3, <2>1, <2>2
<1>5. Proper(c, a)
  <2>1. CASE kind = "operations"
    <3>1. a \in OperationPages(c)
      BY <1>2, <2>1
    <3> QED
      BY <1>0, <1>3, <1>4, <2>1, <3>1, OperationPagesAre
  <2>2. CASE kind = "starknet"
    <3>1. a \in EventChunks(c)
      BY <1>2, <2>2
    <3> QED
      BY <1>0, <1>3, <1>4, <2>2, <3>1, EventChunksAre
  <2> QED
    BY <1>1, <2>1, <2>2 DEF MergedKinds
<1>6. PICK buf : buf = buffer \cup a.page
  OBVIOUS
<1>7. heads' = [heads EXCEPT ![c] = a.head] /\ offsets' = [offsets EXCEPT ![c] = a.offset]
  BY <1>2
<1>8. /\ \A d \in Channels : mergedHead <= heads'[d]
      /\ \A i \in buf : mergedHead <= content[i]
      /\ \E h \in Nat :
           /\ g <= h /\ h <= Cut(content, target) /\ Mergeable(heads', buf) = g + 1 .. h
           /\ (\A d \in Channels : heads'[d] >= target) =>
                Mergeable(heads', buf) = buf /\ h = Cut(content, target)
           /\ /\ \E d \in Channels : heads'[d] < target
              /\ buffer' = buf \ (g + 1 .. h)
              /\ mergedHead' = IF g + 1 .. h = {} THEN mergedHead ELSE Max(LevelsOf(g + 1 .. h))
              => ChannelsAt(h)'
  <2>1. first <= target + 1
    BY <1>3
  <2> QED
    BY ZenonT(40), <1>0, <1>1, <1>3, <1>4, <1>5, <1>6, <1>7, <2>1, MergeIs
<1>9. PICK h \in Nat :
        /\ g <= h /\ h <= Cut(content, target) /\ Mergeable(heads', buf) = g + 1 .. h
        /\ (\A d \in Channels : heads'[d] >= target) =>
             Mergeable(heads', buf) = buf /\ h = Cut(content, target)
        /\ /\ \E d \in Channels : heads'[d] < target
           /\ buffer' = buf \ (g + 1 .. h)
           /\ mergedHead' = IF g + 1 .. h = {} THEN mergedHead ELSE Max(LevelsOf(g + 1 .. h))
           => ChannelsAt(h)'
  BY <1>8
<1>10. heads' \in [Channels -> Nat] /\ mergedHead \in Nat
  <2>1. heads \in [Channels -> Nat] /\ mergedHead \in Nat /\ a.head \in Nat
    <3>1. heads \in [Channels -> 0 .. target] /\ mergedHead \in Nat
      BY <1>3 DEF ChannelsAt
    <3>2. a.head \in heads[c] .. target /\ heads[c] \in Nat
      BY <1>0, <1>5, <3>1 DEF Proper
    <3> QED
      BY <1>3, <3>1, <3>2
  <2> QED
    BY <1>7, <2>1
<1>11. ~(\E d \in Channels : heads'[d] < mergedHead)
  BY <1>8, <1>10
<1>12. ~(\E i \in buf : content[i] < mergedHead)
  <2>1. \A i \in buf : content[i] \in Nat
    <3>1. \A i \in Items : content[i] \in Nat
      BY ChainIs DEF Levels
    <3>2. buffer \subseteq Items
      BY <1>3 DEF ChannelsAt
    <3>3. a.page \subseteq Items
      BY <1>5 DEF Proper, Remaining, Returns
    <3> QED
      BY <1>6, <3>1, <3>2, <3>3
  <2> QED
    BY <1>8, <1>10, <2>1
<1>13. PICK ended : ended = (\A d \in Channels : heads'[d] >= target)
  OBVIOUS
<1>14. PICK ready : ready = g + 1 .. h
  OBVIOUS
<1>15. /\ buffer' = buf \ ready
       /\ mergedHead' = IF ready = {} THEN mergedHead ELSE Max(LevelsOf(ready))
       /\ Receive(SortItems(ready), ended) /\ failure' = failure
  <2>1. ready = IF \E d \in Channels : heads'[d] < mergedHead THEN {} ELSE Mergeable(heads', buf)
    BY <1>9, <1>11, <1>14
  <2>2. (\A d \in Channels : heads'[d] >= target) => ready = buf
    BY <1>9, <1>14
  <2>3. LET hs == heads'
            behind == \E d \in Channels : hs[d] < mergedHead
            invalid == \/ ~behind /\ \E i \in buf : content[i] < mergedHead
                       \/ (\A d \in Channels : hs[d] >= target) /\ ready # buf
        IN /\ buffer' = buf \ ready
           /\ mergedHead' = IF ready = {} THEN mergedHead ELSE Max(LevelsOf(ready))
           /\ IF invalid
                THEN Raise("assertion")
                ELSE Receive(SortItems(ready), ended) /\ UNCHANGED failure
    BY <1>2, <1>6, <1>7, <1>13, <2>1
  <2> QED
    BY <1>12, <2>2, <2>3
<1>16. SortItems(ready) = Run(g, h)
  <2>1. h <= Len(content)
    <3>1. Cut(content, target) \in 0 .. Len(content)
      BY <1>3, Cuts
    <3> QED
      BY <1>3, <1>9, <3>1
  <2> QED
    BY <1>1, <1>9, <1>14, <2>1, SortItemsIs
<1>17. Receive(Run(g, h), ended) /\ ended \in BOOLEAN
  BY <1>13, <1>15, <1>16
<1>18. ended <=> \A d \in Channels : heads'[d] >= target
  BY <1>13, Zenon
<1>19. ended => h = Cut(content, target)
  BY <1>9, <1>18
<1>20. ASSUME ~ended PROVE IteratorAt(h)'
  <2>1. \E d \in Channels : heads'[d] < target
    BY <1>3, <1>10, <1>18, <1>20
  <2>2. ChannelsAt(h)'
    BY <1>9, <1>14, <1>15, <2>1
  <2> QED
    BY <1>1, <2>2 DEF IteratorAt, MergedKinds, PagedKinds, ByChannels, ByPipeline
<1>21. SyncAt(h)'
  BY <1>1, <1>9, <1>17, <1>19, <1>20, Receives
<1> QED
  BY <1>15, <1>21

(* The channels of a new fetcher have returned nothing.                     *)
LEMMA ChannelsStart ==
  ASSUME FetcherAssumption, ChainInv, IndexInv, NEW to \in level .. MaxLevel, level < to,
         StartFetcher(to), OpenChannels, NEW g \in Nat, g = Cut(content, level)
  PROVE  ChannelsAt(g)'
<1>1. /\ content' = content /\ first' = level + 1 /\ target' = to /\ kind' = kind
      /\ routes' = routes
      /\ Items' = Items /\ level \in Nat /\ to \in Nat
  BY DEF StartFetcher, chainVars, IndexInv, Items
<1>2. /\ heads' = [c \in Channels |-> 0] /\ offsets' = [c \in Channels |-> 0]
      /\ buffer' = {} /\ mergedHead' = 0
  BY DEF OpenChannels
<1>3. /\ Items = 1 .. Len(content) /\ Len(content) \in Nat
      /\ \A i \in Items : i \in Nat /\ content[i] \in Nat /\ content[i] > 0
  <2>1. /\ Items = 1 .. Len(content) /\ Len(content) \in Nat
        /\ \A i \in Items : content[i] \in Levels
    BY ChainIs
  <2> QED
    BY <2>1 DEF Levels
<1>4. \A c \in Channels : heads'[c] = 0 /\ offsets'[c] = 0
  BY <1>2
<1>5. 1 \in Channels
  BY DEF Channels
<1>6. \A c \in Channels, i \in Items : ~Received(c, i)'
  <2>1. \A i \in Items : ~(i <= 0) /\ 0 # to
    BY <1>1, <1>3
  <2> QED
    BY <1>1, <1>4, <2>1 DEF Received
<1>7. \A i \in Items : ~Complete(i)'
  <2>1. \A i \in Items : ~(content[i] <= 0)
    BY <1>3
  <2> QED
    BY <1>1, <1>4, <1>5, <2>1 DEF Complete
<1>8. \A i \in Items : i <= g <=> content[i] < level + 1
  <2>1. IsCut(content, level, g)
    BY <1>1, Cuts
  <2> QED
    BY <1>1, <1>3, <2>1 DEF IsCut
<1>9. /\ heads' \in [Channels -> 0 .. target'] /\ offsets' \in [Channels -> Nat]
      /\ \E c \in Channels : heads'[c] < target'
      /\ mergedHead' \in Nat /\ \A c \in Channels : mergedHead' <= heads'[c]
  BY <1>1, <1>2, <1>4, <1>5
<1>10. \A c \in Channels : \A i \in Returns(c)' : ~(content'[i] <= heads'[c])
  <2>1. \A c \in Channels : \A i \in Returns(c)' : i \in Items
    BY <1>1 DEF Returns
  <2> QED
    BY <1>1, <1>3, <1>4, <2>1
<1>11. \A i \in Items' : i <= g <=> content'[i] < first' \/ (InRange(i)' /\ Complete(i)')
  BY <1>1, <1>7, <1>8
<1>12. buffer' = {i \in Items' : InRange(i)' /\ g < i /\ \E c \in routes'[i] : Received(c, i)'}
  <2>1. \A i \in Items : \A c \in routes[i] : c \in Channels
    <3>1. \A i \in Items : routes[i] \in (SUBSET Channels) \ {{}}
      BY DEF ChainInv
    <3> QED
      BY <3>1
  <2> QED
    BY <1>1, <1>2, <1>6, <2>1
<1> QED
  BY <1>9, <1>10, <1>11, <1>12 DEF ChannelsAt

(* A sync of operations begins after the index.                             *)
LEMMA StartOperationsKeeps ==
  ASSUME FetcherAssumption, ChainInv, IndexInv, StartOperations
  PROVE  \E g \in Nat : SyncAt(g)'
<1>1. PICK to \in level + 1 .. MaxLevel : StartFetcher(to)
  BY DEF StartOperations
<1>2. /\ kind = "operations" /\ kind' = kind /\ exhausted' = FALSE /\ level \in Nat /\ OpenChannels
  BY <1>1 DEF StartOperations, StartFetcher, chainVars, IndexInv
<1>3. to \in level .. MaxLevel /\ level < to
  BY <1>2
<1>4. ASSUME NEW g \in Nat, g = Cut(content, level) PROVE IteratorAt(g)'
  <2>1. ChannelsAt(g)'
    BY <1>1, <1>2, <1>3, <1>4, ChannelsStart
  <2> QED
    BY <1>2, <2>1 DEF IteratorAt, PagedKinds, SubsquidKinds, ByPipeline
<1> QED
  BY <1>1, <1>2, <1>3, <1>4, Starts

(* A sync of Starknet events begins after the index.                        *)
LEMMA SynchronizeStarknetKeeps ==
  ASSUME FetcherAssumption, Ordinary, ChainInv, IndexInv, SynchronizeStarknet
  PROVE  \E g \in Nat : SyncAt(g)'
<1>1. StartBlocks /\ kind = "starknet" /\ OpenChannels
  BY DEF SynchronizeStarknet
<1>2. ASSUME NEW to \in level .. MaxLevel, NEW g \in Nat, StartFetcher(to), g = Cut(content, level)
      PROVE  /\ ByPipeline' => PipelineAt(g)'
             /\ ByChannels' /\ level < to => ChannelsAt(g)'
  <2>1. ~ByPipeline'
    BY <1>1, <1>2 DEF ByPipeline, StartFetcher, chainVars
  <2> QED
    BY <1>1, <1>2, <2>1, ChannelsStart
<1>3. kind \in SubsquidKinds
  BY <1>1 DEF SubsquidKinds
<1> QED
  BY <1>1, <1>2, <1>3, StartsBlocks
-----------------------------------------------------------------------------

(* The steps the kinds share.                                               *)

(* What an iterator has fetched is its own.                                 *)
LEMMA IteratorKept ==
  ASSUME NEW g \in Nat, UNCHANGED <<chainVars, first, target>>,
         UNCHANGED <<offset, blockVars, channelVars, substrateVars>>
  PROVE  IteratorAt(g) => IteratorAt(g)'
<1>1. /\ UNCHANGED <<kind, content, routes, first, target, offset, source, reach, position>>
      /\ UNCHANGED <<heads, offsets, buffer, mergedHead, queues, batch, loop>>
  BY DEF chainVars, blockVars, channelVars, substrateVars
<1>2. ChannelsAt(g) => ChannelsAt(g)'
  BY <1>1, ChannelsKept
<1>3. PagesAt(g) => PagesAt(g)'
  BY <1>1 DEF PagesAt
<1>4. BlocksAt(g) => BlocksAt(g)'
  BY <1>1 DEF BlocksAt
<1>5. PipelineAt(g) => PipelineAt(g)'
  <2>1. \A top, low : PipedAt(g, top, low) => PipedAt(g, top, low)'
    BY <1>1 DEF PipedAt
  <2> QED
    BY <1>1, <2>1 DEF PipelineAt
<1>6. (ByPipeline' <=> ByPipeline) /\ (ByChannels' <=> ByChannels) /\ kind' = kind
  BY <1>1 DEF ByPipeline, ByChannels
<1> QED
  BY <1>2, <1>3, <1>4, <1>5, <1>6 DEF IteratorAt

(* A level is queued.                                                       *)
LEMMA SplitLevelKeeps ==
  ASSUME ChainInv, IndexInv, NEW g \in Nat, SyncAt(g), SplitLevel,
         UNCHANGED <<offset, blockVars, channelVars, substrateVars>>
  PROVE  SyncAt(g)' /\ task' \in {"running", "waiting"}
<1>1. /\ status = "syncing" /\ task = "running"
      /\ IF Boundaries # {} THEN Push(Min(Boundaries))
                            ELSE exhausted /\ items # <<>> /\ Push(Len(items))
      /\ UNCHANGED <<chainVars, first, target>> /\ content' = content
      /\ level' = level /\ first' = first /\ target' = target
  BY DEF SplitLevel, indexVars, chainVars
<1>2. /\ Queued(content, level, readahead, items, g) /\ level \in Int /\ content \in Seq(Int)
      /\ Sorted(content)
  BY ChainIs DEF SyncAt, IndexInv
<1>3. items \in Seq(Int) /\ Len(items) \in Nat
  BY <1>2, QueueItems
<1>4. PICK n : /\ n \in 1 .. Len(items) /\ Push(n)
               /\ \A k \in 1 .. n - 1 : content[items[k]] = content[items[k + 1]]
               /\ n < Len(items) => content[items[n]] # content[items[n + 1]]
               /\ n = Len(items) => exhausted
  <2>1. Boundaries \subseteq Nat
    BY <1>3 DEF Boundaries
  <2>2. CASE Boundaries # {}
    <3>1. PICK n : n = Min(Boundaries)
      OBVIOUS
    <3>2. n \in Boundaries /\ \A k \in Boundaries : n <= k
      BY <2>1, <2>2, <3>1, MinIs
    <3>3. n \in 1 .. Len(items) - 1 /\ content[items[n]] # content[items[n + 1]]
      BY <3>2 DEF Boundaries
    <3>4. ASSUME NEW k \in 1 .. n - 1 PROVE content[items[k]] = content[items[k + 1]]
      <4>1. k \in 1 .. Len(items) - 1 /\ ~(n <= k)
        BY <1>3, <3>3
      <4>2. k \notin Boundaries
        BY <3>2, <4>1
      <4> QED
        BY <4>1, <4>2 DEF Boundaries
    <3>5. n \in 1 .. Len(items) /\ n # Len(items)
      BY <1>3, <3>3
    <3> QED
      BY <1>1, <2>2, <3>1, <3>3, <3>4, <3>5
  <2>3. CASE Boundaries = {}
    <3>1. exhausted /\ items # <<>> /\ Push(Len(items))
      BY <1>1, <2>3
    <3>2. Len(items) \in 1 .. Len(items) /\ ~(Len(items) < Len(items))
      BY <1>3, <3>1
    <3>3. \A k \in 1 .. Len(items) - 1 : content[items[k]] = content[items[k + 1]]
      BY <2>3 DEF Boundaries
    <3> QED
      BY <3>1, <3>2, <3>3
  <2> QED
    BY <2>2, <2>3
<1>5. n = Len(items) => Ends(content, g)
  <2>1. exhausted => g = Cut(content, target) /\ target \in Int
    BY <1>1 DEF SyncAt
  <2> QED
    BY <1>4, <2>1, Cuts
<1>6. Queued(content, level, Append(readahead, SubSeq(items, 1, n)),
                             SubSeq(items, n + 1, Len(items)), g)
  BY <1>2, <1>4, <1>5, QueuePush
<1>7. /\ readahead' = Append(readahead, SubSeq(items, 1, n))
      /\ items' = SubSeq(items, n + 1, Len(items)) /\ exhausted' = exhausted
      /\ task' \in {"running", "waiting"}
  BY <1>4 DEF Push
<1>8. IteratorAt(g) => IteratorAt(g)'
  BY <1>1, IteratorKept
<1>9. SyncAt(g)'
  BY <1>1, <1>6, <1>7, <1>8 DEF SyncAt
<1> QED
  BY <1>7, <1>9

(* The task returns.                                                        *)
LEMMA ReadaheadDoneKeeps ==
  ASSUME NEW g \in Nat, SyncAt(g), ReadaheadDone
  PROVE  SyncAt(g)'
BY DEF ReadaheadDone, SyncAt, indexVars, chainVars

(* A request fails.                                                         *)
LEMMA RequestFailsKeeps ==
  ASSUME NEW g \in Nat, SyncAt(g), RequestFails,
         UNCHANGED <<offset, blockVars, channelVars, substrateVars>>
  PROVE  SyncAt(g)'
<1>1. Wanted /\ UNCHANGED <<content, level, first, target>>
      /\ UNCHANGED <<chainVars, first, target>>
  BY DEF RequestFails, chainVars
<1>2. CASE Raise("request")
  BY <1>1, <1>2, Raises
<1>3. CASE UNCHANGED taskVars
  <2>1. IteratorAt(g) => IteratorAt(g)'
    BY <1>1, IteratorKept
  <2> QED
    BY <1>1, <1>3, <2>1 DEF SyncAt, taskVars
<1> QED
  BY <1>2, <1>3 DEF RequestFails

(* The batch that is processed next is of the next level with items, all of *)
(* them.                                                                    *)
LEMMA ProcessLevelIs ==
  ASSUME FetcherAssumption, ChainInv, IndexInv, NEW g \in Nat, SyncAt(g), ProcessLevel,
         UNCHANGED <<offset, blockVars, channelVars, substrateVars>>
  PROVE  /\ SyncAt(g)' /\ status' = status /\ failure' = failure /\ level' \in level + 1 .. MaxLevel
         /\ \E b \in Items :
              /\ level' = content[b]
              /\ {i \in Items : content[i] = content[b]} = Cut(content, level) + 1 .. b
              /\ Cut(content, level) \in Nat /\ Cut(content, level) < b
              /\ delivered' = Append(delivered, [level |-> content[b],
                                                 items |-> Run(Cut(content, level), b)])
<1>1. /\ Queued(content, level, readahead, items, g) /\ level \in Nat /\ level \in Int
      /\ content \in Seq(Int) /\ Sorted(content) /\ readahead # <<>>
      /\ Items = 1 .. Len(content) /\ Len(content) \in Nat
      /\ \A i \in Items : content[i] \in Nat
      /\ first \in 1 .. level + 1 /\ target \in level .. MaxLevel /\ target \in Int
      /\ g <= Cut(content, target)
  <2>1. \A i \in Items : content[i] \in Nat
    BY ChainIs DEF Levels
  <2> QED
    BY <2>1, ChainIs DEF SyncAt, IndexInv, ProcessLevel
<1>2. PICK a : a = Cut(content, level)
  OBVIOUS
<1>3. PICK b \in 1 .. Len(content) :
        /\ a \in Nat /\ a < b /\ b <= g /\ Head(readahead) = Run(a, b)
        /\ level < content[b] /\ Cut(content, content[b]) = b
        /\ {i \in 1 .. Len(content) : content[i] = content[b]} = a + 1 .. b
        /\ Queued(content, content[b], Tail(readahead), items, g)
  BY <1>1, <1>2, QueuePop
<1>4. content[Head(Head(readahead))] = content[b] /\ b \in Items /\ content[b] \in Nat
  <2>1. Head(Run(a, b)) = a + 1
    BY <1>3 DEF Run
  <2>2. a + 1 \in a + 1 .. b
    BY <1>3
  <2>3. content[a + 1] = content[b]
    BY <1>3, <2>2
  <2> QED
    BY <1>1, <1>3, <2>1, <2>3
<1>5. ~(content[Head(Head(readahead))] <= level)
  BY <1>1, <1>3, <1>4
<1>6. /\ level' = content[b] /\ status' = status /\ failure' = failure
      /\ delivered' = Append(delivered, [level |-> level', items |-> Head(readahead)])
      /\ readahead' = Tail(readahead) /\ items' = items /\ exhausted' = exhausted
      /\ task' = (IF task = "waiting" THEN "running" ELSE task)
      /\ UNCHANGED <<chainVars, first, target>> /\ content' = content
      /\ first' = first /\ target' = target
  BY <1>4, <1>5 DEF ProcessLevel, chainVars
<1>7. content[b] <= target
  <2>1. IsCut(content, target, Cut(content, target)) /\ Cut(content, target) \in Nat
    BY <1>1, Cuts
  <2>2. b <= Cut(content, target)
    BY <1>1, <1>3, <2>1
  <2> QED
    BY <1>3, <2>1, <2>2 DEF IsCut
<1>8. content[b] \in level + 1 .. MaxLevel /\ target \in content[b] .. MaxLevel
      /\ first \in 1 .. content[b] + 1
  <2>1. MaxLevel \in Nat
    BY DEF FetcherAssumption
  <2> QED
    BY <1>1, <1>3, <1>4, <1>7, <2>1
<1>9. IteratorAt(g) => IteratorAt(g)'
  BY <1>6, IteratorKept
<1>10. SyncAt(g)'
  <2>1. (task' = "done" <=> task = "done") /\ (task' = "failed" <=> task = "failed")
    BY <1>6
  <2> QED
    BY <1>1, <1>3, <1>6, <1>8, <1>9, <2>1 DEF SyncAt
<1> QED
  BY <1>1, <1>2, <1>3, <1>4, <1>6, <1>8, <1>10

(* When the task has returned and the queue is empty, nothing is left up to *)
(* the target.                                                              *)
LEMMA SynchronizedIs ==
  ASSUME ChainInv, IndexInv, NEW g \in Nat, SyncAt(g), readahead = <<>>, task = "done"
  PROVE  \A i \in Items : content[i] \notin level + 1 .. target
<1>1. /\ Queued(content, level, <<>>, <<>>, g) /\ g = Cut(content, target)
      /\ level \in Int /\ target \in Int /\ content \in Seq(Int)
  BY ChainIs DEF SyncAt, IndexInv
<1>2. g = Cut(content, level)
  BY <1>1, QueueEmpty
<1>3. IsCut(content, level, g) /\ IsCut(content, target, g)
  BY <1>1, <1>2, Cuts
<1>4. /\ Items = 1 .. Len(content) /\ \A i \in Items : content[i] \in Int
  BY ChainIs
<1>5. \A i \in Items : content[i] <= level <=> content[i] <= target
  BY <1>3, <1>4 DEF IsCut
<1> QED
  BY <1>1, <1>4, <1>5
-----------------------------------------------------------------------------

(* Every step keeps the invariant.                                          *)

(* A sync is started.                                                       *)
LEMMA SynchronizeKeeps ==
  ASSUME FetcherAssumption, Ordinary, ChainInv, IndexInv, Synchronize
  PROVE  IndexInv' /\ \E g \in Nat : SyncAt(g)'
<1>1. CASE StartPages /\ UNCHANGED othersThanPages
  <2>1. PICK to : StartFetcher(to)
    BY <1>1 DEF StartPages
  <2>2. IndexInv'
    BY <1>1, <2>1 DEF StartPages, StartFetcher, IndexInv, othersThanPages, blockVars
  <2> QED
    BY <1>1, <2>2, StartPagesKeeps
<1>2. CASE StartOperations /\ UNCHANGED othersThanChannels
  <2>1. PICK to : StartFetcher(to)
    BY <1>2 DEF StartOperations
  <2>2. IndexInv'
    BY <1>2, <2>1 DEF StartOperations, StartFetcher, IndexInv, othersThanChannels, blockVars
  <2> QED
    BY <1>2, <2>2, StartOperationsKeeps
<1>3. CASE SynchronizeEvmEvents \/ SynchronizeEvmTransactions \/ SynchronizeStarknet
             \/ SynchronizeSubstrate
  <2>1. StartBlocks
    BY <1>3 DEF SynchronizeEvmEvents, SynchronizeEvmTransactions, SynchronizeStarknet,
                SynchronizeSubstrate
  <2>2. PICK to \in level .. MaxLevel :
          /\ StartFetcher(to) /\ exhausted' = (to <= level /\ kind # "substrate")
          /\ source' \in {"node", "subsquid"} /\ reach' \in Nat
    BY <2>1, StartBlocksIs
  <2>3. exhausted' \in BOOLEAN
    BY <2>2
  <2>4. IndexInv'
    BY <2>2, <2>3 DEF StartFetcher, IndexInv
  <2>5. \E g \in Nat : SyncAt(g)'
    BY <1>3, SynchronizeBlocksKeeps, SynchronizeStarknetKeeps
  <2> QED
    BY <2>4, <2>5
<1> QED
  BY <1>1, <1>2, <1>3 DEF Synchronize

(* The iterator is resumed.                                                 *)
LEMMA FetchKeeps ==
  ASSUME FetcherAssumption, Ordinary, ChainInv, IndexInv, NEW g \in Nat, SyncAt(g), Fetch
  PROVE  IndexInv' /\ \E h \in Nat : SyncAt(h)'
<1>1. ASSUME Answered, NEW batch0, NEW ended \in BOOLEAN,
             Receive(batch0, ended) \/ Raise("request")
                \/ (Raise("assertion") /\ "unordered_block" \in Hazards),
             failure' = failure \/ Raise("request")
                \/ (Raise("assertion") /\ "unordered_block" \in Hazards),
             UNCHANGED <<source, reach>>
      PROVE  IndexInv'
  <2>1. status' = status /\ level' = level
    BY <1>1 DEF Answered
  <2>2. failure' = "assertion" => "unordered_block" \in Hazards
    BY <1>1 DEF Raise, IndexInv
  <2>3. task' \in {"running", "waiting", "done", "failed"} /\ exhausted' \in BOOLEAN
    BY <1>1 DEF Raise, Receive, IndexInv
  <2> QED
    BY <1>1, <2>1, <2>2, <2>3 DEF IndexInv
<1>2. CASE FetchPage /\ UNCHANGED othersThanPages
  <2>1. PICK ended : ended = (Cardinality(Page) < PageSize)
    OBVIOUS
  <2>2. ended \in BOOLEAN /\ Receive(InOrder(Page), ended)
    BY <1>2, <2>1 DEF FetchPage
  <2>3. Answered /\ failure' = failure /\ UNCHANGED <<source, reach>>
    BY <1>2 DEF FetchPage, othersThanPages, blockVars
  <2>4. IndexInv'
    BY <1>1, <2>2, <2>3
  <2> QED
    BY <1>2, <2>4, FetchPageKeeps
<1>3. CASE (FetchLogs \/ FetchBlocks \/ FromSubsquid) /\ UNCHANGED othersThanBlocks
  <2>1. Answered /\ UNCHANGED <<source, reach>>
    BY <1>3 DEF FetchLogs, FetchBlocks, FromSubsquid, IterEvmEvents, IterEvmTransactions,
                IterStarknetEvents, IterSubstrateEvents, FromWorker, blockVars
  <2>2. \E b, ended : /\ ended \in BOOLEAN
                      /\ \/ Receive(b, ended) /\ failure' = failure
                         \/ Raise("request")
                         \/ Raise("assertion") /\ "unordered_block" \in Hazards
    <3>1. CASE FetchLogs
      <4>1. PICK last : \E hasLogs, hasBlocks \in NodeHas(last) :
                          LET logs == ItemsIn(position, hasLogs) IN
                          IF BlocksThere({content[i] : i \in Range(logs)}, hasBlocks)
                            THEN Receive(logs, last = target) /\ UNCHANGED failure
                            ELSE Raise("request")
        BY <3>1 DEF FetchLogs
      <4>2. PICK hasLogs :
              \/ Receive(ItemsIn(position, hasLogs), last = target) /\ failure' = failure
              \/ Raise("request")
        BY <4>1
      <4>3. PICK ended : ended = (last = target)
        OBVIOUS
      <4> QED
        BY <4>2, <4>3
    <3>2. CASE FetchBlocks
      <4>1. PICK last : \/ Receive(ItemsIn(position, last), last = target) /\ failure' = failure
                        \/ Raise("request")
        BY <3>2 DEF FetchBlocks
      <4>2. PICK ended : ended = (last = target)
        OBVIOUS
      <4> QED
        BY <4>1, <4>2
    <3>3. CASE FromSubsquid
      <4>1. FromWorker \/ (Raise("assertion") /\ "unordered_block" \in Hazards)
        BY <3>3 DEF FromSubsquid, IterEvmEvents, IterEvmTransactions, IterStarknetEvents,
                    IterSubstrateEvents
      <4>2. ASSUME FromWorker
            PROVE  \E b, ended : ended \in BOOLEAN /\ Receive(b, ended) /\ failure' = failure
        <5>1. PICK last : Receive(ItemsIn(position, last), last = target) /\ failure' = failure
          BY <4>2 DEF FromWorker
        <5>2. PICK ended : ended = (last = target)
          OBVIOUS
        <5> QED
          BY <5>1, <5>2
      <4> QED
        BY <4>1, <4>2
    <3> QED
      BY <1>3, <3>1, <3>2, <3>3
  <2>3. PICK b, ended : /\ ended \in BOOLEAN
                        /\ \/ Receive(b, ended) /\ failure' = failure
                           \/ Raise("request")
                           \/ Raise("assertion") /\ "unordered_block" \in Hazards
    BY <2>2
  <2>4. IndexInv'
    BY <1>1, <2>1, <2>3
  <2> QED
    BY <1>3, <2>4, FetchRangeKeeps
<1>4. CASE FetchChannel /\ (kind = "starknet" => source = "node") /\ UNCHANGED othersThanChannels
  <2>1. (\E h \in Nat : SyncAt(h)') /\ failure' = failure
    BY <1>4, FetchChannelKeeps
  <2>2. Answered /\ UNCHANGED <<source, reach>>
    BY <1>4 DEF FetchChannel, othersThanChannels, blockVars
  <2>3. \E b, ended : ended \in BOOLEAN /\ (Receive(b, ended) \/ Raise("assertion"))
    BY <1>4 DEF FetchChannel
  <2>4. task' \in {"running", "waiting", "done", "failed"} /\ exhausted' \in BOOLEAN
    BY <2>3 DEF Receive, Raise, IndexInv
  <2>5. IndexInv'
    BY <2>1, <2>2, <2>4 DEF Answered, IndexInv
  <2> QED
    BY <2>1, <2>5
<1>5. CASE TakeEvents /\ source = "node" /\ UNCHANGED othersThanSubstrate
  <2>1. Answered /\ failure' = failure /\ UNCHANGED <<source, reach>>
    BY <1>5 DEF TakeEvents, othersThanSubstrate, blockVars
  <2>2. \E b, ended : ended \in BOOLEAN /\ Receive(b, ended)
    BY <1>5 DEF TakeEvents
  <2>3. IndexInv'
    BY <1>1, <2>1, <2>2
  <2> QED
    BY <1>5, <2>3, TakeEventsKeeps
<1> QED
  BY <1>2, <1>3, <1>4, <1>5 DEF Fetch

(* Nothing changes the chain.                                               *)
LEMMA ChainFixed ==
  ASSUME [Next]_vars
  PROVE  UNCHANGED chainVars
<1>1. ASSUME Synchronize PROVE UNCHANGED chainVars
  <2>1. \E to : StartFetcher(to)
    BY <1>1 DEF Synchronize, StartPages, StartOperations, SynchronizeEvmEvents,
      SynchronizeEvmTransactions, SynchronizeStarknet, SynchronizeSubstrate, StartBlocks
  <2> QED
    BY <2>1 DEF StartFetcher
<1>2. ASSUME Fetch PROVE UNCHANGED chainVars
  <2>1. Answered
    BY <1>2 DEF Fetch, FetchPage, FetchLogs, FetchBlocks, FromSubsquid, IterEvmEvents,
      IterEvmTransactions, IterStarknetEvents, IterSubstrateEvents, FromWorker, FetchChannel,
      TakeEvents
  <2> QED
    BY <2>1 DEF Answered
<1>3. ASSUME NEW s \in Stages, Pipeline(s) PROVE UNCHANGED chainVars
  BY <1>3 DEF Pipeline, Collect, Answer, fetcherVars
<1>4. ASSUME ReadaheadTask PROVE UNCHANGED chainVars
  BY <1>4 DEF ReadaheadTask, RequestFails, SplitLevel, ReadaheadDone
<1>5. ASSUME IndexTask PROVE UNCHANGED chainVars
  BY <1>5 DEF IndexTask, ProcessLevel, Synchronized, Crash, Restart
<1>6. ASSUME Finished \/ UNCHANGED vars PROVE UNCHANGED chainVars
  BY <1>6 DEF Finished, vars, fetcherVars
<1> QED
  BY <1>1, <1>2, <1>3, <1>4, <1>5, <1>6 DEF Next

(* Every step keeps the invariant.                                          *)
LEMMA InvKeeps ==
  ASSUME FetcherAssumption, Ordinary, Inv, [Next]_vars
  PROVE  Inv'
<1>1. ChainInv /\ IndexInv /\ (status = "syncing" => \E g \in Nat : SyncAt(g))
  BY DEF Inv
<1>2. ChainInv'
  BY <1>1, ChainFixed, ChainKept
<1>3. ASSUME Synchronize PROVE Inv'
  BY <1>1, <1>2, <1>3, SynchronizeKeeps DEF Inv
<1>4. ASSUME Fetch PROVE Inv'
  <2>1. status = "syncing"
    BY <1>4 DEF Fetch, FetchPage, FetchLogs, FetchBlocks, FromSubsquid, IterEvmEvents,
      IterEvmTransactions, IterStarknetEvents, IterSubstrateEvents, FromWorker, FetchChannel,
      TakeEvents, Wanted
  <2>2. PICK g \in Nat : SyncAt(g)
    BY <1>1, <2>1
  <2>3. IndexInv' /\ \E h \in Nat : SyncAt(h)'
    BY <1>1, <1>4, <2>2, FetchKeeps
  <2> QED
    BY <1>2, <2>3 DEF Inv
<1>5. ASSUME NEW s \in Stages, Pipeline(s) PROVE Inv'
  <2>1. status = "syncing" /\ (Collect(s) \/ Answer(s)) /\ UNCHANGED othersThanSubstrate
        /\ UNCHANGED fetcherVars
    BY <1>5 DEF Pipeline, Collect, Answer
  <2>2. PICK g \in Nat : SyncAt(g)
    BY <1>1, <2>1
  <2>3. SyncAt(g)'
    BY <2>1, <2>2, PipelineKeeps
  <2>4. IndexInv'
    BY <1>1, <2>1 DEF IndexInv, fetcherVars, indexVars, taskVars, othersThanSubstrate, blockVars
  <2> QED
    BY <1>2, <2>3, <2>4 DEF Inv
<1>6. ASSUME ReadaheadTask PROVE Inv'
  <2>0. /\ UNCHANGED <<offset, blockVars, channelVars, substrateVars>>
        /\ RequestFails \/ SplitLevel \/ ReadaheadDone
    BY <1>6 DEF ReadaheadTask
  <2>1. status = "syncing" /\ status' = status /\ level' = level /\ UNCHANGED <<source, reach>>
    BY <2>0 DEF RequestFails, SplitLevel, ReadaheadDone, Wanted, indexVars, blockVars
  <2>2. PICK g \in Nat : SyncAt(g)
    BY <1>1, <2>1
  <2>3. CASE RequestFails
    <3>1. SyncAt(g)'
      BY <2>0, <2>2, <2>3, RequestFailsKeeps
    <3>2. (failure' = failure \/ failure' = "request") /\ exhausted' = exhausted
          /\ (task' = task \/ task' = "failed")
      BY <2>3 DEF RequestFails, Raise, taskVars
    <3>3. IndexInv'
      BY <1>1, <2>1, <3>2 DEF IndexInv
    <3> QED
      BY <1>2, <3>1, <3>3 DEF Inv
  <2>4. CASE SplitLevel
    <3>1. SyncAt(g)' /\ task' \in {"running", "waiting"}
      BY <1>1, <2>0, <2>2, <2>4, SplitLevelKeeps
    <3>2. failure' = failure /\ exhausted' = exhausted
      BY <2>4 DEF SplitLevel, Push, indexVars
    <3>3. IndexInv'
      BY <1>1, <2>1, <3>1, <3>2 DEF IndexInv
    <3> QED
      BY <1>2, <3>1, <3>3 DEF Inv
  <2>5. CASE ReadaheadDone
    <3>1. SyncAt(g)'
      BY <2>2, <2>5, ReadaheadDoneKeeps
    <3>2. failure' = failure /\ exhausted' = exhausted /\ task' = "done"
      BY <2>5 DEF ReadaheadDone, indexVars
    <3>3. IndexInv'
      BY <1>1, <2>1, <3>2 DEF IndexInv
    <3> QED
      BY <1>2, <3>1, <3>3 DEF Inv
  <2> QED
    BY <2>0, <2>3, <2>4, <2>5
<1>7. ASSUME IndexTask PROVE Inv'
  <2>0. /\ UNCHANGED <<offset, blockVars, channelVars, substrateVars>>
        /\ UNCHANGED <<source, reach>>
        /\ ProcessLevel \/ Synchronized \/ Crash \/ Restart
    BY <1>7 DEF IndexTask, blockVars
  <2>1. CASE ProcessLevel
    <3>1. PICK g \in Nat : SyncAt(g)
      BY <1>1, <2>1 DEF ProcessLevel
    <3>2. SyncAt(g)' /\ status' = status /\ failure' = failure /\ level' \in level + 1 .. MaxLevel
      BY <1>1, <2>0, <2>1, <3>1, ProcessLevelIs
    <3>3. exhausted' = exhausted /\ (task' = task \/ task' = "running")
      BY <2>1 DEF ProcessLevel
    <3>4. level' \in 0 .. MaxLevel
      BY <1>1, <3>2 DEF IndexInv
    <3>5. IndexInv'
      BY <1>1, <2>0, <3>2, <3>3, <3>4 DEF IndexInv
    <3> QED
      BY <1>2, <3>2, <3>5 DEF Inv
  <2>2. CASE Synchronized
    <3>1. PICK g \in Nat : SyncAt(g)
      BY <1>1, <2>2 DEF Synchronized
    <3>2. level' \in 0 .. MaxLevel
      BY <1>1, <2>2, <3>1 DEF IndexInv, SyncAt, Synchronized
    <3>3. status' \in {"idle", "failed"} /\ failure' = failure /\ UNCHANGED taskVars
      BY <2>2 DEF Synchronized
    <3>4. IndexInv'
      BY <1>1, <2>0, <3>2, <3>3 DEF IndexInv, taskVars
    <3> QED
      BY <1>2, <3>3, <3>4 DEF Inv
  <2>3. CASE Crash \/ Restart
    <3>1. /\ status' \in {"idle", "failed"} /\ failure' \in {"crash", "none"}
          /\ level' = level /\ UNCHANGED taskVars
      BY <2>3 DEF Crash, Restart
    <3>2. IndexInv'
      BY <1>1, <2>0, <3>1 DEF IndexInv, taskVars
    <3> QED
      BY <1>2, <3>1, <3>2 DEF Inv
  <2> QED
    BY <2>0, <2>1, <2>2, <2>3
<1>8. ASSUME Finished \/ UNCHANGED vars PROVE Inv'
  <2>1. UNCHANGED vars
    BY <1>8 DEF Finished
  <2>2. /\ UNCHANGED <<chainVars, status, failure, level, first, target>>
        /\ UNCHANGED <<items, exhausted, task, readahead>>
        /\ UNCHANGED <<offset, blockVars, channelVars, substrateVars, source, reach>>
    BY <2>1 DEF vars, fetcherVars, indexVars, taskVars, blockVars
  <2>3. IndexInv'
    BY <1>1, <2>2 DEF IndexInv
  <2>4. ASSUME NEW g \in Nat, SyncAt(g) PROVE SyncAt(g)'
    <3>1. IteratorAt(g) => IteratorAt(g)'
      BY <2>2, IteratorKept
    <3>2. content' = content
      BY <2>2 DEF chainVars
    <3> QED
      BY <2>2, <2>4, <3>1, <3>2 DEF SyncAt
  <2> QED
    BY <1>1, <1>2, <2>2, <2>3, <2>4 DEF Inv
<1> QED
  BY <1>3, <1>4, <1>5, <1>6, <1>7, <1>8 DEF Next

(* It holds of a new index.                                                 *)
LEMMA InvStarts ==
  ASSUME FetcherAssumption, Ordinary, Init
  PROVE  Inv
<1>1. /\ content \in {s \in BoundedSeq(Levels, MaxItems) :
                        \A i, j \in DOMAIN s : i < j => s[i] <= s[j]}
      /\ kind \in Kinds /\ status = "idle" /\ failure = "none" /\ level = 0
      /\ exhausted = FALSE /\ task = "done" /\ source = "node" /\ reach = 0
  BY DEF Init, FetcherInit
<1>2. PICK m \in 0 .. MaxItems : content \in [1 .. m -> Levels]
  <2>1. content \in BoundedSeq(Levels, MaxItems)
    BY <1>1
  <2> QED
    BY <2>1 DEF BoundedSeq, SeqOf
<1>3. m \in Nat /\ content \in Seq(Levels) /\ Len(content) = m /\ DOMAIN content = 1 .. m
      /\ \A i \in 1 .. m : content[i] \in Int
  <2>1. m \in Nat /\ MaxItems \in Nat
    BY DEF FetcherAssumption
  <2> QED
    BY <1>2, <2>1 DEF Levels
<1>4. Sorted(content)
  <2>1. \A i, j \in 1 .. m : i < j => content[i] <= content[j]
    BY <1>1, <1>3
  <2>2. \A i, j \in 1 .. m : i <= j => i < j \/ i = j
    BY <1>3
  <2> QED
    BY <1>3, <2>1, <2>2 DEF Sorted
<1>5. routes \in [Items -> (SUBSET Channels) \ {{}}]
  <2>1. CASE kind \in MergedKinds
    BY <2>1 DEF Init
  <2>2. CASE kind \notin MergedKinds
    <3>1. routes = [i \in Items |-> {1}]
      BY <2>2 DEF Init
    <3>2. {1} \in (SUBSET Channels) \ {{}}
      BY DEF Channels
    <3> QED
      BY <3>1, <3>2
  <2> QED
    BY <2>1, <2>2
<1>6. "many_events" \notin Hazards /\ "torn_level" \notin Hazards
  BY DEF Ordinary
<1>7. /\ kind = "events" => Len(content) < PageSize
      /\ kind \in MergedKinds => LevelsFitPages
  BY <1>6 DEF Init
<1>8. kind = "starknet" => Len(content) < 9
  <2> SUFFICES ASSUME kind = "starknet" PROVE Len(content) < 9
    OBVIOUS
  <2>1. MaxItems < 9 /\ MaxItems \in Nat
    BY <1>1 DEF Ordinary, FetcherAssumption
  <2> QED
    BY <1>2, <1>3, <2>1
<1>9. ChainInv
  <2>1. kind \in Kinds /\ content \in Seq(Levels) /\ Sorted(content)
    BY <1>1, <1>3, <1>4
  <2> QED
    BY <2>1, <1>5, <1>7, <1>8, Zenon DEF ChainInv
<1>10. IndexInv
  <2>1. failure # "assertion" /\ MaxLevel \in Nat
    BY <1>1 DEF FetcherAssumption
  <2>2. level \in 0 .. MaxLevel /\ reach \in Nat
    BY <1>1, <2>1
  <2> QED
    BY <1>1, <2>1, <2>2, Zenon DEF IndexInv
<1> QED
  BY <1>1, <1>9, <1>10 DEF Inv

(* In every state, something g has been fetched in order, the index has     *)
(* been given the first batches of it and the others wait in the queue,     *)
(* each a whole level; the iterator goes on after g.                        *)
THEOREM SyncsInOrder ==
  ASSUME Ordinary
  PROVE  Spec => []Inv
<1>1. Init => Inv
  BY InvStarts, FetcherAssumption
<1>2. Inv /\ [Next]_vars => Inv'
  BY InvKeeps, FetcherAssumption
<1> QED
  BY <1>1, <1>2, PTL DEF Spec

(* None of the assertions of the pipeline fails, as long as the blocks of   *)
(* Subsquid list transactions in the order of their events.                 *)
THEOREM AssertionsHold ==
  ASSUME Ordinary, "unordered_block" \notin Hazards
  PROVE  Spec => []NeverRaises
<1>1. Inv => NeverRaises
  BY DEF Inv, IndexInv, NeverRaises
<1> QED
  BY <1>1, SyncsInOrder, PTL

-----------------------------------------------------------------------------

(* The stream of levels.                                                    *)

(* A new index has been given nothing.                                      *)
LEMMA StreamStarts ==
  ASSUME Init
  PROVE  Stream!StreamInit
BY DEF Init, FetcherInit, Stream!StreamInit

(* What is processed is the next level there is, whole and in order.        *)
LEMMA ProcessLevelDelivers ==
  ASSUME FetcherAssumption, ChainInv, IndexInv, NEW g \in Nat, SyncAt(g), ProcessLevel,
         UNCHANGED <<offset, blockVars, channelVars, substrateVars>>
  PROVE  Stream!Deliver
<1>1. PICK a : a = Cut(content, level)
  OBVIOUS
<1>2. level' \in level + 1 .. MaxLevel
  BY ProcessLevelIs
<1>3. PICK b \in Items :
        /\ level' = content[b]
        /\ {i \in Items : content[i] = content[b]} = a + 1 .. b
        /\ a \in Nat /\ a < b
        /\ delivered' = Append(delivered, [level |-> content[b], items |-> Run(a, b)])
  BY <1>1, ProcessLevelIs
<1>4. /\ Items = 1 .. Len(content) /\ Len(content) \in Nat /\ level \in Int
      /\ \A i \in Items : content[i] \in Int
  BY ChainIs DEF IndexInv
<1>5. b \in Nat /\ a <= b
  BY <1>3, <1>4
<1>6. Stream!ItemsOf(content[b]) = Run(a, b)
  <2>1. {i \in DOMAIN content : content[i] = content[b]} = a + 1 .. b
    BY <1>3 DEF Items
  <2>2. InOrder(a + 1 .. b) = Run(a, b)
    BY <1>3, <1>5, RunOfInterval
  <2>3. Stream!InOrder(a + 1 .. b) = InOrder(a + 1 .. b)
    BY DEF Stream!InOrder, InOrder, Stream!Cardinality, Cardinality
  <2> QED
    BY <2>1, <2>2, <2>3 DEF Stream!ItemsOf
<1>7. \A i \in DOMAIN content : content[i] \notin level + 1 .. content[b] - 1
  <2>1. IsCut(content, level, a)
    BY <1>1, <1>4, Cuts
  <2>2. ASSUME NEW i \in Items, content[i] \in level + 1 .. content[b] - 1 PROVE FALSE
    <3>1. content[i] \in Int /\ content[b] \in Int /\ i \in 1 .. Len(content) /\ i \in Nat
      BY <1>3, <1>4
    <3>2. ~(content[i] <= level) /\ content[i] < content[b]
      BY <1>4, <2>2, <3>1
    <3>3. ~(i <= a)
      BY <2>1, <3>1, <3>2 DEF IsCut
    <3>4. ~(b <= i)
      <4>1. Sorted(content) /\ b \in 1 .. Len(content)
        BY <1>3, <1>4, ChainIs
      <4> QED
        BY <3>1, <3>2, <4>1 DEF Sorted
    <3>5. i \in a + 1 .. b
      BY <1>3, <1>5, <3>1, <3>3, <3>4
    <3>6. content[i] = content[b]
      BY <1>3, <3>5
    <3> QED
      BY <3>1, <3>2, <3>6
  <2> QED
    BY <2>2 DEF Items
<1>8. /\ content[b] \in Range(content) /\ content[b] > level
      /\ UNCHANGED content
  <2>1. content[b] > level
    BY <1>2, <1>3, <1>4
  <2>2. content[b] \in Range(content)
    BY <1>3 DEF Range, Items
  <2>3. UNCHANGED content
    BY DEF ProcessLevel, chainVars
  <2> QED
    BY <2>1, <2>2, <2>3
<1>9. content[b] \in Stream!Range(content)
  BY <1>8 DEF Stream!Range, Range
<1> QED
  BY <1>3, <1>6, <1>7, <1>8, <1>9 DEF Stream!Deliver, Stream!Barren

(* Every step of the fetcher is one of the stream, or none.                 *)
LEMMA StreamKeeps ==
  ASSUME FetcherAssumption, Inv, [Next]_vars
  PROVE  [Stream!StreamNext]_Stream!streamVars
<1>0. UNCHANGED content
  BY ChainFixed DEF chainVars
<1> SUFFICES ASSUME ~(level' = level /\ delivered' = delivered)
             PROVE  Stream!StreamNext
  BY <1>0 DEF Stream!streamVars
<1>1. ~Synchronize
  <2> SUFFICES ASSUME Synchronize PROVE FALSE
    OBVIOUS
  <2>1. \E to : StartFetcher(to)
    BY DEF Synchronize, StartPages, StartOperations, SynchronizeEvmEvents,
      SynchronizeEvmTransactions, SynchronizeStarknet, SynchronizeSubstrate, StartBlocks
  <2> QED
    BY <2>1 DEF StartFetcher
<1>2. ~Fetch
  <2> SUFFICES ASSUME Fetch PROVE FALSE
    OBVIOUS
  <2>1. Answered
    BY DEF Fetch, FetchPage, FetchLogs, FetchBlocks, FromSubsquid, IterEvmEvents,
      IterEvmTransactions, IterStarknetEvents, IterSubstrateEvents, FromWorker, FetchChannel,
      TakeEvents
  <2> QED
    BY <2>1 DEF Answered
<1>3. ~(\E s \in Stages : Pipeline(s))
  BY DEF Pipeline, Collect, Answer, fetcherVars, indexVars
<1>4. ~ReadaheadTask
  BY DEF ReadaheadTask, RequestFails, SplitLevel, ReadaheadDone, indexVars
<1>5. ~Finished /\ ~(UNCHANGED vars)
  BY DEF Finished, vars, fetcherVars, indexVars
<1>6. IndexTask /\ ~Crash /\ ~Restart
  BY <1>1, <1>2, <1>3, <1>4, <1>5 DEF Next, Crash, Restart
<1>7. UNCHANGED <<offset, blockVars, channelVars, substrateVars>> /\ (ProcessLevel \/ Synchronized)
  BY <1>6 DEF IndexTask
<1>8. status = "syncing"
  BY <1>7 DEF ProcessLevel, Synchronized
<1>9. PICK g \in Nat : SyncAt(g)
  BY <1>8 DEF Inv
<1>10. ChainInv /\ IndexInv
  BY DEF Inv
<1>11. CASE ProcessLevel
  BY <1>7, <1>9, <1>10, <1>11, ProcessLevelDelivers DEF Stream!StreamNext
<1>12. CASE Synchronized
  <2>1. readahead = <<>> /\ task = "done" /\ level' = target /\ delivered' = delivered
    BY <1>12 DEF Synchronized
  <2>2. \A i \in Items : content[i] \notin level + 1 .. target
    BY <1>9, <1>10, <2>1, SynchronizedIs
  <2>3. target > level
    <3>1. target \in level .. MaxLevel /\ level \in 0 .. MaxLevel /\ target # level
      BY <1>9, <1>10, <2>1 DEF SyncAt, IndexInv
    <3> QED
      BY <3>1
  <2>4. Stream!Advance
    BY <1>0, <2>1, <2>2, <2>3 DEF Stream!Advance, Stream!Barren, Items
  <2> QED
    BY <2>4 DEF Stream!StreamNext
<1> QED
  BY <1>7, <1>11, <1>12

(* Whatever an index is fed from, and however pages are cut, channels       *)
(* interleave, requests fail and the process is restarted, it is given the  *)
(* levels in order, each of them once, and with all of its items.           *)
THEOREM StreamImplemented ==
  ASSUME Ordinary
  PROVE  Spec => ImplementsStream
<1>1. Init => Stream!StreamInit
  BY StreamStarts
<1>2. Inv /\ [Next]_vars => [Stream!StreamNext]_Stream!streamVars
  BY StreamKeeps, FetcherAssumption
<1> QED
  BY <1>1, <1>2, SyncsInOrder, PTL DEF Spec, ImplementsStream, Stream!StreamSpec
-----------------------------------------------------------------------------

(* The pipeline drains.                                                     *)

FullBatches(n) == \E k \in Nat : n = k * PageSize
Waits(s) == loop[s] \in {"asking", "last"}

(* Something is left for stage s to collect, or will come.                  *)
Fed(s) == (\E q \in 1 .. s : queues[q] # <<>>) \/ \E q \in 1 .. s - 1 : Waits(q)

(* Nothing is left for stage s, and nothing will come.                      *)
Dry(s) == (\A q \in 1 .. s : queues[q] = <<>>) /\ \A q \in 1 .. s - 1 : loop[q] = "done"

PipesTyped ==
  /\ queues \in [1 .. 4 -> Seq(Int)] /\ batch \in [Stages -> Seq(Int)]
  /\ loop \in [Stages -> {"collecting", "asking", "last", "done"}]

(* A stage passes on full batches until it has ended; only then can the     *)
(* next one collect less than one and take it for the last.                 *)
DrainAt(s) ==
  /\ batch[s] # <<>> <=> Waits(s)
  /\ loop[s] = "asking" => Len(batch[s]) = PageSize
  /\ loop[s] \in {"last", "done"} => Dry(s)
  /\ loop[s] # "done" /\ s + 1 \in Stages => FullBatches(Len(queues[s + 1]))
  /\ loop[s] = "collecting" => Fed(s)

Drains == PipesTyped /\ \A s \in Stages : DrainAt(s)

(* Numbers of levels that are full batches, with one more and one fewer.    *)
LEMMA BatchesAre ==
  ASSUME FetcherAssumption
  PROVE  /\ FullBatches(0)
         /\ \A n \in Nat : FullBatches(n) => FullBatches(n + PageSize)
         /\ \A n \in Nat : FullBatches(n) /\ n # 0 => n >= PageSize /\ FullBatches(n - PageSize)
<1>1. PageSize \in Nat /\ PageSize > 0
  BY DEF FetcherAssumption
<1>2. FullBatches(0)
  <2>1. 0 \in Nat /\ 0 = 0 * PageSize
    BY <1>1
  <2> QED
    BY <2>1 DEF FullBatches
<1>3. ASSUME NEW n \in Nat, FullBatches(n) PROVE FullBatches(n + PageSize)
  <2>1. PICK k \in Nat : n = k * PageSize
    BY <1>3 DEF FullBatches
  <2>2. k + 1 \in Nat /\ n + PageSize = (k + 1) * PageSize
    BY <1>1, <2>1
  <2> QED
    BY <2>2 DEF FullBatches
<1>4. ASSUME NEW n \in Nat, FullBatches(n), n # 0 PROVE n >= PageSize /\ FullBatches(n - PageSize)
  <2>1. PICK k \in Nat : n = k * PageSize
    BY <1>4 DEF FullBatches
  <2>2. k # 0
    BY <1>1, <1>4, <2>1
  <2>3. k - 1 \in Nat /\ n - PageSize = (k - 1) * PageSize
    BY <1>1, <2>1, <2>2
  <2>4. (k - 1) * PageSize >= 0
    BY <1>1, <2>3
  <2>5. n >= PageSize
    BY <1>1, <2>3, <2>4
  <2> QED
    BY <2>3, <2>5 DEF FullBatches
<1> QED
  BY <1>2, <1>3, <1>4

(* What is collected: a full batch, or what is left of the last one.        *)
LEMMA CollectIs ==
  ASSUME FetcherAssumption, Drains, NEW s \in Stages, Collect(s)
  PROVE  /\ PipesTyped'
         /\ \A q \in 1 .. 4 : q # s => queues'[q] = queues[q]
         /\ \A q \in Stages : q # s => batch'[q] = batch[q] /\ loop'[q] = loop[q]
         /\ batch'[s] # <<>>
         /\ \/ /\ loop'[s] = "asking" /\ Len(batch'[s]) = PageSize
               /\ Len(queues[s]) >= PageSize /\ Len(queues'[s]) = Len(queues[s]) - PageSize
            \/ /\ loop'[s] = "last" /\ Len(queues[s]) < PageSize
               /\ DrainedBefore(s, queues')
            \/ /\ loop'[s] = "collecting" /\ Len(queues[s]) < PageSize
               /\ queues'[s] = <<>> /\ ~DrainedBefore(s, queues')
<1>1. /\ queues \in [1 .. 4 -> Seq(Int)] /\ batch \in [Stages -> Seq(Int)]
      /\ loop \in [Stages -> {"collecting", "asking", "last", "done"}]
      /\ loop[s] = "collecting" /\ queues[s] # <<>> /\ s \in 1 .. 4
      /\ PageSize \in Nat /\ PageSize > 0
  BY DEF Drains, PipesTyped, Collect, Stages, FetcherAssumption
<1>2. batch[s] = <<>>
  <2>1. ~Waits(s)
    BY <1>1 DEF Waits
  <2> QED
    BY <2>1 DEF Drains, DrainAt
<1>3. PICK n : n = Min({PageSize - Len(batch[s]), Len(queues[s])})
  OBVIOUS
<1>4. PICK q0 : q0 = queues[s]
  OBVIOUS
<1>5. q0 \in Seq(Int) /\ q0 # <<>> /\ Len(q0) \in Nat /\ Len(q0) > 0
  BY <1>1, <1>4
<1>6. n = Min({PageSize, Len(q0)})
  <2>1. Len(batch[s]) = 0 /\ PageSize - 0 = PageSize
    BY <1>1, <1>2
  <2> QED
    BY <1>3, <1>4, <2>1
<1>7. n \in {PageSize, Len(q0)} /\ n <= PageSize /\ n <= Len(q0)
  <2>1. PICK y : y = Len(q0)
    OBVIOUS
  <2>2. PageSize \in Int /\ y \in Int
    BY <1>1, <1>5, <2>1
  <2>3. Min({PageSize, y}) \in {PageSize, y} /\ Min({PageSize, y}) <= PageSize
        /\ Min({PageSize, y}) <= y
    BY <2>2, MinOfTwo
  <2> QED
    BY <1>6, <2>1, <2>3
<1>8. n \in Nat /\ n > 0 /\ n \in 1 .. Len(q0)
  BY <1>1, <1>5, <1>7
<1>9. PICK taken, rest : taken = SubSeq(q0, 1, n) /\ rest = SubSeq(q0, n + 1, Len(q0))
  OBVIOUS
<1>10. /\ taken \in Seq(Int) /\ Len(taken) = n /\ rest \in Seq(Int) /\ Len(rest) = Len(q0) - n
       /\ taken # <<>>
  <2>1. taken \in Seq(Int) /\ Len(taken) = n
    BY <1>5, <1>8, <1>9
  <2>2. rest \in Seq(Int) /\ Len(rest) = Len(q0) - n
    BY <1>5, <1>8, <1>9
  <2> QED
    BY <1>8, <2>1, <2>2
<1>11. batch[s] \o taken = taken
  BY <1>2, <1>10
<1>12. /\ queues' = [queues EXCEPT ![s] = rest]
       /\ batch' = [batch EXCEPT ![s] = taken]
  <2>1. /\ queues' = [queues EXCEPT ![s] = SubSeq(@, n + 1, Len(@))]
        /\ batch' = [batch EXCEPT ![s] = @ \o SubSeq(queues[s], 1, n)]
    BY <1>3 DEF Collect
  <2>2. queues' = [queues EXCEPT ![s] = SubSeq(queues[s], n + 1, Len(queues[s]))]
    BY <1>1, <2>1
  <2>3. batch' = [batch EXCEPT ![s] = batch[s] \o SubSeq(queues[s], 1, n)]
    BY <1>1, <2>1
  <2> QED
    BY <1>4, <1>9, <1>11, <2>2, <2>3
<1>13. loop' = [loop EXCEPT ![s] = IF n # PageSize /\ DrainedBefore(s, queues') THEN "last"
                                   ELSE IF n = PageSize THEN "asking" ELSE "collecting"]
  <2>1. Len(batch[s]) + n = n
    BY <1>2, <1>8
  <2>2. loop' = [loop EXCEPT ![s] =
           IF ~(Len(batch[s]) + n = PageSize)
                /\ DrainedBefore(s, [queues EXCEPT ![s] = SubSeq(@, n + 1, Len(@))])
             THEN "last"
             ELSE IF Len(batch[s]) + n = PageSize THEN "asking" ELSE "collecting"]
    BY <1>3 DEF Collect
  <2>3. queues' = [queues EXCEPT ![s] = SubSeq(@, n + 1, Len(@))]
    BY <1>3 DEF Collect
  <2> QED
    BY <2>1, <2>2, <2>3
<1>14. /\ PipesTyped' /\ queues'[s] = rest /\ batch'[s] = taken
       /\ \A q \in 1 .. 4 : q # s => queues'[q] = queues[q]
       /\ \A q \in Stages : q # s => batch'[q] = batch[q] /\ loop'[q] = loop[q]
  <2>1. queues' \in [1 .. 4 -> Seq(Int)] /\ queues'[s] = rest
        /\ \A q \in 1 .. 4 : q # s => queues'[q] = queues[q]
    BY <1>1, <1>10, <1>12
  <2>2. batch' \in [Stages -> Seq(Int)] /\ batch'[s] = taken
        /\ \A q \in Stages : q # s => batch'[q] = batch[q]
    BY <1>1, <1>10, <1>12
  <2>3. loop' \in [Stages -> {"collecting", "asking", "last", "done"}]
        /\ \A q \in Stages : q # s => loop'[q] = loop[q]
    BY <1>1, <1>13
  <2> QED
    BY <2>1, <2>2, <2>3 DEF PipesTyped
<1>15. CASE n = PageSize
  <2>1. loop'[s] = "asking"
    BY <1>1, <1>13, <1>15
  <2>2. Len(batch'[s]) = PageSize /\ Len(queues[s]) >= PageSize
        /\ Len(queues'[s]) = Len(queues[s]) - PageSize
    BY <1>1, <1>4, <1>5, <1>7, <1>10, <1>14, <1>15
  <2> QED
    BY <1>10, <1>14, <2>1, <2>2
<1>16. CASE n # PageSize
  <2>1. n = Len(q0) /\ n < PageSize /\ Len(queues[s]) < PageSize
    BY <1>1, <1>4, <1>5, <1>7, <1>8, <1>16
  <2>2. queues'[s] = <<>>
    BY <1>5, <1>10, <1>14, <2>1
  <2>3. loop'[s] = IF DrainedBefore(s, queues') THEN "last" ELSE "collecting"
    BY <1>1, <1>13, <1>16
  <2> QED
    BY <1>10, <1>14, <2>1, <2>2, <2>3
<1> QED
  BY <1>15, <1>16

(* Collecting keeps the pipeline from being cut off.                        *)
LEMMA CollectDrains ==
  ASSUME FetcherAssumption, Drains, NEW s \in Stages, Collect(s)
  PROVE  Drains'
<1>1. /\ PipesTyped /\ \A r \in Stages : DrainAt(r)
      /\ loop[s] = "collecting" /\ queues[s] # <<>>
  BY DEF Drains, Collect
<1>2. /\ PipesTyped' /\ batch'[s] # <<>>
      /\ \A q \in 1 .. 4 : q # s => queues'[q] = queues[q]
      /\ \A q \in Stages : q # s => batch'[q] = batch[q] /\ loop'[q] = loop[q]
  BY CollectIs
<1>3. /\ queues[s] \in Seq(Int) /\ Len(queues[s]) \in Nat /\ Len(queues[s]) # 0
      /\ s \in 1 .. 3 /\ s \in Nat /\ PageSize \in Nat
  <2>1. s \in 1 .. 4 /\ s \in 1 .. 3
    BY DEF Stages
  <2>2. queues[s] \in Seq(Int)
    BY <1>1, <2>1 DEF PipesTyped
  <2> QED
    BY <1>1, <2>1, <2>2 DEF FetcherAssumption
<1>4. ASSUME Len(queues[s]) < PageSize
      PROVE  /\ \A q \in 1 .. s - 1 : queues[q] = <<>> /\ loop[q] = "done"
  <2>1. CASE s = 1
    BY <2>1
  <2>2. CASE s # 1
    <3>1. PICK r : r = s - 1
      OBVIOUS
    <3>2. r \in Stages /\ r + 1 = s /\ r + 1 \in Stages /\ r \in 1 .. 2
      BY <1>3, <2>2, <3>1 DEF Stages
    <3>3. ~FullBatches(Len(queues[s]))
      BY <1>3, <1>4, BatchesAre
    <3>4. loop[r] = "done"
      BY <1>1, <3>2, <3>3 DEF DrainAt
    <3>5. Dry(r)
      BY <1>1, <3>2, <3>4 DEF DrainAt
    <3>6. \A q \in 1 .. s - 1 : q \in 1 .. r /\ (q \in 1 .. r - 1 \/ q = r)
      BY <3>1, <3>2
    <3> QED
      BY <3>4, <3>5, <3>6 DEF Dry
  <2> QED
    BY <2>1, <2>2
<1>5. /\ loop'[s] \in {"asking", "last"}
      /\ loop'[s] = "asking" => Len(batch'[s]) = PageSize /\ Len(queues[s]) >= PageSize
                                /\ Len(queues'[s]) = Len(queues[s]) - PageSize
      /\ loop'[s] = "last" => Len(queues[s]) < PageSize /\ queues'[s] = <<>>
  <2>1. CASE loop'[s] = "collecting"
    <3>1. Len(queues[s]) < PageSize /\ queues'[s] = <<>> /\ ~DrainedBefore(s, queues')
      BY <2>1, CollectIs
    <3>2. \A q \in 1 .. s : queues'[q] = <<>>
      <4>1. \A q \in 1 .. s : q = s \/ (q \in 1 .. s - 1 /\ q # s /\ q \in 1 .. 4)
        BY <1>3
      <4> QED
        BY <1>2, <1>4, <3>1, <4>1
    <3> QED
      BY <3>1, <3>2 DEF DrainedBefore
  <2>2. CASE loop'[s] = "last"
    <3>1. Len(queues[s]) < PageSize /\ DrainedBefore(s, queues')
      BY <2>2, CollectIs
    <3>2. s \in 1 .. s
      BY <1>3
    <3> QED
      BY <2>2, <3>1, <3>2 DEF DrainedBefore
  <2>3. CASE loop'[s] = "asking"
    BY <2>3, CollectIs
  <2>4. loop'[s] \in {"collecting", "last", "asking"}
    BY CollectIs
  <2> QED
    BY <2>1, <2>2, <2>3, <2>4
<1>6. DrainAt(s)'
  <2>1. loop'[s] = "last" => Dry(s)'
    <3> SUFFICES ASSUME loop'[s] = "last" PROVE Dry(s)'
      OBVIOUS
    <3>1. \A q \in 1 .. s - 1 : q # s /\ q \in 1 .. 4 /\ q \in Stages
      BY <1>3 DEF Stages
    <3>2. \A q \in 1 .. s - 1 : queues'[q] = <<>> /\ loop'[q] = "done"
      BY <1>2, <1>4, <1>5, <3>1
    <3>3. \A q \in 1 .. s : q = s \/ q \in 1 .. s - 1
      BY <1>3
    <3> QED
      BY <1>5, <3>2, <3>3 DEF Dry
  <2>2. s + 1 \in Stages => FullBatches(Len(queues'[s + 1]))
    <3>1. s + 1 # s /\ (s + 1 \in Stages => s + 1 \in 1 .. 4)
      BY <1>3 DEF Stages
    <3>2. s + 1 \in Stages => FullBatches(Len(queues[s + 1]))
      BY <1>1 DEF DrainAt
    <3> QED
      BY <1>2, <3>1, <3>2
  <2>3. Waits(s)' /\ loop'[s] # "done" /\ loop'[s] # "collecting"
    BY <1>5 DEF Waits
  <2>4. FullBatches(Len(queues'[s + 1])) <=> FullBatches(Len(queues[s + 1]))'
    BY DEF FullBatches
  <2> QED
    BY <1>2, <1>5, <2>1, <2>2, <2>3, <2>4 DEF DrainAt
<1>7. ASSUME NEW r \in Stages, r # s PROVE DrainAt(r)'
  <2>0. /\ batch'[r] = batch[r] /\ loop'[r] = loop[r] /\ DrainAt(r) /\ r \in 1 .. 3
        /\ (Waits(r)' <=> Waits(r))
    BY <1>1, <1>2, <1>7 DEF Waits, Stages
  <2>1. loop[r] \in {"last", "done"} => Dry(r)'
    <3> SUFFICES ASSUME loop[r] \in {"last", "done"} PROVE Dry(r)'
      OBVIOUS
    <3>1. Dry(r)
      BY <2>0 DEF DrainAt
    <3>2. s \notin 1 .. r
      BY <1>1, <3>1 DEF Dry
    <3>3. \A q \in 1 .. r : q # s /\ q \in 1 .. 4 /\ q \in Stages
      BY <2>0, <3>2 DEF Stages
    <3>4. \A q \in 1 .. r : queues'[q] = queues[q]
      BY <1>2, <3>3
    <3>5. \A q \in 1 .. r - 1 : q \in 1 .. r
      BY <2>0
    <3>6. \A q \in 1 .. r - 1 : loop'[q] = loop[q]
      BY <1>2, <3>3, <3>5
    <3> QED
      BY <3>1, <3>4, <3>6 DEF Dry
  <2>2. loop[r] # "done" /\ r + 1 \in Stages => FullBatches(Len(queues'[r + 1]))
    <3> SUFFICES ASSUME loop[r] # "done", r + 1 \in Stages PROVE FullBatches(Len(queues'[r + 1]))
      OBVIOUS
    <3>1. PICK t : t = r + 1
      OBVIOUS
    <3>2. FullBatches(Len(queues[t])) /\ t \in 1 .. 4
      BY <2>0, <3>1 DEF DrainAt, Stages
    <3>3. CASE t = s
      <4>1. Len(queues[s]) >= PageSize /\ FullBatches(Len(queues[s]) - PageSize)
        BY <1>3, <3>2, <3>3, BatchesAre
      <4>2. loop'[s] = "asking"
        BY <1>3, <1>5, <4>1
      <4> QED
        BY <1>5, <3>1, <3>3, <4>1, <4>2
    <3>4. CASE t # s
      BY <1>2, <3>1, <3>2, <3>4
    <3> QED
      BY <3>3, <3>4
  <2>3. loop[r] = "collecting" => Fed(r)'
    <3> SUFFICES ASSUME loop[r] = "collecting" PROVE Fed(r)'
      OBVIOUS
    <3>1. Fed(r)
      BY <2>0 DEF DrainAt
    <3>2. CASE s < r
      <4>1. s \in 1 .. r - 1
        BY <1>3, <2>0, <3>2
      <4>2. Waits(s)'
        BY <1>5 DEF Waits
      <4> QED
        BY <4>1, <4>2 DEF Fed
    <3>3. CASE ~(s < r)
      <4>1. \A q \in 1 .. r : q # s /\ q \in 1 .. 4 /\ q \in Stages
        BY <1>3, <1>7, <2>0, <3>3 DEF Stages
      <4>2. \A q \in 1 .. r - 1 : q \in 1 .. r
        BY <2>0
      <4>3. \A q \in 1 .. r : queues'[q] = queues[q] /\ loop'[q] = loop[q]
        BY <1>2, <4>1
      <4> QED
        BY <3>1, <4>2, <4>3 DEF Fed, Waits
    <3> QED
      BY <3>2, <3>3
  <2>4. FullBatches(Len(queues'[r + 1])) <=> FullBatches(Len(queues[r + 1]))'
    BY DEF FullBatches
  <2> QED
    BY <2>0, <2>1, <2>2, <2>3, <2>4 DEF DrainAt
<1> QED
  BY <1>2, <1>6, <1>7 DEF Drains

(* The answers of a stage that is not outrun do, too.                       *)
LEMMA AnswerDrains ==
  ASSUME FetcherAssumption, "slow_requests" \notin Hazards, Drains, NEW s \in Stages, Answer(s)
  PROVE  Drains'
<1>1. /\ PipesTyped /\ \A r \in Stages : DrainAt(r)
      /\ Waits(s) /\ ~Outruns(s)
  BY DEF Drains, Answer, Waits
<1>2. s \in 1 .. 3 /\ s \in Nat /\ s \in 1 .. 4 /\ PageSize \in Nat
  BY DEF Stages, FetcherAssumption
<1>3. PICK t : t = s + 1
  OBVIOUS
<1>4. t \in 1 .. 4 /\ t # s /\ t \in Nat
  BY <1>2, <1>3
<1>5. /\ queues[t] \in Seq(Int) /\ batch[s] \in Seq(Int) /\ batch[s] # <<>>
  <2>1. queues[t] \in Seq(Int) /\ batch[s] \in Seq(Int)
    BY <1>1, <1>4 DEF PipesTyped
  <2> QED
    BY <1>1, <2>1 DEF DrainAt
<1>6. PICK q0 : q0 = queues[t] \o batch[s]
  OBVIOUS
<1>7. /\ q0 \in Seq(Int) /\ q0 # <<>> /\ Len(q0) = Len(queues[t]) + Len(batch[s])
      /\ Len(queues[t]) \in Nat /\ Len(batch[s]) \in Nat
  <2>1. q0 \in Seq(Int) /\ Len(q0) = Len(queues[t]) + Len(batch[s])
        /\ Len(queues[t]) \in Nat /\ Len(batch[s]) \in Nat
    BY <1>5, <1>6
  <2>2. \A e \in Seq(Int) : Len(e) = 0 <=> e = <<>>
    OBVIOUS
  <2>3. Len(batch[s]) # 0
    BY <1>5, <2>2
  <2>4. \A x, y \in Nat : y # 0 => x + y # 0
    OBVIOUS
  <2>5. Len(q0) # 0
    BY <2>1, <2>3, <2>4
  <2>6. q0 # <<>>
    BY <2>1, <2>2, <2>5
  <2> QED
    BY <2>1, <2>6
<1>8. /\ queues' = [queues EXCEPT ![t] = q0] /\ batch' = [batch EXCEPT ![s] = <<>>]
      /\ loop' = [loop EXCEPT ![s] = IF loop[s] = "last" \/ DrainedBefore(s, queues)
                                       THEN "done" ELSE "collecting"]
  <2>1. /\ queues' = [queues EXCEPT ![s + 1] = @ \o batch[s]]
        /\ batch' = [batch EXCEPT ![s] = <<>>]
        /\ loop' = [loop EXCEPT ![s] = IF @ = "last" \/ DrainedBefore(s, queues)
                                         THEN "done" ELSE "collecting"]
    BY DEF Answer
  <2>2. queues' = [queues EXCEPT ![t] = queues[t] \o batch[s]]
    BY <1>1, <1>3, <1>4, <2>1 DEF PipesTyped
  <2>3. loop' = [loop EXCEPT ![s] = IF loop[s] = "last" \/ DrainedBefore(s, queues)
                                      THEN "done" ELSE "collecting"]
    BY <1>1, <2>1 DEF PipesTyped
  <2> QED
    BY <1>6, <2>1, <2>2, <2>3
<1>9. /\ PipesTyped' /\ queues'[t] = q0 /\ batch'[s] = <<>>
      /\ \A q \in 1 .. 4 : q # t => queues'[q] = queues[q]
      /\ \A q \in Stages : q # s => batch'[q] = batch[q] /\ loop'[q] = loop[q]
      /\ loop'[s] = IF loop[s] = "last" \/ DrainedBefore(s, queues) THEN "done" ELSE "collecting"
  <2>1. queues' \in [1 .. 4 -> Seq(Int)] /\ queues'[t] = q0
        /\ \A q \in 1 .. 4 : q # t => queues'[q] = queues[q]
    BY <1>1, <1>4, <1>7, <1>8 DEF PipesTyped
  <2>2. batch' \in [Stages -> Seq(Int)] /\ batch'[s] = <<>>
        /\ \A q \in Stages : q # s => batch'[q] = batch[q]
    BY <1>1, <1>8 DEF PipesTyped
  <2>3. loop' \in [Stages -> {"collecting", "asking", "last", "done"}]
        /\ \A q \in Stages : q # s => loop'[q] = loop[q]
    BY <1>1, <1>8 DEF PipesTyped
  <2>4. loop'[s] = IF loop[s] = "last" \/ DrainedBefore(s, queues) THEN "done" ELSE "collecting"
    BY <1>1, <1>8 DEF PipesTyped
  <2> QED
    BY <2>1, <2>2, <2>3, <2>4 DEF PipesTyped
<1>10. /\ \A q \in 1 .. s : queues'[q] = queues[q]
       /\ \A q \in 1 .. s - 1 : loop'[q] = loop[q] /\ q \in Stages /\ q \in 1 .. s
  <2>1. \A q \in 1 .. s : q # t /\ q \in 1 .. 4
    BY <1>2, <1>3
  <2>2. \A q \in 1 .. s - 1 : q # s /\ q \in Stages /\ q \in 1 .. s
    BY <1>2 DEF Stages
  <2> QED
    BY <1>9, <2>1, <2>2
<1>11. DrainAt(s)'
  <2>1. loop'[s] = "done" => Dry(s)
    <3>1. CASE loop[s] = "last"
      BY <1>1, <3>1 DEF DrainAt
    <3>2. CASE DrainedBefore(s, queues)
      <4>1. \A q \in 1 .. s : queues[q] = <<>>
        BY <3>2 DEF DrainedBefore
      <4>2. \A q \in 1 .. s - 1 : ~Waits(q)
        BY <1>1, <3>2 DEF Outruns, Waits
      <4>3. ASSUME NEW q \in 1 .. s - 1 PROVE loop[q] = "done"
        <5>1. q \in Stages /\ (\A p \in 1 .. q : p \in 1 .. s)
              /\ (\A p \in 1 .. q - 1 : p \in 1 .. s - 1)
          BY <1>2 DEF Stages
        <5>2. ~Fed(q)
          BY <4>1, <4>2, <5>1 DEF Fed
        <5>3. loop[q] # "collecting"
          BY <1>1, <5>1, <5>2 DEF DrainAt
        <5>4. loop[q] \in {"collecting", "asking", "last", "done"}
          BY <1>1, <5>1 DEF PipesTyped
        <5> QED
          BY <4>2, <5>3, <5>4 DEF Waits
      <4> QED
        BY <4>1, <4>3 DEF Dry
    <3> QED
      BY <1>9, <3>1, <3>2
  <2>2. loop'[s] = "done" => Dry(s)'
    BY <1>10, <2>1 DEF Dry
  <2>3. loop'[s] # "done" /\ s + 1 \in Stages => FullBatches(Len(queues'[s + 1]))
    <3> SUFFICES ASSUME loop'[s] # "done", s + 1 \in Stages PROVE FullBatches(Len(queues'[s + 1]))
      OBVIOUS
    <3>1. loop[s] = "asking"
      BY <1>1, <1>9 DEF Waits
    <3>2. Len(batch[s]) = PageSize /\ FullBatches(Len(queues[t]))
      BY <1>1, <1>3, <3>1 DEF DrainAt
    <3>3. FullBatches(Len(queues[t]) + PageSize)
      BY <1>7, <3>2, BatchesAre
    <3> QED
      BY <1>3, <1>7, <1>9, <3>2, <3>3
  <2>4. loop'[s] = "collecting" => Fed(s)'
    <3> SUFFICES ASSUME loop'[s] = "collecting" PROVE Fed(s)'
      OBVIOUS
    <3>1. ~DrainedBefore(s, queues)
      BY <1>9
    <3>2. PICK q \in 1 .. s : queues[q] # <<>>
      BY <3>1 DEF DrainedBefore
    <3>3. queues'[q] # <<>>
      BY <1>10, <3>2
    <3> QED
      BY <3>3 DEF Fed
  <2>5. loop'[s] \in {"done", "collecting"} /\ ~Waits(s)'
    BY <1>9 DEF Waits
  <2>6. FullBatches(Len(queues'[s + 1])) <=> FullBatches(Len(queues[s + 1]))'
    BY DEF FullBatches
  <2> QED
    BY <1>9, <2>2, <2>3, <2>4, <2>5, <2>6 DEF DrainAt
<1>12. ASSUME NEW r \in Stages, r # s PROVE DrainAt(r)'
  <2>0. /\ batch'[r] = batch[r] /\ loop'[r] = loop[r] /\ DrainAt(r) /\ r \in 1 .. 3 /\ r \in Nat
        /\ (Waits(r)' <=> Waits(r))
    BY <1>1, <1>9, <1>12 DEF Waits, Stages
  <2>1. loop[r] \in {"last", "done"} => Dry(r)'
    <3> SUFFICES ASSUME loop[r] \in {"last", "done"} PROVE Dry(r)'
      OBVIOUS
    <3>1. Dry(r)
      BY <2>0 DEF DrainAt
    <3>2. s \notin 1 .. r - 1
      BY <1>1, <3>1 DEF Dry, Waits
    <3>3. r < s
      BY <1>2, <1>12, <2>0, <3>2
    <3>4. (\A q \in 1 .. r : q \in 1 .. s) /\ (\A q \in 1 .. r - 1 : q \in 1 .. s - 1)
      BY <1>2, <2>0, <3>3
    <3> QED
      BY <1>10, <3>1, <3>4 DEF Dry
  <2>2. loop[r] # "done" /\ r + 1 \in Stages => FullBatches(Len(queues'[r + 1]))
    <3>1. r + 1 # t /\ r + 1 \in 1 .. 4
      BY <1>2, <1>3, <1>12, <2>0
    <3>2. queues'[r + 1] = queues[r + 1]
      BY <1>9, <3>1
    <3> QED
      BY <2>0, <3>2 DEF DrainAt
  <2>3. loop[r] = "collecting" => Fed(r)'
    <3> SUFFICES ASSUME loop[r] = "collecting" PROVE Fed(r)'
      OBVIOUS
    <3>1. Fed(r)
      BY <2>0 DEF DrainAt
    <3>2. CASE s < r
      <4>1. t \in 1 .. r /\ queues'[t] # <<>>
        BY <1>2, <1>3, <1>7, <1>9, <2>0, <3>2
      <4> QED
        BY <4>1 DEF Fed
    <3>3. CASE r < s
      <4>1. (\A q \in 1 .. r : q \in 1 .. s) /\ (\A q \in 1 .. r - 1 : q \in 1 .. s - 1)
        BY <1>2, <2>0, <3>3
      <4> QED
        BY <1>10, <3>1, <4>1 DEF Fed, Waits
    <3> QED
      BY <1>2, <1>12, <2>0, <3>2, <3>3
  <2>4. FullBatches(Len(queues'[r + 1])) <=> FullBatches(Len(queues[r + 1]))'
    BY DEF FullBatches
  <2> QED
    BY <2>0, <2>1, <2>2, <2>3, <2>4 DEF DrainAt
<1> QED
  BY <1>9, <1>11, <1>12 DEF Drains

(* A pipeline is started with something in its first queue, or is none.     *)
LEMMA StartDrains ==
  ASSUME FetcherAssumption, Ordinary, IndexInv, SynchronizeSubstrate
  PROVE  Drains'
<1>1. PICK to \in level .. MaxLevel : StartFetcher(to) /\ (to = level => kind # "substrate")
  BY StartBlocksIs DEF SynchronizeSubstrate
<1>2. level \in Nat /\ to \in Nat /\ level < to /\ target' = to /\ kind = "substrate"
  <2>1. kind = "substrate" /\ target' = to
    BY <1>1 DEF SynchronizeSubstrate, StartFetcher
  <2> QED
    BY <1>1, <2>1 DEF IndexInv
<1>3. PICK q \in Seq(Int) : /\ queues' = <<q, <<>>, <<>>, <<>>>>
                            /\ batch' = [s \in Stages |-> <<>>]
                            /\ \/ loop' = [s \in Stages |-> "collecting"] /\ q # <<>>
                               \/ loop' = [s \in Stages |-> "done"] /\ q = <<>>
  <2>1. CASE source' = "node"
    <3>1. QueueLevels
      BY <2>1 DEF SynchronizeSubstrate
    <3>2. PICK q : q = Run(level, to)
      OBVIOUS
    <3>3. q \in Seq(Int) /\ q # <<>>
      BY <1>2, <3>2, RunIs
    <3>4. /\ queues' = <<q, <<>>, <<>>, <<>>>> /\ batch' = [s \in Stages |-> <<>>]
          /\ loop' = [s \in Stages |-> IF s = 1 /\ queues'[1] = <<>> THEN "done" ELSE "collecting"]
      BY <1>2, <3>1, <3>2 DEF QueueLevels, Run
    <3>5. queues'[1] # <<>>
      BY <3>3, <3>4
    <3>6. loop' = [s \in Stages |-> "collecting"]
      BY <3>4, <3>5
    <3> QED
      BY <3>3, <3>4, <3>6
  <2>2. CASE source' # "node"
    <3>1. NoPipeline
      BY <2>2 DEF SynchronizeSubstrate
    <3>2. <<>> \in Seq(Int)
      OBVIOUS
    <3> QED
      BY <3>1, <3>2 DEF NoPipeline
  <2> QED
    BY <2>1, <2>2
<1>4. /\ queues' \in [1 .. 4 -> Seq(Int)] /\ queues'[1] = q
      /\ \A s \in 2 .. 4 : queues'[s] = <<>>
  <2>1. <<>> \in Seq(Int) /\ \A e \in Seq(Int) : <<q, e, e, e>> \in [1 .. 4 -> Seq(Int)]
    OBVIOUS
  <2>2. /\ <<q, <<>>, <<>>, <<>>>>[1] = q /\ <<q, <<>>, <<>>, <<>>>>[2] = <<>>
        /\ <<q, <<>>, <<>>, <<>>>>[3] = <<>> /\ <<q, <<>>, <<>>, <<>>>>[4] = <<>>
    OBVIOUS
  <2>3. \A s \in 2 .. 4 : s = 2 \/ s = 3 \/ s = 4
    OBVIOUS
  <2> QED
    BY <1>3, <2>1, <2>2, <2>3
<1>5. PipesTyped' /\ \A s \in Stages : batch'[s] = <<>> /\ ~Waits(s)'
  <2>1. batch' \in [Stages -> Seq(Int)] /\ \A s \in Stages : batch'[s] = <<>>
    <3>1. <<>> \in Seq(Int)
      OBVIOUS
    <3> QED
      BY <1>3, <3>1
  <2>2. /\ loop' \in [Stages -> {"collecting", "asking", "last", "done"}]
        /\ \A s \in Stages : loop'[s] \in {"collecting", "done"}
    BY <1>3
  <2> QED
    BY <1>4, <2>1, <2>2 DEF PipesTyped, Waits
<1>6. ASSUME NEW s \in Stages PROVE DrainAt(s)'
  <2>1. s \in 1 .. 3 /\ 1 \in 1 .. s /\ \A p \in 1 .. s - 1 : p \in Stages
    BY DEF Stages
  <2>2. s + 1 \in Stages => FullBatches(Len(queues'[s + 1]))
    <3>1. s + 1 \in 2 .. 4 /\ Len(<<>>) = 0
      BY <2>1
    <3> QED
      BY <1>4, <3>1, BatchesAre
  <2>3. CASE loop' = [r \in Stages |-> "collecting"] /\ q # <<>>
    <3>1. loop'[s] = "collecting" /\ Fed(s)'
      BY <1>4, <2>1, <2>3 DEF Fed
    <3>2. FullBatches(Len(queues'[s + 1])) <=> FullBatches(Len(queues[s + 1]))'
      BY DEF FullBatches
    <3> QED
      BY <1>5, <2>2, <3>1, <3>2 DEF DrainAt
  <2>4. CASE loop' = [r \in Stages |-> "done"] /\ q = <<>>
    <3>1. loop'[s] = "done" /\ \A p \in 1 .. s - 1 : loop'[p] = "done"
      BY <2>1, <2>4
    <3>2. \A p \in 1 .. s : p = 1 \/ p \in 2 .. 4
      BY <2>1
    <3>3. Dry(s)'
      BY <1>4, <2>4, <3>1, <3>2 DEF Dry
    <3> QED
      BY <1>5, <3>1, <3>3 DEF DrainAt
  <2> QED
    BY <1>3, <2>3, <2>4
<1> QED
  BY <1>5, <1>6 DEF Drains

(* What comes out of the pipeline is of no concern to it.                   *)
LEMMA OthersDrain ==
  ASSUME Drains, UNCHANGED <<batch, loop>>,
         \/ UNCHANGED queues
         \/ queues[4] # <<>> /\ queues' = [queues EXCEPT ![4] = Tail(@)]
  PROVE  Drains'
<1>1. /\ PipesTyped /\ \A s \in Stages : DrainAt(s)
  BY DEF Drains
<1>2. queues' \in [1 .. 4 -> Seq(Int)] /\ \A q \in 1 .. 3 : queues'[q] = queues[q]
  <2>1. CASE UNCHANGED queues
    BY <1>1, <2>1 DEF PipesTyped
  <2>2. CASE queues[4] # <<>> /\ queues' = [queues EXCEPT ![4] = Tail(@)]
    <3>1. queues \in [1 .. 4 -> Seq(Int)] /\ queues[4] \in Seq(Int)
      BY <1>1 DEF PipesTyped
    <3>2. PICK rest : rest = Tail(queues[4])
      OBVIOUS
    <3>3. rest \in Seq(Int)
      BY <2>2, <3>1, <3>2
    <3>4. queues' = [queues EXCEPT ![4] = rest]
      BY <2>2, <3>1, <3>2
    <3> QED
      BY <3>1, <3>3, <3>4
  <2> QED
    BY <2>1, <2>2
<1>3. PipesTyped'
  BY <1>1, <1>2 DEF PipesTyped
<1>4. ASSUME NEW s \in Stages PROVE DrainAt(s)'
  <2>1. (\A q \in 1 .. s : q \in 1 .. 3) /\ (s + 1 \in Stages => s + 1 \in 1 .. 3)
    BY DEF Stages
  <2>2. \A q \in 1 .. s : queues'[q] = queues[q]
    BY <1>2, <2>1
  <2>3. (Dry(s)' <=> Dry(s)) /\ (Fed(s)' <=> Fed(s)) /\ (Waits(s)' <=> Waits(s))
    BY <2>2 DEF Dry, Fed, Waits
  <2>4. s + 1 \in Stages => (FullBatches(Len(queues[s + 1]))' <=> FullBatches(Len(queues[s + 1])))
    BY <1>2, <2>1 DEF FullBatches
  <2> QED
    BY <1>1, <2>3, <2>4 DEF DrainAt
<1> QED
  BY <1>3, <1>4 DEF Drains

(* Every step keeps the pipeline from being cut off.                        *)
LEMMA DrainsKept ==
  ASSUME FetcherAssumption, Ordinary, "slow_requests" \notin Hazards, Inv, Drains, [Next]_vars
  PROVE  Drains'
<1>1. CASE Synchronize
  <2>1. CASE SynchronizeSubstrate
    BY <2>1, StartDrains DEF Inv
  <2>2. CASE ~SynchronizeSubstrate
    <3>1. UNCHANGED substrateVars
      BY <1>1, <2>2 DEF Synchronize, SynchronizeEvmEvents, SynchronizeEvmTransactions,
        SynchronizeStarknet, othersThanPages, othersThanBlocks, othersThanChannels
    <3> QED
      BY <3>1, OthersDrain DEF substrateVars
  <2> QED
    BY <2>1, <2>2
<1>2. CASE Fetch
  <2>1. CASE TakeEvents
    <3>1. UNCHANGED <<batch, loop>> /\ (UNCHANGED queues \/
            (queues[4] # <<>> /\ queues' = [queues EXCEPT ![4] = Tail(@)]))
      BY <2>1 DEF TakeEvents
    <3> QED
      BY <3>1, OthersDrain
  <2>2. CASE ~TakeEvents
    <3>1. UNCHANGED substrateVars
      BY <1>2, <2>2 DEF Fetch, othersThanPages, othersThanBlocks, othersThanChannels
    <3> QED
      BY <3>1, OthersDrain DEF substrateVars
  <2> QED
    BY <2>1, <2>2
<1>3. CASE \E s \in Stages : Pipeline(s)
  BY <1>3, CollectDrains, AnswerDrains DEF Pipeline
<1>4. CASE ReadaheadTask \/ IndexTask \/ Finished \/ UNCHANGED vars
  <2>1. UNCHANGED substrateVars
    BY <1>4 DEF ReadaheadTask, IndexTask, Finished, vars
  <2> QED
    BY <2>1, OthersDrain DEF substrateVars
<1> QED
  BY <1>1, <1>2, <1>3, <1>4 DEF Next

(* Before the first sync there is nothing in it.                            *)
LEMMA DrainsStarts ==
  ASSUME Init
  PROVE  Drains
<1>1. /\ queues = <<<<>>, <<>>, <<>>, <<>>>> /\ batch = [s \in Stages |-> <<>>]
      /\ loop = [s \in Stages |-> "done"]
  BY DEF Init
<1>2. PipesTyped
  <2>1. <<>> \in Seq(Int) /\ \A e \in Seq(Int) : <<e, e, e, e>> \in [1 .. 4 -> Seq(Int)]
    OBVIOUS
  <2>2. queues \in [1 .. 4 -> Seq(Int)]
    BY <1>1, <2>1
  <2>3. batch \in [Stages -> Seq(Int)]
    BY <1>1, <2>1
  <2> QED
    BY <1>1, <2>2, <2>3 DEF PipesTyped
<1>3. \A q \in 1 .. 4 : queues[q] = <<>>
  <2>1. /\ <<<<>>, <<>>, <<>>, <<>>>>[1] = <<>> /\ <<<<>>, <<>>, <<>>, <<>>>>[2] = <<>>
        /\ <<<<>>, <<>>, <<>>, <<>>>>[3] = <<>> /\ <<<<>>, <<>>, <<>>, <<>>>>[4] = <<>>
    OBVIOUS
  <2>2. \A q \in 1 .. 4 : q = 1 \/ q = 2 \/ q = 3 \/ q = 4
    OBVIOUS
  <2> QED
    BY <1>1, <2>1, <2>2
<1>4. ASSUME NEW s \in Stages PROVE DrainAt(s)
  <2>1. (\A q \in 1 .. s : q \in 1 .. 4) /\ (\A q \in 1 .. s - 1 : q \in Stages)
    BY DEF Stages
  <2>2. Dry(s)
    BY <1>1, <1>3, <2>1 DEF Dry
  <2>3. loop[s] = "done" /\ batch[s] = <<>>
    BY <1>1
  <2> QED
    BY <2>2, <2>3 DEF DrainAt, Waits
<1> QED
  BY <1>2, <1>4 DEF Drains

(* As long as no task of the pipeline outruns the answers of one before it, *)
(* none of them ends with something left to do: the number of levels, the   *)
(* size of the batches and the order of the answers do not matter.          *)
THEOREM NothingIsStranded ==
  ASSUME Ordinary, "slow_requests" \notin Hazards
  PROVE  Spec => []NothingStranded
<1>1. Init => Drains
  BY DrainsStarts
<1>2. Inv /\ Drains /\ [Next]_vars => Drains'
  BY DrainsKept, FetcherAssumption
<1>3. Drains => NothingStranded
  <2> SUFFICES ASSUME Drains, NEW s \in Stages, loop[s] = "done" PROVE queues[s] = <<>>
    BY DEF NothingStranded
  <2>1. Dry(s) /\ s \in 1 .. s
    BY DEF Drains, DrainAt, Stages
  <2> QED
    BY <2>1 DEF Dry
<1> QED
  BY <1>1, <1>2, <1>3, SyncsInOrder, PTL DEF Spec
=============================================================================

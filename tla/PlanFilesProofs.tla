--------------------------- MODULE PlanFilesProofs ---------------------------
(***************************************************************************)
(* Theorems about the plans an app keeps on the robot, for every set of    *)
(* parts and combinations, whatever ids, names and parts an app gives      *)
(* them, and any number of requests, launches, failures and restarts.      *)
(***************************************************************************)
EXTENDS PlanFiles, FiniteSetTheorems, TLAPS

(* Loops over a list.  What a loop computes is an induction over the list;   *)
(* the numbers for which a fact holds are a set, and a set of naturals with  *)
(* 0 and with every next number is all of them.                              *)
LEMMA LeastNumber ==
  ASSUME NEW T \in SUBSET Nat, T # {}
  PROVE  \E x \in T : \A y \in T : x <= y
<1> DEFINE Upto == {0 .. x : x \in T}
<1>1. Upto \subseteq FiniteSubsetsOf(Nat)
  <2> SUFFICES ASSUME NEW x \in T PROVE 0 .. x \in FiniteSubsetsOf(Nat)
    OBVIOUS
  <2>1. IsFiniteSet(0 .. x)
    BY FS_Interval
  <2> QED BY <2>1 DEF FiniteSubsetsOf
<1>2. Upto # {}
  OBVIOUS
<1>3. PICK s \in Upto : \A t \in Upto : <<t, s>> \notin StrictSubsetOrdering(Nat)
  BY <1>1, <1>2, WFMin, FS_StrictSubsetOrderingWellFounded
<1>4. PICK x \in T : s = 0 .. x
  OBVIOUS
<1>5. ASSUME NEW y \in T, ~ (x <= y) PROVE FALSE
  <2>1. 0 .. y \in Upto /\ 0 .. y \subseteq s /\ 0 .. y # s
    BY <1>4, <1>5
  <2>2. <<0 .. y, s>> \in StrictSubsetOrdering(Nat)
    BY <2>1, <1>4 DEF StrictSubsetOrdering
  <2> QED BY <2>1, <2>2, <1>3
<1> QED BY <1>4, <1>5

(* Induction, over a set.                                                   *)
LEMMA SetInduction ==
  ASSUME NEW S, 0 \in S, \A n \in Nat : n \in S => n + 1 \in S
  PROVE  Nat \subseteq S
<1> SUFFICES ASSUME Nat \ S # {} PROVE FALSE
  OBVIOUS
<1>1. PICK x \in Nat \ S : \A y \in Nat \ S : x <= y
  BY LeastNumber
<1>2. x # 0 /\ x - 1 \in Nat
  BY <1>1
<1>3. x - 1 \in S
  BY <1>1, <1>2
<1> QED BY <1>1, <1>2, <1>3

(* A function over 0 .. N that is defined by recursion exists.             *)
Iterates(N, V, a, g) ==
  \E f \in [0 .. N -> V] : f[0] = a /\ \A i \in 1 .. N : f[i] = g[i][f[i - 1]]

LEMMA FunctionByRecursion ==
  ASSUME NEW N \in Nat, NEW V, NEW a \in V, NEW g \in [1 .. N -> [V -> V]]
  PROVE  Iterates(N, V, a, g)
<1> DEFINE Upto(n, f) == f[0] = a /\ \A i \in 1 .. n : f[i] = g[i][f[i - 1]]
           S == {n \in Nat : n <= N => \E f \in [0 .. n -> V] : Upto(n, f)}
<1>1. 0 \in S
  <2>1. [i \in 0 .. 0 |-> a] \in [0 .. 0 -> V] /\ Upto(0, [i \in 0 .. 0 |-> a])
    OBVIOUS
  <2> QED BY <2>1
<1>2. ASSUME NEW n \in Nat, n \in S PROVE n + 1 \in S
  <2> SUFFICES ASSUME n + 1 <= N PROVE \E f \in [0 .. n + 1 -> V] : Upto(n + 1, f)
    OBVIOUS
  <2>1. PICK f \in [0 .. n -> V] : Upto(n, f)
    BY <1>2
  <2> DEFINE h == [i \in 0 .. n + 1 |-> IF i = n + 1 THEN g[n + 1][f[n]] ELSE f[i]]
  <2>2. h \in [0 .. n + 1 -> V]
    OBVIOUS
  <2>3. h[0] = a
    BY <2>1
  <2>4. ASSUME NEW i \in 1 .. n + 1 PROVE h[i] = g[i][h[i - 1]]
    BY <2>1
  <2> QED BY <2>2, <2>3, <2>4
<1>3. N \in S
  <2> HIDE DEF S
  <2> QED BY <1>1, <1>2, SetInduction
<1> QED BY <1>3 DEF Iterates

(* What is kept of a list is in the list, and in the set. *)
LEMMA WithinTypes ==
  ASSUME NEW S, NEW s \in Seq(S), NEW T \in SUBSET S
  PROVE  Within(s, T) \in Seq(T)
<1> DEFINE N == Len(s)
           V == Seq(T)
           Pass(x, i) == IF s[i] \in T THEN Append(x, s[i]) ELSE x
           g == [i \in 1 .. N |-> [x \in V |-> Pass(x, i)]]
           Run(f) == [i \in 0 .. N |-> IF i = 0 THEN <<>> ELSE Pass(f[i - 1], i)]
           kept == CHOOSE h : h = Run(h)
<1>1. <<>> \in V
  OBVIOUS
<1>2. ASSUME NEW i \in 1 .. N, NEW x \in V PROVE Pass(x, i) \in V
  OBVIOUS
<1>3. g \in [1 .. N -> [V -> V]]
  <2> HIDE DEF Pass, V
  <2> QED BY <1>2
<1>4. PICK f \in [0 .. N -> V] : f[0] = <<>> /\ \A i \in 1 .. N : f[i] = g[i][f[i - 1]]
  <2>1. N \in Nat
    OBVIOUS
  <2> HIDE DEF g, V, N
  <2>2. Iterates(N, V, <<>>, g)
    BY <2>1, <1>1, <1>3, FunctionByRecursion
  <2> QED BY <2>2 DEF Iterates
<1>5. f = Run(f)
  <2> HIDE DEF Pass, V
  <2>1. ASSUME NEW i \in 1 .. N PROVE f[i] = Pass(f[i - 1], i)
    <3>1. f[i - 1] \in V
      OBVIOUS
    <3>2. g[i] = [x \in V |-> Pass(x, i)]
      OBVIOUS
    <3>3. f[i] = g[i][f[i - 1]]
      BY <1>4
    <3> HIDE DEF g
    <3> QED BY <3>1, <3>2, <3>3
  <2> QED BY <2>1, <1>4
<1>6. kept = Run(kept)
  <2> HIDE DEF Run
  <2> QED BY <1>5
<1>7. kept[0] = <<>> /\ \A i \in 1 .. N : kept[i] = Pass(kept[i - 1], i)
  <2> HIDE DEF Pass, kept
  <2> QED BY <1>6
<1>8. kept[N] \in V
  <2> DEFINE I == {i \in Nat : i <= N => kept[i] \in V}
  <2>1. 0 \in I
    BY <1>1, <1>7
  <2>2. ASSUME NEW i \in Nat, i \in I PROVE i + 1 \in I
    <3> HIDE DEF Pass, kept, V
    <3> QED BY <2>2, <1>2, <1>7
  <2>3. Nat \subseteq I
    <3> HIDE DEF I
    <3> QED BY <2>1, <2>2, SetInduction
  <2>4. N \in Nat
    OBVIOUS
  <2> HIDE DEF V, kept
  <2> QED BY <2>3, <2>4
<1>9. Within(s, T) = kept[N]
  BY DEF Within
<1> QED BY <1>8, <1>9

(* The first entry with an id. *)
LEMMA FirstIs ==
  ASSUME NEW S, NEW l \in Seq(S), NEW id
  PROVE  /\ id \notin Ids(l) => First(l, id) = 0
         /\ id \in Ids(l) => First(l, id) \in DOMAIN l /\ l[First(l, id)].id = id
<1> DEFINE I == {i \in 1 .. Len(l) : l[i].id = id}
<1>1. First(l, id) = IF I # {} THEN Min(I) ELSE 0
  BY DEF First, SelectInSeq
<1>2. id \in Ids(l) <=> I # {}
  BY DEF Ids, ToSet
<1>3. CASE I # {}
  <2>1. I \subseteq Nat
    OBVIOUS
  <2>2. \E i \in I : \A j \in I : i <= j
    <3> HIDE DEF I
    <3> QED BY <1>3, <2>1, LeastNumber
  <2>3. Min(I) \in I
    <3> HIDE DEF I
    <3> QED BY <2>2 DEF Min
  <2> QED BY <1>1, <1>2, <1>3, <2>3
<1>4. CASE I = {}
  BY <1>1, <1>2, <1>4
<1> QED BY <1>3, <1>4

LEMMA ConcatIs ==
  ASSUME NEW S, NEW a \in Seq(S), NEW b \in Seq(S)
  PROVE  /\ a \o b \in Seq(S) /\ Len(a \o b) = Len(a) + Len(b)
         /\ Len(a) \in Nat /\ Len(b) \in Nat
         /\ \A i \in 1 .. Len(a) + Len(b) :
              (a \o b)[i] = IF i <= Len(a) THEN a[i] ELSE b[i - Len(a)]
OBVIOUS

(* What is left when one entry goes. *)
LEMMA RemoveAtIs ==
  ASSUME NEW S, NEW l \in Seq(S), NEW k \in DOMAIN l
  PROVE  /\ RemoveAt(l, k) \in Seq(S)
         /\ ToSet(RemoveAt(l, k)) = {l[i] : i \in DOMAIN l \ {k}}
<1> DEFINE r == RemoveAt(l, k)
           a == SubSeq(l, 1, k - 1)
           b == SubSeq(l, k + 1, Len(l))
<1>1. k \in 1 .. Len(l) /\ Len(l) \in Nat
  OBVIOUS
<1>2. /\ a \in Seq(S) /\ Len(a) = k - 1
      /\ \A i \in 1 .. k - 1 : a[i] = l[i]
  BY <1>1
<1>3. /\ b \in Seq(S) /\ Len(b) = Len(l) - k
      /\ \A i \in 1 .. Len(l) - k : b[i] = l[k + i]
  BY <1>1
<1>4. r \in Seq(S) /\ Len(r) = Len(l) - 1
  <2>1. r = a \o b
    BY DEF RemoveAt
  <2> HIDE DEF a, b, r
  <2>2. r \in Seq(S) /\ Len(r) = Len(a) + Len(b)
    BY <1>2, <1>3, <2>1, ConcatIs
  <2> QED BY <1>1, <1>2, <1>3, <2>2
<1>5. \A i \in 1 .. Len(l) - 1 : r[i] = IF i < k THEN l[i] ELSE l[i + 1]
  <2>1. r = a \o b
    BY DEF RemoveAt
  <2> HIDE DEF a, b, r
  <2> SUFFICES ASSUME NEW i \in 1 .. Len(l) - 1
               PROVE  r[i] = IF i < k THEN l[i] ELSE l[i + 1]
    OBVIOUS
  <2>2. r[i] = IF i <= Len(a) THEN a[i] ELSE b[i - Len(a)]
    <3>1. i \in 1 .. Len(a) + Len(b)
      BY <1>1, <1>2, <1>3
    <3> QED BY <1>2, <1>3, <2>1, <3>1, ConcatIs
  <2>3. CASE i < k
    BY <1>1, <1>2, <2>2, <2>3
  <2>4. CASE ~(i < k)
    <3>1. i - (k - 1) \in 1 .. Len(l) - k /\ k + (i - (k - 1)) = i + 1
      BY <1>1, <2>4
    <3>2. r[i] = b[i - (k - 1)]
      BY <1>1, <1>2, <2>2, <2>4
    <3> QED BY <1>3, <2>4, <3>1, <3>2
  <2> QED BY <2>3, <2>4
<1>6. ASSUME NEW i \in DOMAIN l \ {k} PROVE l[i] \in ToSet(r)
  <2>1. CASE i < k
    <3>1. i \in DOMAIN r /\ r[i] = l[i]
      BY <1>1, <1>4, <1>5, <2>1
    <3> QED BY <3>1 DEF ToSet
  <2>2. CASE ~(i < k)
    <3>1. i - 1 \in DOMAIN r /\ r[i - 1] = l[i]
      BY <1>1, <1>4, <1>5, <2>2
    <3> QED BY <3>1 DEF ToSet
  <2> QED BY <2>1, <2>2
<1>7. ASSUME NEW i \in DOMAIN r PROVE \E j \in DOMAIN l \ {k} : r[i] = l[j]
  BY <1>1, <1>4, <1>5
<1> HIDE DEF r, a, b
<1>8. ToSet(r) = {l[i] : i \in DOMAIN l \ {k}}
  BY <1>6, <1>7 DEF ToSet
<1> QED BY <1>4, <1>8 DEF r

(* A combination that loses one occurrence of a part. *)
LEMMA WithoutIs ==
  ASSUME NEW e \in Combination, NEW p
  PROVE  /\ Without(e, p) \in Combination
         /\ ToSet(Without(e, p).parts) \subseteq ToSet(e.parts)
         /\ (\A i, j \in DOMAIN e.parts : i # j => e.parts[i] # p \/ e.parts[j] # p)
              => p \notin ToSet(Without(e, p).parts)
<1> DEFINE s == e.parts
           r == RemoveFirst(s, p)
           I == {i \in 1 .. Len(s) : s[i] = p}
<1>1. s \in Seq(Part)
  BY DEF Combination
<1>2. Without(e, p) = [e EXCEPT !.parts = r]
  BY DEF Without
<1>3. CASE I = {}
  <2>1. r = s /\ p \notin ToSet(s)
    BY <1>1, <1>3 DEF RemoveFirst, ToSet
  <2> QED BY <1>1, <1>2, <2>1 DEF Combination
<1>4. CASE I # {}
  <2>1. Min(I) \in I
    <3>1. I \subseteq Nat
      OBVIOUS
    <3>2. \E i \in I : \A j \in I : i <= j
      <4> HIDE DEF I
      <4> QED BY <1>4, <3>1, LeastNumber
    <3> HIDE DEF I
    <3> QED BY <3>2 DEF Min
  <2>2. r = RemoveAt(s, Min(I))
    BY <1>4 DEF RemoveFirst, SelectInSeq
  <2>3. Min(I) \in DOMAIN s /\ s[Min(I)] = p
    BY <1>1, <2>1
  <2>4. r \in Seq(Part) /\ ToSet(r) = {s[i] : i \in DOMAIN s \ {Min(I)}}
    <3> HIDE DEF I, s, r
    <3> QED BY <1>1, <2>2, <2>3, RemoveAtIs
  <2>5. Without(e, p) \in Combination /\ Without(e, p).parts = r
    BY <1>2, <2>4 DEF Combination
  <2>6. ToSet(r) \subseteq ToSet(s)
    BY <2>4 DEF ToSet
  <2>7. (\A i, j \in DOMAIN s : i # j => s[i] # p \/ s[j] # p) => p \notin ToSet(r)
    BY <2>3, <2>4
  <2> QED BY <2>5, <2>6, <2>7
<1> QED BY <1>3, <1>4

(* A list of combinations that lose a part: no reference is new, and none to *)
(* the part is left unless it was somewhere twice.                           *)
Twice(l, p) ==
  \E e \in ToSet(l) : \E i, j \in DOMAIN e.parts :
    i # j /\ e.parts[i] = p /\ e.parts[j] = p

LEMMA DroppedIs ==
  ASSUME NEW l \in Seq(Combination), NEW p
  PROVE  /\ Dropped(l, p) \in Seq(Combination)
         /\ \A q : Refer(l, q) = {} => Refer(Dropped(l, p), q) = {}
         /\ ~Twice(l, p) => Refer(Dropped(l, p), p) = {}
<1> DEFINE T == {e \in ToSet(l) : e.parts # <<p>>}
           w == Within(l, T)
           d == [i \in DOMAIN w |-> Without(w[i], p)]
<1>1. l \in Seq(ToSet(l)) /\ ToSet(l) \subseteq Combination
  BY DEF ToSet
<1>2. w \in Seq(T)
  <2>1. T \in SUBSET ToSet(l)
    OBVIOUS
  <2> HIDE DEF T
  <2> QED BY <1>1, <2>1, WithinTypes
<1>3. Dropped(l, p) = d
  BY DEF Dropped
<1>4. ASSUME NEW i \in DOMAIN w
      PROVE  w[i] \in ToSet(l) /\ w[i] \in Combination
  <2>1. w[i] \in T
    <3> HIDE DEF T, w
    <3> QED BY <1>2
  <2> QED BY <1>1, <2>1
<1>5. d \in Seq(Combination)
  <2>1. Len(w) \in Nat /\ DOMAIN w = 1 .. Len(w)
    <3> HIDE DEF T, w
    <3> QED BY <1>2
  <2>2. \A i \in DOMAIN w : Without(w[i], p) \in Combination
    BY <1>4, WithoutIs
  <2> HIDE DEF w
  <2> QED BY <2>1, <2>2
<1>6. ASSUME NEW q, Refer(l, q) = {} PROVE Refer(d, q) = {}
  <2>1. \A i \in DOMAIN w : q \notin ToSet(w[i].parts)
    BY <1>4, <1>6 DEF Refer
  <2>2. \A i \in DOMAIN w : q \notin ToSet(Without(w[i], p).parts)
    BY <1>4, <2>1, WithoutIs
  <2> HIDE DEF w
  <2> QED BY <2>2 DEF Refer, ToSet
<1>7. ASSUME ~Twice(l, p) PROVE Refer(d, p) = {}
  <2>1. \A i \in DOMAIN w : p \notin ToSet(Without(w[i], p).parts)
    BY <1>4, <1>7, WithoutIs DEF Twice
  <2> HIDE DEF w
  <2> QED BY <2>1 DEF Refer, ToSet
<1> QED BY <1>3, <1>5, <1>6, <1>7

-----------------------------------------------------------------------------
(* Operations on their own: what they are about, and what they do to a list. *)
LEMMA OpTypes ==
  ASSUME NEW op \in Op
  PROVE  /\ op[1] \in {"addPart", "updatePart"} => op[2] \in PartEntry
         /\ op[1] \in {"removePart", "search", "drop", "repair"} => op[2] \in Part
         /\ op[1] \in {"removeComb", "get", "flag", "list"} => op[2] \in Comb
         /\ op[1] \in {"addComb", "resetComb"} => op[2] \in Combination
         /\ op[1] \in PartOps \cup {"search", "drop", "repair"}
                 \cup {"removeComb", "get", "flag", "list"} \cup {"addComb", "resetComb"}
         /\ Of(op) \in Manager
BY DEF Op, PartOps, Of, Manager

LEMMA EffectTypes ==
  ASSUME NEW op \in Op, NEW l \in List(Of(op)), Accepts(op, l)
  PROVE  Effect(op, l) \in List(Of(op))
<1>1. PICK S : List(Of(op)) = Seq(S) /\ S = IF Of(op) = "parts" THEN PartEntry ELSE Combination
  BY DEF List
<1>2. CASE op[1] \in {"addPart", "addComb"}
  <2>1. op[2] \in S
    BY <1>1, <1>2, OpTypes DEF Of, PartOps
  <2>2. \A s \in Seq(S), x \in S : Append(s, x) \in Seq(S)
    OBVIOUS
  <2>3. Append(l, op[2]) \in Seq(S)
    BY <1>1, <2>1, <2>2
  <2> QED BY <1>1, <1>2, <2>3 DEF Effect
<1>3. CASE op[1] \in {"updatePart", "resetComb"}
  <2>1. op[2] \in S
    BY <1>1, <1>3, OpTypes DEF Of, PartOps
  <2>2. [l EXCEPT ![First(l, op[2].id)] = op[2]] \in Seq(S)
    BY <1>1, <2>1
  <2> QED BY <1>1, <1>3, <2>2 DEF Effect
<1>4. CASE op[1] \in {"removePart", "removeComb"}
  <2>1. op[2] \in Ids(l)
    BY <1>4 DEF Accepts
  <2>2. First(l, op[2]) \in DOMAIN l
    BY <1>1, <2>1, FirstIs
  <2> QED BY <1>1, <1>4, <2>2, RemoveAtIs DEF Effect
<1>5. CASE op[1] \in {"drop", "repair"}
  <2>1. S = Combination
    BY <1>1, <1>5 DEF Of, PartOps
  <2> QED BY <1>1, <1>5, <2>1, DroppedIs DEF Effect
<1>6. CASE op[1] \notin {"addPart", "addComb", "updatePart", "resetComb",
                         "removePart", "removeComb", "drop", "repair"}
  BY <1>6 DEF Effect
<1> QED BY <1>2, <1>3, <1>4, <1>5, <1>6

(* An id goes with the part that is removed. *)
LEMMA GoneIsRemoved ==
  ASSUME NEW op \in Op, Of(op) = "parts", NEW l \in Seq(PartEntry), Accepts(op, l),
         NEW p \in Ids(l), p \notin Ids(Effect(op, l))
  PROVE  op[1] = "removePart" /\ op[2] = p
<1>1. PICK k \in DOMAIN l : l[k].id = p
  BY DEF Ids, ToSet
<1>2. op[1] \in {"addPart", "updatePart", "removePart", "list"}
  BY OpTypes DEF Of, PartOps
<1>3. ASSUME op[1] = "addPart" PROVE FALSE
  <2>1. op[2] \in PartEntry /\ Effect(op, l) = Append(l, op[2])
    BY <1>3, OpTypes DEF Effect
  <2>2. k \in DOMAIN Append(l, op[2]) /\ Append(l, op[2])[k] = l[k]
    BY <2>1
  <2> QED BY <1>1, <2>1, <2>2 DEF Ids, ToSet
<1>4. ASSUME op[1] = "updatePart" PROVE FALSE
  <2> DEFINE i == First(l, op[2].id)
             m == [l EXCEPT ![i] = op[2]]
  <2>1. Effect(op, l) = m /\ op[2].id \in Ids(l)
    BY <1>4 DEF Effect, Accepts
  <2>2. i \in DOMAIN l /\ l[i].id = op[2].id
    BY <2>1, FirstIs
  <2>3. k \in DOMAIN m /\ m[k].id = p
    <3> HIDE DEF i
    <3> QED BY <1>1, <2>2
  <2> HIDE DEF m
  <2> QED BY <2>1, <2>3 DEF Ids, ToSet
<1>5. ASSUME op[1] = "removePart", op[2] # p PROVE FALSE
  <2> DEFINE i == First(l, op[2])
             m == RemoveAt(l, i)
  <2>1. Effect(op, l) = m /\ op[2] \in Ids(l)
    BY <1>5 DEF Effect, Accepts
  <2>2. i \in DOMAIN l /\ l[i].id = op[2]
    BY <2>1, FirstIs
  <2>3. k \in DOMAIN l \ {i}
    BY <1>1, <1>5, <2>2
  <2>4. l[k] \in ToSet(m)
    BY <2>2, <2>3, RemoveAtIs
  <2> QED BY <1>1, <2>1, <2>4 DEF Ids
<1>6. ASSUME op[1] = "list" PROVE FALSE
  BY <1>6 DEF Effect
<1> QED BY <1>2, <1>3, <1>4, <1>5, <1>6

-----------------------------------------------------------------------------
(* Sequences of operations. *)
LEMMA SeqFacts ==
  ASSUME NEW s \in Seq(Op), NEW t \in Seq(Op), s # <<>>
  PROVE  /\ Head(s) \in Op /\ Tail(s) \in Seq(Op)
         /\ s \o t \in Seq(Op) /\ s \o t # <<>>
         /\ Head(s \o t) = Head(s)
<1>1. Len(s) \in Nat \ {0} /\ s[1] \in Op
  OBVIOUS
<1>2. s \o t \in Seq(Op) /\ Len(s \o t) = Len(s) + Len(t) /\ Len(t) \in Nat
  OBVIOUS
<1>3. (s \o t)[1] = s[1]
  BY <1>1
<1> QED BY <1>1, <1>2, <1>3

LEMMA SeqBuild ==
  ASSUME NEW S
  PROVE  /\ \A x \in S : <<x>> \in Seq(S)
         /\ \A x, y \in S : <<x, y>> \in Seq(S)
         /\ \A s, t \in Seq(S) : s \o t \in Seq(S)
         /\ \A n \in Nat : [1 .. n -> S] \subseteq Seq(S)
OBVIOUS

LEMMA HandlerOps ==
  /\ \A e \in Parts : EditParts(e) \subseteq Seq(Op)
  /\ \A e \in Plans : EditCombs(e) \subseteq Seq(Op)
  /\ \A c \in Comb : /\ Dispatch(c) \in Seq(Op)
                     /\ <<<<"get", c>>>> \in Seq(Op)
                     /\ <<<<"get", c>>>> \o Dispatch(c) \in Seq(Op)
<1>1. /\ \A e \in PartEntry : <<"addPart", e>> \in Op /\ <<"updatePart", e>> \in Op
      /\ \A p \in Part : \A k \in {"removePart", "search", "drop"} : <<k, p>> \in Op
  BY DEF Op
<1>2. \A c \in Comb : \A k \in {"removeComb", "get", "flag", "list"} : <<k, c>> \in Op
  BY DEF Op
<1>3. \A e \in Combination : <<"addComb", e>> \in Op /\ <<"resetComb", e>> \in Op
  BY DEF Op
<1>4. /\ \A e \in Plans : e \in Combination /\ e.id \in Comb
      /\ \A e \in Parts : e \in PartEntry /\ e.id \in Part
  BY PlansAssumption DEF Combination, PartEntry
<1>5. \A c \in Comb : Details(c) \in Seq(Op)
  BY <1>2, SeqBuild DEF Details
<1>6. \A c \in Comb : <<<<"get", c>>>> \in Seq(Op)
  BY <1>2, SeqBuild
<1>7. \A c \in Comb : Dispatch(c) \in Seq(Op)
  BY <1>5, <1>6, SeqBuild DEF Dispatch
<1>8. \A e \in Parts : EditParts(e) \subseteq Seq(Op)
  BY <1>1, <1>4, SeqBuild DEF EditParts, PartDelete, PartDeleteForce
<1>9. \A e \in Plans : EditCombs(e) \subseteq Seq(Op)
  BY <1>2, <1>3, <1>4, <1>5, SeqBuild DEF EditCombs
<1> QED BY SeqBuild, <1>6, <1>7, <1>8, <1>9

(* The repairs of a look-up are about parts it did not find. *)
LEMMA RepairsTypes ==
  ASSUME NEW th \in Thread, NEW l, Head(todo[th]) \in Op, l \in List(Mine(th)),
         Accepts(Head(todo[th]), l)
  PROVE  /\ Repairs(th, l) \in Seq(Op)
         /\ \A i \in DOMAIN Repairs(th, l) :
              /\ partsRead[th] # Blank
              /\ \E p \in Part : Repairs(th, l)[i] = <<"repair", p>> /\ p \notin partsRead[th]
<1> DEFINE op == Head(todo[th])
           e == l[First(l, op[2])]
           q == Unmatched(th, e)
<1>1. CASE ~(op[1] = "get" /\ partsRead[th] # Blank)
  <2>1. Repairs(th, l) = <<>>
    BY <1>1 DEF Repairs
  <2> QED BY <2>1
<1>2. CASE op[1] = "get" /\ partsRead[th] # Blank
  <2>1. l \in Seq(Combination) /\ op[2] \in Ids(l)
    BY <1>2 DEF List, Mine, Of, PartOps, Accepts
  <2>2. e \in Combination
    <3>1. First(l, op[2]) \in DOMAIN l
      BY <2>1, FirstIs
    <3> QED BY <2>1, <3>1
  <2>3. e.parts \in Seq(Part)
    BY <2>2 DEF Combination
  <2>4. q \in Seq(Part \ partsRead[th])
    <3> HIDE DEF e
    <3> QED BY <2>3, WithinTypes DEF Unmatched
  <2>5. Repairs(th, l) = [i \in DOMAIN q |-> <<"repair", q[i]>>]
    BY <1>2 DEF Repairs
  <2> HIDE DEF q
  <2>6. /\ DOMAIN q = 1 .. Len(q) /\ Len(q) \in Nat
        /\ \A i \in DOMAIN q : q[i] \in Part /\ q[i] \notin partsRead[th]
    BY <2>4
  <2>7. \A p \in Part : <<"repair", p>> \in Op
    BY DEF Op
  <2>8. Repairs(th, l) \in [1 .. Len(q) -> Op]
    BY <2>5, <2>6, <2>7
  <2>9. Repairs(th, l) \in Seq(Op)
    BY <2>6, <2>8, SeqBuild
  <2> QED BY <1>2, <2>5, <2>6, <2>9
<1> QED BY <1>1, <1>2

LEMMA IdsTypes ==
  ASSUME NEW l \in Seq(PartEntry)
  PROVE  Ids(l) \in SUBSET Part
<1>1. \A i \in DOMAIN l : l[i] \in PartEntry
  OBVIOUS
<1>2. \A e \in PartEntry : e.id \in Part
  BY DEF PartEntry
<1> QED BY <1>1, <1>2 DEF Ids, ToSet

-----------------------------------------------------------------------------
(* The invariant: one thread at a time is inside an operation on a manager; *)
(* it has done to the list what it is to do, and what it writes is the list. *)
Inside(th) == stage[th] # "open"

OneInside ==
  \A th, o \in Thread : th # o /\ Inside(th) /\ Inside(o) => Mine(th) # Mine(o)

(* A deletion by force leaves no reference to its part. *)
Freed(th) ==
  LET op == Head(todo[th]) IN
  op[1] = "drop" => op[2] \in doubled \/ Refer(list["combs"], op[2]) = {}

Edited(th) ==
  stage[th] = "save" =>
    LET m == Mine(th)
        op == Head(todo[th])
    IN /\ file[m] # Torn
       /\ file[m] # Blank => found[th] = file[m]
       /\ Accepts(op, found[th])
       /\ list[m] = Effect(op, found[th])
       /\ Freed(th)

Writing(th) ==
  stage[th] = "write" =>
    LET m == Mine(th)
    IN /\ file[m] = Blank
       /\ text[th] = list[m]
       /\ list[m] = Effect(Head(todo[th]), found[th])
       /\ Freed(th)

IInv ==
  /\ TypeOK /\ OneInside
  /\ \A th \in Thread : Edited(th) /\ Writing(th)

LEMMA InitInv == Init => IInv
<1> SUFFICES ASSUME Init PROVE IInv
  OBVIOUS
<1>1. DataTypes
  <2>1. PICK s \in Saved :
          file = [m \in Manager |-> IF m = "parts" THEN s.parts
                                    ELSE IF s.combs = <<>> THEN Blank ELSE s.combs]
    BY DEF Init
  <2>2. s.parts \in Seq(PartEntry) /\ s.combs \in Seq(Combination)
    BY PlansAssumption
  <2>3. \A m \in Manager : file[m] \in List(m) \cup {Blank, Torn}
    BY <2>1, <2>2 DEF List, Manager
  <2>4. \A m \in Manager : <<>> \in List(m)
    BY DEF List
  <2> QED BY <2>1, <2>3, <2>4 DEF Init, DataTypes
<1>3. HandlerTypes
  BY DEF Init, HandlerTypes
<1>4. BoundTypes
  <2>1. /\ requests = 0 /\ launches = 0 /\ failures = 0 /\ crashes = 0
        /\ race = FALSE /\ lost = {} /\ missed = {} /\ doubled = {}
    BY DEF Init
  <2>2. /\ race \in BOOLEAN /\ lost \in SUBSET Manager
        /\ missed \in SUBSET Part /\ doubled \in SUBSET Part
    BY <2>1, Zenon
  <2>3. /\ requests \in 0 .. MaxRequests /\ launches \in 0 .. MaxLaunches
        /\ failures \in 0 .. MaxFailures /\ crashes \in 0 .. MaxCrashes
    BY <2>1, PlanBounds
  <2> QED BY <2>2, <2>3 DEF BoundTypes
<1>5. \A th \in Thread : stage[th] = "open"
  BY DEF Init
<1> QED BY <1>1, <1>3, <1>4, <1>5 DEF TypeOK, IInv, OneInside, Inside, Edited, Writing

(* What the node has is in the file, or else in the list: what a thread is   *)
(* writing is the list.                                                      *)
Has(m) == IF file[m] \in {Blank, Torn} THEN list[m] ELSE file[m]

LEMMA LibraryIs ==
  IInv => \A m \in Manager : Library[m] = Has(m)
<1> SUFFICES ASSUME IInv, NEW m \in Manager PROVE Library[m] = Has(m)
  OBVIOUS
<1> DEFINE w == CHOOSE th \in Thread : At(th, "write") /\ Mine(th) = m
<1>1. CASE \E th \in Thread : At(th, "write") /\ Mine(th) = m
  <2>1. w \in Thread /\ At(w, "write") /\ Mine(w) = m
    BY <1>1
  <2>2. file[m] = Blank /\ text[w] = list[m]
    BY <2>1 DEF IInv, Writing, At
  <2> QED BY <1>1, <2>2 DEF Library, Has
<1>2. CASE ~\E th \in Thread : At(th, "write") /\ Mine(th) = m
  BY <1>2 DEF Library, Has
<1> QED BY <1>1, <1>2

(* What a step of a thread leaves alone. *)
LEMMA Locality ==
  ASSUME NEW th \in Thread, IInv, Operate(th)
  PROVE  /\ todo[th] # <<>> /\ Head(todo[th]) \in Op /\ Tail(todo[th]) \in Seq(Op)
         /\ Mine(th) \in Manager /\ doubled \subseteq doubled'
         /\ \A o \in Thread \ {th} :
              /\ todo'[o] = todo[o] /\ stage'[o] = stage[o] /\ text'[o] = text[o]
              /\ partsRead'[o] = partsRead[o] /\ found'[o] = found[o]
              /\ Mine(o)' = Mine(o)
              /\ Inside(o)' = Inside(o)
         /\ \A m \in Manager \ {Mine(th)} : file'[m] = file[m] /\ list'[m] = list[m]
         /\ DOMAIN file' = Manager /\ DOMAIN list' = Manager /\ DOMAIN text' = Thread
         /\ DOMAIN todo' = Thread /\ DOMAIN stage' = Thread /\ DOMAIN partsRead' = Thread
         /\ DOMAIN found' = Thread
<1>1. TypeOK
  BY DEF IInv
<1>2. todo[th] # <<>> /\ todo[th] \in Seq(Op)
  BY <1>1 DEF Operate, OpenFails, ParseThrows, ReadAndEdit, SaveFails, Truncate, Write,
     At, TypeOK, HandlerTypes
<1>3. Head(todo[th]) \in Op /\ Tail(todo[th]) \in Seq(Op)
  BY <1>2, SeqFacts
<1>4. Mine(th) \in Manager
  BY <1>3, OpTypes DEF Mine
<1>5. \A o \in Thread \ {th} :
        /\ todo'[o] = todo[o] /\ stage'[o] = stage[o] /\ text'[o] = text[o]
        /\ partsRead'[o] = partsRead[o] /\ found'[o] = found[o]
  BY <1>1 DEF Operate, OpenFails, ParseThrows, ReadAndEdit, SaveFails, Truncate, Write,
     Ends, Refused, Succeeds, TypeOK, DataTypes, HandlerTypes
<1>6. \A m \in Manager \ {Mine(th)} : file'[m] = file[m] /\ list'[m] = list[m]
  BY <1>1 DEF Operate, OpenFails, ParseThrows, ReadAndEdit, SaveFails, Truncate, Write,
     TypeOK, DataTypes
<1>7. /\ DOMAIN file' = Manager /\ DOMAIN list' = Manager /\ DOMAIN text' = Thread
      /\ DOMAIN todo' = Thread /\ DOMAIN stage' = Thread /\ DOMAIN partsRead' = Thread
      /\ DOMAIN found' = Thread
  BY <1>1 DEF Operate, OpenFails, ParseThrows, ReadAndEdit, SaveFails, Truncate, Write,
     Ends, Refused, Succeeds, TypeOK, DataTypes, HandlerTypes
<1>8. doubled \subseteq doubled'
  BY DEF Operate, OpenFails, ParseThrows, ReadAndEdit, SaveFails, Truncate, Write
<1> QED BY <1>2, <1>3, <1>4, <1>5, <1>6, <1>7, <1>8 DEF Mine, Inside

(* What each step of a thread has to keep, for the thread itself. *)
Kept(th) ==
  /\ DataTypes' /\ HandlerTypes' /\ Edited(th)' /\ Writing(th)'
  /\ Inside(th)' => Mine(th)' = Mine(th)
  /\ \/ file' = file /\ list' = list /\ ~Inside(th)'
     \/ Inside(th) \/ Alone(th)

LEMMA EndsTypes ==
  ASSUME NEW th \in Thread, NEW ops \in Seq(Op), HandlerTypes, Ends(th, ops),
         DOMAIN text' = Thread, \A o \in Thread \ {th} : text'[o] = text[o],
         partsRead' \in [Thread -> (SUBSET Part) \cup {Blank}]
  PROVE  HandlerTypes' /\ stage'[th] = "open"
BY DEF HandlerTypes, Ends

(* An operation that fails or ends. *)
LEMMA OverTypes ==
  ASSUME NEW th \in Thread, HandlerTypes, Tail(todo[th]) \in Seq(Op),
         Refused(th) \/ Succeeds(th),
         DOMAIN text' = Thread, \A o \in Thread \ {th} : text'[o] = text[o],
         partsRead' \in [Thread -> (SUBSET Part) \cup {Blank}]
  PROVE  HandlerTypes' /\ stage'[th] = "open"
<1>1. <<>> \in Seq(Op)
  OBVIOUS
<1>2. PICK ops \in Seq(Op) : Ends(th, ops)
  BY <1>1 DEF Refused, Succeeds
<1> QED BY <1>2, EndsTypes

LEMMA FailKept ==
  ASSUME NEW th \in Thread, IInv, Operate(th),
         OpenFails(th) \/ ParseThrows(th) \/ SaveFails(th)
  PROVE  Kept(th)
<1>1. /\ HandlerTypes /\ DataTypes
      /\ UNCHANGED <<file, list, text, partsRead>>
  BY DEF IInv, TypeOK, OpenFails, ParseThrows, SaveFails
<1>2. HandlerTypes' /\ stage'[th] = "open"
  <2>1. /\ DOMAIN text' = Thread /\ \A o \in Thread \ {th} : text'[o] = text[o]
        /\ partsRead' \in [Thread -> (SUBSET Part) \cup {Blank}]
    BY <1>1 DEF HandlerTypes
  <2>2. CASE Refused(th)
    BY <1>1, <2>1, <2>2, Locality, OverTypes
  <2>3. CASE Ends(th, <<>>)
    <3>1. <<>> \in Seq(Op)
      OBVIOUS
    <3> QED BY <1>1, <2>1, <2>3, <3>1, EndsTypes
  <2> QED BY <2>2, <2>3 DEF OpenFails, ParseThrows, SaveFails
<1>3. DataTypes'
  BY <1>1 DEF DataTypes
<1> QED BY <1>1, <1>2, <1>3 DEF Kept, Edited, Writing, Inside

(* A list that is replaced by another. *)
LEMMA ListTypes ==
  ASSUME NEW m \in Manager, NEW l \in List(m), DataTypes, list' = [list EXCEPT ![m] = l], file' = file
  PROVE  DataTypes' /\ list'[m] = l
BY DEF DataTypes

LEMMA ReadKept ==
  ASSUME NEW th \in Thread, IInv, Operate(th), ReadAndEdit(th)
  PROVE  Kept(th)
<1> DEFINE op == Head(todo[th])
           m == Mine(th)
           l == Read(m)
<1>1. /\ DataTypes /\ HandlerTypes
      /\ Alone(th) /\ file[m] # Torn /\ UNCHANGED <<file, text>>
      /\ op \in Op /\ m \in Manager /\ m = Of(op) /\ stage[th] = "open"
      /\ todo[th] # <<>> /\ todo[th] \in Seq(Op)
  BY Locality DEF IInv, TypeOK, ReadAndEdit, Mine, At, HandlerTypes
<1>2. l \in List(m) /\ Library[m] = l
  <2>1. l \in List(m)
    BY <1>1 DEF Read, DataTypes
  <2>2. Has(m) = l
    BY <1>1 DEF Has, Read
  <2> QED BY <1>1, <2>1, <2>2, LibraryIs
<1>3. file' = file
  BY <1>1
<1>4. ASSUME op[1] = "list", Succeeds(th), list' = [list EXCEPT ![m] = l],
             partsRead' = [partsRead EXCEPT ![th] = Ids(l)]
      PROVE  Kept(th)
  <2>1. Ids(l) \in SUBSET Part
    BY <1>1, <1>2, <1>4, IdsTypes DEF Of, List
  <2>2. partsRead' \in [Thread -> (SUBSET Part) \cup {Blank}]
    BY <1>1, <1>4, <2>1 DEF HandlerTypes
  <2>3. HandlerTypes' /\ stage'[th] = "open"
    BY <1>1, <1>4, <2>2, Locality, OverTypes DEF HandlerTypes
  <2>4. DataTypes'
    BY <1>1, <1>2, <1>3, <1>4, ListTypes
  <2> QED BY <1>1, <1>3, <2>3, <2>4 DEF Kept, Edited, Writing, Inside
<1>5. ASSUME op[1] # "list", Refused(th), list' = [list EXCEPT ![m] = l],
             UNCHANGED partsRead
      PROVE  Kept(th)
  <2>1. HandlerTypes' /\ stage'[th] = "open"
    BY <1>1, <1>5, Locality, OverTypes DEF HandlerTypes
  <2>2. DataTypes'
    BY <1>1, <1>2, <1>3, <1>5, ListTypes
  <2> QED BY <1>1, <1>3, <2>1, <2>2 DEF Kept, Edited, Writing, Inside
<1>6. ASSUME op[1] # "list", Accepts(op, l), list' = [list EXCEPT ![m] = Effect(op, l)],
             todo' = [todo EXCEPT ![th] = @ \o Repairs(th, l)],
             stage' = [stage EXCEPT ![th] = "save"],
             found' = [found EXCEPT ![th] = Library[m]],
             doubled' = doubled \cup Doubles(op, l), UNCHANGED partsRead
      PROVE  Kept(th)
  <2>1. Effect(op, l) \in List(m)
    BY <1>1, <1>2, <1>6, EffectTypes
  <2>2. DataTypes' /\ list'[m] = Effect(op, l)
    BY <1>1, <1>3, <1>6, <2>1, ListTypes
  <2>3. Repairs(th, l) \in Seq(Op)
    BY <1>1, <1>2, <1>6, RepairsTypes
  <2>4. /\ todo'[th] = todo[th] \o Repairs(th, l) /\ todo'[th] \in Seq(Op)
        /\ todo'[th] # <<>>
        /\ Head(todo'[th]) = op /\ stage'[th] = "save" /\ found'[th] = l
    <3>1. todo'[th] = todo[th] \o Repairs(th, l) /\ stage'[th] = "save"
      BY <1>1, <1>6 DEF HandlerTypes
    <3>2. found'[th] = l
      BY <1>1, <1>2, <1>6 DEF HandlerTypes
    <3> QED BY <1>1, <2>3, <3>1, <3>2, SeqFacts
  <2>5. HandlerTypes'
    BY <1>1, <1>2, <1>6, <2>4, Locality DEF HandlerTypes
  <2>6. Mine(th)' = m
    BY <2>4 DEF Mine
  <2>7. Freed(th)'
    <3> SUFFICES ASSUME op[1] = "drop"
                 PROVE  op[2] \in doubled' \/ Refer(list'["combs"], op[2]) = {}
      BY <2>4 DEF Freed
    <3>1. m = "combs" /\ l \in Seq(Combination) /\ list'[m] = Dropped(l, op[2])
      BY <1>1, <1>2, <2>2 DEF Of, PartOps, List, Effect
    <3>2. CASE Twice(l, op[2])
      BY <1>6, <3>2 DEF Twice, Doubles
    <3>3. CASE ~Twice(l, op[2])
      BY <3>1, <3>3, DroppedIs
    <3> QED BY <3>2, <3>3
  <2>8. Edited(th)'
    <3>1. file'[m] # Torn /\ (file'[m] # Blank => l = file'[m])
      BY <1>1, <1>3 DEF Read
    <3> QED BY <1>6, <2>2, <2>4, <2>6, <2>7, <3>1 DEF Edited
  <2> QED BY <1>1, <1>3, <2>2, <2>4, <2>5, <2>6, <2>8 DEF Kept, Writing, Inside
<1> QED
  <2>1. ReadAndEdit(th)
    OBVIOUS
  <2> QED BY <1>4, <1>5, <1>6, <2>1 DEF ReadAndEdit

LEMMA TruncateKept ==
  ASSUME NEW th \in Thread, IInv, Operate(th), Truncate(th)
  PROVE  Kept(th)
<1> DEFINE m == Mine(th)
<1>1. /\ DataTypes /\ HandlerTypes /\ Edited(th)
      /\ stage[th] = "save" /\ m \in Manager /\ m = Of(Head(todo[th]))
      /\ todo[th] # <<>>
  BY Locality DEF IInv, TypeOK, Truncate, At, Mine
<1>2. /\ text' = [text EXCEPT ![th] = list[m]] /\ file' = [file EXCEPT ![m] = Blank]
      /\ stage' = [stage EXCEPT ![th] = "write"]
      /\ UNCHANGED <<list, todo, partsRead, found, doubled>>
  BY DEF Truncate, Encoded
<1>3. DataTypes'
  BY <1>1, <1>2 DEF DataTypes
<1>4. HandlerTypes'
  BY <1>1, <1>2 DEF HandlerTypes, DataTypes
<1>6. Mine(th)' = m
  BY <1>2 DEF Mine
<1>7. Edited(th)' /\ Writing(th)'
  BY <1>1, <1>2, <1>6 DEF Edited, Writing, Freed, DataTypes, HandlerTypes
<1> QED BY <1>1, <1>3, <1>4, <1>6, <1>7 DEF Kept, Inside

LEMMA WriteKept ==
  ASSUME NEW th \in Thread, IInv, Operate(th), Write(th)
  PROVE  Kept(th)
<1> DEFINE m == Mine(th)
<1>1. /\ DataTypes /\ HandlerTypes /\ Writing(th)
      /\ stage[th] = "write" /\ m \in Manager
  BY Locality DEF IInv, TypeOK, Write, At
<1>2. PICK c \in {Written(th), Blank, Torn} : file' = [file EXCEPT ![m] = c]
  BY DEF Write
<1>3. text' = [text EXCEPT ![th] = Blank] /\ Succeeds(th) /\ UNCHANGED <<list, partsRead>>
  BY DEF Write
<1>4. text[th] = list[m] /\ list[m] \in List(m)
  BY <1>1 DEF Writing, DataTypes
<1>5. HandlerTypes' /\ stage'[th] = "open"
  <2>1. /\ DOMAIN text' = Thread /\ \A o \in Thread \ {th} : text'[o] = text[o]
        /\ partsRead' \in [Thread -> (SUBSET Part) \cup {Blank}]
    BY <1>1, <1>3 DEF HandlerTypes
  <2> QED BY <1>1, <1>3, <2>1, Locality, OverTypes
<1>6. DataTypes'
  BY <1>1, <1>2, <1>3, <1>4 DEF DataTypes, Written
<1> QED BY <1>1, <1>5, <1>6 DEF Kept, Edited, Writing, Inside

LEMMA BoundsKept ==
  ASSUME IInv, [Next]_vars
  PROVE  BoundTypes'
<1>1. BoundTypes /\ TypeOK
  BY DEF IInv, TypeOK
<1>2. CASE UNCHANGED vars
  BY <1>1, <1>2 DEF BoundTypes, vars, boundVars
<1>3. CASE Request
  BY <1>1, <1>3, PlanBounds DEF BoundTypes, Request, Call
<1>4. CASE Launch
  BY <1>1, <1>4, PlanBounds DEF BoundTypes, Launch, Call
<1>5. CASE \E th \in Thread : Operate(th)
  <2>1. PICK th \in Thread : Operate(th)
    BY <1>5
  <2>2. Head(todo[th]) \in Op /\ Mine(th) \in Manager
    BY <2>1, Locality
  <2>3. UNCHANGED <<race, requests, launches, crashes>>
    BY <2>1 DEF Operate
  <2>4. failures' \in 0 .. MaxFailures
    <3>1. Fails \/ Works
      BY <2>1 DEF Operate, OpenFails, ParseThrows, ReadAndEdit, SaveFails, Truncate, Write
    <3> QED BY <1>1, <3>1, PlanBounds DEF BoundTypes, Fails, Works
  <2>5. lost' \in SUBSET Manager
    BY <1>1, <2>1, <2>2 DEF BoundTypes, Operate, OpenFails, ParseThrows, ReadAndEdit,
       SaveFails, Truncate, Write
  <2>6. missed' \in SUBSET Part /\ doubled' \in SUBSET Part
    <3>1. Misses(th) \/ UNCHANGED missed
      BY <2>1 DEF Operate, OpenFails, ParseThrows, ReadAndEdit, SaveFails, Truncate, Write
    <3>2. missed' \in SUBSET Part
      BY <1>1, <2>2, <3>1, OpTypes DEF BoundTypes, Misses
    <3>3. doubled' \subseteq doubled \cup {q \in Part : TRUE}
      <4>1. \/ UNCHANGED doubled
            \/ \E l : doubled' = doubled \cup Doubles(Head(todo[th]), l)
        BY <2>1 DEF Operate, OpenFails, ParseThrows, ReadAndEdit, SaveFails, Truncate, Write
      <4>2. \A l : Doubles(Head(todo[th]), l) \subseteq Part
        BY <2>2, OpTypes DEF Doubles
      <4> QED BY <4>1, <4>2
    <3> QED BY <1>1, <3>2, <3>3 DEF BoundTypes
  <2> QED BY <1>1, <2>3, <2>4, <2>5, <2>6 DEF BoundTypes
<1>6. CASE Race
  BY <1>1, <1>6 DEF BoundTypes, Race, boundVars
<1>7. CASE Restart
  BY <1>1, <1>7, PlanBounds DEF BoundTypes, Restart
<1> QED BY <1>2, <1>3, <1>4, <1>5, <1>6, <1>7 DEF Next

LEMMA OperateInv ==
  ASSUME NEW th \in Thread, IInv, Operate(th)
  PROVE  /\ Kept(th) /\ OneInside'
         /\ \A o \in Thread : Edited(o)' /\ Writing(o)'
<1>1. Kept(th)
  BY FailKept, ReadKept, TruncateKept, WriteKept DEF Operate
<1>2. OneInside
  BY DEF IInv
<1>3. ASSUME NEW o \in Thread \ {th}, Inside(o)
      PROVE  file'[Mine(o)] = file[Mine(o)] /\ list'[Mine(o)] = list[Mine(o)]
  <2>1. CASE file' = file /\ list' = list
    BY <2>1
  <2>2. CASE Inside(th) \/ Alone(th)
    <3>1. Mine(o) # Mine(th)
      BY <1>2, <1>3, <2>2 DEF OneInside, Alone, Inside
    <3>2. Mine(o) \in Manager
      BY <1>3, SeqFacts, OpTypes DEF IInv, TypeOK, HandlerTypes, Mine, Inside
    <3> QED BY <3>1, <3>2, Locality
  <2> QED BY <1>1, <2>1, <2>2 DEF Kept
<1>4. ASSUME NEW o \in Thread \ {th}
      PROVE  Edited(o)' /\ Writing(o)'
  <2>1. /\ todo'[o] = todo[o] /\ stage'[o] = stage[o] /\ text'[o] = text[o]
        /\ Mine(o)' = Mine(o) /\ Edited(o) /\ Writing(o)
        /\ found'[o] = found[o] /\ doubled \subseteq doubled'
    BY Locality DEF IInv
  <2>2. Inside(o) /\ Freed(o) => Freed(o)'
    BY <2>1, <1>3 DEF Freed, Mine, Of, PartOps
  <2> QED BY <2>1, <2>2, <1>3 DEF Edited, Writing, Inside
<1>5. OneInside'
  <2>1. ASSUME NEW o \in Thread \ {th}, Inside(o)', Inside(th)'
        PROVE  Mine(o)' # Mine(th)'
    <3>1. Inside(o) /\ Mine(o)' = Mine(o) /\ Mine(th)' = Mine(th)
      BY <1>1, <2>1, Locality DEF Kept
    <3>2. Inside(th) \/ Alone(th)
      BY <1>1, <2>1 DEF Kept
    <3> QED BY <1>2, <3>1, <3>2 DEF OneInside, Alone, Inside
  <2>2. ASSUME NEW o \in Thread \ {th}, NEW q \in Thread \ {th}, o # q
        PROVE  FALSE
    BY <2>2 DEF Thread
  <2> QED BY <2>1, <2>2 DEF OneInside
<1> QED BY <1>1, <1>4, <1>5 DEF Kept

LEMMA CallInv ==
  ASSUME NEW th \in Thread, NEW ops \in Seq(Op), IInv, Call(th, ops)
  PROVE  /\ DataTypes' /\ HandlerTypes' /\ OneInside'
         /\ \A o \in Thread : Edited(o)' /\ Writing(o)'
<1>1. /\ DataTypes /\ HandlerTypes /\ OneInside
      /\ \A o \in Thread : Edited(o) /\ Writing(o)
      /\ UNCHANGED <<file, list, stage, text, found, doubled>>
      /\ todo[th] = <<>> /\ todo' = [todo EXCEPT ![th] = ops]
      /\ partsRead' = [partsRead EXCEPT ![th] = Blank]
  BY DEF IInv, TypeOK, Call
<1>2. stage[th] = "open"
  BY <1>1 DEF HandlerTypes
<1>3. DataTypes'
  BY <1>1 DEF DataTypes
<1>4. HandlerTypes'
  BY <1>1, <1>2 DEF HandlerTypes
<1>5. \A o \in Thread : /\ Inside(o)' = Inside(o)
                        /\ Inside(o) => todo'[o] = todo[o] /\ Mine(o)' = Mine(o)
  BY <1>1, <1>2 DEF HandlerTypes, Inside, Mine
<1>6. OneInside'
  BY <1>1, <1>5 DEF OneInside
<1>7. \A o \in Thread : Edited(o)' /\ Writing(o)'
  BY <1>1, <1>5 DEF Edited, Writing, Freed, Inside
<1> QED BY <1>3, <1>4, <1>6, <1>7

LEMMA RestartInv ==
  ASSUME IInv, Restart
  PROVE  /\ DataTypes' /\ HandlerTypes' /\ OneInside'
         /\ \A o \in Thread : Edited(o)' /\ Writing(o)'
<1>1. DataTypes /\ file' = file
  BY DEF IInv, TypeOK, Restart
<1>2. /\ list' = [m \in Manager |-> <<>>] /\ todo' = [th \in Thread |-> <<>>]
      /\ stage' = [th \in Thread |-> "open"] /\ text' = [th \in Thread |-> Blank]
      /\ partsRead' = [th \in Thread |-> Blank] /\ found' = [th \in Thread |-> Blank]
  BY DEF Restart
<1>3. DataTypes'
  <2>1. \A m \in Manager : <<>> \in List(m)
    BY DEF List
  <2> QED BY <1>1, <1>2, <2>1 DEF DataTypes
<1>4. HandlerTypes'
  BY <1>2 DEF HandlerTypes
<1>5. \A th \in Thread : stage'[th] = "open"
  BY <1>2
<1> QED BY <1>3, <1>4, <1>5 DEF OneInside, Inside, Edited, Writing

LEMMA InvNext ==
  IInv /\ [Next]_vars => IInv'
<1> SUFFICES ASSUME IInv, [Next]_vars PROVE IInv'
  OBVIOUS
<1>1. BoundTypes'
  BY BoundsKept
<1>2. CASE UNCHANGED vars
  BY <1>2 DEF vars, handlerVars, boundVars, IInv, TypeOK, DataTypes, HandlerTypes,
     BoundTypes, OneInside, Inside, Mine, Edited, Writing, Freed
<1>3. CASE Request
  <2>1. PICK ops \in Seq(Op) : Call("main", ops)
    BY <1>3, HandlerOps DEF Request
  <2> QED BY <1>1, <2>1, CallInv DEF IInv, TypeOK, Thread
<1>4. CASE Launch
  <2>1. PICK th \in Thread, ops \in Seq(Op) : Call(th, ops)
    BY <1>4, HandlerOps DEF Launch, Thread
  <2> QED BY <1>1, <2>1, CallInv DEF IInv, TypeOK
<1>5. CASE \E th \in Thread : Operate(th)
  BY <1>1, <1>5, OperateInv DEF IInv, TypeOK, Kept
<1>6. CASE Race
  BY <1>1, <1>6 DEF Race, handlerVars, IInv, TypeOK, DataTypes, HandlerTypes,
     OneInside, Inside, Mine, Edited, Writing, Freed
<1>7. CASE Restart
  BY <1>1, <1>7, RestartInv DEF IInv, TypeOK
<1> QED BY <1>2, <1>3, <1>4, <1>5, <1>6, <1>7 DEF Next

(* The lists and files stay what their readers take them for.                *)
THEOREM PlansTypeCorrect == Spec => []TypeOK
<1>1. IInv => TypeOK
  BY DEF IInv
<1> QED BY <1>1, InitInv, InvNext, PTL DEF Spec

-----------------------------------------------------------------------------
LEMMA LibraryIsNext ==
  IInv' => \A m \in Manager : Library'[m] = Has(m)'
<1>1. (IInv => \A m \in Manager : Library[m] = Has(m))'
  BY LibraryIs, PTL
<1> QED BY <1>1

LEMMA WriteWrites ==
  ASSUME NEW th \in Thread, IInv, Operate(th), Write(th), Mine(th) \notin lost'
  PROVE  LET m == Mine(th)
         IN /\ stage[th] = "write" /\ list' = list /\ list[m] \in List(m)
            /\ file[m] = Blank
            /\ file'[m] \in {Written(th), Blank}
            /\ file'[m] # Written(th) => Fails
            /\ Written(th) \in {list[m], Blank}
            /\ Written(th) = Blank => list[m] = <<>>
            /\ list[m] = Effect(Head(todo[th]), found[th]) /\ Freed(th)
<1> DEFINE m == Mine(th)
<1>1. /\ DataTypes /\ Writing(th) /\ stage[th] = "write" /\ list' = list
      /\ m \in Manager
  BY Locality DEF IInv, TypeOK, Write, At
<1>2. PICK c \in {Written(th), Blank, Torn} :
        /\ file' = [file EXCEPT ![m] = c]
        /\ IF c = Written(th) THEN Works ELSE Fails
        /\ lost' = IF c = Torn THEN lost \cup {m} ELSE lost
  BY DEF Write
<1>3. file'[m] = c /\ c # Torn
  BY <1>1, <1>2 DEF DataTypes
<1>4. list[m] # Blank /\ list[m] \in List(m)
  BY <1>1, MarkersAssumption DEF DataTypes
<1> QED BY <1>1, <1>2, <1>3, <1>4 DEF Writing, Written

LEMMA AtomicStep ==
  ASSUME IInv, [Next]_vars, NEW m \in Manager \ lost', Has(m)' # Has(m)
  PROVE  \E th \in Thread :
           /\ todo[th] # <<>> /\ Mine(th) = m /\ stage[th] # "write"
           /\ Accepts(Head(todo[th]), Has(m))
           /\ Has(m)' = Effect(Head(todo[th]), Has(m))
<1>1. ~UNCHANGED <<file, list>>
  BY DEF Has
<1>2. CASE Restart
  <2>1. file' = file /\ list'[m] = <<>> /\ (file[m] = Blank => Library[m] = <<>>)
    BY <1>2 DEF Restart
  <2>2. Library[m] = Has(m) /\ file[m] # Torn
    BY <1>2, LibraryIs DEF Restart
  <2> QED BY <2>1, <2>2 DEF Has
<1>3. CASE \E th \in Thread : Operate(th)
  <2>1. PICK th \in Thread : Operate(th)
    BY <1>3
  <2> DEFINE op == Head(todo[th])
  <2>2. Mine(th) = m
    BY <2>1, Locality DEF Has
  <2>3. DataTypes /\ Edited(th) /\ Writing(th) /\ todo[th] # <<>>
    BY <2>1, Locality DEF IInv, TypeOK
  <2>4. CASE OpenFails(th) \/ ParseThrows(th) \/ SaveFails(th)
    BY <1>1, <2>4 DEF OpenFails, ParseThrows, SaveFails
  <2>5. CASE ReadAndEdit(th)
    <3>1. file' = file /\ file[m] = Blank /\ stage[th] = "open"
      BY <2>2, <2>5 DEF ReadAndEdit, Has, At
    <3>2. \/ list' = [list EXCEPT ![m] = Read(m)]
          \/ Accepts(op, Read(m)) /\ list' = [list EXCEPT ![m] = Effect(op, Read(m))]
      BY <2>2, <2>5 DEF ReadAndEdit
    <3>3. \/ list'[m] = list[m]
          \/ Accepts(op, list[m]) /\ list'[m] = Effect(op, list[m])
      BY <2>3, <3>1, <3>2 DEF Read, DataTypes
    <3> QED BY <2>2, <2>3, <3>1, <3>3 DEF Has
  <2>6. CASE Truncate(th)
    <3>1. stage[th] = "save" /\ list' = list /\ file'[m] = Blank
      BY <2>2, <2>3, <2>6 DEF Truncate, At, DataTypes
    <3>2. file[m] # Torn /\ (file[m] # Blank => Accepts(op, file[m]) /\ list[m] = Effect(op, file[m]))
      BY <2>2, <2>3, <3>1 DEF Edited
    <3> QED BY <2>2, <2>3, <3>1, <3>2 DEF Has
  <2>7. CASE Write(th)
    BY <2>1, <2>2, <2>7, WriteWrites DEF Has
  <2> QED BY <2>1, <2>4, <2>5, <2>6, <2>7 DEF Operate
<1>4. CASE Request \/ Launch \/ Race \/ UNCHANGED vars
  BY <1>1, <1>4 DEF Request, Launch, Race, Call, vars
<1> QED BY <1>2, <1>3, <1>4 DEF Next

(* An edit of the app's plans is done as a whole or not at all, and nothing  *)
(* else changes what the node has of them.                                   *)
THEOREM PlanEditsAreAtomic == Spec => EditsAreAtomic
<1>1. ASSUME IInv, [Next]_vars
      PROVE  \A m \in Manager \ lost' :
               Library[m]' # Library[m] =>
                 \E th \in Thread :
                   /\ todo[th] # <<>> /\ Mine(th) = m /\ stage[th] # "write"
                   /\ Accepts(Head(todo[th]), Library[m])
                   /\ Library[m]' = Effect(Head(todo[th]), Library[m])
  <2>1. IInv'
    BY <1>1, InvNext
  <2>2. \A m \in Manager : Library[m] = Has(m) /\ Library'[m] = Has(m)'
    BY <1>1, <2>1, LibraryIs, LibraryIsNext
  <2> QED BY <1>1, <2>2, AtomicStep
<1> QED BY <1>1, InitInv, InvNext, PTL DEF Spec, EditsAreAtomic

LEMMA DoneStep ==
  ASSUME IInv, [Next]_vars, NEW th \in Thread,
         At(th, "write"), stage'[th] = "open", failures' = failures, crashes' = crashes
  PROVE  (IF file'[Mine(th)] = Blank THEN <<>> ELSE file'[Mine(th)])
           = Effect(Head(todo[th]), found[th])
<1>1. stage[th] = "write" /\ stage'[th] # stage[th] /\ BoundTypes
  BY DEF At, IInv, TypeOK
<1>2. PICK o \in Thread : Operate(o)
  <2>1. ~Restart
    <3>1. crashes \in Nat /\ crashes' = crashes
      BY <1>1, PlanBounds DEF BoundTypes
    <3> QED BY <3>1 DEF Restart
  <2>2. UNCHANGED stage => FALSE
    BY <1>1
  <2>3. ~Request /\ ~Launch /\ ~Race /\ ~UNCHANGED vars
    BY <2>2 DEF Request, Launch, Race, Call, handlerVars, vars
  <2> QED BY <2>1, <2>3 DEF Next
<1>3. o = th
  BY <1>1, <1>2, Locality
<1>4. Write(th)
  BY <1>1, <1>2, <1>3 DEF Operate, OpenFails, ParseThrows, ReadAndEdit, SaveFails,
     Truncate, At
<1>5. ~Fails
  BY <1>1 DEF BoundTypes, Fails
<1>6. file'[Mine(th)] = Written(th)
  <2>1. Mine(th) \in Manager /\ DOMAIN file = Manager
    BY <1>2, <1>3, Locality DEF IInv, TypeOK, DataTypes
  <2> QED BY <1>4, <1>5, <2>1 DEF Write
<1>7. /\ Writing(th) /\ list[Mine(th)] # Blank
  <2>1. Mine(th) \in Manager /\ list[Mine(th)] \in List(Mine(th))
    BY <1>2, <1>3, Locality DEF IInv, TypeOK, DataTypes
  <2> QED BY <2>1, MarkersAssumption DEF IInv
<1> QED BY <1>1, <1>6, <1>7 DEF Writing, Written

(* What is answered as done has been done to what there was when the         *)
(* operation began, once, and that is on the disk.                           *)
THEOREM DonePlansOnDisk == Spec => DoneIsOnDisk
<1>1. ASSUME IInv, [Next]_vars
      PROVE  \A th \in Thread :
               At(th, "write") /\ stage'[th] = "open" /\ failures' = failures
               /\ crashes' = crashes =>
                 (IF file'[Mine(th)] = Blank THEN <<>> ELSE file'[Mine(th)])
                   = Effect(Head(todo[th]), found[th])
  BY <1>1, DoneStep
<1> QED BY <1>1, InitInv, InvNext, PTL DEF Spec, DoneIsOnDisk

-----------------------------------------------------------------------------
(* What the handlers are made of. *)
LEMMA SetFacts ==
  ASSUME NEW S
  PROVE  /\ \A x \in S : ToSet(<<x>>) = {x}
         /\ \A x, y \in S : ToSet(<<x, y>>) = {x, y}
         /\ \A s, t \in Seq(S) : ToSet(s \o t) = ToSet(s) \cup ToSet(t)
         /\ \A s \in Seq(S) : s # <<>> => /\ ToSet(Tail(s)) \subseteq ToSet(s)
                                          /\ Head(s) \in ToSet(s)
<1>1. \A x \in S : ToSet(<<x>>) = {x}
  BY DEF ToSet
<1>2. \A x, y \in S : ToSet(<<x, y>>) = {x, y}
  BY DEF ToSet
<1>3. ASSUME NEW s \in Seq(S), NEW t \in Seq(S)
      PROVE  ToSet(s \o t) = ToSet(s) \cup ToSet(t)
  <2>1. \A i \in DOMAIN s : i \in DOMAIN (s \o t) /\ (s \o t)[i] = s[i]
    OBVIOUS
  <2>2. \A i \in DOMAIN t : i + Len(s) \in DOMAIN (s \o t) /\ (s \o t)[i + Len(s)] = t[i]
    OBVIOUS
  <2>3. \A i \in DOMAIN (s \o t) :
          \/ i \in DOMAIN s /\ (s \o t)[i] = s[i]
          \/ i - Len(s) \in DOMAIN t /\ (s \o t)[i] = t[i - Len(s)]
    OBVIOUS
  <2>4. ToSet(s) \subseteq ToSet(s \o t)
    BY <2>1 DEF ToSet
  <2>5. ToSet(t) \subseteq ToSet(s \o t)
    BY <2>2 DEF ToSet
  <2>6. ToSet(s \o t) \subseteq ToSet(s) \cup ToSet(t)
    BY <2>3 DEF ToSet
  <2> QED BY <2>4, <2>5, <2>6
<1>4. ASSUME NEW s \in Seq(S), s # <<>>
      PROVE  ToSet(Tail(s)) \subseteq ToSet(s) /\ Head(s) \in ToSet(s)
  <2>1. \A i \in DOMAIN Tail(s) : i + 1 \in DOMAIN s /\ Tail(s)[i] = s[i + 1]
    BY <1>4
  <2>2. 1 \in DOMAIN s /\ Head(s) = s[1]
    BY <1>4
  <2> QED BY <2>1, <2>2 DEF ToSet
<1> QED BY <1>1, <1>2, <1>3, <1>4

(* A look-up, and a launch. *)
LEMMA LookUpKinds ==
  \A c \in Comb :
    \A op \in ToSet(Details(c)) \cup ToSet(Dispatch(c)) \cup ToSet(<<<<"get", c>>>>)
              \cup ToSet(<<<<"get", c>>>> \o Dispatch(c)) :
      op[1] \in {"get", "list"}
<1> SUFFICES ASSUME NEW c \in Comb
             PROVE  \A op \in ToSet(Details(c)) \cup ToSet(Dispatch(c))
                              \cup ToSet(<<<<"get", c>>>>)
                              \cup ToSet(<<<<"get", c>>>> \o Dispatch(c)) :
                      op[1] \in {"get", "list"}
  OBVIOUS
<1> DEFINE S == {<<"get", c>>, <<"list", c>>}
<1>1. <<"get", c>> \in S /\ <<"list", c>> \in S
  OBVIOUS
<1>2. \A op \in S : op[1] \in {"get", "list"}
  OBVIOUS
<1> HIDE DEF S
<1>3. Details(c) \in Seq(S) /\ ToSet(Details(c)) \subseteq S
  <2>1. \A x, y \in S : <<x, y>> \in Seq(S) /\ ToSet(<<x, y>>) \subseteq S
    BY SeqBuild, SetFacts
  <2> QED BY <1>1, <2>1 DEF Details
<1>4. <<<<"get", c>>>> \in Seq(S) /\ ToSet(<<<<"get", c>>>>) \subseteq S
  <2>1. \A x \in S : <<x>> \in Seq(S)
    BY SeqBuild
  <2>2. \A x \in S : ToSet(<<x>>) = {x}
    BY SetFacts
  <2> QED BY <1>1, <2>1, <2>2
<1>5. Dispatch(c) \in Seq(S) /\ ToSet(Dispatch(c)) \subseteq S
  <2>1. \A s, t \in Seq(S) : /\ s \o t \in Seq(S)
                             /\ ToSet(s \o t) \subseteq ToSet(s) \cup ToSet(t)
    BY SeqBuild, SetFacts
  <2> QED BY <1>3, <1>4, <2>1 DEF Dispatch
<1>6. ToSet(<<<<"get", c>>>> \o Dispatch(c)) \subseteq S
  <2>1. \A s, t \in Seq(S) : ToSet(s \o t) \subseteq ToSet(s) \cup ToSet(t)
    BY SetFacts
  <2>2. ToSet(<<<<"get", c>>>> \o Dispatch(c)) \subseteq
          ToSet(<<<<"get", c>>>>) \cup ToSet(Dispatch(c))
    BY <1>4, <1>5, <2>1
  <2> QED BY <1>4, <1>5, <2>2
<1> QED BY <1>2, <1>3, <1>4, <1>5, <1>6

(* How a step leaves the operations of its handler, and its copy of the parts. *)
LEMMA TodoStep ==
  ASSUME NEW th \in Thread, IInv, Operate(th)
  PROVE  /\ \/ todo'[th] \in {<<>>, Tail(todo[th]), todo[th]}
            \/ \E ops \in Seq(Op) :
                 /\ todo'[th] = todo[th] \o ops
                 /\ \A op \in ToSet(ops) :
                      /\ partsRead[th] # Blank
                      /\ \E p \in Part : op = <<"repair", p>> /\ p \notin partsRead[th]
         /\ \/ partsRead'[th] = partsRead[th]
            \/ /\ Head(todo[th])[1] = "list" /\ partsRead'[th] = Ids(Has("parts"))
               /\ Ids(Has("parts")) \in SUBSET Part
               /\ todo'[th] = Tail(todo[th])
<1>1. DataTypes /\ HandlerTypes /\ Head(todo[th]) \in Op /\ Mine(th) \in Manager
  BY Locality DEF IInv, TypeOK
<1>2. \A ops : Ends(th, ops) => todo'[th] = ops
  BY <1>1 DEF Ends, HandlerTypes
<1>3. Refused(th) \/ Succeeds(th) => todo'[th] \in {<<>>, Tail(todo[th])}
  BY <1>2 DEF Refused, Succeeds
<1>4. CASE OpenFails(th) \/ ParseThrows(th) \/ SaveFails(th)
  BY <1>2, <1>3, <1>4 DEF OpenFails, ParseThrows, SaveFails
<1>5. CASE Truncate(th)
  BY <1>5 DEF Truncate
<1>6. CASE Write(th)
  BY <1>3, <1>6 DEF Write
<1>7. CASE ReadAndEdit(th)
  <2> DEFINE op == Head(todo[th])
             l == Read(Mine(th))
  <2>1. file[Mine(th)] # Torn /\ l \in List(Mine(th))
    BY <1>1, <1>7 DEF ReadAndEdit, Read, DataTypes
  <2>2. ASSUME op[1] = "list", Succeeds(th), partsRead' = [partsRead EXCEPT ![th] = Ids(l)]
        PROVE  /\ todo'[th] = Tail(todo[th])
               /\ partsRead'[th] = Ids(Has("parts")) /\ Ids(Has("parts")) \in SUBSET Part
    <3>1. Mine(th) = "parts"
      BY <2>2 DEF Mine, Of
    <3>2. l = Has("parts") /\ Ids(l) \in SUBSET Part
      BY <2>1, <3>1, IdsTypes DEF Read, Has, List
    <3> QED BY <1>1, <1>2, <2>2, <3>2 DEF Succeeds, HandlerTypes
  <2> DEFINE ops == Repairs(th, l)
  <2>3. ASSUME Accepts(op, l), todo' = [todo EXCEPT ![th] = @ \o ops]
        PROVE  /\ ops \in Seq(Op)
               /\ todo'[th] = todo[th] \o ops
               /\ \A r \in ToSet(ops) :
                    /\ partsRead[th] # Blank
                    /\ \E p \in Part : r = <<"repair", p>> /\ p \notin partsRead[th]
    BY <1>1, <2>1, <2>3, RepairsTypes DEF ToSet, HandlerTypes
  <2> QED BY <1>3, <1>7, <2>2, <2>3 DEF ReadAndEdit
<1> QED BY <1>4, <1>5, <1>6, <1>7 DEF Operate

(* Requests.  A part goes after the search for what refers to it. *)
LEMMA EditKinds ==
  /\ \A e \in Parts : \A ops \in EditParts(e) :
       /\ \A op \in ToSet(ops) : op[1] \notin {"list", "repair"}
       /\ \A i \in DOMAIN ops :
            ops[i][1] = "removePart" => i = 2 /\ ops[1] \in {"search", "drop"} \X {ops[i][2]}
  /\ \A e \in Plans : \A ops \in EditCombs(e) : \A op \in ToSet(ops) :
       op[1] \notin PartOps \cup {"repair"}
<1>1. ASSUME NEW e \in Parts, NEW ops \in EditParts(e)
      PROVE  /\ \A op \in ToSet(ops) : op[1] \notin {"list", "repair"}
             /\ \A i \in DOMAIN ops :
                  ops[i][1] = "removePart" =>
                    i = 2 /\ ops[1] \in {"search", "drop"} \X {ops[i][2]}
  BY DEF EditParts, PartDelete, PartDeleteForce, ToSet
<1>2. ASSUME NEW e \in Plans, NEW ops \in EditCombs(e), NEW op \in ToSet(ops)
      PROVE  op[1] \notin PartOps \cup {"repair"}
  <2>1. e.id \in Comb
    BY PlansAssumption DEF Combination
  <2>2. CASE ops = Details(e.id)
    BY <2>1, <2>2, LookUpKinds DEF PartOps
  <2>3. CASE ops # Details(e.id)
    BY <2>3 DEF EditCombs, PartOps, ToSet
  <2> QED BY <2>2, <2>3
<1> QED BY <1>1, <1>2

(* What a handler may do: the schedule edits no part, a handler of the main  *)
(* thread that copies the parts edits none either, the copy is what there    *)
(* is, and repairs are about parts it lacks.                                 *)
CopyIsCurrent ==
  /\ \A op \in ToSet(todo["schedule"]) : op[1] \in {"get", "list", "repair"}
  /\ partsRead["main"] # Blank \/ (\E op \in ToSet(todo["main"]) : op[1] = "list") =>
       \A op \in ToSet(todo["main"]) : op[1] \notin PartOps
  /\ partsRead["main"] # Blank /\ "parts" \notin lost =>
       partsRead["main"] = Ids(Has("parts"))
  /\ \A op \in ToSet(todo["main"]) :
       op[1] = "repair" => /\ partsRead["main"] # Blank
                           /\ "parts" \notin lost => op[2] \notin partsRead["main"]

LEMMA LostStays ==
  ASSUME [Next]_vars
  PROVE  lost \subseteq lost' /\ missed \subseteq missed' /\ doubled \subseteq doubled'
BY DEF Next, Request, Launch, Call, Operate, OpenFails, ParseThrows, ReadAndEdit, SaveFails,
   Truncate, Write, Misses, Race, Restart, vars

LEMMA PartsSteady ==
  ASSUME IInv, CopyIsCurrent, [Next]_vars, "parts" \notin lost', partsRead["main"] # Blank
  PROVE  Has("parts")' = Has("parts")
<1> SUFFICES ASSUME Has("parts")' # Has("parts") PROVE FALSE
  OBVIOUS
<1>1. "parts" \in Manager \ lost'
  BY DEF Manager
<1>2. PICK th \in Thread :
        /\ todo[th] # <<>> /\ Mine(th) = "parts"
        /\ Has("parts")' = Effect(Head(todo[th]), Has("parts"))
  BY <1>1, AtomicStep
<1>3. Head(todo[th])[1] \in PartOps
  BY <1>2 DEF Mine, Of, Effect
<1>4. Head(todo[th]) \in ToSet(todo[th])
  BY <1>2, SetFacts DEF IInv, TypeOK, HandlerTypes
<1> QED BY <1>3, <1>4 DEF CopyIsCurrent, Thread, PartOps

(* The operations left are some of those there were, and repairs. *)
LEMMA TodoLeft ==
  ASSUME NEW th \in Thread, IInv, Operate(th)
  PROVE  \A op \in ToSet(todo'[th]) :
           \/ op \in ToSet(todo[th])
           \/ /\ partsRead[th] # Blank /\ partsRead'[th] = partsRead[th]
              /\ op[1] = "repair" /\ op[2] \notin partsRead[th]
<1>1. todo[th] \in Seq(Op) /\ todo[th] # <<>>
  BY Locality DEF IInv, TypeOK, HandlerTypes
<1>2. CASE todo'[th] \in {<<>>, Tail(todo[th]), todo[th]}
  <2>1. ToSet(<<>>) = {}
    BY DEF ToSet
  <2> QED BY <1>1, <1>2, <2>1, SetFacts
<1>3. CASE todo'[th] \notin {<<>>, Tail(todo[th]), todo[th]}
  <2>1. PICK ops \in Seq(Op) :
          /\ todo'[th] = todo[th] \o ops
          /\ \A op \in ToSet(ops) :
               /\ partsRead[th] # Blank
               /\ \E p \in Part : op = <<"repair", p>> /\ p \notin partsRead[th]
    BY <1>3, TodoStep
  <2>2. ToSet(todo'[th]) = ToSet(todo[th]) \cup ToSet(ops)
    BY <1>1, <2>1, SetFacts
  <2>3. partsRead'[th] = partsRead[th]
    BY <1>3, TodoStep
  <2> QED BY <2>1, <2>2, <2>3
<1> QED BY <1>2, <1>3

LEMMA CopyCall ==
  ASSUME NEW th \in Thread, NEW ops \in Seq(Op), IInv, CopyIsCurrent, Call(th, ops),
         th = "schedule" => \A op \in ToSet(ops) : op[1] \in {"get", "list", "repair"},
         \/ \A op \in ToSet(ops) : op[1] \notin {"list", "repair"}
         \/ \A op \in ToSet(ops) : op[1] \notin PartOps \cup {"repair"}
  PROVE  CopyIsCurrent'
<1>1. /\ UNCHANGED <<file, list, lost>>
      /\ todo'[th] = ops /\ partsRead'[th] = Blank
      /\ \A o \in Thread \ {th} : todo'[o] = todo[o] /\ partsRead'[o] = partsRead[o]
  BY DEF Call, IInv, TypeOK, HandlerTypes
<1>2. Has("parts")' = Has("parts")
  BY <1>1 DEF Has
<1>3. CASE th = "main"
  BY <1>1, <1>2, <1>3 DEF CopyIsCurrent, Thread
<1>4. CASE th = "schedule"
  BY <1>1, <1>2, <1>4 DEF CopyIsCurrent, Thread
<1> QED BY <1>3, <1>4 DEF Thread

LEMMA CopyOperate ==
  ASSUME NEW th \in Thread, IInv, CopyIsCurrent, Operate(th)
  PROVE  CopyIsCurrent'
<1>1. [Next]_vars
  BY DEF Next
<1>2. lost \subseteq lost'
  BY <1>1, LostStays
<1>3. /\ todo[th] # <<>> /\ todo[th] \in Seq(Op)
      /\ Head(todo[th]) \in ToSet(todo[th]) /\ ToSet(Tail(todo[th])) \subseteq ToSet(todo[th])
  BY Locality, SetFacts DEF IInv, TypeOK, HandlerTypes
<1>4. CASE th = "schedule"
  <2>1. todo'["main"] = todo["main"] /\ partsRead'["main"] = partsRead["main"]
    BY <1>4, Locality DEF Thread
  <2>2. partsRead["main"] # Blank /\ "parts" \notin lost' => Has("parts")' = Has("parts")
    BY <1>1, PartsSteady
  <2>3. \A op \in ToSet(todo'["schedule"]) : op[1] \in {"get", "list", "repair"}
    BY <1>4, TodoLeft DEF CopyIsCurrent
  <2> QED BY <1>2, <2>1, <2>2, <2>3 DEF CopyIsCurrent
<1>5. CASE th = "main" /\ partsRead'[th] = partsRead[th]
  <2>1. todo'["schedule"] = todo["schedule"]
    BY <1>5, Locality DEF Thread
  <2>2. partsRead["main"] # Blank /\ "parts" \notin lost' => Has("parts")' = Has("parts")
    BY <1>1, PartsSteady
  <2>3. \A op \in ToSet(todo'["main"]) :
          \/ op \in ToSet(todo["main"])
          \/ partsRead["main"] # Blank /\ op[1] = "repair" /\ op[2] \notin partsRead["main"]
    BY <1>5, TodoLeft
  <2> QED BY <1>2, <1>5, <2>1, <2>2, <2>3 DEF CopyIsCurrent, PartOps
<1>6. CASE th = "main" /\ partsRead'[th] # partsRead[th]
  <2>1. /\ Head(todo["main"])[1] = "list" /\ partsRead'["main"] = Ids(Has("parts"))
        /\ Ids(Has("parts")) \in SUBSET Part /\ todo'["main"] = Tail(todo["main"])
    BY <1>6, TodoStep
  <2>2. Ids(Has("parts")) # Blank
    BY <2>1, MarkersAssumption
  <2>3. todo'["schedule"] = todo["schedule"]
    BY <1>6, Locality DEF Thread
  <2>4. "parts" \notin lost' => Has("parts")' = Has("parts")
    <3>1. Mine("main") = "parts"
      BY <2>1 DEF Mine, Of
    <3>2. Effect(Head(todo["main"]), Has("parts")) = Has("parts")
      BY <2>1 DEF Effect
    <3>3. ASSUME NEW o \in Thread, Mine(o) = "parts", todo[o] # <<>>,
                 Has("parts")' = Effect(Head(todo[o]), Has("parts"))
          PROVE  Has("parts")' = Has("parts")
      <4>1. CASE o = "main"
        BY <3>2, <3>3, <4>1
      <4>2. CASE o = "schedule"
        <5>1. Head(todo[o]) \in ToSet(todo["schedule"])
          BY <3>3, <4>2, SetFacts DEF IInv, TypeOK, HandlerTypes
        <5>2. Head(todo[o])[1] = "list"
          BY <3>3, <4>2, <5>1 DEF CopyIsCurrent, Mine, Of, PartOps
        <5> QED BY <3>3, <5>2 DEF Effect
      <4> QED BY <4>1, <4>2 DEF Thread
    <3> QED BY <1>1, <3>3, AtomicStep DEF Manager
  <2>5. \A op \in ToSet(todo'["main"]) : op \in ToSet(todo["main"])
    BY <1>3, <1>6, <2>1
  <2>6. \A op \in ToSet(todo["main"]) : op[1] \notin PartOps
    BY <1>3, <1>6, <2>1 DEF CopyIsCurrent
  <2>7. \A op \in ToSet(todo["main"]) :
          op[1] = "repair" /\ "parts" \notin lost => op[2] \notin Ids(Has("parts"))
    BY DEF CopyIsCurrent
  <2> QED BY <1>2, <1>6, <2>1, <2>2, <2>3, <2>4, <2>5, <2>6, <2>7 DEF CopyIsCurrent
<1> QED BY <1>4, <1>5, <1>6 DEF Thread

(* A handler that is called, with what the proofs need to know of it. *)
LEMMA Calls ==
  ASSUME Request \/ Launch
  PROVE  \E th \in Thread : \E ops \in Seq(Op) :
           /\ Call(th, ops)
           /\ \/ th = "main" /\ \E e \in Parts : ops \in EditParts(e)
              \/ /\ \A op \in ToSet(ops) : op[1] \notin PartOps \cup {"repair"}
                 /\ th = "schedule" => \A op \in ToSet(ops) : op[1] \in {"get", "list"}
<1>1. CASE Request
  <2>1. \/ \E e \in Parts : \E ops \in EditParts(e) : Call("main", ops)
        \/ \E e \in Plans : \E ops \in EditCombs(e) : Call("main", ops)
    BY <1>1 DEF Request
  <2> QED BY <2>1, HandlerOps, EditKinds DEF Thread
<1>2. CASE Launch
  <2>1. PICK c \in Comb :
          \/ Call("main", Dispatch(c))
          \/ Call("schedule", <<<<"get", c>>>>)
          \/ Call("schedule", <<<<"get", c>>>> \o Dispatch(c))
    BY <1>2 DEF Launch
  <2>2. PICK th \in Thread, ops \in Seq(Op) :
          Call(th, ops) /\ \A op \in ToSet(ops) : op[1] \in {"get", "list"}
    BY <2>1, HandlerOps, LookUpKinds DEF Thread
  <2> QED BY <2>2 DEF PartOps
<1> QED BY <1>1, <1>2

LEMMA CopyStep ==
  IInv /\ CopyIsCurrent /\ [Next]_vars => CopyIsCurrent'
<1> SUFFICES ASSUME IInv, CopyIsCurrent, [Next]_vars PROVE CopyIsCurrent'
  OBVIOUS
<1>1. CASE Request \/ Launch
  <2>1. PICK th \in Thread, ops \in Seq(Op) :
          /\ Call(th, ops)
          /\ \/ th = "main" /\ \E e \in Parts : ops \in EditParts(e)
             \/ /\ \A op \in ToSet(ops) : op[1] \notin PartOps \cup {"repair"}
                /\ th = "schedule" => \A op \in ToSet(ops) : op[1] \in {"get", "list"}
    BY <1>1, Calls
  <2> QED BY <2>1, EditKinds, CopyCall
<1>2. CASE \E th \in Thread : Operate(th)
  BY <1>2, CopyOperate
<1>3. CASE Restart
  <2>1. /\ \A th \in Thread : todo'[th] = <<>> /\ partsRead'[th] = Blank
    BY <1>3 DEF Restart
  <2>2. ToSet(<<>>) = {}
    BY DEF ToSet
  <2> QED BY <2>1, <2>2 DEF CopyIsCurrent, Thread
<1>4. CASE Race \/ UNCHANGED vars
  BY <1>4 DEF Race, vars, handlerVars, CopyIsCurrent, Has
<1> QED BY <1>1, <1>2, <1>3, <1>4 DEF Next

(* Repairs by the main thread are about parts that are gone.                 *)
THEOREM RepairsAreDue == Spec => []RepairsOnlyDangling
<1>1. Init => CopyIsCurrent
  BY DEF Init, CopyIsCurrent, ToSet, Thread
<1>2. ASSUME IInv, CopyIsCurrent PROVE RepairsOnlyDangling
  <2> SUFFICES ASSUME NEW p \in Part, At("main", "open"),
                      Head(todo["main"]) = <<"repair", p>>, "parts" \notin lost
               PROVE  p \notin Ids(Library["parts"])
    BY DEF RepairsOnlyDangling
  <2>1. <<"repair", p>> \in ToSet(todo["main"])
    <3>1. todo["main"] \in Seq(Op) /\ todo["main"] # <<>>
      BY <1>2 DEF IInv, TypeOK, HandlerTypes, At, Thread
    <3> QED BY <3>1, SetFacts
  <2>2. p \notin Ids(Has("parts"))
    BY <1>2, <2>1 DEF CopyIsCurrent
  <2> QED BY <1>2, <2>2, LibraryIs DEF Manager
<1> QED BY <1>1, <1>2, InitInv, InvNext, CopyStep, PTL DEF Spec

-----------------------------------------------------------------------------
(* A part that is to go has been looked for, or dropped, in the step before, *)
(* and nothing refers to it since.                                           *)
Removes(op) == op[1] = "removePart"

PartsFreed ==
  /\ \A i \in DOMAIN todo["main"] :
       Removes(todo["main"][i]) =>
         \/ i = 1
         \/ i = 2 /\ todo["main"][1] \in {"search", "drop"} \X {todo["main"][i][2]}
  /\ todo["main"] # <<>> /\ Removes(Head(todo["main"])) =>
       LET p == Head(todo["main"])[2]
       IN p \in missed \/ p \in doubled \/ lost # {} \/ Refer(Has("combs"), p) = {}

LEMMA HasTypes ==
  ASSUME DataTypes
  PROVE  Has("combs") \in Seq(Combination) /\ Has("parts") \in Seq(PartEntry)
BY DEF DataTypes, Has, List, Manager

(* Nobody but the schedule is in the combinations, and it adds no reference. *)
LEMMA StaysFree ==
  ASSUME IInv, CopyIsCurrent, [Next]_vars, lost' = {},
         todo["main"] # <<>> => Mine("main") = "parts",
         NEW p, Refer(Has("combs"), p) = {}
  PROVE  Refer(Has("combs")', p) = {}
<1> SUFFICES ASSUME Has("combs")' # Has("combs") PROVE Refer(Has("combs")', p) = {}
  OBVIOUS
<1>1. PICK th \in Thread :
        /\ todo[th] # <<>> /\ Mine(th) = "combs"
        /\ Has("combs")' = Effect(Head(todo[th]), Has("combs"))
  BY AtomicStep DEF Manager
<1>2. th = "schedule"
  BY <1>1 DEF Thread
<1>3. Head(todo[th]) \in ToSet(todo[th])
  BY <1>1, SetFacts DEF IInv, TypeOK, HandlerTypes
<1>4. Has("combs")' \in {Has("combs"), Dropped(Has("combs"), Head(todo[th])[2])}
  BY <1>1, <1>2, <1>3 DEF CopyIsCurrent, Effect
<1> QED BY <1>4, HasTypes, DroppedIs DEF IInv, TypeOK

LEMMA SearchedOrDropped ==
  ASSUME IInv, Operate("main"), lost' = {}, todo'["main"] = Tail(todo["main"]),
         todo'["main"] # <<>>,
         NEW p, Head(todo["main"]) \in {"search", "drop"} \X {p}
  PROVE  p \in missed' \/ p \in doubled' \/ Refer(Has("combs")', p) = {}
<1> DEFINE s == todo["main"]
           op == Head(s)
<1>1. /\ DataTypes /\ HandlerTypes /\ Mine("main") = "combs" /\ op[2] = p
      /\ op[1] \in {"search", "drop"}
      /\ s # <<>> /\ s \in Seq(Op)
  BY Locality DEF IInv, TypeOK, HandlerTypes, Mine, Of, PartOps, Thread
<1>2. \A t \in Seq(Op) : s \o t # Tail(s)
  <2>1. ASSUME NEW t \in Seq(Op) PROVE Len(s \o t) # Len(Tail(s))
    BY <1>1
  <2> QED BY <2>1
<1>3. <<>> \in Seq(Op) /\ s # Tail(s)
  <2>1. Len(s) # Len(Tail(s))
    BY <1>1
  <2>2. <<>> \in Seq(Op)
    OBVIOUS
  <2> QED BY <2>1, <2>2
<1>4. Refused("main") => op[1] = "search"
  BY <1>1 DEF Refused, Ends, HandlerTypes, Thread
<1>5. Succeeds("main") => op[1] = "drop"
  BY <1>1 DEF Succeeds, Ends, HandlerTypes, Thread
<1>6. CASE OpenFails("main") \/ SaveFails("main")
  BY <1>1, <1>4, <1>6 DEF OpenFails, SaveFails, Misses
<1>7. CASE ParseThrows("main")
  BY <1>1, <1>7 DEF ParseThrows, Ends, HandlerTypes, Thread
<1>8. CASE ReadAndEdit("main")
  <2>1. file' = file /\ file["combs"] # Torn
    BY <1>1, <1>8 DEF ReadAndEdit
  <2> DEFINE l == Read("combs")
  <2>2. ASSUME ~Accepts(op, l), Refused("main"), list' = [list EXCEPT !["combs"] = l]
        PROVE  Refer(Has("combs")', p) = {}
    <3>1. Refer(l, p) = {}
      BY <1>1, <2>2 DEF Accepts
    <3>2. list'["combs"] = l
      BY <1>1, <2>2 DEF DataTypes, Manager
    <3>3. Has("combs")' = l
      BY <2>1, <3>2 DEF Has, Read
    <3> QED BY <3>1, <3>3
  <2>3. ASSUME todo' = [todo EXCEPT !["main"] = @ \o Repairs("main", l)]
        PROVE  FALSE
    <3>1. Repairs("main", l) = <<>>
      BY <1>1 DEF Repairs
    <3>2. todo'["main"] = s \o <<>>
      BY <1>1, <2>3, <3>1 DEF HandlerTypes, Thread
    <3> QED BY <1>2, <1>3, <3>2
  <2> QED BY <1>1, <1>8, <2>2, <2>3 DEF ReadAndEdit
<1>9. CASE Truncate("main")
  BY <1>3, <1>9 DEF Truncate
<1>10. CASE Write("main")
  <2>1. /\ op[1] = "drop" /\ list' = list /\ file'["combs"] \in {Written("main"), Blank}
        /\ Written("main") \in {list["combs"], Blank} /\ Freed("main")
    BY <1>1, <1>5, <1>10, WriteWrites DEF Write, Thread
  <2>2. p \in doubled \/ Refer(list["combs"], p) = {}
    BY <1>1, <2>1 DEF Freed
  <2>3. Has("combs")' = list["combs"]
    BY <2>1 DEF Has
  <2>4. doubled' = doubled
    BY <1>10 DEF Write
  <2> QED BY <2>2, <2>3, <2>4
<1> QED BY <1>6, <1>7, <1>8, <1>9, <1>10 DEF Operate

LEMMA FreedOperate ==
  ASSUME IInv, CopyIsCurrent, PartsFreed, Operate("main")
  PROVE  PartsFreed'
<1> DEFINE s == todo["main"]
           t == todo'["main"]
<1>1. /\ s # <<>> /\ s \in Seq(Op) /\ [Next]_vars
      /\ lost \subseteq lost' /\ missed \subseteq missed' /\ doubled \subseteq doubled'
  BY Locality, LostStays DEF IInv, TypeOK, HandlerTypes, Thread, Next
<1>2. CASE t = <<>>
  BY <1>2 DEF PartsFreed
<1>3. CASE t = Tail(s) /\ t # <<>>
  <2>1. \A i \in DOMAIN t : i + 1 \in DOMAIN s /\ t[i] = s[i + 1] /\ i \in Nat \ {0}
    BY <1>1, <1>3
  <2>2. \A i \in DOMAIN t : Removes(t[i]) => i = 1
    BY <2>1 DEF PartsFreed
  <2>3. ASSUME Removes(Head(t)), lost' = {}
        PROVE  \/ Head(t)[2] \in missed' \cup doubled'
               \/ Refer(Has("combs")', Head(t)[2]) = {}
    <3>1. 2 \in DOMAIN s /\ Head(t) = s[2] /\ Head(s) = s[1]
      BY <1>1, <1>3
    <3>2. Head(s) \in {"search", "drop"} \X {Head(t)[2]}
      BY <2>3, <3>1 DEF PartsFreed
    <3> QED BY <1>3, <2>3, <3>2, SearchedOrDropped
  <2> QED BY <2>2, <2>3 DEF PartsFreed
<1>4. CASE t # <<>> /\ t # Tail(s)
  <2>1. PICK ops \in Seq(Op) :
          t = s \o ops /\ \A op \in ToSet(ops) : \E p \in Part : op = <<"repair", p>>
    <3>1. CASE t = s
      <4>1. s = s \o <<>> /\ <<>> \in Seq(Op)
        BY <1>1
      <4>2. ToSet(<<>>) = {}
        BY DEF ToSet
      <4> QED BY <3>1, <4>1, <4>2
    <3>2. CASE t # s
      BY <1>4, <3>2, TodoStep DEF Thread
    <3> QED BY <3>1, <3>2
  <2>2. Head(t) = Head(s) /\ t[1] = s[1]
    BY <1>1, <2>1
  <2>3. \A i \in DOMAIN t : (i \in DOMAIN s /\ t[i] = s[i]) \/ ~Removes(t[i])
    <3>1. \A i \in DOMAIN t :
            \/ i \in DOMAIN s /\ t[i] = s[i]
            \/ i - Len(s) \in DOMAIN ops /\ t[i] = ops[i - Len(s)]
      BY <1>1, <2>1
    <3>2. \A i \in DOMAIN ops : ~Removes(ops[i])
      BY <2>1 DEF ToSet, Removes
    <3> QED BY <3>1, <3>2
  <2>4. ASSUME Removes(Head(s)), lost' = {}
        PROVE  \/ Head(s)[2] \in missed' \cup doubled'
               \/ Refer(Has("combs")', Head(s)[2]) = {}
    <3>1. Head(s)[2] \in missed \cup doubled \/ Refer(Has("combs"), Head(s)[2]) = {}
      BY <1>1, <2>4 DEF PartsFreed
    <3>2. Mine("main") = "parts"
      BY <2>4 DEF Removes, Mine, Of, PartOps
    <3> QED BY <1>1, <2>4, <3>1, <3>2, StaysFree
  <2> QED BY <2>2, <2>3, <2>4 DEF PartsFreed
<1> QED BY <1>2, <1>3, <1>4

LEMMA FreedStep ==
  IInv /\ CopyIsCurrent /\ PartsFreed /\ [Next]_vars => PartsFreed'
<1> SUFFICES ASSUME IInv, CopyIsCurrent, PartsFreed, [Next]_vars PROVE PartsFreed'
  OBVIOUS
<1>1. CASE todo'["main"] = todo["main"]
  <2>1. lost \subseteq lost' /\ missed \subseteq missed' /\ doubled \subseteq doubled'
    BY LostStays
  <2>2. ASSUME todo["main"] # <<>>, Removes(Head(todo["main"])), lost' = {}
        PROVE  \/ Head(todo["main"])[2] \in missed' \cup doubled'
               \/ Refer(Has("combs")', Head(todo["main"])[2]) = {}
    <3>1. \/ Head(todo["main"])[2] \in missed \cup doubled
          \/ Refer(Has("combs"), Head(todo["main"])[2]) = {}
      BY <2>1, <2>2 DEF PartsFreed
    <3>2. Mine("main") = "parts"
      BY <2>2 DEF Removes, Mine, Of, PartOps
    <3> QED BY <2>1, <2>2, <3>1, <3>2, StaysFree
  <2> QED BY <1>1, <2>2 DEF PartsFreed
<1>2. CASE Request \/ Launch
  <2>1. PICK th \in Thread, ops \in Seq(Op) :
          /\ Call(th, ops)
          /\ \/ th = "main" /\ \E e \in Parts : ops \in EditParts(e)
             \/ \A op \in ToSet(ops) : op[1] \notin PartOps \cup {"repair"}
    BY <1>2, Calls
  <2>2. todo' = [todo EXCEPT ![th] = ops] /\ HandlerTypes
    BY <2>1 DEF Call, IInv, TypeOK
  <2>3. CASE th = "schedule"
    BY <1>1, <2>2, <2>3 DEF HandlerTypes
  <2>4. CASE th = "main"
    <3>1. todo'["main"] = ops
      BY <2>2, <2>4 DEF HandlerTypes, Thread
    <3>2. \A i \in DOMAIN ops :
            Removes(ops[i]) => i = 2 /\ ops[1] \in {"search", "drop"} \X {ops[i][2]}
      <4>1. CASE \E e \in Parts : ops \in EditParts(e)
        BY <4>1, EditKinds DEF Removes
      <4>2. CASE \A op \in ToSet(ops) : op[1] \notin PartOps \cup {"repair"}
        BY <4>2 DEF Removes, PartOps, ToSet
      <4> QED BY <2>1, <4>1, <4>2
    <3>3. ops # <<>> => 1 \in DOMAIN ops /\ Head(ops) = ops[1]
      OBVIOUS
    <3> QED BY <3>1, <3>2, <3>3 DEF PartsFreed
  <2> QED BY <2>3, <2>4 DEF Thread
<1>3. CASE \E th \in Thread : Operate(th)
  <2>1. PICK th \in Thread : Operate(th)
    BY <1>3
  <2>2. CASE th = "schedule"
    BY <1>1, <2>1, <2>2, Locality DEF Thread
  <2>3. CASE th = "main"
    BY <2>1, <2>3, FreedOperate
  <2> QED BY <2>2, <2>3 DEF Thread
<1>4. CASE Restart
  <2>1. todo'["main"] = <<>>
    BY <1>4 DEF Restart, Thread
  <2> QED BY <2>1 DEF PartsFreed
<1>5. CASE Race \/ UNCHANGED vars
  BY <1>1, <1>5 DEF Race, vars, handlerVars
<1> QED BY <1>2, <1>3, <1>4, <1>5 DEF Next

(* When the last part of an id is deleted nothing refers to it, unless the   *)
(* search for what does could not be done, or found it twice in one place.   *)
THEOREM NoPartIsMissed == Spec => DeletedPartsUnused
<1>1. Init => CopyIsCurrent /\ PartsFreed
  BY DEF Init, CopyIsCurrent, PartsFreed, ToSet, Thread
<1>2. ASSUME IInv, CopyIsCurrent, PartsFreed, [Next]_vars
      PROVE  lost' = {} =>
               \A p \in (Ids(Library["parts"]) \ Ids(Library["parts"]')) \ (missed' \cup doubled') :
                 Refer(Library["combs"]', p) = {}
  <2> SUFFICES ASSUME lost' = {},
                      NEW p \in (Ids(Library["parts"]) \ Ids(Library["parts"]')) \ (missed' \cup doubled')
               PROVE  Refer(Library["combs"]', p) = {}
    OBVIOUS
  <2>1. IInv'
    BY <1>2, InvNext
  <2>2. \A m \in Manager : Library[m] = Has(m) /\ Library'[m] = Has(m)'
    BY <1>2, <2>1, LibraryIs, LibraryIsNext
  <2>3. p \in Ids(Has("parts")) /\ p \notin Ids(Has("parts")') /\ Library'["combs"] = Has("combs")'
    BY <2>2 DEF Manager
  <2>4. PICK th \in Thread :
          /\ todo[th] # <<>> /\ Mine(th) = "parts"
          /\ Accepts(Head(todo[th]), Has("parts"))
          /\ Has("parts")' = Effect(Head(todo[th]), Has("parts"))
    BY <1>2, <2>3, AtomicStep DEF Manager
  <2>5. Removes(Head(todo[th])) /\ p = Head(todo[th])[2]
    <3>1. DataTypes /\ todo[th] \in Seq(Op)
      BY <1>2 DEF IInv, TypeOK, HandlerTypes
    <3>2. Head(todo[th]) \in Op /\ Of(Head(todo[th])) = "parts"
      BY <2>4, <3>1, SeqFacts DEF Mine
    <3> QED BY <2>3, <2>4, <3>1, <3>2, GoneIsRemoved, HasTypes DEF Removes
  <2>6. th = "main"
    <3>1. Head(todo[th]) \in ToSet(todo[th])
      BY <1>2, <2>4, SetFacts DEF IInv, TypeOK, HandlerTypes
    <3> QED BY <1>2, <2>5, <3>1 DEF CopyIsCurrent, Removes, Thread
  <2>7. lost = {} /\ p \notin missed /\ p \notin doubled
    BY <1>2, LostStays
  <2>8. Refer(Has("combs"), p) = {}
    BY <1>2, <2>4, <2>5, <2>6, <2>7 DEF PartsFreed
  <2>9. Refer(Has("combs")', p) = {}
    BY <1>2, <2>4, <2>6, <2>8, StaysFree
  <2> QED BY <2>3, <2>9
<1> QED BY <1>1, <1>2, InitInv, InvNext, CopyStep, FreedStep, PTL
    DEF Spec, DeletedPartsUnused
==============================================================================

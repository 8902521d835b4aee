------------------------ MODULE ChainedListsProofs ------------------------
(***************************************************************************)
(* What the loads and stores of list.hpp do to the heap and to the lists   *)
(* in it, whatever state they are in: lemmas for the tables that are built *)
(* on the lists.                                                           *)
(***************************************************************************)
EXTENDS ChainedLists, SequenceTheorems, FiniteSetTheorems, WellFoundedInduction, TLAPS

-----------------------------------------------------------------------------
(* Iteration, and what Walk computes by it.                                *)

(* A set of natural numbers that is not empty has a least element: the      *)
(* proofs by induction below are about the least counterexample.            *)
LEMMA LeastElement ==
    ASSUME NEW S \in SUBSET Nat, S # {}
    PROVE  \E n \in S : \A m \in S : n <= m
  <1> DEFINE Less == {p \in Nat \X Nat : p[1] < p[2]}
  <1>1. IsWellFoundedOn(Less, Nat)
    BY NatLessThanWellFounded DEF OpToRel
  <1> HIDE DEF Less
  <1>2. PICK x \in S : \A y \in S : ~(<<y, x>> \in Less)
    BY <1>1, WFMin
  <1>3. \A y \in S : ~(y < x)
    BY <1>2 DEF Less
  <1>4. QED
    BY <1>2, <1>3

(* f is step iterated on base, n times. *)
Iteration(f, T, base, step, n) ==
    f \in [0 .. n -> T] /\ f[0] = base /\ \A i \in 1 .. n : f[i] = step[f[i - 1]]

(* Every step function can be iterated any number of times. *)
LEMMA IterationExists ==
    ASSUME NEW T, NEW base \in T, NEW step \in [T -> T], NEW n \in Nat
    PROVE  \E f : Iteration(f, T, base, step, n)
  <1> USE DEF Iteration
  <1> DEFINE Fits(f, m) == Iteration(f, T, base, step, m)
             Bad == {m \in Nat : ~ \E f : Fits(f, m)}
  <1>1. SUFFICES ASSUME Bad # {} PROVE FALSE
    OBVIOUS
  <1>2. PICK m \in Bad : \A k \in Bad : m <= k
    BY <1>1, LeastElement
  <1>3. m # 0
    <2> DEFINE f == [i \in 0 .. 0 |-> base]
    <2>1. Fits(f, 0)
      OBVIOUS
    <2>2. QED
      BY <2>1
  <1>4. PICK f : Fits(f, m - 1)
    <2>1. m \in Nat
      OBVIOUS
    <2> HIDE DEF Bad
    <2>2. m - 1 \in Nat /\ m - 1 \notin Bad
      BY <1>2, <1>3, <2>1
    <2>3. QED
      BY <2>2 DEF Bad
  <1> DEFINE g == [i \in 0 .. m |-> IF i = m THEN step[f[m - 1]] ELSE f[i]]
  <1>5. Fits(g, m)
    <2>1. m \in Nat /\ m > 0
      BY <1>2, <1>3
    <2>2. f[m - 1] \in T /\ step[f[m - 1]] \in T
      BY <1>4, <2>1
    <2>3. g \in [0 .. m -> T] /\ g[0] = base
      BY <1>4, <2>1, <2>2
    <2>4. ASSUME NEW i \in 1 .. m PROVE g[i] = step[g[i - 1]]
      <3>1. i - 1 \in 0 .. m /\ i - 1 # m /\ i \in 0 .. m
        BY <2>1
      <3>2. g[i - 1] = f[i - 1]
        BY <3>1
      <3>3. CASE i = m
        BY <3>1, <3>2, <3>3
      <3>4. CASE i # m
        BY <1>4, <2>1, <3>1, <3>2, <3>4
      <3>5. QED
        BY <3>3, <3>4
    <2>5. QED
      BY <2>3, <2>4
  <1>6. QED
    BY <1>2, <1>5

(* The number of blocks, which is how far Walk goes. *)
NodeCount == Cardinality(Nodes)

LEMMA NodeCountType == NodeCount \in Nat
  BY ListAssumption, FS_CardinalityType DEF NodeCount

(* The recursion of Walk defines a function. *)
LEMMA WalkDef ==
    ASSUME NEW next \in [Nodes -> Pointers], NEW S
    PROVE  /\ Walk(next, S) \in [0 .. NodeCount -> [Pointers -> Seq(Nodes)]]
           /\ \A i \in 0 .. NodeCount : \A p \in Pointers :
                 Walk(next, S)[i][p] =
                     IF p = Nil \/ i = 0 THEN <<>>
                     ELSE Hit(p, S) \o Walk(next, S)[i - 1][next[p]]
  <1> DEFINE T == [Pointers -> Seq(Nodes)]
             base == [p \in Pointers |-> <<>>]
             Step(w) == [p \in Pointers |->
                            IF p = Nil THEN <<>>
                            ELSE Hit(p, S) \o w[next[p]]]
             step == [w \in T |-> Step(w)]
             Rec(walk) == [i \in 0 .. Cardinality(Nodes) |->
                              [p \in Pointers |->
                                  IF p = Nil \/ i = 0 THEN <<>>
                                  ELSE Hit(p, S) \o walk[i - 1][next[p]]]]
  <1>1. base \in T
    BY EmptySeq
  <1>2. ASSUME NEW w \in T PROVE Step(w) \in T
    <2>1. ASSUME NEW p \in Pointers, p # Nil
          PROVE  Hit(p, S) \o w[next[p]] \in Seq(Nodes)
      <3>1. p \in Nodes /\ w[next[p]] \in Seq(Nodes)
        BY <2>1 DEF Pointers
      <3>2. Hit(p, S) \in Seq(Nodes)
        BY <3>1 DEF Hit
      <3>3. QED
        BY <3>1, <3>2, ConcatProperties
    <2>2. QED
      BY <2>1, EmptySeq
  <1>3. step \in [T -> T]
    BY <1>2
  <1>4. NodeCount \in Nat
    BY NodeCountType
  <1>5. PICK f : Iteration(f, T, base, step, NodeCount)
    <2> HIDE DEF T, base, step
    <2>1. QED
      BY <1>1, <1>3, <1>4, IterationExists
  <1>6. f = Rec(f)
    <2>1. ASSUME NEW i \in 0 .. NodeCount PROVE f[i] = Rec(f)[i]
      <3>1. CASE i = 0
        BY <1>5, <3>1 DEF NodeCount, Iteration
      <3>2. CASE i # 0
        <4>1. i \in 1 .. NodeCount /\ i - 1 \in 0 .. NodeCount
          BY <1>4, <3>2
        <4>2. f[i] = Step(f[i - 1])
          BY <1>5, <4>1 DEF Iteration
        <4>3. QED
          BY <3>2, <4>2 DEF NodeCount
      <3>3. QED
        BY <3>1, <3>2
    <2>2. QED
      BY <1>5, <2>1 DEF NodeCount, Iteration
  <1>7. Walk(next, S) = Rec(Walk(next, S))
    <2>1. Walk(next, S) = CHOOSE walk : walk = Rec(walk)
      BY DEF Walk
    <2> HIDE DEF Rec
    <2>2. QED
      BY <1>6, <2>1
  <1>8. ASSUME NEW i \in 0 .. NodeCount, NEW p \in Pointers
        PROVE  Walk(next, S)[i][p] =
                     IF p = Nil \/ i = 0 THEN <<>>
                     ELSE Hit(p, S) \o Walk(next, S)[i - 1][next[p]]
    <2> DEFINE w == Walk(next, S)
    <2>1. w = Rec(w)
      BY <1>7
    <2> HIDE DEF w
    <2>2. w[i][p] = Rec(w)[i][p]
      BY <2>1
    <2>3. Rec(w)[i][p] = IF p = Nil \/ i = 0 THEN <<>>
                     ELSE Hit(p, S) \o w[i - 1][next[p]]
      BY DEF NodeCount
    <2>4. QED
      BY <2>2, <2>3 DEF w
  <1>9. Walk(next, S) \in [0 .. NodeCount -> T]
    <2> DEFINE w == Walk(next, S)
               Bad == {i \in 0 .. NodeCount : w[i] \notin T}
    <2>1. w = Rec(w)
      BY <1>7
    <2> HIDE DEF w
    <2>2. ASSUME Bad # {} PROVE FALSE
      <3>0. Bad \in SUBSET Nat
        BY <1>4
      <3>1. PICK i \in Bad : \A j \in Bad : i <= j
        <4> HIDE DEF Bad
        <4>1. QED
          BY <2>2, <3>0, LeastElement
      <3>2. i \in 0 .. NodeCount /\ w[i] \notin T
        OBVIOUS
      <3>3. CASE i = 0
        <4>1. w[0] = base
          BY <1>4, <2>1 DEF NodeCount
        <4>2. QED
          BY <1>1, <3>2, <3>3, <4>1
      <3>4. CASE i # 0
        <4>1. i - 1 \in 0 .. NodeCount /\ i - 1 \notin Bad
          <5> HIDE DEF Bad
          <5>1. QED
            BY <1>4, <3>1, <3>2, <3>4
        <4>2. w[i] = Step(w[i - 1])
          BY <2>1, <3>2, <3>4 DEF NodeCount
        <4>3. QED
          BY <1>2, <3>2, <4>1, <4>2
      <3>5. QED
        BY <3>3, <3>4
    <2>3. w = [i \in 0 .. NodeCount |-> w[i]]
      BY <2>1 DEF NodeCount
    <2>4. QED
      <3> HIDE DEF T
      <3>1. \A i \in 0 .. NodeCount : w[i] \in T
        BY <2>2
      <3>2. QED
        BY <2>3, <3>1 DEF w
  <1>10. QED
    BY <1>8, <1>9

(* Nothing is reached from the null pointer. *)
LEMMA WalkEnds ==
    ASSUME NEW next \in [Nodes -> Pointers], NEW S, NEW i \in 0 .. NodeCount
    PROVE  Walk(next, S)[i][Nil] = <<>>
  <1>1. Nil \in Pointers
    BY DEF Pointers
  <1>2. Walk(next, S)[i][Nil] =
            IF Nil = Nil \/ i = 0 THEN <<>>
            ELSE Hit(Nil, S) \o Walk(next, S)[i - 1][next[Nil]]
    BY <1>1, WalkDef
  <1>3. QED
    BY <1>2

(* A walk from a node begins with the node, if it is one of S. *)
WalkStep(next, S, i, p) ==
    Walk(next, S)[i][p] = Hit(p, S) \o Walk(next, S)[i - 1][next[p]]

LEMMA WalkSteps ==
    ASSUME NEW next \in [Nodes -> Pointers], NEW S, NEW i \in 0 .. NodeCount, i # 0,
           NEW p \in Nodes
    PROVE  WalkStep(next, S, i, p)
  <1>1. p \in Pointers /\ p # Nil
    BY ListAssumption DEF Pointers
  <1>2. Walk(next, S)[i][p] =
            IF p = Nil \/ i = 0 THEN <<>>
            ELSE Hit(p, S) \o Walk(next, S)[i - 1][next[p]]
    BY <1>1, WalkDef
  <1>3. QED
    BY <1>1, <1>2 DEF WalkStep

-----------------------------------------------------------------------------
(* Paths.                                                                  *)

(* The i-th node of c, or Nil after the last one. *)
NodeAt(c, i) == IF i \in 1 .. Len(c) THEN c[i] ELSE Nil

(* c is the whole way from pointer p to the end of its list, and meets no   *)
(* node twice.                                                              *)
Path(next, c, p) ==
    /\ c \in Seq(Nodes)
    /\ p = NodeAt(c, 1)
    /\ \A i \in 1 .. Len(c) : next[c[i]] = NodeAt(c, i + 1)
    /\ \A i, j \in 1 .. Len(c) : c[i] = c[j] => i = j

(* A path is no longer than there are nodes. *)
LEMMA PathLength ==
    ASSUME NEW next, NEW c, NEW p, Path(next, c, p)
    PROVE  Len(c) \in 0 .. NodeCount
  <1>1. Len(c) \in Nat /\ c \in [1 .. Len(c) -> Nodes]
    BY LenProperties DEF Path
  <1>2. c \in Injection(1 .. Len(c), Nodes)
    BY <1>1 DEF Path, Injection, IsInjective
  <1>3. Cardinality(1 .. Len(c)) <= Cardinality(Nodes)
    BY <1>2, ListAssumption, FS_Injection
  <1>4. Cardinality(1 .. Len(c)) = Len(c)
    BY <1>1, FS_Interval
  <1>5. QED
    BY <1>1, <1>3, <1>4, NodeCountType DEF NodeCount

(* The null pointer's path is empty, and a node's path is that of the node  *)
(* behind it with the node in front.                                        *)
LEMMA PathOfNil ==
    ASSUME NEW next
    PROVE  Path(next, <<>>, Nil) /\ \A c : Path(next, c, Nil) => c = <<>>
  <1>1. Path(next, <<>>, Nil)
    BY EmptySeq DEF Path, NodeAt
  <1>2. ASSUME NEW c, Path(next, c, Nil) PROVE c = <<>>
    <2>1. c \in Seq(Nodes) /\ Nil \notin Nodes /\ Nil = NodeAt(c, 1)
      BY <1>2, ListAssumption DEF Path
    <2>2. Len(c) \in Nat
      BY <2>1, LenProperties
    <2>3. Len(c) = 0
      <3>1. SUFFICES ASSUME Len(c) # 0 PROVE FALSE
        OBVIOUS
      <3>2. 1 \in 1 .. Len(c)
        BY <2>2, <3>1
      <3>3. QED
        BY <2>1, <3>2, ElementOfSeq DEF NodeAt
    <2>4. QED
      BY <2>1, <2>3, EmptySeq
  <1>3. QED
    BY <1>1, <1>2

(* Behind the first node of a path there is a path without it. *)
LEMMA PathOfNode ==
    ASSUME NEW next, NEW c, NEW p \in Nodes, Path(next, c, p)
    PROVE  /\ Path(next, Tail(c), next[p])
           /\ c = <<p>> \o Tail(c)
           /\ Len(Tail(c)) = Len(c) - 1 /\ Len(c) >= 1
           /\ p \notin Range(Tail(c)) /\ Range(c) = {p} \union Range(Tail(c))
  <1>1. c \in Seq(Nodes) /\ p = NodeAt(c, 1) /\ Len(c) \in Nat
    BY LenProperties DEF Path
  <1>2. Len(c) >= 1 /\ c[1] = p
    BY <1>1, ListAssumption DEF NodeAt
  <1>3. c # <<>>
    BY <1>2, EmptySeq
  <1>4. /\ Tail(c) \in Seq(Nodes)
        /\ Len(Tail(c)) = Len(c) - 1
        /\ \A i \in 1 .. Len(Tail(c)) : Tail(c)[i] = c[i + 1]
    BY <1>1, <1>3, HeadTailProperties
  <1>5. c = <<p>> \o Tail(c)
    <2>1. <<p>> \in Seq(Nodes) /\ Len(<<p>>) = 1 /\ <<p>>[1] = p
      OBVIOUS
    <2>2. /\ <<p>> \o Tail(c) \in Seq(Nodes)
          /\ Len(<<p>> \o Tail(c)) = Len(c)
          /\ \A i \in 1 .. Len(c) : (<<p>> \o Tail(c))[i] = c[i]
      <3>1. /\ <<p>> \o Tail(c) \in Seq(Nodes)
            /\ Len(<<p>> \o Tail(c)) = 1 + Len(Tail(c))
            /\ \A i \in 1 .. 1 + Len(Tail(c)) :
                  (<<p>> \o Tail(c))[i] = IF i <= 1 THEN p ELSE Tail(c)[i - 1]
        BY <1>4, <2>1, ConcatProperties
      <3>2. ASSUME NEW i \in 1 .. Len(c), i > 1 PROVE Tail(c)[i - 1] = c[i]
        <4>1. i - 1 \in 1 .. Len(Tail(c)) /\ (i - 1) + 1 = i
          BY <1>1, <1>4, <3>2
        <4>2. QED
          BY <1>4, <4>1
      <3>3. QED
        BY <1>1, <1>2, <1>4, <3>1, <3>2
    <2>3. QED
      BY <1>1, <2>2, SeqEqual
  <1>6. NodeAt(Tail(c), 1) = next[p]
    BY <1>1, <1>2, <1>4 DEF Path, NodeAt
  <1>7. ASSUME NEW i \in 1 .. Len(Tail(c)) PROVE next[Tail(c)[i]] = NodeAt(Tail(c), i + 1)
    <2>1. i + 1 \in 1 .. Len(c) /\ i \in Int
      BY <1>1, <1>4
    <2>2. next[Tail(c)[i]] = NodeAt(c, i + 2)
      BY <1>4, <2>1 DEF Path
    <2>3. NodeAt(c, i + 2) = NodeAt(Tail(c), i + 1)
      BY <1>1, <1>4, <2>1 DEF NodeAt
    <2>4. QED
      BY <2>2, <2>3
  <1>8. ASSUME NEW i \in 1 .. Len(Tail(c)), NEW j \in 1 .. Len(Tail(c)), Tail(c)[i] = Tail(c)[j]
        PROVE  i = j
    <2>1. i + 1 \in 1 .. Len(c) /\ j + 1 \in 1 .. Len(c)
      BY <1>1, <1>4
    <2>2. i + 1 = j + 1
      BY <1>4, <1>8, <2>1 DEF Path
    <2>3. QED
      BY <2>2
  <1>9. p \notin Range(Tail(c))
    <2>1. SUFFICES ASSUME NEW i \in 1 .. Len(Tail(c)), Tail(c)[i] = p PROVE FALSE
      <3>1. DOMAIN Tail(c) = 1 .. Len(Tail(c))
        BY <1>4, LenProperties
      <3>2. QED
        BY <3>1 DEF Range
    <2>2. i + 1 \in 1 .. Len(c) /\ 1 \in 1 .. Len(c) /\ c[i + 1] = c[1]
      BY <1>1, <1>2, <1>4, <2>1
    <2>3. i + 1 = 1
      BY <2>2 DEF Path
    <2>4. QED
      BY <2>3
  <1>10. Range(c) = {p} \union Range(Tail(c))
    <2>1. DOMAIN c = 1 .. Len(c) /\ DOMAIN Tail(c) = 1 .. Len(Tail(c))
      BY <1>1, <1>4, LenProperties
    <2>2. \A i \in 1 .. Len(c) : i = 1 \/ (i - 1 \in 1 .. Len(Tail(c)) /\ (i - 1) + 1 = i)
      BY <1>1, <1>4
    <2>3. \A i \in 1 .. Len(c) : c[i] = p \/ c[i] = Tail(c)[i - 1]
      BY <1>2, <1>4, <2>2
    <2>4. \A i \in 1 .. Len(Tail(c)) : i + 1 \in 1 .. Len(c)
      BY <1>1, <1>4
    <2>5. Range(c) = {c[i] : i \in 1 .. Len(c)}
      BY <2>1 DEF Range
    <2>6. Range(Tail(c)) = {Tail(c)[i] : i \in 1 .. Len(Tail(c))}
      BY <2>1 DEF Range
    <2>7. 1 \in 1 .. Len(c)
      BY <1>1, <1>2
    <2>8. Range(c) \subseteq {p} \union Range(Tail(c))
      <3>1. \A i \in 1 .. Len(c) : c[i] = p \/ c[i] \in Range(Tail(c))
        BY <1>2, <2>2, <2>3, <2>6
      <3>2. QED
        BY <2>5, <3>1
    <2>9. p \in Range(c)
      BY <1>2, <2>5, <2>7
    <2>10. Range(Tail(c)) \subseteq Range(c)
      BY <1>4, <2>4, <2>5, <2>6
    <2>11. QED
      BY <2>8, <2>9, <2>10
  <1>11. QED
    BY <1>2, <1>4, <1>5, <1>6, <1>7, <1>8, <1>9, <1>10 DEF Path

(* Conversely, a node that is not on the path of its next pointer makes it  *)
(* one longer.                                                              *)
LEMMA PathFromNode ==
    ASSUME NEW next, NEW c, NEW p \in Nodes, Path(next, c, next[p]), p \notin Range(c)
    PROVE  Path(next, <<p>> \o c, p) /\ Range(<<p>> \o c) = {p} \union Range(c)
  <1> DEFINE d == <<p>> \o c
  <1>1. c \in Seq(Nodes) /\ Len(c) \in Nat /\ DOMAIN c = 1 .. Len(c)
    BY LenProperties DEF Path
  <1>2. <<p>> \in Seq(Nodes) /\ Len(<<p>>) = 1 /\ <<p>>[1] = p
    OBVIOUS
  <1>3. /\ d \in Seq(Nodes) /\ Len(d) = 1 + Len(c)
        /\ \A i \in 1 .. 1 + Len(c) : d[i] = IF i <= 1 THEN p ELSE c[i - 1]
    BY <1>1, <1>2, ConcatProperties
  <1> HIDE DEF d
  <1>4. d[1] = p /\ \A i \in 1 .. Len(c) : i + 1 \in 1 .. Len(d) /\ d[i + 1] = c[i]
    BY <1>1, <1>3
  <1>5. \A i \in 1 .. Len(d) : i = 1 \/ \E j \in 1 .. Len(c) : i = j + 1
    <2>1. \A i \in 1 .. Len(d) : i # 1 => i - 1 \in 1 .. Len(c) /\ i = (i - 1) + 1
      BY <1>1, <1>3
    <2>2. QED
      BY <2>1
  <1>6. \A i \in 1 .. Len(c) : c[i] # p
    BY <1>1 DEF Range
  <1>7. \A i \in 1 .. Len(c) + 1 : NodeAt(c, i) = NodeAt(d, i + 1)
    BY <1>1, <1>3, <1>4 DEF NodeAt
  <1>8. ASSUME NEW i \in 1 .. Len(d) PROVE next[d[i]] = NodeAt(d, i + 1)
    <2>1. CASE i = 1
      <3>1. next[d[1]] = NodeAt(c, 1) /\ 1 \in 1 .. Len(c) + 1
        BY <1>1, <1>4 DEF Path
      <3>2. QED
        BY <1>7, <2>1, <3>1
    <2>2. CASE i # 1
      <3>1. PICK j \in 1 .. Len(c) : i = j + 1
        BY <1>5, <2>2
      <3>2. next[d[i]] = NodeAt(c, j + 1) /\ j + 1 \in 1 .. Len(c) + 1
        BY <1>1, <1>4, <3>1 DEF Path
      <3>3. QED
        BY <1>7, <3>1, <3>2
    <2>3. QED
      BY <2>1, <2>2
  <1>9. ASSUME NEW i \in 1 .. Len(d), NEW j \in 1 .. Len(d), d[i] = d[j] PROVE i = j
    <2>1. CASE i = 1 \/ j = 1
      <3>1. \A l \in 1 .. Len(d) : l # 1 => d[l] # p
        BY <1>4, <1>5, <1>6
      <3>2. QED
        BY <1>4, <1>9, <2>1, <3>1
    <2>2. CASE i # 1 /\ j # 1
      <3>1. PICK a \in 1 .. Len(c), e \in 1 .. Len(c) : i = a + 1 /\ j = e + 1
        BY <1>5, <2>2
      <3>2. c[a] = c[e]
        BY <1>4, <1>9, <3>1
      <3>3. \A l, m \in 1 .. Len(c) : c[l] = c[m] => l = m
        BY DEF Path
      <3>4. QED
        BY <3>1, <3>2, <3>3
    <2>3. QED
      BY <2>1, <2>2
  <1>10. p = NodeAt(d, 1)
    BY <1>1, <1>3, <1>4 DEF NodeAt
  <1>11. Range(d) = {p} \union Range(c)
    <2>1. DOMAIN d = 1 .. Len(d)
      BY <1>3, LenProperties
    <2>2. Range(d) = {d[i] : i \in 1 .. Len(d)} /\ Range(c) = {c[i] : i \in 1 .. Len(c)}
      BY <1>1, <2>1 DEF Range
    <2>3. 1 \in 1 .. Len(d)
      BY <1>1, <1>3
    <2>4. ASSUME NEW i \in 1 .. Len(d) PROVE d[i] \in {p} \union Range(c)
      <3>1. i = 1 \/ \E j \in 1 .. Len(c) : d[i] = c[j]
        BY <1>4, <1>5
      <3>2. QED
        BY <1>4, <2>2, <3>1
    <2>5. p \in Range(d) /\ \A i \in 1 .. Len(c) : c[i] \in Range(d)
      BY <1>4, <2>2, <2>3
    <2>6. QED
      BY <2>2, <2>4, <2>5
  <1>12. QED
    BY <1>3, <1>8, <1>9, <1>10, <1>11 DEF Path, d

(* Induction along a path, for a set G of pairs of a path and its start.    *)
LEMMA PathInduction ==
    ASSUME NEW next \in [Nodes -> Pointers], NEW G,
           <<<<>>, Nil>> \in G,
           \A c, p : /\ p \in Nodes /\ Path(next, c, p)
                     /\ <<Tail(c), next[p]>> \in G
                     => <<c, p>> \in G
    PROVE  \A c : \A p \in Pointers : Path(next, c, p) => <<c, p>> \in G
  <1> DEFINE Bad == {l \in Nat : \E c : \E p \in Pointers :
                        Path(next, c, p) /\ Len(c) = l /\ <<c, p>> \notin G}
  <1>1. ASSUME Bad # {} PROVE FALSE
    <2>1. Bad \in SUBSET Nat
      OBVIOUS
    <2>2. PICK l \in Bad : \A m \in Bad : l <= m
      <3> HIDE DEF Bad
      <3>1. QED
        BY <1>1, <2>1, LeastElement
    <2>3. PICK c : \E p \in Pointers : Path(next, c, p) /\ Len(c) = l /\ <<c, p>> \notin G
      OBVIOUS
    <2>4. PICK p \in Pointers : Path(next, c, p) /\ Len(c) = l /\ <<c, p>> \notin G
      BY <2>3
    <2>5. p # Nil
      BY <2>4, PathOfNil
    <2>6. p \in Nodes /\ next[p] \in Pointers
      BY <2>5 DEF Pointers
    <2>7. Path(next, Tail(c), next[p]) /\ Len(Tail(c)) = l - 1 /\ l >= 1
      BY <2>4, <2>6, PathOfNode
    <2>8. l - 1 \in Nat /\ l - 1 \notin Bad
      <3>1. l \in Nat
        OBVIOUS
      <3> HIDE DEF Bad
      <3>2. QED
        BY <2>2, <2>7, <3>1
    <2>9. <<Tail(c), next[p]>> \in G
      BY <2>6, <2>7, <2>8
    <2>10. QED
      BY <2>4, <2>6, <2>9
  <1>2. ASSUME NEW c, NEW p \in Pointers, Path(next, c, p) PROVE <<c, p>> \in G
    <2>1. Len(c) \in Nat
      BY <1>2, PathLength, NodeCountType
    <2>2. QED
      BY <1>1, <1>2, <2>1
  <1>3. QED
    BY <1>2

-----------------------------------------------------------------------------
(* What Reached computes along a path.                                     *)

(* A walk that is long enough for the path meets the whole of it. *)
LEMMA WalkFarEnough ==
    ASSUME NEW next \in [Nodes -> Pointers], NEW S, NEW c, NEW p \in Pointers,
           Path(next, c, p), NEW i \in Len(c) .. NodeCount, NEW j \in Len(c) .. NodeCount
    PROVE  Walk(next, S)[i][p] = Walk(next, S)[j][p]
  <1> DEFINE w == Walk(next, S)
             G == {x \in Seq(Nodes) \X Pointers :
                      \A k, l \in Len(x[1]) .. NodeCount : w[k][x[2]] = w[l][x[2]]}
  <1>1. NodeCount \in Nat
    BY NodeCountType
  <1>2. \A k \in 0 .. NodeCount : w[k][Nil] = <<>>
    BY WalkEnds
  <1>3. \A k \in 0 .. NodeCount : \A q \in Nodes :
            k # 0 => w[k][q] = Hit(q, S) \o w[k - 1][next[q]]
    <2>1. \A k \in 0 .. NodeCount : \A q \in Nodes : k # 0 => WalkStep(next, S, k, q)
      BY WalkSteps
    <2>2. QED
      BY <2>1 DEF WalkStep
  <1> HIDE DEF w
  <1>4. <<<<>>, Nil>> \in G
    <2>1. <<>> \in Seq(Nodes) /\ Len(<<>>) = 0 /\ Nil \in Pointers
      BY EmptySeq DEF Pointers
    <2>2. QED
      BY <1>2, <2>1
  <1>5. ASSUME NEW d, NEW q \in Nodes, Path(next, d, q), <<Tail(d), next[q]>> \in G
        PROVE  <<d, q>> \in G
    <2>1. Len(d) \in 0 .. NodeCount /\ Len(d) >= 1 /\ Len(Tail(d)) = Len(d) - 1
      BY <1>5, PathLength, PathOfNode
    <2>2. ASSUME NEW k \in Len(d) .. NodeCount, NEW l \in Len(d) .. NodeCount
          PROVE  w[k][q] = w[l][q]
      <3>1. /\ k \in 0 .. NodeCount /\ k # 0 /\ k - 1 \in Len(Tail(d)) .. NodeCount
            /\ l \in 0 .. NodeCount /\ l # 0 /\ l - 1 \in Len(Tail(d)) .. NodeCount
        BY <1>1, <2>1
      <3>2. w[k - 1][next[q]] = w[l - 1][next[q]]
        BY <1>5, <3>1
      <3>3. /\ w[k][q] = Hit(q, S) \o w[k - 1][next[q]]
            /\ w[l][q] = Hit(q, S) \o w[l - 1][next[q]]
        BY <1>3, <3>1
      <3>4. QED
        BY <3>2, <3>3
    <2>3. d \in Seq(Nodes) /\ q \in Pointers
      BY <1>5 DEF Path, Pointers
    <2>4. QED
      BY <2>2, <2>3
  <1>6. <<c, p>> \in G
    <2> HIDE DEF G
    <2>1. QED
      BY <1>4, <1>5, PathInduction
  <1>7. QED
    BY <1>6 DEF w

(* Reached, node by node. *)
LEMMA ReachedFromNil ==
    ASSUME NEW next \in [Nodes -> Pointers], NEW S
    PROVE  Reached(next, S, Nil) = <<>>
  <1>1. NodeCount \in 0 .. NodeCount /\ Nil \in Pointers
    BY NodeCountType DEF Pointers
  <1>2. QED
    BY <1>1, WalkEnds DEF Reached, NodeCount

(* What is reached from a node at the beginning of a path. *)
LEMMA ReachedFromNode ==
    ASSUME NEW next \in [Nodes -> Pointers], NEW S, NEW c, NEW p \in Nodes, Path(next, c, p)
    PROVE  Reached(next, S, p) =
               Hit(p, S) \o Reached(next, S, next[p])
  <1>1. /\ NodeCount \in 0 .. NodeCount /\ p \in Pointers /\ p # Nil /\ next[p] \in Pointers
        /\ NodeCount \in Nat
    BY NodeCountType, ListAssumption DEF Pointers
  <1>2. /\ Path(next, Tail(c), next[p]) /\ Len(Tail(c)) = Len(c) - 1
        /\ Len(c) >= 1 /\ Len(c) \in 0 .. NodeCount
    BY PathOfNode, PathLength
  <1>3. NodeCount # 0 /\ NodeCount - 1 \in 0 .. NodeCount
    BY <1>1, <1>2
  <1>4. Walk(next, S)[NodeCount][p] = Hit(p, S) \o Walk(next, S)[NodeCount - 1][next[p]]
    <2>1. WalkStep(next, S, NodeCount, p)
      BY <1>1, <1>3, WalkSteps
    <2>2. QED
      BY <2>1 DEF WalkStep
  <1>5. NodeCount - 1 \in Len(Tail(c)) .. NodeCount /\ NodeCount \in Len(Tail(c)) .. NodeCount
    BY <1>1, <1>2
  <1>6. \A i, j \in Len(Tail(c)) .. NodeCount : Walk(next, S)[i][next[p]] = Walk(next, S)[j][next[p]]
    <2>1. \A q \in Pointers : \A d : Path(next, d, q) =>
              \A i, j \in Len(d) .. NodeCount : Walk(next, S)[i][q] = Walk(next, S)[j][q]
      BY WalkFarEnough
    <2>2. QED
      BY <1>1, <1>2, <2>1
  <1>7. Walk(next, S)[NodeCount - 1][next[p]] = Walk(next, S)[NodeCount][next[p]]
    BY <1>5, <1>6
  <1>8. QED
    BY <1>4, <1>7 DEF Reached, NodeCount

(* Nodes are reached. *)
LEMMA ReachedType ==
    ASSUME NEW next \in [Nodes -> Pointers], NEW S, NEW p \in Pointers
    PROVE  Reached(next, S, p) \in Seq(Nodes)
  <1>1. NodeCount \in 0 .. NodeCount
    BY NodeCountType
  <1>2. Walk(next, S)[NodeCount] \in [Pointers -> Seq(Nodes)]
    BY <1>1, WalkDef
  <1>3. QED
    BY <1>2 DEF Reached, NodeCount

(* All the nodes reached are the path. *)
LEMMA ReachedIsPath ==
    ASSUME NEW next \in [Nodes -> Pointers], NEW c, NEW p \in Pointers, Path(next, c, p)
    PROVE  Reached(next, Nodes, p) = c
  <1> DEFINE G == {x \in Seq(Nodes) \X Pointers : Reached(next, Nodes, x[2]) = x[1]}
  <1>1. <<<<>>, Nil>> \in G
    BY EmptySeq, ReachedFromNil DEF Pointers
  <1>2. ASSUME NEW d, NEW q \in Nodes, Path(next, d, q), <<Tail(d), next[q]>> \in G
        PROVE  <<d, q>> \in G
    <2>1. Reached(next, Nodes, q) = Hit(q, Nodes) \o Reached(next, Nodes, next[q])
      BY <1>2, ReachedFromNode
    <2>2. Hit(q, Nodes) = <<q>>
      BY DEF Hit
    <2>3. d = <<q>> \o Tail(d)
      BY <1>2, PathOfNode
    <2>4. d \in Seq(Nodes) /\ q \in Pointers
      BY <1>2 DEF Path, Pointers
    <2>5. QED
      BY <1>2, <2>1, <2>2, <2>3, <2>4
  <1>3. <<c, p>> \in G
    <2> HIDE DEF G
    <2>1. QED
      BY <1>1, <1>2, PathInduction
  <1>4. QED
    BY <1>3

(* What is reached depends on the nodes of the path only. *)
LEMMA ReachedAgrees ==
    ASSUME NEW next \in [Nodes -> Pointers], NEW S, NEW c, NEW p \in Pointers, Path(next, c, p),
           NEW next2 \in [Nodes -> Pointers], NEW S2,
           \A n \in Range(c) : next2[n] = next[n] /\ (n \in S2 <=> n \in S)
    PROVE  Path(next2, c, p) /\ Reached(next2, S2, p) = Reached(next, S, p)
  <1> DEFINE Same(d) == \A n \in Range(d) : next2[n] = next[n] /\ (n \in S2 <=> n \in S)
             G == {x \in Seq(Nodes) \X Pointers :
                      Same(x[1]) => /\ Path(next2, x[1], x[2])
                                    /\ Reached(next2, S2, x[2]) = Reached(next, S, x[2])}
  <1>1. <<<<>>, Nil>> \in G
    BY EmptySeq, PathOfNil, ReachedFromNil DEF Pointers
  <1>2. ASSUME NEW d, NEW q \in Nodes, Path(next, d, q), <<Tail(d), next[q]>> \in G
        PROVE  <<d, q>> \in G
    <2>1. /\ d = <<q>> \o Tail(d) /\ q \notin Range(Tail(d))
          /\ Range(d) = {q} \union Range(Tail(d))
      BY <1>2, PathOfNode
    <2>2. ASSUME Same(d)
          PROVE  Path(next2, d, q) /\ Reached(next2, S2, q) = Reached(next, S, q)
      <3>1. next2[q] = next[q] /\ (q \in S2 <=> q \in S) /\ Same(Tail(d))
        BY <2>1, <2>2
      <3>2. /\ Path(next2, Tail(d), next2[q])
            /\ Reached(next2, S2, next2[q]) = Reached(next, S, next[q])
        BY <1>2, <3>1
      <3>3. Path(next2, d, q)
        <4>1. Path(next2, <<q>> \o Tail(d), q)
          BY <2>1, <3>2, PathFromNode
        <4>2. QED
          BY <2>1, <4>1
      <3>4. /\ Reached(next2, S2, q) =
                  Hit(q, S2) \o Reached(next2, S2, next2[q])
            /\ Reached(next, S, q) =
                  Hit(q, S) \o Reached(next, S, next[q])
        BY <1>2, <3>3, ReachedFromNode
      <3>5. Hit(q, S2) = Hit(q, S)
        BY <3>1 DEF Hit
      <3>6. QED
        BY <3>2, <3>3, <3>4, <3>5
    <2>3. d \in Seq(Nodes) /\ q \in Pointers
      BY <1>2 DEF Path, Pointers
    <2>4. QED
      BY <2>2, <2>3
  <1>3. <<c, p>> \in G
    <2> HIDE DEF G
    <2>1. QED
      BY <1>1, <1>2, PathInduction
  <1>4. QED
    BY <1>3

(* The next pointers of a path lead along it, or to its end. *)
LEMMA PathCloses ==
    ASSUME NEW next, NEW c, NEW p, Path(next, c, p), NEW n \in Range(c)
    PROVE  n \in Nodes /\ next[n] \in Range(c) \union {Nil}
  <1>1. c \in Seq(Nodes) /\ Len(c) \in Nat /\ DOMAIN c = 1 .. Len(c)
    BY LenProperties DEF Path
  <1>2. PICK i \in 1 .. Len(c) : n = c[i]
    BY <1>1 DEF Range
  <1>3. next[n] = NodeAt(c, i + 1)
    BY <1>2 DEF Path
  <1>4. next[n] \in Range(c) \union {Nil}
    BY <1>1, <1>3 DEF NodeAt, Range
  <1>5. QED
    BY <1>1, <1>2, <1>4, ElementOfSeq

(* The first node reached is one of S on the path, and the others are what  *)
(* is reached without it.                                                   *)
LEMMA ReachedFirst ==
    ASSUME NEW next \in [Nodes -> Pointers], NEW S, NEW c, NEW p \in Pointers, Path(next, c, p),
           Reached(next, S, p) # <<>>
    PROVE  LET x == Head(Reached(next, S, p))
           IN  /\ x \in Range(c) /\ x \in S
               /\ Reached(next, S \ {x}, p) = Tail(Reached(next, S, p))
  <1> DEFINE Claim(d, q) ==
                 LET r == Reached(next, S, q)
                 IN  r # <<>> => /\ Head(r) \in Range(d) /\ Head(r) \in S
                                 /\ Reached(next, S \ {Head(r)}, q) = Tail(r)
             G == {y \in Seq(Nodes) \X Pointers : Claim(y[1], y[2])}
  <1>1. <<<<>>, Nil>> \in G
    BY EmptySeq, ReachedFromNil DEF Pointers
  <1>2. ASSUME NEW d, NEW q \in Nodes, Path(next, d, q), <<Tail(d), next[q]>> \in G
        PROVE  <<d, q>> \in G
    <2> DEFINE rest(T) == Reached(next, T, next[q])
    <2>1. \A T : Reached(next, T, q) = Hit(q, T) \o rest(T)
      BY <1>2, ReachedFromNode
    <2>2. \A T : rest(T) \in Seq(Nodes)
      BY ReachedType
    <2>3. Range(d) = {q} \union Range(Tail(d)) /\ q \notin Range(Tail(d))
      BY <1>2, PathOfNode
    <2>4. Path(next, Tail(d), next[q]) /\ next[q] \in Pointers
      BY <1>2, PathOfNode
    <2>5. CASE q \in S
      <3>1. Reached(next, S, q) = <<q>> \o rest(S)
        BY <2>1, <2>5 DEF Hit
      <3>2. Head(Reached(next, S, q)) = q /\ Tail(Reached(next, S, q)) = rest(S)
        BY <2>2, <3>1
      <3>3. Reached(next, S \ {q}, q) = rest(S \ {q})
        <4>1. Hit(q, S \ {q}) = <<>>
          BY DEF Hit
        <4>2. QED
          BY <2>1, <2>2, <4>1, ConcatEmptySeq
      <3>4. rest(S \ {q}) = rest(S)
        BY <2>3, <2>4, ReachedAgrees
      <3>5. Claim(d, q)
        BY <2>3, <2>5, <3>2, <3>3, <3>4
      <3>6. QED
        BY <1>2, <3>5 DEF Path, Pointers
    <2>6. CASE q \notin S
      <3>1. \A T \in SUBSET S : Reached(next, T, q) = rest(T)
        <4>1. \A T \in SUBSET S : Hit(q, T) = <<>>
          BY <2>6 DEF Hit
        <4>2. QED
          BY <2>1, <2>2, <4>1, ConcatEmptySeq
      <3>2. Claim(Tail(d), next[q])
        BY <1>2
      <3>3. Claim(d, q)
        <4>1. Reached(next, S, q) = rest(S)
          BY <3>1
        <4>2. \A x : Reached(next, S \ {x}, q) = rest(S \ {x})
          BY <3>1
        <4>3. QED
          BY <2>3, <3>2, <4>1, <4>2
      <3>4. QED
        BY <1>2, <3>3 DEF Path, Pointers
    <2>7. QED
      BY <2>5, <2>6
  <1>3. <<c, p>> \in G
    <2> HIDE DEF G
    <2>1. QED
      BY <1>1, <1>2, PathInduction
  <1>4. QED
    BY <1>3

-----------------------------------------------------------------------------
(* Taking a node out of a list.                                            *)

(* Where pointer q leads, and where all next pointers lead, without node x. *)
Skip(next, x, q) == IF q = x THEN next[x] ELSE q
(* All next pointers, with those to x led past it. *)
Around(next, x) == [n \in Nodes |-> Skip(next, x, next[n])]

(* The way around x reaches all of the path c but x. *)
LeadsAround(next, S, c, p, x) ==
    /\ Reached(Around(next, x), S, Skip(next, x, p)) = Reached(next, S \ {x}, p)
    /\ \E d : Path(Around(next, x), d, Skip(next, x, p)) /\ Range(d) = Range(c) \ {x}

LEMMA AroundNode ==
    ASSUME NEW next \in [Nodes -> Pointers], NEW S, NEW c, NEW p \in Pointers, Path(next, c, p),
           NEW x \in Range(c)
    PROVE  LeadsAround(next, S, c, p, x)
  <1> DEFINE by == Around(next, x)
             Goes(d, e, q) == Path(by, e, Skip(next, x, q)) /\ Range(e) = Range(d) \ {x}
             Claim(d, q) ==
                 x \in Range(d) =>
                     /\ Reached(by, S, Skip(next, x, q)) = Reached(next, S \ {x}, q)
                     /\ \E e : Goes(d, e, q)
             G == {y \in Seq(Nodes) \X Pointers : Claim(y[1], y[2])}
  <1>0. x \in Nodes /\ by \in [Nodes -> Pointers]
    <2>1. x \in Nodes
      BY PathCloses
    <2>2. QED
      BY <2>1 DEF Around, Skip
  <1>1. <<<<>>, Nil>> \in G
    <2>1. <<>> \in Seq(Nodes) /\ DOMAIN <<>> = {}
      BY EmptySeq
    <2>2. x \notin Range(<<>>)
      BY <2>1 DEF Range
    <2> HIDE DEF by, Goes
    <2>3. QED
      BY <2>1, <2>2 DEF Pointers
  <1>2. ASSUME NEW d, NEW q \in Nodes, Path(next, d, q), <<Tail(d), next[q]>> \in G
        PROVE  <<d, q>> \in G
    <2>1. /\ Path(next, Tail(d), next[q]) /\ next[q] \in Pointers
          /\ Range(d) = {q} \union Range(Tail(d)) /\ q \notin Range(Tail(d))
      BY <1>2, PathOfNode
    <2>2. Reached(next, S \ {x}, q) = Hit(q, S \ {x}) \o Reached(next, S \ {x}, next[q])
      BY <1>2, ReachedFromNode
    <2>3. CASE q = x
      <3>1. \A n \in Range(Tail(d)) : by[n] = next[n] /\ (n \in S <=> n \in S \ {x})
        <4>1. \A n \in Range(Tail(d)) : n \in Nodes /\ next[n] \in Range(Tail(d)) \union {Nil}
          BY <2>1, PathCloses
        <4>2. x # Nil
          BY <1>0, ListAssumption
        <4>3. QED
          BY <2>1, <2>3, <4>1, <4>2 DEF Around, Skip
      <3>2. /\ Path(by, Tail(d), next[q])
            /\ Reached(by, S, next[q]) = Reached(next, S \ {x}, next[q])
        <4> HIDE DEF by
        <4>1. QED
          BY <1>0, <2>1, <3>1, ReachedAgrees
      <3>3. Skip(next, x, q) = next[q]
        BY <2>3 DEF Skip
      <3>4. Reached(next, S \ {x}, q) = Reached(next, S \ {x}, next[q])
        <4>1. Hit(q, S \ {x}) = <<>>
          BY <2>3 DEF Hit
        <4>2. Reached(next, S \ {x}, next[q]) \in Seq(Nodes)
          BY <2>1, ReachedType
        <4>3. QED
          BY <2>2, <4>1, <4>2, ConcatEmptySeq
      <3>5. Goes(d, Tail(d), q)
        BY <2>1, <2>3, <3>2, <3>3
      <3>6. Claim(d, q)
        <4> HIDE DEF by
        <4>1. QED
          BY <3>2, <3>3, <3>4, <3>5
      <3>7. QED
        <4> HIDE DEF Claim
        <4>1. QED
          BY <1>2, <3>6 DEF Path, Pointers
    <2>4. CASE q # x
      <3>1. SUFFICES ASSUME x \in Range(d)
                     PROVE  /\ Reached(by, S, Skip(next, x, q)) = Reached(next, S \ {x}, q)
                            /\ \E e : Goes(d, e, q)
        <4> HIDE DEF by, Goes
        <4>1. QED
          BY <1>2 DEF Path, Pointers
      <3>2. x \in Range(Tail(d))
        BY <2>1, <2>4, <3>1
      <3>3. Claim(Tail(d), next[q])
        <4> HIDE DEF Claim
        <4>1. QED
          BY <1>2
      <3>4. PICK e : Goes(Tail(d), e, next[q])
        BY <3>2, <3>3
      <3>5. by[q] = Skip(next, x, next[q]) /\ Skip(next, x, q) = q
        BY <2>4 DEF Around, Skip
      <3>6. Path(by, e, by[q]) /\ q \notin Range(e) /\ Range(e) = Range(Tail(d)) \ {x}
        BY <2>1, <3>4, <3>5
      <3>7. Path(by, <<q>> \o e, q) /\ Range(<<q>> \o e) = {q} \union Range(e)
        <4> HIDE DEF by
        <4>1. QED
          BY <3>6, PathFromNode
      <3>8. Reached(by, S, q) = Hit(q, S) \o Reached(by, S, by[q])
        <4> HIDE DEF by
        <4>1. QED
          BY <1>0, <3>7, ReachedFromNode
      <3>9. Reached(by, S, by[q]) = Reached(next, S \ {x}, next[q])
        BY <3>2, <3>3, <3>5
      <3>10. Hit(q, S) = Hit(q, S \ {x})
        BY <2>4 DEF Hit
      <3>11. Goes(d, <<q>> \o e, q)
        BY <2>1, <2>4, <3>5, <3>6, <3>7
      <3>12. QED
        <4> HIDE DEF by, Goes
        <4>1. QED
          BY <2>2, <3>5, <3>8, <3>9, <3>10, <3>11
    <2>5. QED
      BY <2>3, <2>4
  <1>3. <<c, p>> \in G
    <2> HIDE DEF G
    <2>1. QED
      BY <1>1, <1>2, PathInduction
  <1>4. Claim(c, p)
    <2> HIDE DEF Claim
    <2>1. QED
      BY <1>3
  <1>5. QED
    BY <1>4 DEF LeadsAround

-----------------------------------------------------------------------------
(* The same for the lists in a heap h, from pointer p on.                  *)

(* What memory can hold. *)
Heap == [Nodes -> [key : Keys \union {Junk}, val : Vals \union {Junk}, next : Pointers]]

(* The next pointers, and the nodes with key k. *)
LinksOf(h) == [n \in Nodes |-> h[n].next]
KeyNodes(h, k) == {n \in Nodes : h[n].key = k}

(* The list ends. *)
Ends(h, p) == \E c : Path(LinksOf(h), c, p)

(* The nodes of the list, those with key k, their values, and the answer    *)
(* for key k.                                                               *)
NodesFrom(h, p) == Range(Reached(LinksOf(h), Nodes, p))
MatchingFrom(h, p, k) == Reached(LinksOf(h), KeyNodes(h, k), p)
ValsOf(h, m) == [i \in DOMAIN m |-> h[m[i]].val]
AnswerFrom(h, p, k) ==
    IF MatchingFrom(h, p, k) = <<>> THEN NotFound ELSE h[Head(MatchingFrom(h, p, k))].val

(* The next pointers are pointers. *)
LEMMA HeapLinks ==
    ASSUME NEW h \in Heap
    PROVE  LinksOf(h) \in [Nodes -> Pointers] /\ \A n \in Nodes : LinksOf(h)[n] = h[n].next
  BY DEF Heap, LinksOf

(* The nodes of a list are those of its path. *)
LEMMA NodesOfPath ==
    ASSUME NEW h \in Heap, NEW p \in Pointers, NEW c, Path(LinksOf(h), c, p)
    PROVE  NodesFrom(h, p) = Range(c)
  BY HeapLinks, ReachedIsPath DEF NodesFrom

(* The nodes with key k are a sequence of nodes. *)
LEMMA MatchingType ==
    ASSUME NEW h \in Heap, NEW p \in Pointers, NEW k
    PROVE  MatchingFrom(h, p, k) \in Seq(Nodes)
  BY HeapLinks, ReachedType DEF MatchingFrom

(* No list begins at Nil. *)
LEMMA EmptyList ==
    ASSUME NEW h \in Heap
    PROVE  /\ Ends(h, Nil) /\ NodesFrom(h, Nil) = {}
           /\ \A k : MatchingFrom(h, Nil, k) = <<>> /\ AnswerFrom(h, Nil, k) = NotFound
  <1>1. Path(LinksOf(h), <<>>, Nil)
    BY PathOfNil
  <1>2. Nil \in Pointers /\ Range(<<>>) = {}
    <2>1. <<>> \in Seq(Nodes) /\ DOMAIN <<>> = {}
      BY EmptySeq
    <2>2. QED
      BY <2>1 DEF Range, Pointers
  <1>3. NodesFrom(h, Nil) = {}
    BY <1>1, <1>2, NodesOfPath
  <1>4. \A k : MatchingFrom(h, Nil, k) = <<>>
    BY HeapLinks, ReachedFromNil DEF MatchingFrom
  <1>5. QED
    BY <1>1, <1>3, <1>4 DEF Ends, AnswerFrom

(* Node n comes first among the nodes with its key, and is none of the      *)
(* nodes with another key.                                                  *)
FirstNode(h, n, k) ==
    /\ h[n].key = k => /\ MatchingFrom(h, n, k) = <<n>> \o MatchingFrom(h, h[n].next, k)
                       /\ AnswerFrom(h, n, k) = h[n].val
    /\ h[n].key # k => /\ MatchingFrom(h, n, k) = MatchingFrom(h, h[n].next, k)
                       /\ AnswerFrom(h, n, k) = AnswerFrom(h, h[n].next, k)

(* A list that begins with node n. *)
LEMMA ListFromNode ==
    ASSUME NEW h \in Heap, NEW n \in Nodes, Ends(h, n)
    PROVE  /\ Ends(h, h[n].next)
           /\ NodesFrom(h, n) = {n} \union NodesFrom(h, h[n].next)
           /\ n \notin NodesFrom(h, h[n].next)
           /\ \A k : FirstNode(h, n, k)
  <1> DEFINE q == h[n].next
  <1>1. /\ LinksOf(h) \in [Nodes -> Pointers] /\ LinksOf(h)[n] = q
        /\ q \in Pointers /\ n \in Pointers
    BY HeapLinks DEF Pointers
  <1> HIDE DEF q
  <1>2. PICK c : Path(LinksOf(h), c, n)
    BY DEF Ends
  <1>3. /\ Path(LinksOf(h), Tail(c), q) /\ n \notin Range(Tail(c))
        /\ Range(c) = {n} \union Range(Tail(c))
    BY <1>1, <1>2, PathOfNode
  <1>4. NodesFrom(h, n) = Range(c) /\ NodesFrom(h, q) = Range(Tail(c))
    BY <1>1, <1>2, <1>3, NodesOfPath
  <1>5. ASSUME NEW k PROVE FirstNode(h, n, k)
    <2>1. MatchingFrom(h, n, k) = Hit(n, KeyNodes(h, k)) \o MatchingFrom(h, q, k)
      BY <1>1, <1>2, ReachedFromNode DEF MatchingFrom
    <2>2. MatchingFrom(h, q, k) \in Seq(Nodes)
      BY <1>1, MatchingType
    <2>3. CASE h[n].key = k
      <3>1. Hit(n, KeyNodes(h, k)) = <<n>>
        BY <2>3 DEF Hit, KeyNodes
      <3>2. MatchingFrom(h, n, k) = <<n>> \o MatchingFrom(h, q, k)
        BY <2>1, <3>1
      <3>3. MatchingFrom(h, n, k) # <<>> /\ Head(MatchingFrom(h, n, k)) = n
        BY <2>2, <3>2
      <3>4. QED
        BY <2>3, <3>2, <3>3 DEF FirstNode, AnswerFrom, q
    <2>4. CASE h[n].key # k
      <3>1. Hit(n, KeyNodes(h, k)) = <<>>
        BY <2>4 DEF Hit, KeyNodes
      <3>2. MatchingFrom(h, n, k) = MatchingFrom(h, q, k)
        BY <2>1, <2>2, <3>1, ConcatEmptySeq
      <3>3. QED
        BY <2>4, <3>2 DEF FirstNode, AnswerFrom, q
    <2>5. QED
      BY <2>3, <2>4
  <1>6. QED
    BY <1>3, <1>4, <1>5 DEF Ends, q

(* A node in front of a list. *)
LEMMA NodeBeforeList ==
    ASSUME NEW h \in Heap, NEW n \in Nodes, Ends(h, h[n].next), n \notin NodesFrom(h, h[n].next)
    PROVE  Ends(h, n)
  <1>1. LinksOf(h)[n] = h[n].next /\ h[n].next \in Pointers
    BY HeapLinks
  <1>2. PICK c : Path(LinksOf(h), c, h[n].next)
    BY DEF Ends
  <1>3. n \notin Range(c)
    BY <1>1, <1>2, NodesOfPath
  <1>4. QED
    BY <1>1, <1>2, <1>3, PathFromNode DEF Ends

(* A list stays as it is when its nodes do. *)
LEMMA ListKept ==
    ASSUME NEW h \in Heap, NEW h2 \in Heap, NEW p \in Pointers, Ends(h, p),
           \A n \in NodesFrom(h, p) : h2[n] = h[n]
    PROVE  /\ Ends(h2, p) /\ NodesFrom(h2, p) = NodesFrom(h, p)
           /\ \A k : /\ MatchingFrom(h2, p, k) = MatchingFrom(h, p, k)
                     /\ AnswerFrom(h2, p, k) = AnswerFrom(h, p, k)
  <1>1. PICK c : Path(LinksOf(h), c, p)
    BY DEF Ends
  <1>2. NodesFrom(h, p) = Range(c) /\ \A n \in Range(c) : n \in Nodes
    BY <1>1, NodesOfPath, PathCloses
  <1>3. /\ LinksOf(h) \in [Nodes -> Pointers] /\ LinksOf(h2) \in [Nodes -> Pointers]
        /\ \A n \in Range(c) : LinksOf(h2)[n] = LinksOf(h)[n]
    BY <1>2, HeapLinks
  <1>4. \A k : \A n \in Range(c) : n \in KeyNodes(h2, k) <=> n \in KeyNodes(h, k)
    BY <1>2 DEF KeyNodes
  <1>5. Path(LinksOf(h2), c, p)
    BY <1>1, <1>3, ReachedAgrees
  <1>6. \A k : MatchingFrom(h2, p, k) = MatchingFrom(h, p, k)
    BY <1>1, <1>3, <1>4, ReachedAgrees DEF MatchingFrom
  <1>7. NodesFrom(h2, p) = NodesFrom(h, p)
    BY <1>2, <1>5, NodesOfPath
  <1>8. ASSUME NEW k PROVE AnswerFrom(h2, p, k) = AnswerFrom(h, p, k)
    <2>1. MatchingFrom(h, p, k) # <<>> => Head(MatchingFrom(h, p, k)) \in Range(c)
      BY <1>1, <1>3, ReachedFirst DEF MatchingFrom
    <2>2. QED
      BY <1>2, <1>6, <2>1 DEF AnswerFrom
  <1>9. QED
    BY <1>5, <1>6, <1>7, <1>8 DEF Ends

(* From every node of a list a part of it begins. *)
LEMMA ListFromInside ==
    ASSUME NEW h \in Heap, NEW p \in Pointers, Ends(h, p), NEW n \in NodesFrom(h, p)
    PROVE  /\ n \in Nodes /\ Ends(h, n) /\ NodesFrom(h, n) \subseteq NodesFrom(h, p)
           /\ h[n].next \in NodesFrom(h, p) \union {Nil}
  <1> DEFINE next == LinksOf(h)
             Claim(d) == n \in Range(d) => \E e : Path(next, e, n) /\ Range(e) \subseteq Range(d)
             G == {y \in Seq(Nodes) \X Pointers : Claim(y[1])}
  <1>0. next \in [Nodes -> Pointers]
    BY HeapLinks
  <1>1. PICK c : Path(next, c, p)
    BY DEF Ends
  <1>2. NodesFrom(h, p) = Range(c)
    BY <1>1, NodesOfPath
  <1>3. n \in Nodes /\ h[n].next \in NodesFrom(h, p) \union {Nil}
    BY <1>1, <1>2, PathCloses, HeapLinks
  <1> HIDE DEF next
  <1>4. <<<<>>, Nil>> \in G
    <2>1. <<>> \in Seq(Nodes) /\ DOMAIN <<>> = {}
      BY EmptySeq
    <2>2. n \notin Range(<<>>)
      BY <2>1 DEF Range
    <2>3. QED
      BY <2>1, <2>2 DEF Pointers
  <1>5. ASSUME NEW d, NEW q \in Nodes, Path(next, d, q), <<Tail(d), next[q]>> \in G
        PROVE  <<d, q>> \in G
    <2>1. Range(d) = {q} \union Range(Tail(d))
      BY <1>5, PathOfNode
    <2>2. Claim(d)
      <3>1. CASE n = q
        BY <1>5, <3>1
      <3>2. CASE n # q
        BY <1>5, <2>1, <3>2
      <3>3. QED
        BY <3>1, <3>2
    <2>3. QED
      BY <1>5, <2>2 DEF Path, Pointers
  <1>6. <<c, p>> \in G
    <2> HIDE DEF G
    <2>1. QED
      BY <1>0, <1>1, <1>4, <1>5, PathInduction
  <1>7. PICK e : Path(next, e, n) /\ Range(e) \subseteq Range(c)
    BY <1>2, <1>6
  <1>8. NodesFrom(h, n) = Range(e)
    BY <1>3, <1>7, NodesOfPath DEF Pointers, next
  <1>9. QED
    BY <1>2, <1>3, <1>7, <1>8 DEF Ends, next

(* The first node with key k. *)
LEMMA FirstMatching ==
    ASSUME NEW h \in Heap, NEW p \in Pointers, Ends(h, p), NEW k, MatchingFrom(h, p, k) # <<>>
    PROVE  LET x == Head(MatchingFrom(h, p, k))
           IN  x \in Nodes /\ x \in NodesFrom(h, p) /\ h[x].key = k
  <1>1. PICK c : Path(LinksOf(h), c, p)
    BY DEF Ends
  <1>2. LET x == Head(MatchingFrom(h, p, k)) IN x \in Range(c) /\ x \in KeyNodes(h, k)
    BY <1>1, HeapLinks, ReachedFirst DEF MatchingFrom
  <1>3. QED
    BY <1>1, <1>2, NodesOfPath DEF KeyNodes

(* The node of a path that leads to x is the one before x. *)
LEMMA PathBefore ==
    ASSUME NEW next, NEW c, NEW p, Path(next, c, p),
           NEW i \in 1 .. Len(c), NEW j \in 1 .. Len(c), next[c[i]] = c[j]
    PROVE  j = i + 1
  <1>1. c \in Seq(Nodes) /\ Len(c) \in Nat
    BY LenProperties DEF Path
  <1>2. c[j] # Nil
    BY <1>1, ElementOfSeq, ListAssumption
  <1>3. i + 1 \in 1 .. Len(c) /\ c[i + 1] = c[j]
    BY <1>1, <1>2 DEF Path, NodeAt
  <1>4. QED
    BY <1>3 DEF Path

(* h2 is h without x in the list of p: the pointer to x, which is p itself  *)
(* or the next pointer of the node before x, leads where x's leads.         *)
Unlinked(h, p, x, h2, p2) ==
    \/ p = x /\ h2 = h /\ p2 = h[x].next
    \/ /\ p # x /\ p2 = p
       /\ LET c == Reached(LinksOf(h), Nodes, p)
          IN  \E i \in 1 .. Len(c) - 1 :
                  c[i + 1] = x /\ h2 = [h EXCEPT ![c[i]].next = h[x].next]

(* What that leaves: one node fewer in the list, in memory the same keys    *)
(* and values, and the same nodes outside the list.                         *)
WithoutNode(h, p, x, h2, p2) ==
    /\ Ends(h2, p2) /\ NodesFrom(h2, p2) = NodesFrom(h, p) \ {x}
    /\ \A k : LET m == MatchingFrom(h, p, k)
              IN  MatchingFrom(h2, p2, k) =
                      IF m # <<>> /\ x = Head(m) THEN Tail(m)
                      ELSE Reached(LinksOf(h), KeyNodes(h, k) \ {x}, p)
    /\ \A n \in Nodes : h2[n].key = h[n].key /\ h2[n].val = h[n].val
    /\ \A n \in Nodes \ NodesFrom(h, p) : h2[n] = h[n]
    /\ h2[x] = h[x]

(* The nodes of a list that x has been taken from (list.hpp:94-98). *)
LEMMA ListUnlinked ==
    ASSUME NEW h \in Heap, NEW p \in Pointers, Ends(h, p), NEW x \in NodesFrom(h, p),
           NEW h2 \in Heap, NEW p2 \in Pointers, Unlinked(h, p, x, h2, p2)
    PROVE  WithoutNode(h, p, x, h2, p2)
  <1> DEFINE next == LinksOf(h)
             next2 == LinksOf(h2)
  <1>1. next \in [Nodes -> Pointers] /\ next2 \in [Nodes -> Pointers]
    BY HeapLinks
  <1>2. PICK c : Path(next, c, p)
    BY DEF Ends
  <1>3. NodesFrom(h, p) = Range(c) /\ Reached(next, Nodes, p) = c
    BY <1>1, <1>2, NodesOfPath, ReachedIsPath
  <1>4. c \in Seq(Nodes) /\ Len(c) \in Nat /\ Range(c) = {c[i] : i \in 1 .. Len(c)}
    <2>1. c \in Seq(Nodes)
      BY <1>2 DEF Path
    <2>2. Len(c) \in Nat /\ DOMAIN c = 1 .. Len(c)
      BY <2>1, LenProperties
    <2>3. QED
      BY <2>1, <2>2 DEF Range
  <1>5. x \in Nodes
    BY <1>2, <1>3, PathCloses
  <1>6. /\ p2 = Skip(next, x, p)
        /\ \A n \in Range(c) \ {x} : next2[n] = Around(next, x)[n]
        /\ \A n \in Nodes : h2[n].key = h[n].key /\ h2[n].val = h[n].val
        /\ \A n \in Nodes \ Range(c) : h2[n] = h[n]
        /\ h2[x] = h[x]
    <2>1. CASE p = x /\ h2 = h /\ p2 = h[x].next
      <3>1. p2 = Skip(next, x, p)
        BY <1>5, <2>1 DEF Skip, LinksOf
      <3>2. ASSUME NEW n \in Range(c) \ {x} PROVE next2[n] = Around(next, x)[n]
        <4>1. PICK i \in 1 .. Len(c) : n = c[i]
          BY <1>4
        <4>2. c[1] = x /\ 1 \in 1 .. Len(c)
          BY <1>2, <1>4, <1>5, <2>1, ListAssumption DEF Path, NodeAt
        <4>3. next[n] # x
          <5>1. SUFFICES ASSUME next[n] = x PROVE FALSE
            OBVIOUS
          <5>2. 1 = i + 1
            <6> HIDE DEF next
            <6>1. QED
              BY <1>2, <4>1, <4>2, <5>1, PathBefore
          <5>3. QED
            BY <5>2
        <4>4. n \in Nodes
          BY <1>2, PathCloses
        <4>5. QED
          BY <2>1, <4>3, <4>4 DEF Around, Skip
      <3>3. QED
        BY <2>1, <3>1, <3>2
    <2>2. CASE p # x /\ p2 = p
      <3>1. PICK i \in 1 .. Len(c) - 1 :
                c[i + 1] = x /\ h2 = [h EXCEPT ![c[i]].next = h[x].next]
        BY <1>3, <2>2 DEF Unlinked
      <3>2. i \in 1 .. Len(c) /\ i + 1 \in 1 .. Len(c) /\ c[i] \in Nodes /\ c[i] \in Range(c)
        BY <1>4, ElementOfSeq
      <3>3. c[i] # x
        <4>1. c[i] = x => i = i + 1
          BY <1>2, <3>1, <3>2 DEF Path
        <4>2. QED
          BY <4>1
      <3>4. /\ \A n \in Nodes \ {c[i]} : h2[n] = h[n]
            /\ h2[c[i]] = [h[c[i]] EXCEPT !.next = h[x].next]
        BY <3>1, <3>2 DEF Heap
      <3>5. \A n \in Nodes : h2[n].key = h[n].key /\ h2[n].val = h[n].val
        BY <3>2, <3>4 DEF Heap
      <3>6. ASSUME NEW n \in Range(c) \ {x} PROVE next2[n] = Around(next, x)[n]
        <4>1. PICK j \in 1 .. Len(c) : n = c[j]
          BY <1>4
        <4>2. n \in Nodes
          BY <1>2, PathCloses
        <4>3. Around(next, x)[n] = Skip(next, x, h[n].next)
          BY <4>2 DEF Around, LinksOf
        <4>4. CASE n = c[i]
          <5>1. next[n] = NodeAt(c, i + 1)
            <6> HIDE DEF next
            <6>1. QED
              BY <1>2, <3>2, <4>4 DEF Path
          <5>2. h[n].next = x
            BY <3>1, <3>2, <4>2, <5>1 DEF NodeAt, LinksOf
          <5>3. next2[n] = h[x].next
            BY <3>4, <4>2, <4>4 DEF LinksOf, Heap
          <5>4. QED
            BY <1>5, <4>3, <5>2, <5>3 DEF Skip, LinksOf
        <4>5. CASE n # c[i]
          <5>1. next[n] # x
            <6>1. SUFFICES ASSUME next[n] = x PROVE FALSE
              OBVIOUS
            <6>2. i + 1 = j + 1
              <7> HIDE DEF next
              <7>1. QED
                BY <1>2, <3>1, <3>2, <4>1, <6>1, PathBefore
            <6>3. QED
              BY <4>1, <4>5, <6>2
          <5>2. next2[n] = next[n]
            BY <3>4, <4>2, <4>5 DEF LinksOf
          <5>3. QED
            BY <4>2, <5>1, <5>2 DEF Around, Skip
        <4>6. QED
          BY <4>4, <4>5
      <3>7. QED
        BY <1>5, <2>2, <3>2, <3>3, <3>4, <3>5, <3>6 DEF Skip
    <2>3. QED
      BY <2>1, <2>2 DEF Unlinked
  <1>7. /\ \A S : Reached(Around(next, x), S, p2) = Reached(next, S \ {x}, p)
        /\ \E d : Path(Around(next, x), d, p2) /\ Range(d) = Range(c) \ {x}
    <2>1. x \in Range(c)
      BY <1>3
    <2> HIDE DEF next, next2
    <2>2. \A S : LeadsAround(next, S, c, p, x)
      BY <1>1, <1>2, <2>1, AroundNode
    <2>3. QED
      BY <1>6, <2>2 DEF LeadsAround
  <1> HIDE DEF next, next2
  <1>8. PICK d : Path(Around(next, x), d, p2) /\ Range(d) = Range(c) \ {x}
    BY <1>7
  <1>9. Around(next, x) \in [Nodes -> Pointers]
    BY <1>1, <1>5 DEF Around, Skip
  <1>10. /\ Path(next2, d, p2)
         /\ \A S : Reached(next2, S, p2) = Reached(Around(next, x), S, p2)
    BY <1>1, <1>6, <1>8, <1>9, ReachedAgrees
  <1>11. Ends(h2, p2) /\ NodesFrom(h2, p2) = NodesFrom(h, p) \ {x}
    BY <1>3, <1>8, <1>10, NodesOfPath DEF Ends, next2
  <1>12. ASSUME NEW k
         PROVE  MatchingFrom(h2, p2, k) = Reached(next, KeyNodes(h, k) \ {x}, p)
    <2>1. KeyNodes(h2, k) = KeyNodes(h, k)
      BY <1>6 DEF KeyNodes
    <2>2. QED
      BY <1>7, <1>10, <2>1 DEF MatchingFrom, next2
  <1>13. ASSUME NEW k, MatchingFrom(h, p, k) # <<>>, x = Head(MatchingFrom(h, p, k))
         PROVE  Reached(next, KeyNodes(h, k) \ {x}, p) = Tail(MatchingFrom(h, p, k))
    BY <1>1, <1>2, <1>13, ReachedFirst DEF MatchingFrom, next
  <1>14. QED
    BY <1>3, <1>6, <1>11, <1>12, <1>13 DEF next, WithoutNode

-----------------------------------------------------------------------------
(* The types of the heap after each load and store.                        *)

(* The heap starts with no nodes (list.hpp:32-35). *)
LEMMA ListInitType == ListInit => ListTypeOK
  BY DEF ListInit, ListTypeOK, Pointers

(* Allocating a node fills its block in (list.hpp:46-49, 72-77). *)
LEMMA NewNodeType ==
    ASSUME ListTypeOK, NEW n, NEW k \in Keys, NEW v \in Vals, NEW p \in Pointers,
           NewNode(n, k, v, p)
    PROVE  ListTypeOK'
  BY DEF ListTypeOK, NewNode, Pointers

(* Publishing one changes the sentinel only (list.hpp:78). *)
LEMMA PublishType ==
    ASSUME ListTypeOK, NEW n \in Pointers, NEW b, Publish(n, b)
    PROVE  ListTypeOK'
  BY DEF ListTypeOK, Publish, Pointers

(* A node that is unlinked leaves another one, or none, in its place        *)
(* (list.hpp:98).                                                           *)
LEMMA UnlinkType ==
    ASSUME ListTypeOK, NEW n \in Nodes, NEW b, Unlink(n, b)
    PROVE  ListTypeOK'
  <1>1. Bypassed(n) \in Pointers
    BY DEF ListTypeOK, Bypassed
  <1>2. CASE head[b] = n
    BY <1>1, <1>2 DEF ListTypeOK, Unlink
  <1>3. CASE head[b] # n
    <2>1. PICK m : cell' = [cell EXCEPT ![m].next = Bypassed(n)]
      BY <1>3 DEF Unlink
    <2>2. UNCHANGED <<head, live>>
      BY <1>3 DEF Unlink
    <2>3. cell' \in [Nodes -> [key : Keys \union {Junk}, val : Vals \union {Junk}, next : Pointers]]
      BY <1>1, <2>1 DEF ListTypeOK
    <2>4. QED
      BY <2>2, <2>3 DEF ListTypeOK, Pointers
  <1>4. QED
    BY <1>2, <1>3

(* A freed block keeps its next pointer (list.hpp:99). *)
LEMMA FreeType ==
    ASSUME ListTypeOK, NEW n, Free(n)
    PROVE  ListTypeOK'
  <1>1. cell' \in [Nodes -> [key : Keys \union {Junk}, val : Vals \union {Junk}, next : Pointers]]
    BY DEF ListTypeOK, Free
  <1>2. QED
    BY <1>1 DEF ListTypeOK, Free, Pointers

-----------------------------------------------------------------------------
(***************************************************************************)
(* The lists of a table's buckets.                                         *)
(***************************************************************************)
StackFrom(h, p, k) == ValsOf(h, MatchingFrom(h, p, k))

(* The operators of ChainedLists, on the heap as it is. *)
LEMMA HeapOperators ==
    /\ Links = LinksOf(cell)
    /\ \A p : Chain(p) = Reached(LinksOf(cell), Nodes, p)
    /\ \A p, k : Matching(p, k) = MatchingFrom(cell, p, k) /\ Answer(p, k) = AnswerFrom(cell, p, k)
    /\ \A b : ListNodes(b) = NodesFrom(cell, head[b])
    /\ \A k : Stack(k) = StackFrom(cell, head[HashOf[k]], k)
  BY DEF Links, LinksOf, Chain, Matching, MatchingFrom, KeyNodes, Answer, AnswerFrom,
         ListNodes, NodesFrom, Stack, StackFrom, ValsOf

(* Bucket b's list ends; its nodes are allocated, filled in, and hashed to b. *)
ListInv(b) ==
    /\ Ends(cell, head[b])
    /\ \A n \in ListNodes(b) :
           /\ n \in live
           /\ cell[n].key \in Keys /\ cell[n].val \in Vals
           /\ HashOf[cell[n].key] = b

(* All lists are so: what list.hpp takes for granted. *)
ListsInv == ListTypeOK /\ \A b \in Buckets : ListInv(b)

(* A node is in one list at most. *)
LEMMA ListsAreDisjoint ==
    ASSUME ListsInv, NEW b \in Buckets, NEW c \in Buckets, b # c
    PROVE  ListNodes(b) \cap ListNodes(c) = {}
  BY DEF ListsInv, ListInv

(* The values of one node more. *)
LEMMA ValsOfNode ==
    ASSUME NEW h, NEW n \in Nodes, NEW m \in Seq(Nodes)
    PROVE  ValsOf(h, <<n>> \o m) = <<h[n].val>> \o ValsOf(h, m)
  <1> DEFINE s == <<n>> \o m
  <1>1. /\ s \in Seq(Nodes) /\ Len(s) = 1 + Len(m) /\ Len(m) \in Nat
        /\ \A i \in 1 .. Len(s) : s[i] = IF i <= 1 THEN n ELSE m[i - 1]
    OBVIOUS
  <1>2. DOMAIN s = 1 .. 1 + Len(m) /\ DOMAIN m = 1 .. Len(m)
    BY <1>1
  <1>3. ValsOf(h, m) = [i \in 1 .. Len(m) |-> h[m[i]].val]
    BY <1>2 DEF ValsOf
  <1>4. ValsOf(h, s) = [i \in 1 .. 1 + Len(m) |-> h[s[i]].val]
    BY <1>2 DEF ValsOf
  <1>5. <<h[n].val>> \o ValsOf(h, m) =
            [i \in 1 .. 1 + Len(m) |-> IF i <= 1 THEN h[n].val ELSE h[m[i - 1]].val]
    <2> DEFINE r == ValsOf(h, m)
    <2>1. r \in Seq({h[j].val : j \in Nodes}) /\ Len(r) = Len(m)
      BY <1>1, <1>3
    <2>2. r = [i \in 1 .. Len(m) |-> h[m[i]].val]
      BY <1>3
    <2> HIDE DEF r
    <2> DEFINE u == <<h[n].val>> \o r
    <2>3. /\ u \in Seq({h[j].val : j \in Nodes}) /\ Len(u) = 1 + Len(r)
          /\ \A i \in 1 .. Len(u) : u[i] = IF i <= 1 THEN h[n].val ELSE r[i - 1]
      <3>1. <<h[n].val>> \in Seq({h[j].val : j \in Nodes})
        OBVIOUS
      <3>2. QED
        BY <2>1, <3>1, ConcatProperties
    <2>4. DOMAIN u = 1 .. 1 + Len(m) /\ u = [i \in 1 .. Len(u) |-> u[i]]
      BY <2>1, <2>3
    <2>5. u = [i \in 1 .. 1 + Len(m) |-> u[i]]
      BY <1>1, <2>1, <2>3, <2>4
    <2>6. \A i \in 1 .. 1 + Len(m) : u[i] = IF i <= 1 THEN h[n].val ELSE h[m[i - 1]].val
      BY <1>1, <2>1, <2>2, <2>3
    <2> HIDE DEF u
    <2>7. u = [i \in 1 .. 1 + Len(m) |-> IF i <= 1 THEN h[n].val ELSE h[m[i - 1]].val]
      BY <2>5, <2>6
    <2>8. QED
      BY <2>7 DEF u, r
  <1> HIDE DEF s
  <1>6. \A i \in 1 .. 1 + Len(m) : h[s[i]].val = IF i <= 1 THEN h[n].val ELSE h[m[i - 1]].val
    BY <1>1
  <1>7. ValsOf(h, s) = <<h[n].val>> \o ValsOf(h, m)
    BY <1>4, <1>5, <1>6
  <1>8. QED
    BY <1>7 DEF s

(* The values of one node fewer. *)
LEMMA ValsOfRest ==
    ASSUME NEW h, NEW m \in Seq(Nodes), m # <<>>
    PROVE  /\ ValsOf(h, Tail(m)) = Tail(ValsOf(h, m))
           /\ Head(ValsOf(h, m)) = h[Head(m)].val
           /\ ValsOf(h, m) # <<>>
  <1>1. /\ Len(m) \in Nat \ {0} /\ DOMAIN m = 1 .. Len(m)
        /\ Tail(m) \in Seq(Nodes) /\ Len(Tail(m)) = Len(m) - 1
        /\ DOMAIN Tail(m) = 1 .. Len(m) - 1
        /\ \A i \in 1 .. Len(m) - 1 : Tail(m)[i] = m[i + 1]
    OBVIOUS
  <1> DEFINE r == ValsOf(h, m)
  <1>2. r = [i \in 1 .. Len(m) |-> h[m[i]].val]
    BY <1>1 DEF ValsOf
  <1>3. r \in Seq({h[j].val : j \in Nodes}) /\ Len(r) = Len(m)
    BY <1>1, <1>2
  <1>4. ValsOf(h, Tail(m)) = [i \in 1 .. Len(m) - 1 |-> h[m[i + 1]].val]
    BY <1>1 DEF ValsOf
  <1> HIDE DEF r
  <1>5. Tail(r) = [i \in 1 .. Len(m) - 1 |-> r[i + 1]]
    <2> DEFINE V == {h[j].val : j \in Nodes}
               q == Tail(r)
    <2>1. r \in Seq(V) /\ r # <<>>
      BY <1>1, <1>3
    <2>2. /\ q \in Seq(V) /\ Len(q) = Len(m) - 1
          /\ \A i \in 1 .. Len(q) : q[i] = r[i + 1]
      BY <1>3, <2>1, HeadTailProperties
    <2> HIDE DEF q, V
    <2>3. q = [i \in 1 .. Len(q) |-> q[i]]
      BY <2>2, LenProperties
    <2>4. q = [i \in 1 .. Len(q) |-> r[i + 1]]
      BY <2>2, <2>3
    <2>5. QED
      BY <2>2, <2>4 DEF q
  <1>6. Tail(r) = ValsOf(h, Tail(m))
    BY <1>1, <1>2, <1>4, <1>5
  <1>7. r # <<>> /\ Head(r) = h[Head(m)].val
    BY <1>1, <1>2, <1>3
  <1>8. QED
    BY <1>6, <1>7 DEF r

(* The answer for a key is the first of its values. *)
LEMMA AnswerOfStack ==
    ASSUME NEW h \in Heap, NEW p \in Pointers, NEW k
    PROVE  /\ AnswerFrom(h, p, k) = IF StackFrom(h, p, k) = <<>> THEN NotFound
                                    ELSE Head(StackFrom(h, p, k))
           /\ StackFrom(h, p, k) = <<>> <=> MatchingFrom(h, p, k) = <<>>
  <1>1. MatchingFrom(h, p, k) \in Seq(Nodes)
    BY MatchingType
  <1>2. CASE MatchingFrom(h, p, k) = <<>>
    BY <1>2 DEF AnswerFrom, StackFrom, ValsOf
  <1>3. CASE MatchingFrom(h, p, k) # <<>>
    BY <1>1, <1>3, ValsOfRest DEF AnswerFrom, StackFrom
  <1>4. QED
    BY <1>2, <1>3

(* The same after a step. *)
LEMMA HeapOperatorsNext ==
    /\ \A p : Chain(p)' = Reached(LinksOf(cell'), Nodes, p)
    /\ \A p, k : /\ Matching(p, k)' = MatchingFrom(cell', p, k)
                 /\ Answer(p, k)' = AnswerFrom(cell', p, k)
    /\ \A b : ListNodes(b)' = NodesFrom(cell', head'[b])
    /\ \A k : Stack(k)' = StackFrom(cell', head'[HashOf[k]], k)
  BY DEF Links, LinksOf, Chain, Matching, MatchingFrom, KeyNodes, Answer, AnswerFrom,
         ListNodes, NodesFrom, Stack, StackFrom, ValsOf

(* A node is in the list it begins. *)
LEMMA NodeInOwnList ==
    ASSUME NEW h \in Heap, NEW n \in Nodes, Ends(h, n)
    PROVE  n \in NodesFrom(h, n)
  <1>1. NodesFrom(h, n) = {n} \union NodesFrom(h, h[n].next)
    BY ListFromNode
  <1>2. QED
    BY <1>1

(* The nodes of a list are nodes. *)
LEMMA ListNodesType ==
    ASSUME ListsInv, NEW b \in Buckets
    PROVE  /\ ListNodes(b) \subseteq Nodes
           /\ head[b] \in ListNodes(b) \union {Nil}
           /\ \A n \in ListNodes(b) : Ends(cell, n) /\ cell[n].next \in ListNodes(b) \union {Nil}
  <1>1. cell \in Heap /\ head[b] \in Pointers /\ Ends(cell, head[b])
    BY DEF ListsInv, ListInv, ListTypeOK, Heap
  <1>2. ListNodes(b) = NodesFrom(cell, head[b])
    BY HeapOperators
  <1>3. \A n \in NodesFrom(cell, head[b]) :
            /\ n \in Nodes /\ Ends(cell, n)
            /\ cell[n].next \in NodesFrom(cell, head[b]) \union {Nil}
    BY <1>1, ListFromInside
  <1>4. head[b] \in NodesFrom(cell, head[b]) \union {Nil}
    <2>1. \A n \in Nodes : Ends(cell, n) => n \in NodesFrom(cell, n)
      BY <1>1, NodeInOwnList
    <2>2. QED
      BY <1>1, <2>1 DEF Pointers
  <1>5. QED
    BY <1>2, <1>3, <1>4

(* Only nodes of the path, that are in the set, are reached. *)
LEMMA ReachedInPath ==
    ASSUME NEW next \in [Nodes -> Pointers], NEW S, NEW c, NEW p \in Pointers, Path(next, c, p)
    PROVE  \A i \in DOMAIN Reached(next, S, p) :
               Reached(next, S, p)[i] \in Range(c) \cap S
  <1> DEFINE Inside(r, d) == \A i \in DOMAIN r : r[i] \in Range(d) \cap S
             G == {x \in Seq(Nodes) \X Pointers : Inside(Reached(next, S, x[2]), x[1])}
  <1>1. <<<<>>, Nil>> \in G
    <2>1. Inside(<<>>, <<>>)
      OBVIOUS
    <2>2. QED
      BY <2>1, EmptySeq, ReachedFromNil DEF Pointers
  <1>2. ASSUME NEW d, NEW q \in Nodes, Path(next, d, q), <<Tail(d), next[q]>> \in G
        PROVE  <<d, q>> \in G
    <2> DEFINE r == Reached(next, S, next[q])
               s == Reached(next, S, q)
    <2>1. Range(d) = {q} \union Range(Tail(d))
      BY <1>2, PathOfNode
    <2>2. Inside(r, Tail(d)) /\ next[q] \in Pointers
      BY <1>2
    <2>3. r \in Seq(Nodes) /\ s = Hit(q, S) \o r
      BY <1>2, <2>2, ReachedType, ReachedFromNode
    <2> HIDE DEF r, s
    <2>4. CASE q \in S
      <3>1. s = <<q>> \o r
        BY <2>3, <2>4 DEF Hit
      <3>2. /\ DOMAIN s = 1 .. 1 + Len(r) /\ DOMAIN r = 1 .. Len(r) /\ Len(r) \in Nat
            /\ \A i \in 1 .. 1 + Len(r) : s[i] = IF i <= 1 THEN q ELSE r[i - 1]
        BY <2>3, <3>1
      <3>3. ASSUME NEW i \in DOMAIN s PROVE s[i] \in Range(d) \cap S
        <4>1. CASE i <= 1
          BY <2>1, <2>4, <3>2, <3>3, <4>1
        <4>2. CASE i > 1
          BY <2>1, <2>2, <3>2, <3>3, <4>2
        <4>3. QED
          BY <3>2, <4>1, <4>2
      <3>4. QED
        BY <1>2, <3>3 DEF Path, Pointers, s
    <2>5. CASE q \notin S
      <3>1. s = r
        BY <2>3, <2>5 DEF Hit
      <3>2. Inside(s, d)
        BY <2>1, <2>2, <3>1
      <3>3. QED
        BY <1>2, <3>2 DEF Path, Pointers, s
    <2>6. QED
      BY <2>4, <2>5
  <1>3. <<c, p>> \in G
    <2> HIDE DEF G
    <2>1. QED
      BY <1>1, <1>2, PathInduction
  <1>4. QED
    BY <1>3

(* The nodes with key k are nodes of the list that have key k. *)
LEMMA MatchingInList ==
    ASSUME NEW h \in Heap, NEW p \in Pointers, Ends(h, p), NEW k
    PROVE  \A i \in DOMAIN MatchingFrom(h, p, k) :
               /\ MatchingFrom(h, p, k)[i] \in NodesFrom(h, p)
               /\ h[MatchingFrom(h, p, k)[i]].key = k
  <1>1. PICK c : Path(LinksOf(h), c, p)
    BY DEF Ends
  <1>2. NodesFrom(h, p) = Range(c)
    BY <1>1, NodesOfPath
  <1>3. \A i \in DOMAIN MatchingFrom(h, p, k) :
            MatchingFrom(h, p, k)[i] \in Range(c) \cap KeyNodes(h, k)
    BY <1>1, HeapLinks, ReachedInPath DEF MatchingFrom
  <1>4. QED
    BY <1>2, <1>3 DEF KeyNodes


(* Bucket b's list, with its stacks and the answers from its nodes, is after *)
(* a step what it was.                                                      *)
SameList(b) ==
    /\ head'[b] = head[b] /\ ListNodes(b)' = ListNodes(b)
    /\ \A k \in Keys : HashOf[k] = b => Stack(k)' = Stack(k)
    /\ \A p \in ListNodes(b) \union {Nil} : \A k : Answer(p, k)' = Answer(p, k)

(* All lists are so. *)
SameLists == \A b \in Buckets : SameList(b)

(* The values of the same nodes. *)
LEMMA ValsOfSame ==
    ASSUME NEW h, NEW h2, NEW m, \A i \in DOMAIN m : h2[m[i]].val = h[m[i]].val
    PROVE  ValsOf(h2, m) = ValsOf(h, m)
  BY DEF ValsOf

(* A list stays the same as long as its nodes do. *)
LEMMA ListStays ==
    ASSUME ListsInv, ListTypeOK', NEW b \in Buckets, head'[b] = head[b],
           \A n \in ListNodes(b) : cell'[n] = cell[n] /\ n \in live'
    PROVE  ListInv(b)' /\ SameList(b)
  <1> DEFINE h == cell
             h2 == cell'
             p == head[b]
  <1>1. h \in Heap /\ h2 \in Heap /\ p \in Pointers
    BY DEF ListsInv, ListTypeOK, Heap
  <1>2. Ends(h, p) /\ \A n \in NodesFrom(h, p) : h2[n] = h[n]
    BY HeapOperators DEF ListsInv, ListInv
  <1>3. p = head'[b]
    OBVIOUS
  <1> HIDE DEF h, h2, p
  <1>4. /\ Ends(h2, p) /\ NodesFrom(h2, p) = NodesFrom(h, p)
        /\ \A k : MatchingFrom(h2, p, k) = MatchingFrom(h, p, k)
    BY <1>1, <1>2, ListKept
  <1>5. ListNodes(b)' = ListNodes(b)
    BY <1>3, <1>4, HeapOperators, HeapOperatorsNext DEF h, h2, p
  <1>6. ListInv(b)'
    <2>1. Ends(h2, p) /\ ListInv(b)
      BY <1>4 DEF ListsInv
    <2>2. QED
      BY <1>3, <1>5, <2>1 DEF ListInv, h2
  <1>7. ASSUME NEW k \in Keys, HashOf[k] = b PROVE Stack(k)' = Stack(k)
    <2> DEFINE m == MatchingFrom(h, p, k)
    <2>1. \A i \in DOMAIN m : m[i] \in NodesFrom(h, p)
      BY <1>1, <1>2, MatchingInList
    <2>2. MatchingFrom(h2, p, k) = m
      BY <1>4
    <2>3. \A i \in DOMAIN m : h2[m[i]].val = h[m[i]].val
      BY <1>2, <2>1
    <2> HIDE DEF m
    <2>4. ValsOf(h2, m) = ValsOf(h, m)
      BY <2>3, ValsOfSame
    <2>5. QED
      BY <1>3, <1>7, <2>2, <2>4, HeapOperators, HeapOperatorsNext DEF StackFrom, h, h2, p, m
  <1>8. ASSUME NEW q \in ListNodes(b) \union {Nil}, NEW k
        PROVE  Answer(q, k)' = Answer(q, k)
    <2>1. AnswerFrom(h2, q, k) = AnswerFrom(h, q, k)
      <3>1. CASE q = Nil
        BY <1>1, <3>1, EmptyList
      <3>2. CASE q \in ListNodes(b)
        <4>1. q \in NodesFrom(h, p)
          BY <3>2, HeapOperators DEF h, p
        <4>2. q \in Pointers /\ Ends(h, q) /\ NodesFrom(h, q) \subseteq NodesFrom(h, p)
          BY <1>1, <1>2, <4>1, ListFromInside DEF Pointers
        <4>3. QED
          BY <1>1, <1>2, <4>2, ListKept
      <3>3. QED
        BY <3>1, <3>2
    <2>2. QED
      BY <2>1, HeapOperators, HeapOperatorsNext DEF h, h2
  <1>9. QED
    BY <1>5, <1>6, <1>7, <1>8 DEF SameList

(* So do all of them, if all their nodes do. *)
LEMMA ListsStay ==
    ASSUME ListsInv, ListTypeOK', head' = head,
           \A b \in Buckets : \A n \in ListNodes(b) : cell'[n] = cell[n] /\ n \in live'
    PROVE  ListsInv' /\ SameLists
  <1>1. \A b \in Buckets : ListInv(b)' /\ SameList(b)
    BY ListStays
  <1>2. QED
    BY <1>1 DEF ListsInv, SameLists

(* No list has a node at first. *)
LEMMA ListsInit ==
    ASSUME ListInit
    PROVE  ListsInv /\ (\A b \in Buckets : ListNodes(b) = {}) /\ (\A k \in Keys : Stack(k) = <<>>)
  <1>1. ListTypeOK
    BY ListInitType
  <1>2. cell \in Heap /\ \A b \in Buckets : head[b] = Nil
    BY <1>1 DEF ListInit, ListTypeOK, Heap
  <1>3. /\ Ends(cell, Nil) /\ NodesFrom(cell, Nil) = {}
        /\ \A k : MatchingFrom(cell, Nil, k) = <<>>
    BY <1>2, EmptyList
  <1>4. \A b \in Buckets : ListNodes(b) = {}
    BY <1>2, <1>3, HeapOperators
  <1>5. \A b \in Buckets : ListInv(b)
    BY <1>2, <1>3, <1>4 DEF ListInv
  <1>6. ASSUME NEW k \in Keys PROVE Stack(k) = <<>>
    <2>1. MatchingFrom(cell, head[HashOf[k]], k) = <<>>
      BY <1>2, <1>3, ListAssumption
    <2>2. StackFrom(cell, head[HashOf[k]], k) = <<>>
      BY <2>1 DEF StackFrom, ValsOf
    <2>3. QED
      BY <2>2, HeapOperators
  <1>7. QED
    BY <1>1, <1>4, <1>5, <1>6 DEF ListsInv

(* A node in no list is allocated (list.hpp:46-49, 72-77). *)
LEMMA ListsAllocate ==
    ASSUME ListsInv, NEW n, NEW k \in Keys, NEW v \in Vals, NEW p \in Pointers,
           NewNode(n, k, v, p)
    PROVE  /\ ListsInv' /\ SameLists
           /\ \A b \in Buckets : n \notin ListNodes(b)
           /\ \A m \in Nodes \ {n} : cell'[m] = cell[m]
           /\ cell'[n] = [key |-> k, val |-> v, next |-> p]
  <1>1. ListTypeOK /\ ListTypeOK' /\ head' = head
    BY NewNodeType DEF ListsInv, NewNode
  <1>2. n \in Nodes \ live /\ live' = live \union {n}
    BY DEF NewNode
  <1>3. /\ \A m \in Nodes \ {n} : cell'[m] = cell[m]
        /\ cell'[n] = [key |-> k, val |-> v, next |-> p]
    BY <1>1, <1>2 DEF NewNode, ListTypeOK
  <1>4. \A b \in Buckets : ListNodes(b) \subseteq live /\ ListNodes(b) \subseteq Nodes
    BY ListNodesType DEF ListsInv, ListInv
  <1>5. \A b \in Buckets : \A m \in ListNodes(b) : m # n /\ cell'[m] = cell[m] /\ m \in live'
    BY <1>2, <1>3, <1>4
  <1>6. QED
    BY <1>1, <1>3, <1>5, ListsStay

(* A node in no list is deleted (list.hpp:99). *)
LEMMA ListsFree ==
    ASSUME ListsInv, NEW n \in Nodes, \A b \in Buckets : n \notin ListNodes(b), Free(n)
    PROVE  /\ ListsInv' /\ SameLists
           /\ \A m \in Nodes \ {n} : cell'[m] = cell[m]
  <1>1. ListTypeOK /\ ListTypeOK' /\ head' = head
    BY FreeType DEF ListsInv, Free
  <1>2. \A m \in Nodes \ {n} : cell'[m] = cell[m]
    BY <1>1 DEF Free, ListTypeOK
  <1>3. \A b \in Buckets : ListNodes(b) \subseteq live /\ ListNodes(b) \subseteq Nodes
    BY ListNodesType DEF ListsInv, ListInv
  <1>4. \A b \in Buckets : \A m \in ListNodes(b) : cell'[m] = cell[m] /\ m \in live'
    BY <1>2, <1>3 DEF Free
  <1>5. QED
    BY <1>1, <1>2, <1>4, ListsStay

(* A step that does not touch the lists. *)
LEMMA ListsUntouched ==
    ASSUME ListsInv, UNCHANGED listVars
    PROVE  ListsInv' /\ SameLists
  <1>1. ListTypeOK' /\ head' = head /\ cell' = cell /\ live' = live
    BY DEF ListsInv, ListTypeOK, listVars, Pointers
  <1>2. \A b \in Buckets : \A n \in ListNodes(b) : cell'[n] = cell[n] /\ n \in live'
    BY <1>1 DEF ListsInv, ListInv
  <1>3. QED
    BY <1>1, <1>2, ListsStay

(* A node that is filled in goes in front of its list (list.hpp:78). *)
LEMMA ListsPublish ==
    ASSUME ListsInv, NEW b \in Buckets, NEW n \in Nodes, n \in live,
           \A c \in Buckets : n \notin ListNodes(c),
           cell[n].key \in Keys, cell[n].val \in Vals, HashOf[cell[n].key] = b,
           cell[n].next = head[b], Publish(n, b)
    PROVE  /\ ListsInv' /\ cell' = cell /\ live' = live
           /\ head'[b] = n /\ ListNodes(b)' = {n} \union ListNodes(b)
           /\ \A c \in Buckets \ {b} : SameList(c)
           /\ \A k \in Keys : Stack(k)' = IF k = cell[n].key THEN <<cell[n].val>> \o Stack(k)
                                         ELSE Stack(k)
           /\ \A p, k : Answer(p, k)' = Answer(p, k)
  <1> DEFINE h == cell
             p == head[b]
  <1>1. ListTypeOK /\ ListTypeOK' /\ cell' = cell /\ live' = live
    BY PublishType DEF ListsInv, Publish, Pointers
  <1>2. head'[b] = n /\ \A c \in Buckets \ {b} : head'[c] = head[c]
    BY <1>1 DEF Publish, ListTypeOK
  <1>3. h \in Heap /\ p \in Pointers /\ h[n].next = p /\ Ends(h, p) /\ n \notin NodesFrom(h, p)
    BY <1>1, HeapOperators DEF ListTypeOK, Heap, ListsInv, ListInv
  <1>4. \A c \in Buckets \ {b} : ListInv(c)' /\ SameList(c)
    <2>1. \A c \in Buckets : \A m \in ListNodes(c) : cell'[m] = cell[m] /\ m \in live'
      BY <1>1 DEF ListsInv, ListInv
    <2>2. QED
      BY <1>1, <1>2, <2>1, ListStays
  <1> HIDE DEF h, p
  <1>5. Ends(h, n)
    BY <1>3, NodeBeforeList
  <1>6. /\ NodesFrom(h, n) = {n} \union NodesFrom(h, p)
        /\ \A k : /\ h[n].key = k => MatchingFrom(h, n, k) = <<n>> \o MatchingFrom(h, p, k)
                  /\ h[n].key # k => MatchingFrom(h, n, k) = MatchingFrom(h, p, k)
    <2>1. /\ NodesFrom(h, n) = {n} \union NodesFrom(h, h[n].next)
          /\ \A k : FirstNode(h, n, k)
      BY <1>3, <1>5, ListFromNode
    <2>2. QED
      BY <1>3, <2>1 DEF FirstNode
  <1>7. ListNodes(b)' = {n} \union ListNodes(b)
    BY <1>1, <1>2, <1>6, HeapOperators, HeapOperatorsNext DEF h, p
  <1>8. ListInv(b)'
    <2>1. Ends(cell, n) /\ ListInv(b)
      BY <1>5 DEF h, ListsInv
    <2>2. QED
      BY <1>1, <1>2, <1>7, <2>1 DEF ListInv
  <1>9. ASSUME NEW k \in Keys
        PROVE  Stack(k)' = IF k = cell[n].key THEN <<cell[n].val>> \o Stack(k) ELSE Stack(k)
    <2>1. CASE HashOf[k] # b
      <3>1. HashOf[k] \in Buckets \ {b}
        BY <2>1, ListAssumption
      <3>2. QED
        BY <1>4, <2>1, <3>1 DEF SameList
    <2>2. CASE HashOf[k] = b
      <3>1. /\ Stack(k)' = ValsOf(h, MatchingFrom(h, n, k))
            /\ Stack(k) = ValsOf(h, MatchingFrom(h, p, k))
        BY <1>1, <1>2, <2>2, HeapOperators, HeapOperatorsNext DEF h, p, StackFrom
      <3>2. MatchingFrom(h, p, k) \in Seq(Nodes)
        BY <1>3, MatchingType
      <3>3. ValsOf(h, <<n>> \o MatchingFrom(h, p, k)) =
                <<h[n].val>> \o ValsOf(h, MatchingFrom(h, p, k))
        BY <3>2, ValsOfNode
      <3>4. CASE k = cell[n].key
        BY <1>6, <3>1, <3>3, <3>4 DEF h
      <3>5. CASE k # cell[n].key
        BY <1>6, <3>1, <3>5 DEF h
      <3>6. QED
        BY <3>4, <3>5
    <2>3. QED
      BY <2>1, <2>2
  <1>10. \A q, k : Answer(q, k)' = Answer(q, k)
    BY <1>1, HeapOperators, HeapOperatorsNext
  <1>11. ListsInv'
    BY <1>1, <1>4, <1>8 DEF ListsInv
  <1>12. QED
    BY <1>1, <1>2, <1>4, <1>7, <1>9, <1>10, <1>11

(* The step of Unlink, on the heap. *)
LEMMA UnlinkOnHeap ==
    ASSUME ListTypeOK, NEW b \in Buckets, NEW n \in Nodes, Unlink(n, b)
    PROVE  /\ Unlinked(cell, head[b], n, cell', head'[b]) /\ live' = live
           /\ \A c \in Buckets \ {b} : head'[c] = head[c]
  <1>1. CASE head[b] = n
    BY <1>1 DEF Unlink, Unlinked, Bypassed, ListTypeOK
  <1>2. CASE head[b] # n
    <2>1. \E i \in 1 .. Len(Chain(head[b])) - 1 :
              /\ Chain(head[b])[i + 1] = n
              /\ cell' = [cell EXCEPT ![Chain(head[b])[i]].next = cell[n].next]
      BY <1>2 DEF Unlink, Bypassed
    <2>2. Chain(head[b]) = Reached(LinksOf(cell), Nodes, head[b])
      BY HeapOperators
    <2>3. head' = head /\ live' = live
      BY <1>2 DEF Unlink
    <2>4. QED
      BY <1>2, <2>1, <2>2, <2>3 DEF Unlinked
  <1>3. QED
    BY <1>1, <1>2

(* The first node with key k leaves the list, and its value k's stack       *)
(* (list.hpp:84-98).                                                        *)
LEMMA ListsUnlink ==
    ASSUME ListsInv, NEW k \in Keys, NEW b \in Buckets, b = HashOf[k], NEW n \in Nodes,
           Matching(head[b], k) # <<>>, n = Head(Matching(head[b], k)), Unlink(n, b)
    PROVE  /\ ListsInv' /\ live' = live
           /\ n \in ListNodes(b) /\ cell[n].key = k
           /\ ListNodes(b)' = ListNodes(b) \ {n}
           /\ \A c \in Buckets \ {b} : SameList(c)
           /\ Stack(k) # <<>> /\ Stack(k)' = Tail(Stack(k))
           /\ \A j \in Keys \ {k} : Stack(j)' = Stack(j)
           /\ \A m \in Nodes : cell'[m].key = cell[m].key /\ cell'[m].val = cell[m].val
           /\ \A m \in Nodes \ ListNodes(b) : cell'[m] = cell[m]
           /\ cell'[n] = cell[n]
  <1> DEFINE h == cell
             h2 == cell'
             p == head[b]
             p2 == head'[b]
  <1>1. /\ h \in Heap /\ h2 \in Heap /\ p \in Pointers /\ p2 \in Pointers /\ Ends(h, p)
        /\ ListTypeOK'
    <2>1. ListTypeOK /\ ListTypeOK'
      BY UnlinkType DEF ListsInv
    <2>2. cell' \in Heap /\ head'[b] \in Pointers
      BY <2>1 DEF ListTypeOK, Heap, Pointers
    <2>3. QED
      BY <2>1, <2>2 DEF ListTypeOK, Heap, ListsInv, ListInv
  <1>2. Unlinked(h, p, n, h2, p2) /\ live' = live /\ \A c \in Buckets \ {b} : head'[c] = head[c]
    BY UnlinkOnHeap DEF ListsInv
  <1>3. /\ MatchingFrom(h, p, k) # <<>> /\ n = Head(MatchingFrom(h, p, k))
        /\ ListNodes(b) = NodesFrom(h, p) /\ ListNodes(b)' = NodesFrom(h2, p2)
    BY HeapOperators, HeapOperatorsNext
  <1>4. \A j \in Keys : HashOf[j] = b =>
            /\ Stack(j) = ValsOf(h, MatchingFrom(h, p, j))
            /\ Stack(j)' = ValsOf(h2, MatchingFrom(h2, p2, j))
    BY HeapOperators, HeapOperatorsNext DEF StackFrom
  <1> HIDE DEF h, h2, p, p2
  <1>5. n \in NodesFrom(h, p) /\ h[n].key = k
    BY <1>1, <1>3, FirstMatching
  <1>6. /\ Ends(h2, p2) /\ NodesFrom(h2, p2) = NodesFrom(h, p) \ {n}
        /\ \A j : MatchingFrom(h2, p2, j) =
                     IF MatchingFrom(h, p, j) # <<>> /\ n = Head(MatchingFrom(h, p, j))
                     THEN Tail(MatchingFrom(h, p, j))
                     ELSE Reached(LinksOf(h), KeyNodes(h, j) \ {n}, p)
        /\ \A m \in Nodes : h2[m].key = h[m].key /\ h2[m].val = h[m].val
        /\ \A m \in Nodes \ NodesFrom(h, p) : h2[m] = h[m]
        /\ h2[n] = h[n]
    <2>1. WithoutNode(h, p, n, h2, p2)
      BY <1>1, <1>2, <1>5, ListUnlinked
    <2>2. QED
      BY <2>1 DEF WithoutNode
  <1>7. MatchingFrom(h2, p2, k) = Tail(MatchingFrom(h, p, k))
    BY <1>3, <1>6
  <1>8. ASSUME NEW j \in Keys \ {k} PROVE MatchingFrom(h2, p2, j) = MatchingFrom(h, p, j)
    <2>1. ~(MatchingFrom(h, p, j) # <<>> /\ n = Head(MatchingFrom(h, p, j)))
      <3>1. MatchingFrom(h, p, j) # <<>> => h[Head(MatchingFrom(h, p, j))].key = j
        BY <1>1, FirstMatching
      <3>2. QED
        BY <1>5, <3>1
    <2>2. KeyNodes(h, j) \ {n} = KeyNodes(h, j)
      BY <1>5 DEF KeyNodes
    <2>3. MatchingFrom(h2, p2, j) = Reached(LinksOf(h), KeyNodes(h, j) \ {n}, p)
      BY <1>6, <2>1
    <2>4. QED
      BY <2>2, <2>3 DEF MatchingFrom
  <1>9. ASSUME NEW m \in Seq(Nodes) PROVE ValsOf(h2, m) = ValsOf(h, m)
    <2>1. \A i \in DOMAIN m : h2[m[i]].val = h[m[i]].val
      BY <1>6, ElementOfSeq, LenProperties
    <2>2. QED
      BY <2>1, ValsOfSame
  <1>10. \A c \in Buckets \ {b} : ListInv(c)' /\ SameList(c)
    <2>1. ASSUME NEW c \in Buckets \ {b}, NEW m \in ListNodes(c)
          PROVE  cell'[m] = cell[m] /\ m \in live'
      <3>1. m \in Nodes /\ m \in live
        BY ListNodesType DEF ListsInv, ListInv
      <3>2. m \notin ListNodes(b)
        BY ListsAreDisjoint
      <3>3. QED
        BY <1>2, <1>3, <1>6, <3>1, <3>2 DEF h, h2
    <2>2. QED
      BY <1>1, <1>2, <2>1, ListStays
  <1>11. ListInv(b)'
    <2>1. /\ \A m \in ListNodes(b)' : m \in ListNodes(b) /\ m \in Nodes
          /\ \A m \in Nodes : cell'[m].key = cell[m].key /\ cell'[m].val = cell[m].val
      BY <1>3, <1>6, ListNodesType DEF h, h2
    <2>2. Ends(cell', head'[b]) /\ live' = live /\ ListInv(b)
      BY <1>2, <1>6 DEF h2, p2, ListsInv
    <2>3. QED
      BY <2>1, <2>2 DEF ListInv
  <1>12. ListsInv'
    BY <1>1, <1>10, <1>11 DEF ListsInv
  <1>13. Stack(k) # <<>> /\ Stack(k)' = Tail(Stack(k))
    <2>1. MatchingFrom(h, p, k) \in Seq(Nodes) /\ Tail(MatchingFrom(h, p, k)) \in Seq(Nodes)
      BY <1>1, <1>3, MatchingType, HeadTailProperties
    <2>2. /\ ValsOf(h, Tail(MatchingFrom(h, p, k))) = Tail(ValsOf(h, MatchingFrom(h, p, k)))
          /\ ValsOf(h, MatchingFrom(h, p, k)) # <<>>
      BY <1>3, <2>1, ValsOfRest
    <2>3. QED
      BY <1>4, <1>7, <1>9, <2>1, <2>2
  <1>14. ASSUME NEW j \in Keys \ {k} PROVE Stack(j)' = Stack(j)
    <2>1. CASE HashOf[j] # b
      <3>1. HashOf[j] \in Buckets \ {b}
        BY <2>1, ListAssumption
      <3>2. QED
        BY <1>10, <3>1 DEF SameList
    <2>2. CASE HashOf[j] = b
      <3>1. MatchingFrom(h, p, j) \in Seq(Nodes)
        BY <1>1, MatchingType
      <3>2. QED
        BY <1>4, <1>8, <1>9, <2>2, <3>1
    <2>3. QED
      BY <2>1, <2>2
  <1>15. QED
    BY <1>2, <1>3, <1>5, <1>6, <1>10, <1>12, <1>13, <1>14 DEF h, h2

(* What a lookup answers is the newest value. *)
LEMMA AnswerIsNewest ==
    ASSUME ListsInv, NEW k \in Keys
    PROVE  Answer(head[HashOf[k]], k) = IF Stack(k) = <<>> THEN NotFound ELSE Head(Stack(k))
  <1>1. cell \in Heap /\ head[HashOf[k]] \in Pointers
    BY ListAssumption DEF ListsInv, ListTypeOK, Heap
  <1>2. QED
    BY <1>1, AnswerOfStack, HeapOperators

(* A lookup that goes from a node to the next has the same answer ahead of  *)
(* it, unless the node has its key (list.hpp:104-106).                      *)
LEMMA AnswerFromNode ==
    ASSUME ListsInv, NEW b \in Buckets, NEW n \in ListNodes(b), NEW k
    PROVE  Answer(n, k) = IF cell[n].key = k THEN cell[n].val ELSE Answer(cell[n].next, k)
  <1> DEFINE h == cell
  <1>1. h \in Heap /\ n \in Nodes /\ Ends(h, n)
    BY ListNodesType DEF ListsInv, ListTypeOK, Heap
  <1> HIDE DEF h
  <1>2. FirstNode(h, n, k)
    BY <1>1, ListFromNode
  <1>3. QED
    BY <1>2, HeapOperators DEF h, FirstNode

(* At the end of the list there is no more answer (list.hpp:90). *)
LEMMA AnswerAtEnd ==
    ASSUME ListsInv, NEW k
    PROVE  Answer(Nil, k) = NotFound
  BY EmptyList, HeapOperators DEF ListsInv, ListTypeOK, Heap

(* The last node of a list has no next one. *)
LEMMA ChainEnds ==
    ASSUME ListsInv, NEW b \in Buckets, Chain(head[b]) # <<>>
    PROVE  cell[Chain(head[b])[Len(Chain(head[b]))]].next = Nil
  <1>1. cell \in Heap /\ head[b] \in Pointers /\ Ends(cell, head[b])
    BY DEF ListsInv, ListInv, ListTypeOK, Heap
  <1>2. PICK c : Path(LinksOf(cell), c, head[b])
    BY <1>1 DEF Ends
  <1>3. Chain(head[b]) = c
    BY <1>1, <1>2, HeapLinks, HeapOperators, ReachedIsPath
  <1>4. Len(c) \in 1 .. Len(c) /\ c[Len(c)] \in Nodes
    <2>1. c \in Seq(Nodes) /\ c # <<>>
      BY <1>2, <1>3 DEF Path
    <2>2. QED
      BY <2>1
  <1>5. LinksOf(cell)[c[Len(c)]] = Nil
    BY <1>2, <1>4 DEF Path, NodeAt
  <1>6. QED
    BY <1>1, <1>3, <1>4, <1>5, HeapLinks
=============================================================================

---------------------------- MODULE StoresProofs ----------------------------
(***************************************************************************)
(* What is kept on disk and in the index is found again, for every value of *)
(* the constants: what file tools show and edit is what was read; the       *)
(* memory's index agrees with its files; the filter loses no key; and the   *)
(* tree is navigated soundly.                                               *)
(***************************************************************************)
EXTENDS FileTools, PersistentMemory, CuckooFilter, RagTree, TLAPS,
        FiniteSetTheorems, SequenceTheorems, WellFoundedInduction

-----------------------------------------------------------------------------
(* Numbers *)

\* A set of natural numbers that is not empty has a minimum.
LEMMA MinOf ==
  ASSUME NEW S, S \subseteq Nat, S # {}
  PROVE  Min(S) \in S /\ \A m \in S : Min(S) <= m
<1>. DEFINE Less == OpToRel(<, Nat)
<1>1. IsWellFoundedOn(Less, Nat)
  BY NatLessThanWellFounded
<1>2. \A m, n \in Nat : m < n => <<m, n>> \in Less
  BY DEF OpToRel
<1>. HIDE DEF Less
<1>3. PICK n \in S : \A m \in S : ~(<<m, n>> \in Less)
  BY <1>1, WFMin
<1>4. ASSUME NEW m \in S PROVE n <= m
  <2>1. n \in Nat /\ m \in Nat /\ ~(m < n)
    BY <1>2, <1>3
  <2>. QED
    BY <2>1
<1>. QED
  BY <1>4 DEF Min

\* A set of natural numbers up to n that is not empty has a maximum.
LEMMA LastOf ==
  ASSUME NEW n \in Nat, NEW S, S \subseteq 0..n, S # {}
  PROVE  \E m \in S : \A k \in S : k <= m
<1>. DEFINE R == {n - k : k \in S}
<1>1. R \subseteq Nat /\ R # {}
  <2>1. \A k \in S : n - k \in Nat
    OBVIOUS
  <2>. QED
    BY <2>1
<1>2. Min(R) \in R /\ \A r \in R : Min(R) <= r
  BY <1>1, MinOf
<1>3. PICK m \in S : Min(R) = n - m
  BY <1>2
<1>4. \A k \in S : n - m <= n - k
  BY <1>2, <1>3
<1>. QED
  BY <1>3, <1>4

-----------------------------------------------------------------------------
(* Folds, step by step                                                      *)

\* The maximum is greatest.
LEMMA Greatest ==
  ASSUME NEW n \in Nat, NEW S, S \subseteq 0..n, S # {}
  PROVE  Max(S) \in S /\ \A k \in S : k <= Max(S)
<1>1. PICK m \in S : \A k \in S : k <= m
  BY LastOf
<1>2. \A k \in S : m >= k
  BY <1>1
<1>. QED
  BY <1>2 DEF Max

\* What is true of the first of some numbers, and of each that follows one of
\* which it is true, is true of all: stated of the set of those of which it is.
LEMMA Reaches ==
  ASSUME NEW n \in Nat, NEW S, 0 \in S,
         \A k \in 0..(n - 1) : k \in S => k + 1 \in S
  PROVE  0..n \subseteq S
<1>. DEFINE T == {k \in 0..n : k \notin S}
<1>. SUFFICES ASSUME T # {} PROVE FALSE
  OBVIOUS
<1>1. PICK k \in T : \A m \in T : k <= m
  <2>1. T \subseteq Nat
    OBVIOUS
  <2>. QED BY <2>1, MinOf
<1>2. k # 0
  OBVIOUS
<1>3. k - 1 \in 0..(n - 1) /\ k - 1 \notin T
  BY <1>1, <1>2
<1>4. k - 1 \in S
  BY <1>3
<1>5. k - 1 + 1 = k
  OBVIOUS
<1>. QED
  BY <1>3, <1>4, <1>5

\* A fold of n steps, and a function that computes it for every set of them.
Stepping(n, D, base, step) == n \in Nat /\ base \in D /\ step \in [1..n -> [D -> D]]

\* it is what folding n steps over a base computes, set by set.
Iterates(n, D, base, step, it) ==
  /\ it \in [SUBSET (1..n) -> D]
  /\ \A s \in SUBSET (1..n) :
       it[s] = IF s = {} THEN base ELSE step[Max(s)][it[s \ {Max(s)}]]

\* There is one, whatever the steps are.
LEMMA Iteration ==
  ASSUME NEW n, NEW D, NEW base, NEW step, Stepping(n, D, base, step)
  PROVE  \E it : Iterates(n, D, base, step, it)
<1>. USE DEF Stepping
<1>. DEFINE Of(k, it) == \A s \in SUBSET (1..k) :
              it[s] = IF s = {} THEN base ELSE step[Max(s)][it[s \ {Max(s)}]]
            S == {k \in 0..n : \E it \in [SUBSET (1..k) -> D] : Of(k, it)}
<1>1. 0 \in S
  <2>1. SUBSET (1..0) = {{}}
    <3>1. 1..0 = {} OBVIOUS
    <3> QED BY <3>1
  <2>2. [s \in SUBSET (1..0) |-> base] \in [SUBSET (1..0) -> D]
    OBVIOUS
  <2>3. Of(0, [s \in SUBSET (1..0) |-> base])
    BY <2>1
  <2>. HIDE DEF Of
  <2>4. \E it \in [SUBSET (1..0) -> D] : Of(0, it)
    BY <2>2, <2>3
  <2>5. 0 \in 0..n
    OBVIOUS
  <2>. QED
    BY <2>4, <2>5, Zenon
<1>2. ASSUME NEW k \in 0..(n - 1), k \in S PROVE k + 1 \in S
  <2>1. PICK it \in [SUBSET (1..k) -> D] : Of(k, it)
    BY <1>2
  <2>. DEFINE noted == [s \in SUBSET (1..(k + 1)) |->
                        IF k + 1 \in s THEN step[k + 1][it[s \ {k + 1}]] ELSE it[s]]
  <2>2. \A s \in SUBSET (1..(k + 1)) :
          /\ s \ {k + 1} \in SUBSET (1..k)
          /\ k + 1 \notin s => s \in SUBSET (1..k)
    <3>1. 1..(k + 1) = (1..k) \cup {k + 1}
      OBVIOUS
    <3>. QED BY <3>1
  <2>3. noted \in [SUBSET (1..(k + 1)) -> D]
    <3>1. k + 1 \in 1..n
      OBVIOUS
    <3>. QED BY <2>2, <3>1
  <2>4. ASSUME NEW s \in SUBSET (1..(k + 1))
        PROVE  noted[s] = IF s = {} THEN base ELSE step[Max(s)][noted[s \ {Max(s)}]]
    <3>1. CASE k + 1 \in s
      <4>1. Max(s) = k + 1
        <5>1. s \subseteq 0..(k + 1) /\ s # {}
          BY <3>1
        <5>2. Max(s) \in s /\ k + 1 <= Max(s)
          BY <3>1, <5>1, Greatest, k + 1 \in Nat
        <5>3. Max(s) \in 0..(k + 1)
          BY <5>1, <5>2
        <5>. QED BY <5>2, <5>3
      <4>2. noted[s \ {k + 1}] = it[s \ {k + 1}]
        <5>1. s \ {k + 1} \in SUBSET (1..(k + 1)) /\ k + 1 \notin s \ {k + 1}
          OBVIOUS
        <5>. QED BY <5>1
      <4>. QED BY <3>1, <4>1, <4>2
    <3>2. CASE k + 1 \notin s
      <4>1. s \in SUBSET (1..k)
        BY <2>2, <3>2
      <4>2. noted[s] = it[s] /\ noted[s \ {Max(s)}] = it[s \ {Max(s)}]
        <5>1. s \ {Max(s)} \in SUBSET (1..(k + 1)) /\ k + 1 \notin s \ {Max(s)}
          BY <3>2
        <5>. QED BY <3>2, <5>1
      <4>. QED BY <2>1, <4>1, <4>2
    <3>. QED BY <3>1, <3>2
  <2>5. Of(k + 1, noted)
    BY <2>4
  <2>. QED
    <3>1. k + 1 \in 0..n OBVIOUS
    <3>. QED BY <2>3, <2>5, <3>1
<1>3. n \in S
  <2>. HIDE DEF S
  <2>1. 0..n \subseteq S
    BY <1>1, <1>2, Reaches
  <2>. QED BY <2>1
<1>. QED
  BY <1>3 DEF Iterates

\* What a function that computes a fold of n steps says of its beginnings.
LEMMA Beginnings ==
  ASSUME NEW n \in Nat, NEW k \in 1..n
  PROVE  /\ 1..k \in SUBSET (1..n) /\ 1..k # {}
         /\ Max(1..k) = k /\ (1..k) \ {k} = 1..(k - 1)
<1>1. Max(1..k) \in 1..k /\ k <= Max(1..k)
  <2>1. 1..k \subseteq 0..n /\ k \in 1..k
    OBVIOUS
  <2>. QED BY <2>1, Greatest
<1>. QED BY <1>1
\* The same of a function of which only that is known.
Computes(n, D, base, step, it) ==
  /\ it[{}] = base
  /\ \A s \in SUBSET (1..n) :
       s # {} /\ it[s \ {Max(s)}] \in D => it[s] = step[Max(s)][it[s \ {Max(s)}]]

\* A function that computes a fold set by set computes it step by step.
LEMMA FoldSteps ==
  ASSUME NEW n, NEW D, NEW base, NEW step, Stepping(n, D, base, step),
         NEW it, Computes(n, D, base, step, it)
  PROVE  \E g \in [0..n -> D] :
           /\ g[0] = base /\ g[n] = it[1..n]
           /\ \A k \in 1..n : g[k] = step[k][g[k - 1]]
<1>. USE DEF Stepping, Computes
<1>1. ASSUME NEW k \in 1..n, it[1..(k - 1)] \in D
      PROVE  it[1..k] = step[k][it[1..(k - 1)]] /\ it[1..k] \in D
  <2>1. /\ 1..k \in SUBSET (1..n) /\ 1..k # {}
        /\ Max(1..k) = k /\ (1..k) \ {k} = 1..(k - 1)
    BY Beginnings
  <2>2. it[1..k] = step[Max(1..k)][it[(1..k) \ {Max(1..k)}]]
    BY <1>1, <2>1
  <2>3. it[1..k] = step[k][it[1..(k - 1)]]
    BY <2>1, <2>2
  <2>4. step[k] \in [D -> D]
    OBVIOUS
  <2>. QED BY <1>1, <2>3, <2>4
<1>. DEFINE T == {k \in 0..n : it[1..k] \in D}
<1>2. 0..n \subseteq T
  <2>1. 0 \in T
    <3>1. 1..0 = {} OBVIOUS
    <3>. QED BY <3>1
  <2>2. ASSUME NEW k \in 0..(n - 1), k \in T PROVE k + 1 \in T
    <3>1. k + 1 \in 1..n /\ (k + 1) - 1 = k
      OBVIOUS
    <3>. QED BY <1>1, <2>2, <3>1
  <2>. HIDE DEF T
  <2>. QED BY <2>1, <2>2, Reaches
<1>. DEFINE g == [k \in 0..n |-> it[1..k]]
<1>3. g \in [0..n -> D]
  BY <1>2
<1>4. \A k \in 1..n : g[k] = step[k][g[k - 1]]
  <2>. SUFFICES ASSUME NEW k \in 1..n PROVE g[k] = step[k][g[k - 1]]
    OBVIOUS
  <2>1. k \in 0..n /\ k - 1 \in 0..n
    OBVIOUS
  <2>2. it[1..(k - 1)] \in D
    BY <1>2, <2>1
  <2>. QED BY <1>1, <2>1, <2>2
<1>5. g[0] = base /\ g[n] = it[1..n]
  <2>1. 1..0 = {} OBVIOUS
  <2>. QED BY <2>1
<1>. HIDE DEF g
<1>. QED BY <1>3, <1>4, <1>5

\* A function on the numbers that is given at 0 and, at any other, by its value
\* at a smaller one.
Descent(D, base, half, step) ==
  /\ base \in D
  /\ half \in [Nat \ {0} -> Nat] /\ \A n \in Nat \ {0} : half[n] < n
  /\ step \in [Nat \ {0} -> [D -> D]]

Descended(D, base, half, step, f) ==
  /\ f \in [Nat -> D] /\ f[0] = base
  /\ \A n \in Nat \ {0} : f[n] = step[n][f[half[n]]]

\* It exists, whatever it is given by.
LEMMA Descends ==
  ASSUME NEW D, NEW base, NEW half, NEW step, Descent(D, base, half, step)
  PROVE  \E f : Descended(D, base, half, step, f)
<1>. DEFINE Upto(n, f) == /\ f \in [0..n -> D] /\ f[0] = base
                          /\ \A m \in 1..n : f[m] = step[m][f[half[m]]]
            T == {n \in Nat : \E f : Upto(n, f)}
<1>1. /\ base \in D
      /\ \A m \in Nat \ {0} : half[m] \in Nat /\ half[m] < m
      /\ \A m \in Nat \ {0}, d \in D : step[m][d] \in D
  BY DEF Descent
<1>2. 0 \in T
  <2>1. Upto(0, [k \in 0..0 |-> base])
    BY <1>1
  <2>. QED BY <2>1
<1>3. ASSUME NEW n \in Nat, n \in T PROVE n + 1 \in T
  <2>1. PICK f : Upto(n, f)
    BY <1>3
  <2>. DEFINE g == [k \in 0..(n + 1) |-> IF k \in 0..n THEN f[k] ELSE step[n + 1][f[half[n + 1]]]]
  <2>2. half[n + 1] \in 0..n /\ \A m \in 1..n : half[m] \in 0..n
    BY <1>1
  <2>3. step[n + 1][f[half[n + 1]]] \in D
    BY <1>1, <2>1, <2>2
  <2>4. g \in [0..(n + 1) -> D] /\ g[0] = base
    BY <2>1, <2>3
  <2>5. ASSUME NEW m \in 1..(n + 1) PROVE g[m] = step[m][g[half[m]]]
    <3>1. CASE m \in 1..n
      <4>1. g[m] = f[m] /\ g[half[m]] = f[half[m]]
        BY <2>2, <3>1
      <4>. QED BY <2>1, <3>1, <4>1
    <3>2. CASE m = n + 1
      <4>1. m \notin 0..n
        BY <3>2
      <4>. QED BY <2>2, <3>2, <4>1
    <3>. QED BY <3>1, <3>2
  <2>. HIDE DEF g
  <2>6. Upto(n + 1, g)
    BY <2>4, <2>5
  <2>. HIDE DEF Upto
  <2>. QED BY <2>6
<1>4. ASSUME NEW n \in Nat PROVE \E f : Upto(n, f)
  <2>1. \A k \in 0..(n - 1) : k \in T => k + 1 \in T
    BY <1>3
  <2>2. 0..n \subseteq T
    <3>. HIDE DEF T
    <3>. QED BY <1>2, <2>1, Reaches
  <2>. QED BY <2>2
<1>5. ASSUME NEW n \in Nat, NEW m \in 0..n, NEW f, NEW g, Upto(n, f), Upto(m, g)
      PROVE  \A k \in 0..m : f[k] = g[k]
  <2>. DEFINE S == {k \in 0..m : f[k] # g[k]}
  <2>. SUFFICES ASSUME S # {} PROVE FALSE
    OBVIOUS
  <2>1. PICK k \in S : \A j \in S : k <= j
    <3>1. S \subseteq Nat
      OBVIOUS
    <3>. HIDE DEF S
    <3>. QED BY <3>1, MinOf
  <2>2. k # 0 /\ k \in 1..m /\ k \in 1..n /\ k \in Nat \ {0}
    BY <1>5
  <2>3. half[k] \in 0..m /\ ~(k <= half[k])
    BY <1>1, <2>2
  <2>4. f[half[k]] = g[half[k]]
    BY <2>1, <2>3
  <2>. QED BY <1>5, <2>2, <2>4
<1>. DEFINE first(n) == CHOOSE f : Upto(n, f)
            all == [n \in Nat |-> first(n)[n]]
<1>6. ASSUME NEW n \in Nat PROVE Upto(n, first(n))
  <2>. HIDE DEF Upto
  <2>. QED BY <1>4
<1>. HIDE DEF first
<1>7. \A n \in Nat : all[n] \in D
  BY <1>6
<1>8. all[0] = base
  BY <1>6
<1>9. ASSUME NEW n \in Nat \ {0} PROVE all[n] = step[n][all[half[n]]]
  <2>. DEFINE h == half[n]
  <2>1. h \in Nat /\ h \in 0..n /\ h \in 0..h /\ n \in 1..n
    BY <1>1
  <2>2. first(n)[h] = first(h)[h]
    <3>1. Upto(n, first(n)) /\ Upto(h, first(h))
      BY <1>6, <2>1
    <3>. HIDE DEF Upto, h
    <3>. QED BY <1>5, <2>1, <3>1
  <2>3. first(n)[n] = step[n][first(n)[h]]
    BY <1>6, <2>1
  <2>. HIDE DEF h
  <2>4. all[n] = first(n)[n] /\ all[h] = first(h)[h]
    BY <2>1
  <2>. QED BY <2>2, <2>3, <2>4 DEF h
<1>10. Descended(D, base, half, step, all)
  <2>. HIDE DEF all
  <2>1. all \in [Nat -> D]
    BY <1>7 DEF all
  <2>. QED BY <1>8, <1>9, <2>1 DEF Descended
<1>. QED BY <1>10

-----------------------------------------------------------------------------
(* The memory of facts *)

LineOf == [slug : Slugs, length : Lengths]

\* A size, line by line.
LEMMA SizeFold ==
  ASSUME NEW lines \in Seq(LineOf)
  PROVE  \E g \in [0..Len(lines) -> Nat] :
           /\ g[0] = 0 /\ g[Len(lines)] = SizeOf(lines)
           /\ \A k \in 1..Len(lines) : g[k] = g[k - 1] + lines[k].length
<1>. DEFINE n == Len(lines)
            step == [k \in 1..n |-> [d \in Nat |-> d + lines[k].length]]
            Is(it) == it = [S \in SUBSET (1..n) |->
                              IF S = {} THEN 0
                              ELSE it[S \ {Max(S)}] + lines[Max(S)].length]
            it == CHOOSE f : Is(f)
<1>1. SizeOf(lines) = it[1..n]
  <2>1. DOMAIN lines = 1..n
    OBVIOUS
  <2>. QED BY <2>1 DEF SizeOf, FoldLeft, MapThenFoldSet
<1>2. Stepping(n, Nat, 0, step)
  <2>1. 0 \in Nat /\ \A k \in 1..n : lines[k].length \in Nat
    <3>1. \A k \in 1..n : lines[k] \in LineOf
      OBVIOUS
    <3>. QED BY <3>1, MemoryAssumption DEF LineOf
  <2>2. \A k \in 1..n, d \in Nat : d + lines[k].length \in Nat
    BY <2>1
  <2>3. step \in [1..n -> [Nat -> Nat]]
    BY <2>2
  <2>. QED BY <2>1, <2>3 DEF Stepping
<1>. HIDE DEF step
<1>3. PICK f : Iterates(n, Nat, 0, step, f)
  BY <1>2, Iteration
<1>4. ASSUME NEW S \in SUBSET (1..n), S # {}
      PROVE  Max(S) \in 1..n /\ S \ {Max(S)} \in SUBSET (1..n)
  <2>. HIDE DEF n
  <2>1. n \in Nat /\ S \subseteq 0..n
    BY <1>2 DEF Stepping
  <2>2. Max(S) \in S
    BY <1>4, <2>1, Greatest
  <2>. QED BY <2>2
<1>5. Is(f)
  BY <1>3, <1>4 DEF step, Iterates
<1>6. Is(it)
  BY <1>5
<1>. HIDE DEF it
<1>7. Computes(n, Nat, 0, step, it)
  BY <1>4, <1>6 DEF step, Computes
<1>8. PICK g \in [0..n -> Nat] :
        /\ g[0] = 0 /\ g[n] = it[1..n]
        /\ \A k \in 1..n : g[k] = step[k][g[k - 1]]
  <2>. HIDE DEF n, Is
  <2>. QED BY <1>2, <1>7, FoldSteps
<1>9. \A k \in 1..n : g[k] = g[k - 1] + lines[k].length
  <2>1. \A k \in 1..n : k - 1 \in 0..n
    BY Len(lines) \in Nat
  <2>. HIDE DEF n
  <2>2. \A k \in 1..n : g[k - 1] \in Nat
    BY <1>8, <2>1
  <2>. QED BY <1>8, <2>2 DEF step
<1>. QED BY <1>1, <1>8, <1>9

\* The lines of other slugs, line by line.
LEMMA WithoutFold ==
  ASSUME NEW lines \in Seq(LineOf), NEW slugs
  PROVE  \E g \in [0..Len(lines) -> Seq(LineOf)] :
           /\ g[0] = <<>> /\ g[Len(lines)] = Without(lines, slugs)
           /\ \A k \in 1..Len(lines) : g[k] = (IF lines[k].slug \in slugs THEN g[k - 1] ELSE Append(g[k - 1], lines[k]))
<1>. DEFINE n == Len(lines)
            step == [k \in 1..n |-> [d \in Seq(LineOf) |-> (IF lines[k].slug \in slugs THEN d ELSE Append(d, lines[k]))]]
            Is(it) == it = [S \in SUBSET (1..n) |->
                              IF S = {} THEN <<>>
                              ELSE (IF lines[Max(S)].slug \in slugs THEN it[S \ {Max(S)}] ELSE Append(it[S \ {Max(S)}], lines[Max(S)]))]
            it == CHOOSE f : Is(f)
<1>1. Without(lines, slugs) = it[1..n]
  <2>1. DOMAIN lines = 1..n
    OBVIOUS
  <2>. QED BY <2>1 DEF Without, FoldLeft, MapThenFoldSet
<1>2. Stepping(n, Seq(LineOf), <<>>, step)
  <2>1. <<>> \in Seq(LineOf) /\ \A k \in 1..n : lines[k] \in LineOf
    OBVIOUS
  <2>2. \A k \in 1..n, d \in Seq(LineOf) : (IF lines[k].slug \in slugs THEN d ELSE Append(d, lines[k])) \in Seq(LineOf)
    BY <2>1
  <2>3. step \in [1..n -> [Seq(LineOf) -> Seq(LineOf)]]
    BY <2>2
  <2>. QED BY <2>1, <2>3 DEF Stepping
<1>. HIDE DEF step
<1>3. PICK f : Iterates(n, Seq(LineOf), <<>>, step, f)
  BY <1>2, Iteration
<1>4. ASSUME NEW S \in SUBSET (1..n), S # {}
      PROVE  Max(S) \in 1..n /\ S \ {Max(S)} \in SUBSET (1..n)
  <2>. HIDE DEF n
  <2>1. n \in Nat /\ S \subseteq 0..n
    BY <1>2 DEF Stepping
  <2>2. Max(S) \in S
    BY <1>4, <2>1, Greatest
  <2>. QED BY <2>2
<1>5. Is(f)
  BY <1>3, <1>4 DEF step, Iterates
<1>6. Is(it)
  BY <1>5
<1>. HIDE DEF it
<1>7. Computes(n, Seq(LineOf), <<>>, step, it)
  BY <1>4, <1>6 DEF step, Computes
<1>8. PICK g \in [0..n -> Seq(LineOf)] :
        /\ g[0] = <<>> /\ g[n] = it[1..n]
        /\ \A k \in 1..n : g[k] = step[k][g[k - 1]]
  <2>. HIDE DEF n, Is
  <2>. QED BY <1>2, <1>7, FoldSteps
<1>9. \A k \in 1..n : g[k] = (IF lines[k].slug \in slugs THEN g[k - 1] ELSE Append(g[k - 1], lines[k]))
  <2>1. \A k \in 1..n : k - 1 \in 0..n
    BY Len(lines) \in Nat
  <2>. HIDE DEF n
  <2>2. \A k \in 1..n : g[k - 1] \in Seq(LineOf)
    BY <1>8, <2>1
  <2>. QED BY <1>8, <2>2 DEF step
<1>. QED BY <1>1, <1>8, <1>9

\* A line more adds its length to the size.
LEMMA SizeOn ==
  ASSUME NEW lines \in Seq(LineOf), NEW line \in LineOf
  PROVE  /\ SizeOf(lines) \in Nat /\ SizeOf(<<>>) = 0
         /\ SizeOf(Append(lines, line)) = SizeOf(lines) + line.length
<1>. DEFINE n == Len(lines)
            t == Append(lines, line)
<1>1. n \in Nat /\ t \in Seq(LineOf) /\ Len(t) = n + 1 /\ t[n + 1] = line
      /\ \A k \in 1..n : t[k] = lines[k]
  OBVIOUS
<1>. HIDE DEF t
<1>2. PICK g \in [0..n -> Nat] :
        /\ g[0] = 0 /\ g[n] = SizeOf(lines)
        /\ \A k \in 1..n : g[k] = g[k - 1] + lines[k].length
  BY SizeFold
<1>3. PICK h \in [0..(n + 1) -> Nat] :
        /\ h[0] = 0 /\ h[n + 1] = SizeOf(t)
        /\ \A k \in 1..(n + 1) : h[k] = h[k - 1] + t[k].length
  <2>1. \E h \in [0..Len(t) -> Nat] :
          /\ h[0] = 0 /\ h[Len(t)] = SizeOf(t)
          /\ \A k \in 1..Len(t) : h[k] = h[k - 1] + t[k].length
    BY <1>1, SizeFold
  <2>2. Len(t) = n + 1
    BY <1>1
  <2>. HIDE DEF n
  <2>. QED BY <2>1, <2>2
<1>. HIDE DEF n
<1>. DEFINE S == {k \in 0..n : g[k] = h[k]}
<1>4. 0..n \subseteq S
  <2>1. 0 \in S
    BY <1>1, <1>2, <1>3
  <2>2. ASSUME NEW k \in 0..(n - 1), k \in S PROVE k + 1 \in S
    <3>1. k + 1 \in 1..n /\ k + 1 \in 1..(n + 1) /\ (k + 1) - 1 = k
      BY <1>1
    <3>2. g[k + 1] = g[k] + lines[k + 1].length /\ h[k + 1] = h[k] + t[k + 1].length
      BY <1>2, <1>3, <3>1
    <3>3. t[k + 1] = lines[k + 1] /\ g[k] = h[k]
      BY <1>1, <2>2, <3>1
    <3>. QED BY <1>1, <3>1, <3>2, <3>3
  <2>. HIDE DEF S
  <2>. QED BY <1>1, <2>1, <2>2, Reaches
<1>5. g[n] = h[n] /\ n \in 0..n
  BY <1>1, <1>4
<1>6. h[n + 1] = h[n] + line.length
  BY <1>1, <1>3
<1>7. SizeOf(<<>>) = 0
  <2>1. <<>> \in Seq(LineOf) /\ Len(<<>>) = 0
    OBVIOUS
  <2>. QED BY <2>1, SizeFold
<1>. QED
  BY <1>1, <1>2, <1>3, <1>5, <1>6, <1>7 DEF t

\* No slug has two lines.
Distinct(lines) == \A i, j \in 1..Len(lines) : lines[i].slug = lines[j].slug => i = j

LEMMA SlugsAre ==
  ASSUME NEW lines \in Seq(LineOf), NEW s
  PROVE  s \in SlugsOf(lines) <=> \E i \in 1..Len(lines) : lines[i].slug = s
<1>1. DOMAIN lines = 1..Len(lines)
  OBVIOUS
<1>. QED BY <1>1 DEF SlugsOf

\* What stays without some slugs.
LEMMA WithoutIs ==
  ASSUME NEW lines \in Seq(LineOf), NEW slugs
  PROVE  LET kept == Without(lines, slugs) IN
         /\ kept \in Seq(LineOf) /\ SizeOf(kept) <= SizeOf(lines)
         /\ Distinct(lines) => Distinct(kept)
         /\ \A i \in 1..Len(kept) :
              kept[i].slug \notin slugs /\ \E j \in 1..Len(lines) : kept[i] = lines[j]
         /\ \A j \in 1..Len(lines) :
              lines[j].slug \notin slugs => \E i \in 1..Len(kept) : kept[i] = lines[j]
<1>. DEFINE n == Len(lines)
<1>1. n \in Nat /\ \A k \in 1..n : lines[k] \in LineOf
  OBVIOUS
<1>2. PICK g \in [0..n -> Seq(LineOf)] :
        /\ g[0] = <<>> /\ g[n] = Without(lines, slugs)
        /\ \A k \in 1..n :
             g[k] = IF lines[k].slug \in slugs THEN g[k - 1] ELSE Append(g[k - 1], lines[k])
  BY WithoutFold
<1>3. PICK h \in [0..n -> Nat] :
        /\ h[0] = 0 /\ h[n] = SizeOf(lines)
        /\ \A k \in 1..n : h[k] = h[k - 1] + lines[k].length
  BY SizeFold
<1>. DEFINE From(k) == \A i \in 1..Len(g[k]) :
                 g[k][i].slug \notin slugs /\ \E j \in 1..k : g[k][i] = lines[j]
            All(k) == \A j \in 1..k :
                 lines[j].slug \notin slugs => \E i \in 1..Len(g[k]) : g[k][i] = lines[j]
            T == {k \in 0..n : /\ SizeOf(g[k]) <= h[k]
                               /\ Distinct(lines) => Distinct(g[k])
                               /\ From(k) /\ All(k)}
<1>4. 0 \in T
  <2>1. SizeOf(g[0]) <= h[0]
    BY <1>2, <1>3, SizeFold, <<>> \in Seq(LineOf), Len(<<>>) = 0
  <2>. QED BY <1>1, <1>2, <2>1 DEF Distinct
<1>5. ASSUME NEW k \in 0..(n - 1), k \in T PROVE k + 1 \in T
  <2>. HIDE DEF n
  <2>1. /\ k \in 0..n /\ k + 1 \in 1..n /\ k + 1 \in 0..n /\ (k + 1) - 1 = k
        /\ 1..(k + 1) = 1..k \cup {k + 1}
    BY <1>1
  <2>. DEFINE line == lines[k + 1]
  <2>2. /\ line \in LineOf /\ line.length \in Nat /\ h[k] \in Nat
        /\ h[k + 1] = h[k] + line.length
    BY <1>1, <1>3, <2>1, MemoryAssumption DEF LineOf
  <2>3. g[k] \in Seq(LineOf) /\ SizeOf(g[k]) \in Nat
        /\ SizeOf(Append(g[k], line)) = SizeOf(g[k]) + line.length
    BY <1>2, <2>1, <2>2, SizeOn
  <2>4. /\ SizeOf(g[k]) <= h[k] /\ (Distinct(lines) => Distinct(g[k]))
        /\ From(k) /\ All(k)
    BY <1>5
  <2>5. CASE line.slug \in slugs
    <3>1. g[k + 1] = g[k]
      BY <1>2, <2>1, <2>5
    <3>2. From(k + 1) /\ All(k + 1)
      BY <2>1, <2>4, <2>5, <3>1
    <3>. QED BY <2>1, <2>2, <2>3, <2>4, <3>1, <3>2
  <2>6. CASE line.slug \notin slugs
    <3>1. g[k + 1] = Append(g[k], line)
      BY <1>2, <2>1, <2>6
    <3>2. /\ Len(g[k + 1]) = Len(g[k]) + 1 /\ Len(g[k]) \in Nat
          /\ g[k + 1][Len(g[k]) + 1] = line
          /\ \A i \in 1..Len(g[k]) : g[k + 1][i] = g[k][i]
      BY <2>2, <2>3, <3>1
    <3>3. From(k + 1)
      <4>. SUFFICES ASSUME NEW i \in 1..Len(g[k + 1])
                    PROVE  /\ g[k + 1][i].slug \notin slugs
                           /\ \E j \in 1..(k + 1) : g[k + 1][i] = lines[j]
        OBVIOUS
      <4>1. CASE i \in 1..Len(g[k])
        BY <2>1, <2>4, <3>2, <4>1
      <4>2. CASE i = Len(g[k]) + 1
        BY <2>1, <2>6, <3>2, <4>2
      <4>. QED BY <3>2, <4>1, <4>2
    <3>4. All(k + 1)
      <4>. SUFFICES ASSUME NEW j \in 1..(k + 1), lines[j].slug \notin slugs
                    PROVE  \E i \in 1..Len(g[k + 1]) : g[k + 1][i] = lines[j]
        OBVIOUS
      <4>1. CASE j \in 1..k
        <5>1. PICK i \in 1..Len(g[k]) : g[k][i] = lines[j]
          BY <2>4, <4>1
        <5>2. i \in 1..Len(g[k + 1]) /\ g[k + 1][i] = lines[j]
          BY <3>2, <5>1
        <5>. QED BY <5>2
      <4>2. CASE j = k + 1
        <5>1. Len(g[k]) + 1 \in 1..Len(g[k + 1])
          BY <3>2
        <5>. QED BY <3>2, <4>2, <5>1
      <4>. QED BY <2>1, <4>1, <4>2
    <3>5. ASSUME Distinct(lines) PROVE Distinct(g[k + 1])
      <4>1. \A i \in 1..Len(g[k]) : g[k][i].slug # line.slug
        <5>. SUFFICES ASSUME NEW i \in 1..Len(g[k]), g[k][i].slug = line.slug PROVE FALSE
          OBVIOUS
        <5>1. PICK j \in 1..k : g[k][i] = lines[j]
          BY <2>4
        <5>2. j \in 1..n /\ j # k + 1
          BY <1>1, <2>1
        <5>. QED BY <2>1, <3>5, <5>1, <5>2 DEF Distinct, n
      <4>2. \A i \in 1..Len(g[k + 1]) :
              \/ i \in 1..Len(g[k]) /\ g[k + 1][i] = g[k][i]
              \/ i = Len(g[k]) + 1 /\ g[k + 1][i] = line
        BY <3>2, SMTT(30)
      <4>3. Distinct(g[k])
        BY <2>4, <3>5
      <4>. HIDE DEF From, All, line
      <4>4. ASSUME NEW i \in 1..Len(g[k + 1]), NEW j \in 1..Len(g[k + 1]),
                   g[k + 1][i].slug = g[k + 1][j].slug
            PROVE  i = j
        BY <4>1, <4>2, <4>3, <4>4 DEF Distinct
      <4>. QED BY <4>4 DEF Distinct
    <3>. HIDE DEF From, All, line
    <3>6. SizeOf(g[k + 1]) <= h[k + 1]
      BY <2>2, <2>3, <2>4, <3>1
    <3>. QED BY <2>1, <3>3, <3>4, <3>5, <3>6
  <2>. QED BY <2>5, <2>6
<1>6. n \in T
  <2>1. 0..n \subseteq T
    <3>. HIDE DEF T, n
    <3>. QED BY <1>1, <1>4, <1>5, Reaches
  <2>. QED BY <1>1, <2>1
<1>7. g[n] \in Seq(LineOf)
  BY <1>1, <1>2
<1>. QED
  BY <1>2, <1>3, <1>6, <1>7

\* The places of a slug: what is read and noted, and what is dropped.
LEMMA NotedIs ==
  ASSUME NEW lines \in Seq(LineOf), Distinct(lines), NEW line \in LineOf
  PROVE  /\ Noted(lines, line) \in Seq(LineOf) /\ Distinct(Noted(lines, line))
         /\ line.slug \notin SlugsOf(lines) => Noted(lines, line) = Append(lines, line)
         /\ \E i \in 1..Len(Noted(lines, line)) : Noted(lines, line)[i] = line
         /\ \A i \in 1..Len(Noted(lines, line)) :
              \/ Noted(lines, line)[i] = line
              \/ \E j \in 1..Len(lines) : Noted(lines, line)[i] = lines[j]
         /\ \A j \in 1..Len(lines) :
              lines[j].slug # line.slug =>
                \E i \in 1..Len(Noted(lines, line)) : Noted(lines, line)[i] = lines[j]
<1>. DEFINE S == {i \in 1..Len(lines) : lines[i].slug = line.slug}
            at == SelectInSeq(lines, LAMBDA held : held.slug = line.slug)
            noted == Noted(lines, line)
<1>1. at = IF S # {} THEN Min(S) ELSE 0
  BY DEF SelectInSeq
<1>2. S # {} => Min(S) \in S
  <2>1. S \subseteq Nat
    OBVIOUS
  <2>. HIDE DEF S
  <2>. QED BY <2>1, MinOf
<1>3. Len(lines) \in Nat /\ \A i \in 1..Len(lines) : lines[i] \in LineOf
  OBVIOUS
<1>4. noted = IF at = 0 THEN Append(lines, line) ELSE [lines EXCEPT ![at] = line]
  BY DEF Noted
<1>5. CASE S = {}
  <2>1. noted = Append(lines, line)
    BY <1>1, <1>4, <1>5
  <2>2. \A i \in 1..Len(lines) : lines[i].slug # line.slug
    BY <1>5
  <2>3. /\ noted \in Seq(LineOf) /\ Len(noted) = Len(lines) + 1
        /\ noted[Len(lines) + 1] = line /\ \A i \in 1..Len(lines) : noted[i] = lines[i]
    BY <1>3, <2>1
  <2>. HIDE DEF S, at, noted
  <2>4. \A i \in 1..Len(noted) :
          \/ i \in 1..Len(lines) /\ noted[i] = lines[i]
          \/ i = Len(lines) + 1 /\ noted[i] = line
    BY <1>3, <2>3
  <2>5. Distinct(noted)
    BY <2>2, <2>4 DEF Distinct
  <2>6. \A j \in 1..Len(lines) : \E i \in 1..Len(noted) : noted[i] = lines[j]
    <3>1. \A j \in 1..Len(lines) : j \in 1..Len(noted) /\ noted[j] = lines[j]
      BY <1>3, <2>3
    <3>. QED BY <3>1
  <2>7. \E i \in 1..Len(noted) : noted[i] = line
    <3>1. Len(lines) + 1 \in 1..Len(noted)
      BY <1>3, <2>3
    <3>. QED BY <2>3, <3>1
  <2>. QED BY <2>1, <2>3, <2>4, <2>5, <2>6, <2>7 DEF noted
<1>6. CASE S # {}
  <2>1. at \in S /\ noted = [lines EXCEPT ![at] = line]
    <3>1. at \in S
      BY <1>1, <1>2, <1>6
    <3>2. at # 0
      BY <3>1
    <3>. QED BY <1>4, <3>1, <3>2
  <2>2. at \in 1..Len(lines) /\ lines[at].slug = line.slug
    BY <2>1
  <2>3. line.slug \in SlugsOf(lines)
    BY <2>2, SlugsAre
  <2>. HIDE DEF S, at, noted
  <2>4. /\ noted \in Seq(LineOf) /\ Len(noted) = Len(lines)
        /\ \A i \in 1..Len(lines) : noted[i] = IF i = at THEN line ELSE lines[i]
    BY <2>1, <2>2, ExceptSeq
  <2>5. Distinct(noted)
    BY <2>2, <2>4 DEF Distinct
  <2>6. \A j \in 1..Len(lines) :
          lines[j].slug # line.slug => \E i \in 1..Len(noted) : noted[i] = lines[j]
    BY <2>2, <2>4
  <2>. QED BY <2>2, <2>3, <2>4, <2>5, <2>6 DEF noted
<1>. QED BY <1>5, <1>6

\* What is left of lines of which the first is dropped.
LEMMA TailIs ==
  ASSUME NEW lines \in Seq(LineOf), lines # <<>>, Distinct(lines)
  PROVE  /\ lines[1] \in LineOf /\ Len(lines) \in Nat /\ Len(lines) > 0
         /\ Tail(lines) \in Seq(LineOf) /\ Len(Tail(lines)) = Len(lines) - 1
         /\ \A i \in 1..Len(Tail(lines)) : Tail(lines)[i] = lines[i + 1]
         /\ Distinct(Tail(lines))
         /\ \A i \in 1..Len(Tail(lines)) : Tail(lines)[i].slug # lines[1].slug
         /\ \A j \in 1..Len(lines) :
              lines[j].slug # lines[1].slug => \E i \in 1..Len(Tail(lines)) : Tail(lines)[i] = lines[j]
<1>. DEFINE t == Tail(lines)
<1>1. /\ lines[1] \in LineOf /\ Len(lines) \in Nat /\ Len(lines) > 0
      /\ t \in Seq(LineOf) /\ Len(t) = Len(lines) - 1
      /\ \A i \in 1..Len(t) : t[i] = lines[i + 1]
  <2>1. /\ t \in Seq(LineOf) /\ Len(t) = Len(lines) - 1
        /\ \A i \in 1..Len(t) : t[i] = lines[i + 1]
    BY HeadTailProperties
  <2>2. Len(lines) \in Nat /\ Len(lines) > 0 /\ lines[1] \in LineOf
    OBVIOUS
  <2>. QED BY <2>1, <2>2
<1>. HIDE DEF t
<1>2. Distinct(t) /\ \A i \in 1..Len(t) : t[i].slug # lines[1].slug
  <2>1. \A i \in 1..Len(t) : i + 1 \in 1..Len(lines) /\ i + 1 # 1 /\ t[i] = lines[i + 1]
    BY <1>1
  <2>2. 1 \in 1..Len(lines)
    BY <1>1
  <2>. QED BY <2>1, <2>2, SMTT(30) DEF Distinct
<1>3. ASSUME NEW j \in 1..Len(lines), lines[j].slug # lines[1].slug
      PROVE  \E i \in 1..Len(t) : t[i] = lines[j]
  <2>1. j - 1 \in 1..Len(t) /\ (j - 1) + 1 = j
    BY <1>1, <1>3
  <2>. QED BY <1>1, <2>1
<1>. QED BY <1>1, <1>2, <1>3 DEF t

\* The lines tell of a slug what its file is.
TellsOf(lines, files, s) ==
  /\ s \in SlugsOf(lines) <=> files[s] # NoFile
  /\ \A i \in 1..Len(lines) : lines[i].slug = s => lines[i].length = files[s]

Operations == [pc : {"idle", "topic", "read", "unlist", "cap", "index"},
               line : Seq(LineOf), lines : Seq(LineOf), evicted : SUBSET Slugs,
               fresh : BOOLEAN, alone : BOOLEAN]

\* What an operation knows, whoever else is at work.
Knows(o) ==
  /\ o.pc \in {"topic", "read"} => Len(o.line) = 1 /\ o.evicted = {}
  /\ o.pc = "unlist" => o.line = <<>> /\ o.fresh = FALSE
  /\ o.pc \in {"cap", "index"} => Distinct(o.lines)
  /\ (o.pc = "index" \/ (o.pc = "cap" /\ o.line = <<>>)) => SizeOf(o.lines) <= Cap
  /\ o.pc \in {"cap", "index"} /\ o.fresh =>
       /\ Len(o.line) = 1
       /\ \/ o.line[1].length > Cap
          \/ o.lines # <<>> /\ o.lines[Len(o.lines)] = o.line[1]

\* Lines tell of all slugs that are not in doubt.
AllTold(lines, files, unsure) == \A s \in Slugs \ unsure : TellsOf(lines, files, s)

\* What an operation is about, and what the files are while it is alone.
AboutOf(o) == SlugsOf(o.line) \cup o.evicted
Midway(o, files, list, unsure) ==
  /\ o.pc \in {"topic", "read", "unlist", "cap"} => AllTold(list, files, unsure \cup AboutOf(o))
  /\ o.pc \in {"cap", "index"} => AllTold(o.lines, files, unsure \ AboutOf(o))
  /\ o.pc = "read" => files[o.line[1].slug] = o.line[1].length
  /\ o.pc = "unlist" => \A s \in o.evicted : files[s] = NoFile

MemoryTyped ==
  /\ topics \in [Slugs -> Int] /\ index \in Seq(LineOf)
  /\ op \in [Processes -> Operations] /\ doubt \in SUBSET Slugs

Company ==
  /\ \A p \in Processes : Busy(p) /\ op[p].alone => \A q \in Processes \ {p} : ~Busy(q)
  /\ \A p \in Processes : Busy(p) /\ ~op[p].alone => doubt = Slugs

Agreed ==
  /\ (\A p \in Processes : ~Busy(p)) => AllTold(index, topics, doubt)
  /\ \A p \in Processes :
       Busy(p) /\ op[p].alone => Midway(op[p], topics, index, doubt)

MemoryInv ==
  /\ MemoryTyped /\ Company /\ Agreed
  /\ SizeOf(index) <= Cap /\ Distinct(index)
  /\ \A p \in Processes : Knows(op[p])

\* No line, no slug.
LEMMA NoSlugs == SlugsOf(<<>>) = {}
<1>1. <<>> \in Seq(LineOf) /\ Len(<<>>) = 0
  OBVIOUS
<1>2. ASSUME NEW s PROVE s \notin SlugsOf(<<>>)
  <2>1. ~ \E i \in 1..Len(<<>>) : <<>>[i].slug = s
    BY <1>1
  <2>. QED BY <1>1, <2>1, SlugsAre
<1>. QED BY <1>2

LEMMA MemoryStarts == MemoryInit => MemoryInv
<1>. SUFFICES ASSUME MemoryInit PROVE MemoryInv
  OBVIOUS
<1>. USE DEF MemoryInit
<1>1. NoOp \in Operations /\ Knows(NoOp) /\ NoOp.pc = "idle"
  BY DEF NoOp, Operations, Knows
<1>2. <<>> \in Seq(LineOf) /\ Len(<<>>) = 0 /\ SizeOf(<<>>) = 0
  <2>1. <<>> \in Seq(LineOf) /\ Len(<<>>) = 0
    OBVIOUS
  <2>. QED BY <2>1, SizeFold
<1>3. MemoryTyped
  BY <1>1, <1>2 DEF MemoryTyped, NoFile
<1>4. \A p \in Processes : op[p] = NoOp /\ ~Busy(p)
  BY <1>1 DEF Busy
<1>5. AllTold(index, topics, doubt)
  <2>1. ASSUME NEW s \in Slugs PROVE TellsOf(index, topics, s)
    <3>1. topics[s] = NoFile /\ Len(index) = 0
      BY <1>2
    <3>2. s \notin SlugsOf(index)
      BY NoSlugs
    <3>. QED BY <3>1, <3>2 DEF TellsOf
  <2>. QED BY <2>1 DEF AllTold
<1>6. Company /\ Agreed
  BY <1>4, <1>5 DEF Company, Agreed
<1>7. SizeOf(index) <= Cap
  BY <1>2, MemoryAssumption
<1>8. Distinct(index)
  BY <1>2 DEF Distinct
<1>. QED BY <1>1, <1>3, <1>4, <1>6, <1>7, <1>8 DEF MemoryInv

\* An operation goes on, or ends.
LEMMA OperationMoves ==
  ASSUME MemoryInv, NEW p \in Processes, Busy(p), NEW o \in Operations,
         op' = [op EXCEPT ![p] = o], Knows(o),
         topics' \in [Slugs -> Int], doubt' \in SUBSET Slugs,
         index' \in Seq(LineOf), SizeOf(index') <= Cap, Distinct(index'),
         o.pc # "idle" => o.alone = op[p].alone,
         ~op[p].alone => doubt' = Slugs,
         op[p].alone /\ o.pc = "idle" => AllTold(index', topics', doubt'),
         op[p].alone /\ o.pc # "idle" => Midway(o, topics', index', doubt')
  PROVE  MemoryInv'
<1>1. /\ op \in [Processes -> Operations] /\ Company /\ Agreed
      /\ \A q \in Processes : Knows(op[q])
  BY DEF MemoryInv, MemoryTyped
<1>2. op' \in [Processes -> Operations] /\ op'[p] = o /\ \A q \in Processes \ {p} : op'[q] = op[q]
  BY <1>1
<1>3. MemoryTyped'
  BY <1>2 DEF MemoryTyped
<1>4. \A q \in Processes : Knows(op'[q])
  BY <1>1, <1>2
<1>5. /\ Busy(p)' <=> o.pc # "idle"
      /\ \A q \in Processes \ {p} : Busy(q)' <=> Busy(q)
  BY <1>2 DEF Busy
<1>6. op[p].alone => \A q \in Processes \ {p} : ~Busy(q)
  BY <1>1 DEF Company
<1>7. \A q \in Processes \ {p} : Busy(q) => ~op[q].alone
  BY <1>1 DEF Company
<1>8. Company'
  <2>1. ASSUME NEW q \in Processes, Busy(q)', op'[q].alone
        PROVE  \A r \in Processes \ {q} : ~Busy(r)'
    BY <1>2, <1>5, <1>6, <1>7, <2>1
  <2>2. ASSUME NEW q \in Processes, Busy(q)', ~op'[q].alone
        PROVE  doubt' = Slugs
    BY <1>2, <1>5, <1>6, <2>2
  <2>. QED BY <2>1, <2>2 DEF Company
<1>9. Agreed'
  <2>1. ASSUME \A q \in Processes : ~Busy(q)'
        PROVE  AllTold(index', topics', doubt')
    <3>1. CASE op[p].alone
      BY <1>5, <2>1, <3>1
    <3>2. CASE ~op[p].alone
      BY <3>2 DEF AllTold
    <3>. QED BY <3>1, <3>2
  <2>2. ASSUME NEW q \in Processes, Busy(q)', op'[q].alone
        PROVE  Midway(op'[q], topics', index', doubt')
    BY <1>2, <1>5, <1>7, <2>2
  <2>3. AllTold(index, topics, doubt)' <=> AllTold(index', topics', doubt')
    BY DEF AllTold, TellsOf
  <2>4. \A q \in Processes : Midway(op[q], topics, index, doubt)' <=> Midway(op'[q], topics', index', doubt')
    BY DEF Midway, AllTold, TellsOf, AboutOf
  <2>. QED BY <2>1, <2>2, <2>3, <2>4 DEF Agreed
<1>10. (\A q \in Processes : Knows(op[q]))'
  BY <1>4 DEF Knows
<1>11. (SizeOf(index) <= Cap)' /\ Distinct(index)'
  BY DEF Distinct
<1>. QED BY <1>3, <1>8, <1>9, <1>10, <1>11 DEF MemoryInv


\* An operation begins at the file of one slug.
LEMMA OperationBegins ==
  ASSUME MemoryInv, NEW p \in Processes, NEW o \in Operations, Begins(p, o),
         o.pc \in {"topic", "unlist"}, o.alone = TRUE, Knows(o),
         NEW s \in Slugs, AboutOf(o) = {s},
         NEW n \in Int, topics' = [topics EXCEPT ![s] = n],
         o.pc = "unlist" => n = NoFile
  PROVE  MemoryInv'
<1>1. /\ MemoryTyped /\ Company /\ Agreed /\ \A q \in Processes : Knows(op[q])
      /\ SizeOf(index) <= Cap /\ Distinct(index)
  BY DEF MemoryInv
<1>2. ~Busy(p) /\ index' = index
  BY DEF Begins
<1>3. op \in [Processes -> Operations] /\ index \in Seq(LineOf)
      /\ topics \in [Slugs -> Int] /\ doubt \in SUBSET Slugs
  BY <1>1 DEF MemoryTyped
<1>4. topics' \in [Slugs -> Int] /\ topics'[s] = n
      /\ \A r \in Slugs \ {s} : topics'[r] = topics[r]
  BY <1>3
<1>5. CASE \E q \in Processes : Busy(q)
  <2>1. /\ doubt' = Slugs
        /\ op' = [q \in Processes |->
                    [(IF q = p THEN o ELSE op[q]) EXCEPT !.alone = FALSE]]
    BY <1>5 DEF Begins
  <2>2. ASSUME NEW x \in Operations, Knows(x)
        PROVE  /\ [x EXCEPT !.alone = FALSE] \in Operations
               /\ Knows([x EXCEPT !.alone = FALSE])
               /\ [x EXCEPT !.alone = FALSE].alone = FALSE
    <3>. DEFINE y == [x EXCEPT !.alone = FALSE]
    <3>1. /\ y.pc = x.pc /\ y.line = x.line /\ y.lines = x.lines
          /\ y.evicted = x.evicted /\ y.fresh = x.fresh /\ y.alone = FALSE
      BY DEF Operations
    <3>2. y \in Operations
      BY DEF Operations
    <3>. HIDE DEF y
    <3>3. Knows(y)
      BY <2>2, <3>1 DEF Knows
    <3>. QED BY <3>1, <3>2, <3>3 DEF y
  <2>3. \A q \in Processes : op'[q] \in Operations /\ Knows(op'[q]) /\ op'[q].alone = FALSE
    <3>. SUFFICES ASSUME NEW q \in Processes
                  PROVE  op'[q] \in Operations /\ Knows(op'[q]) /\ op'[q].alone = FALSE
      OBVIOUS
    <3>. DEFINE x == IF q = p THEN o ELSE op[q]
    <3>1. x \in Operations /\ Knows(x)
      BY <1>1, <1>3
    <3>2. op'[q] = [x EXCEPT !.alone = FALSE]
      BY <2>1
    <3>. HIDE DEF x
    <3>. QED BY <2>2, <3>1, <3>2
  <2>4. DOMAIN op' = Processes
    BY <2>1
  <2>5. MemoryTyped'
    <3>1. op' \in [Processes -> Operations]
      BY <2>1, <2>3
    <3>. QED BY <1>2, <1>3, <1>4, <2>1, <3>1 DEF MemoryTyped
  <2>6. Company'
    BY <2>1, <2>3 DEF Company
  <2>7. Agreed'
    <3>1. AllTold(index, topics, doubt)'
      BY <2>1 DEF AllTold
    <3>. QED BY <2>3, <3>1 DEF Agreed
  <2>8. (\A q \in Processes : Knows(op[q]))'
    BY <2>3 DEF Knows
  <2>9. (SizeOf(index) <= Cap)' /\ Distinct(index)'
    BY <1>1, <1>2 DEF Distinct
  <2>. QED BY <2>5, <2>6, <2>7, <2>8, <2>9 DEF MemoryInv
<1>6. CASE \A q \in Processes : ~Busy(q)
  <2>1. op' = [op EXCEPT ![p] = o] /\ doubt' = doubt
    BY <1>6 DEF Begins
  <2>2. /\ op' \in [Processes -> Operations] /\ op'[p] = o
        /\ \A q \in Processes \ {p} : op'[q] = op[q]
    BY <1>3, <2>1
  <2>3. MemoryTyped'
    BY <1>2, <1>3, <1>4, <2>1, <2>2 DEF MemoryTyped
  <2>4. /\ Busy(p)' /\ \A q \in Processes \ {p} : ~Busy(q)'
    BY <1>6, <2>2 DEF Busy
  <2>5. Company'
    BY <2>2, <2>4 DEF Company
  <2>6. AllTold(index, topics, doubt)
    BY <1>1, <1>6 DEF Agreed
  <2>7. AllTold(index', topics', doubt' \cup {s})
    <3>1. ASSUME NEW r \in Slugs \ (doubt \cup {s}) PROVE TellsOf(index, topics', r)
      <4>1. TellsOf(index, topics, r) /\ topics'[r] = topics[r]
        BY <1>4, <2>6 DEF AllTold
      <4>. QED BY <4>1 DEF TellsOf
    <3>. QED BY <1>2, <2>1, <3>1 DEF AllTold
  <2>8. Midway(o, topics', index', doubt')
    <3>1. o.pc = "unlist" => \A r \in o.evicted : topics'[r] = NoFile
      <4>1. o.evicted \subseteq {s}
        BY DEF AboutOf
      <4>. QED BY <1>4, <4>1
    <3>. QED BY <2>7, <3>1 DEF Midway
  <2>9. Agreed'
    <3>1. Midway(op[p], topics, index, doubt)' <=> Midway(op'[p], topics', index', doubt')
      BY DEF Midway, AllTold, TellsOf, AboutOf
    <3>. QED BY <2>2, <2>4, <2>8, <3>1 DEF Agreed
  <2>10. (\A q \in Processes : Knows(op[q]))'
    BY <1>1, <2>2 DEF Knows
  <2>11. (SizeOf(index) <= Cap)' /\ Distinct(index)'
    BY <1>1, <1>2 DEF Distinct
  <2>. QED BY <2>3, <2>5, <2>9, <2>10, <2>11 DEF MemoryInv
<1>. QED BY <1>5, <1>6

\* What is fixed of an idle operation and of one that begins.
LEMMA NoOpIs ==
  /\ NoOp \in Operations /\ Knows(NoOp) /\ NoOp.pc = "idle" /\ NoOp.alone = TRUE
  /\ NoOp.line = <<>> /\ NoOp.evicted = {} /\ NoOp.fresh = FALSE
<1>1. <<>> \in Seq(LineOf)
  OBVIOUS
<1>. QED BY <1>1 DEF NoOp, Operations, Knows

LEMMA TopicOpened ==
  ASSUME MemoryInv, NEW p \in Processes, NEW s \in Slugs, NEW n \in Lengths, OpenTopic(p, s, n)
  PROVE  MemoryInv'
<1>. DEFINE o == [NoOp EXCEPT !.pc = "topic", !.line = <<Line(s, n)>>]
<1>1. Line(s, n) \in LineOf /\ Line(s, n).slug = s
  BY DEF Line, LineOf
<1>2. /\ o.pc = "topic" /\ o.line = <<Line(s, n)>> /\ o.evicted = {} /\ o.alone = TRUE
      /\ o \in Operations
  <2>1. <<Line(s, n)>> \in Seq(LineOf)
    BY <1>1
  <2>. QED BY <2>1, NoOpIs DEF Operations
<1>3. Begins(p, o) /\ topics' = [topics EXCEPT ![s] = Torn] /\ Torn \in Int
  BY DEF OpenTopic, Torn
<1>. HIDE DEF o
<1>4. Len(o.line) = 1 /\ o.line[1] = Line(s, n) /\ o.line \in Seq(LineOf)
  BY <1>1, <1>2
<1>5. Knows(o)
  BY <1>2, <1>4 DEF Knows
<1>6. AboutOf(o) = {s}
  <2>1. \A r : r \in SlugsOf(o.line) <=> r = s
    BY <1>1, <1>4, SlugsAre
  <2>. QED BY <1>2, <2>1 DEF AboutOf
<1>. QED BY <1>2, <1>3, <1>5, <1>6, OperationBegins

LEMMA FactDeleted ==
  ASSUME MemoryInv, NEW p \in Processes, NEW s \in Slugs, Delete(p, s)
  PROVE  MemoryInv'
<1>. DEFINE o == [NoOp EXCEPT !.pc = "unlist", !.evicted = {s}]
<1>1. /\ o.pc = "unlist" /\ o.line = <<>> /\ o.evicted = {s} /\ o.alone = TRUE
      /\ o.fresh = FALSE /\ o \in Operations
  BY NoOpIs DEF Operations
<1>2. Begins(p, o) /\ topics' = [topics EXCEPT ![s] = NoFile] /\ NoFile \in Int
  BY DEF Delete, NoFile
<1>. HIDE DEF o
<1>3. Knows(o)
  BY <1>1 DEF Knows
<1>4. AboutOf(o) = {s}
  <2>1. SlugsOf(o.line) = {}
    BY <1>1, NoSlugs
  <2>. QED BY <1>1, <2>1 DEF AboutOf
<1>. QED BY <1>1, <1>2, <1>3, <1>4, OperationBegins

\* What is known of a process that is in an operation.
LEMMA OperationIs ==
  ASSUME MemoryInv, NEW p \in Processes
  PROVE  LET o == op[p] IN
         /\ o \in Operations /\ Knows(o) /\ About(p) = AboutOf(o) /\ About(p) \subseteq Slugs
         /\ o.line \in Seq(LineOf) /\ o.lines \in Seq(LineOf) /\ o.evicted \subseteq Slugs
         /\ Len(o.line) = 1 =>
              /\ o.line[1] \in LineOf /\ o.line[1].slug \in Slugs
              /\ o.line[1].length \in Nat \ {0}
              /\ SlugsOf(o.line) = {o.line[1].slug}
         /\ topics \in [Slugs -> Int] /\ index \in Seq(LineOf) /\ doubt \in SUBSET Slugs
         /\ op \in [Processes -> Operations]
         /\ SizeOf(index) <= Cap /\ Distinct(index)
         /\ Busy(p) /\ ~o.alone => doubt = Slugs
         /\ Busy(p) /\ o.alone => Midway(o, topics, index, doubt)
<1>. DEFINE o == op[p]
<1>1. /\ topics \in [Slugs -> Int] /\ index \in Seq(LineOf) /\ doubt \in SUBSET Slugs
      /\ op \in [Processes -> Operations] /\ SizeOf(index) <= Cap /\ Distinct(index)
  BY DEF MemoryInv, MemoryTyped
<1>2. o \in Operations /\ Knows(o) /\ About(p) = AboutOf(o)
  BY <1>1 DEF MemoryInv, About, AboutOf
<1>. HIDE DEF o
<1>3. o.line \in Seq(LineOf) /\ o.lines \in Seq(LineOf) /\ o.evicted \subseteq Slugs
  BY <1>2 DEF Operations
<1>4. AboutOf(o) \subseteq Slugs
  <2>1. \A i \in 1..Len(o.line) : o.line[i].slug \in Slugs
    <3>1. \A i \in 1..Len(o.line) : o.line[i] \in LineOf
      BY <1>3
    <3>. QED BY <3>1 DEF LineOf
  <2>2. \A s \in SlugsOf(o.line) : s \in Slugs
    BY <1>3, <2>1, SlugsAre
  <2>. QED BY <1>3, <2>2 DEF AboutOf
<1>5. ASSUME Len(o.line) = 1
      PROVE  /\ o.line[1] \in LineOf /\ o.line[1].slug \in Slugs
             /\ o.line[1].length \in Nat \ {0}
             /\ SlugsOf(o.line) = {o.line[1].slug}
  <2>1. o.line[1] \in LineOf
    BY <1>3, <1>5
  <2>2. \A s : s \in SlugsOf(o.line) <=> s = o.line[1].slug
    BY <1>3, <1>5, SlugsAre
  <2>. QED BY <2>1, <2>2, MemoryAssumption DEF LineOf
<1>6. /\ Busy(p) /\ ~o.alone => doubt = Slugs
      /\ Busy(p) /\ o.alone => Midway(o, topics, index, doubt)
  BY DEF MemoryInv, Company, Agreed, o
<1>. QED BY <1>1, <1>2, <1>3, <1>4, <1>5, <1>6 DEF o

\* A file of a slug in doubt changes.
LEMMA ToldElsewhere ==
  ASSUME NEW lines, NEW unsure, NEW s \in unsure, NEW n, NEW files \in [Slugs -> Int],
         AllTold(lines, files, unsure)
  PROVE  AllTold(lines, [files EXCEPT ![s] = n], unsure)
<1>. DEFINE t == [files EXCEPT ![s] = n]
<1>1. \A r \in Slugs \ unsure : t[r] = files[r] /\ TellsOf(lines, files, r)
  BY DEF AllTold
<1>. HIDE DEF t
<1>2. AllTold(lines, t, unsure)
  BY <1>1 DEF AllTold, TellsOf
<1>. QED BY <1>2 DEF t

\* The noted line tells of its slug.
LEMMA NotedTells ==
  ASSUME NEW lines \in Seq(LineOf), Distinct(lines), NEW line \in LineOf,
         NEW files \in [Slugs -> Int], files[line.slug] = line.length,
         NEW unsure, AllTold(lines, files, unsure \cup {line.slug})
  PROVE  AllTold(Noted(lines, line), files, unsure \ {line.slug})
<1>. DEFINE noted == Noted(lines, line)
<1>1. /\ noted \in Seq(LineOf) /\ Distinct(noted)
      /\ \E i \in 1..Len(noted) : noted[i] = line
      /\ \A i \in 1..Len(noted) : noted[i] = line \/ \E j \in 1..Len(lines) : noted[i] = lines[j]
      /\ \A j \in 1..Len(lines) :
           lines[j].slug # line.slug => \E i \in 1..Len(noted) : noted[i] = lines[j]
  BY NotedIs
<1>. HIDE DEF noted
<1>2. line.length \in Nat
  BY MemoryAssumption DEF LineOf
<1>3. TellsOf(noted, files, line.slug)
  <2>1. PICK i \in 1..Len(noted) : noted[i] = line
    BY <1>1
  <2>2. \A j \in 1..Len(noted) : noted[j].slug = line.slug => noted[j] = line
    BY <1>1, <2>1 DEF Distinct
  <2>3. line.slug \in SlugsOf(noted)
    BY <1>1, <2>1, SlugsAre
  <2>. QED BY <1>2, <2>2, <2>3 DEF TellsOf, NoFile
<1>4. ASSUME NEW s \in Slugs \ unsure, s # line.slug PROVE TellsOf(noted, files, s)
  <2>1. TellsOf(lines, files, s)
    BY <1>4 DEF AllTold
  <2>2. s \in SlugsOf(noted) <=> s \in SlugsOf(lines)
    <3>1. ASSUME s \in SlugsOf(noted) PROVE s \in SlugsOf(lines)
      <4>1. PICK i \in 1..Len(noted) : noted[i].slug = s
        BY <1>1, <3>1, SlugsAre
      <4>2. PICK j \in 1..Len(lines) : noted[i] = lines[j]
        BY <1>1, <1>4, <4>1
      <4>. QED BY <4>1, <4>2, SlugsAre
    <3>2. ASSUME s \in SlugsOf(lines) PROVE s \in SlugsOf(noted)
      <4>1. PICK j \in 1..Len(lines) : lines[j].slug = s
        BY <3>2, SlugsAre
      <4>2. PICK i \in 1..Len(noted) : noted[i] = lines[j]
        BY <1>1, <1>4, <4>1
      <4>. QED BY <1>1, <4>1, <4>2, SlugsAre
    <3>. QED BY <3>1, <3>2
  <2>3. \A i \in 1..Len(noted) : noted[i].slug = s => noted[i].length = files[s]
    BY <1>1, <1>4, <2>1 DEF TellsOf
  <2>. QED BY <2>1, <2>2, <2>3 DEF TellsOf
<1>5. AllTold(noted, files, unsure \ {line.slug})
  BY <1>3, <1>4 DEF AllTold
<1>. QED BY <1>5 DEF noted

\* The lines without slugs whose files are gone tell of them.
LEMMA WithoutTells ==
  ASSUME NEW lines \in Seq(LineOf), NEW files, NEW slugs,
         \A s \in slugs : files[s] = NoFile,
         NEW unsure, AllTold(lines, files, unsure \cup slugs)
  PROVE  AllTold(Without(lines, slugs), files, unsure \ slugs)
<1>. DEFINE kept == Without(lines, slugs)
<1>1. /\ kept \in Seq(LineOf)
      /\ \A i \in 1..Len(kept) :
           kept[i].slug \notin slugs /\ \E j \in 1..Len(lines) : kept[i] = lines[j]
      /\ \A j \in 1..Len(lines) :
           lines[j].slug \notin slugs => \E i \in 1..Len(kept) : kept[i] = lines[j]
  BY WithoutIs
<1>. HIDE DEF kept
<1>2. ASSUME NEW s \in slugs PROVE TellsOf(kept, files, s)
  <2>1. s \notin SlugsOf(kept)
    BY <1>1, SlugsAre
  <2>. QED BY <1>1, <2>1 DEF TellsOf
<1>3. ASSUME NEW s \in Slugs \ unsure, s \notin slugs PROVE TellsOf(kept, files, s)
  <2>1. TellsOf(lines, files, s)
    BY <1>3 DEF AllTold
  <2>2. s \in SlugsOf(kept) <=> s \in SlugsOf(lines)
    <3>1. ASSUME s \in SlugsOf(kept) PROVE s \in SlugsOf(lines)
      <4>1. PICK i \in 1..Len(kept) : kept[i].slug = s
        BY <1>1, <3>1, SlugsAre
      <4>2. PICK j \in 1..Len(lines) : kept[i] = lines[j]
        BY <1>1, <4>1
      <4>. QED BY <4>1, <4>2, SlugsAre
    <3>2. ASSUME s \in SlugsOf(lines) PROVE s \in SlugsOf(kept)
      <4>1. PICK j \in 1..Len(lines) : lines[j].slug = s
        BY <3>2, SlugsAre
      <4>2. PICK i \in 1..Len(kept) : kept[i] = lines[j]
        BY <1>1, <1>3, <4>1
      <4>. QED BY <1>1, <4>1, <4>2, SlugsAre
    <3>. QED BY <3>1, <3>2
  <2>3. \A i \in 1..Len(kept) : kept[i].slug = s => kept[i].length = files[s]
    BY <1>1, <2>1 DEF TellsOf
  <2>. QED BY <2>1, <2>2, <2>3 DEF TellsOf
<1>4. AllTold(kept, files, unsure \ slugs)
  BY <1>2, <1>3 DEF AllTold
<1>. QED BY <1>4 DEF kept

\* The line whose file is deleted goes with it.
LEMMA TailTells ==
  ASSUME NEW lines \in Seq(LineOf), lines # <<>>, Distinct(lines),
         NEW files \in [Slugs -> Int], NEW unsure, AllTold(lines, files, unsure)
  PROVE  AllTold(Tail(lines), [files EXCEPT ![lines[1].slug] = NoFile],
                 unsure \ {lines[1].slug})
<1>. DEFINE t == Tail(lines)
            e == lines[1].slug
            gone == [files EXCEPT ![e] = NoFile]
<1>1. /\ t \in Seq(LineOf) /\ Len(t) = Len(lines) - 1 /\ Len(lines) \in Nat
      /\ e \in Slugs
      /\ \A i \in 1..Len(t) : t[i] = lines[i + 1]
      /\ \A i \in 1..Len(t) : t[i].slug # e
      /\ \A j \in 1..Len(lines) :
           lines[j].slug # e => \E i \in 1..Len(t) : t[i] = lines[j]
  BY TailIs DEF LineOf
<1>2. gone[e] = NoFile /\ \A s \in Slugs \ {e} : gone[s] = files[s]
  BY <1>1
<1>. HIDE DEF t, e, gone
<1>3. TellsOf(t, gone, e)
  <2>1. e \notin SlugsOf(t)
    BY <1>1, SlugsAre
  <2>. QED BY <1>1, <1>2, <2>1 DEF TellsOf
<1>4. ASSUME NEW s \in Slugs \ unsure, s # e PROVE TellsOf(t, gone, s)
  <2>1. TellsOf(lines, files, s) /\ gone[s] = files[s]
    BY <1>2, <1>4 DEF AllTold
  <2>2. \A i \in 1..Len(t) : i + 1 \in 1..Len(lines)
    BY <1>1
  <2>3. s \in SlugsOf(t) <=> s \in SlugsOf(lines)
    <3>1. ASSUME s \in SlugsOf(t) PROVE s \in SlugsOf(lines)
      <4>1. PICK i \in 1..Len(t) : t[i].slug = s
        BY <1>1, <3>1, SlugsAre
      <4>. QED BY <1>1, <2>2, <4>1, SlugsAre
    <3>2. ASSUME s \in SlugsOf(lines) PROVE s \in SlugsOf(t)
      <4>1. PICK j \in 1..Len(lines) : lines[j].slug = s
        BY <3>2, SlugsAre
      <4>2. PICK i \in 1..Len(t) : t[i] = lines[j]
        BY <1>1, <1>4, <4>1
      <4>. QED BY <1>1, <4>1, <4>2, SlugsAre
    <3>. QED BY <3>1, <3>2
  <2>4. \A i \in 1..Len(t) : t[i].slug = s => t[i].length = files[s]
    BY <1>1, <2>1, <2>2, SMTT(30) DEF TellsOf
  <2>. QED BY <2>1, <2>3, <2>4 DEF TellsOf
<1>5. AllTold(t, gone, unsure \ {e})
  BY <1>3, <1>4 DEF AllTold
<1>. QED BY <1>5 DEF t, e, gone

LEMMA TopicFilled ==
  ASSUME MemoryInv, NEW p \in Processes, FillTopic(p)
  PROVE  MemoryInv'
<1>. DEFINE x == op[p]
            o == [op[p] EXCEPT !.pc = "read"]
<1>1. /\ x.pc = "topic" /\ op' = [op EXCEPT ![p] = o] /\ index' = index /\ doubt' = doubt
      /\ topics' = [topics EXCEPT ![x.line[1].slug] = x.line[1].length]
  BY DEF FillTopic
<1>2. Busy(p)
  BY <1>1 DEF Busy
<1>3. /\ x \in Operations /\ Knows(x) /\ AboutOf(x) \subseteq Slugs
      /\ topics \in [Slugs -> Int] /\ index \in Seq(LineOf) /\ doubt \in SUBSET Slugs
      /\ SizeOf(index) <= Cap /\ Distinct(index)
      /\ ~x.alone => doubt = Slugs
      /\ x.alone => Midway(x, topics, index, doubt)
  BY <1>2, OperationIs
<1>4. /\ Len(x.line) = 1 /\ x.line[1].slug \in Slugs /\ x.line[1].length \in Nat \ {0}
      /\ SlugsOf(x.line) = {x.line[1].slug} /\ x.evicted = {}
  <2>1. Len(x.line) = 1 /\ x.evicted = {}
    BY <1>1, <1>3 DEF Knows
  <2>. QED BY <2>1, OperationIs
<1>5. /\ o \in Operations /\ o.pc = "read" /\ o.line = x.line /\ o.evicted = x.evicted
      /\ o.alone = x.alone
  BY <1>3 DEF Operations
<1>. HIDE DEF o
<1>6. Knows(o)
  BY <1>4, <1>5 DEF Knows
<1>7. AboutOf(o) = AboutOf(x) /\ x.line[1].slug \in AboutOf(x)
  BY <1>4, <1>5 DEF AboutOf
<1>8. topics' \in [Slugs -> Int] /\ topics'[x.line[1].slug] = x.line[1].length
  BY <1>1, <1>3, <1>4
<1>9. ASSUME x.alone PROVE Midway(o, topics', index', doubt')
  <2>1. AllTold(index, topics, doubt \cup AboutOf(x))
    BY <1>1, <1>3, <1>9 DEF Midway
  <2>2. AllTold(index, topics', doubt \cup AboutOf(x))
    BY <1>1, <1>3, <1>7, <2>1, ToldElsewhere
  <2>. QED BY <1>1, <1>5, <1>7, <1>8, <2>2 DEF Midway
<1>. QED BY <1>1, <1>2, <1>3, <1>5, <1>6, <1>8, <1>9, OperationMoves

LEMMA IndexRead ==
  ASSUME MemoryInv, NEW p \in Processes, ReadIndex(p)
  PROVE  MemoryInv'
<1>. DEFINE x == op[p]
            line == x.line[1]
            noted == Noted(index, line)
            o == [op[p] EXCEPT !.pc = "cap", !.lines = noted, !.fresh = line.slug \notin Listed]
<1>1. /\ x.pc = "read" /\ op' = [op EXCEPT ![p] = o]
      /\ topics' = topics /\ index' = index /\ doubt' = doubt
  BY DEF ReadIndex
<1>2. Busy(p)
  BY <1>1 DEF Busy
<1>3. /\ x \in Operations /\ Knows(x) /\ AboutOf(x) \subseteq Slugs
      /\ topics \in [Slugs -> Int] /\ index \in Seq(LineOf) /\ doubt \in SUBSET Slugs
      /\ SizeOf(index) <= Cap /\ Distinct(index)
      /\ ~x.alone => doubt = Slugs
      /\ x.alone => Midway(x, topics, index, doubt)
  BY <1>2, OperationIs
<1>4. /\ Len(x.line) = 1 /\ line \in LineOf /\ SlugsOf(x.line) = {line.slug} /\ x.evicted = {}
  <2>1. Len(x.line) = 1 /\ x.evicted = {}
    BY <1>1, <1>3 DEF Knows
  <2>. QED BY <2>1, OperationIs
<1>5. /\ noted \in Seq(LineOf) /\ Distinct(noted)
      /\ line.slug \notin Listed => noted = Append(index, line)
  BY <1>3, <1>4, NotedIs DEF Listed
<1>6. /\ o \in Operations /\ o.pc = "cap" /\ o.line = x.line /\ o.evicted = x.evicted
      /\ o.alone = x.alone /\ o.lines = noted /\ o.fresh = (line.slug \notin Listed)
  <2>1. (line.slug \notin Listed) \in BOOLEAN
    OBVIOUS
  <2>. HIDE DEF noted
  <2>. QED BY <1>3, <1>5, <2>1 DEF Operations
<1>. HIDE DEF o, noted
<1>7. Knows(o)
  <2>1. ASSUME o.fresh PROVE o.lines # <<>> /\ o.lines[Len(o.lines)] = line
    <3>1. o.lines = Append(index, line)
      BY <1>5, <1>6, <2>1
    <3>. QED BY <1>3, <1>4, <3>1
  <2>2. o.line # <<>>
    BY <1>4, <1>6
  <2>. QED BY <1>4, <1>5, <1>6, <2>1, <2>2 DEF Knows
<1>8. AboutOf(o) = {line.slug} /\ AboutOf(x) = {line.slug}
  BY <1>4, <1>6 DEF AboutOf
<1>9. ASSUME x.alone PROVE Midway(o, topics', index', doubt')
  <2>1. AllTold(index, topics, doubt \cup {line.slug}) /\ topics[line.slug] = line.length
    BY <1>1, <1>3, <1>8, <1>9 DEF Midway
  <2>2. AllTold(noted, topics, doubt \ {line.slug})
    BY <1>3, <1>4, <2>1, NotedTells DEF noted
  <2>. QED BY <1>1, <1>6, <1>8, <2>1, <2>2 DEF Midway
<1>. QED BY <1>1, <1>2, <1>3, <1>6, <1>7, <1>9, OperationMoves

LEMMA OldestDropped ==
  ASSUME MemoryInv, NEW p \in Processes, DropOldest(p)
  PROVE  MemoryInv'
<1>. DEFINE x == op[p]
            lines == x.lines
            e == lines[1].slug
            o == [op[p] EXCEPT !.lines = Tail(lines), !.evicted = x.evicted \cup {e}]
<1>1. /\ x.pc = "cap" /\ lines # <<>> /\ SizeOf(lines) > Cap
      /\ topics' = [topics EXCEPT ![e] = NoFile]
      /\ index' = index /\ doubt' = doubt
  BY DEF DropOldest, Oversized
<1>2. Busy(p)
  BY <1>1 DEF Busy
<1>3. /\ x \in Operations /\ Knows(x) /\ AboutOf(x) \subseteq Slugs
      /\ x.lines \in Seq(LineOf) /\ x.evicted \subseteq Slugs
      /\ topics \in [Slugs -> Int] /\ index \in Seq(LineOf) /\ doubt \in SUBSET Slugs
      /\ op \in [Processes -> Operations]
      /\ SizeOf(index) <= Cap /\ Distinct(index)
      /\ ~x.alone => doubt = Slugs
      /\ x.alone => Midway(x, topics, index, doubt)
  BY <1>2, OperationIs
<1>4. op' = [op EXCEPT ![p] = o]
  BY <1>3 DEF DropOldest
<1>5. Distinct(lines)
  BY <1>1, <1>3 DEF Knows
<1>6. /\ lines[1] \in LineOf /\ Len(lines) \in Nat /\ Len(lines) > 0
      /\ Tail(lines) \in Seq(LineOf) /\ Len(Tail(lines)) = Len(lines) - 1
      /\ \A i \in 1..Len(Tail(lines)) : Tail(lines)[i] = lines[i + 1]
      /\ Distinct(Tail(lines))
  BY <1>1, <1>3, <1>5, TailIs
<1>7. e \in Slugs /\ lines[1].length \in Nat
  BY <1>6, MemoryAssumption DEF LineOf
<1>8. /\ o \in Operations /\ o.pc = "cap" /\ o.line = x.line /\ o.evicted = x.evicted \cup {e}
      /\ o.alone = x.alone /\ o.lines = Tail(lines) /\ o.fresh = x.fresh
  <2>1. x.evicted \cup {e} \in SUBSET Slugs
    BY <1>3, <1>7
  <2>. HIDE DEF e, lines
  <2>. QED BY <1>1, <1>3, <1>6, <2>1 DEF Operations
<1>. HIDE DEF o
<1>9. x.line # <<>>
  <2>1. SizeOf(lines) \in Nat
    BY <1>3, <1>6, SizeOn
  <2>. QED BY <1>1, <1>3, <2>1, MemoryAssumption DEF Knows
<1>10. Knows(o)
  <2>1. ASSUME x.fresh
        PROVE  /\ Len(x.line) = 1
               /\ \/ x.line[1].length > Cap
                  \/ Tail(lines) # <<>> /\ Tail(lines)[Len(Tail(lines))] = x.line[1]
    <3>1. /\ Len(x.line) = 1
          /\ \/ x.line[1].length > Cap
             \/ lines[Len(lines)] = x.line[1]
      BY <1>1, <1>3, <2>1 DEF Knows
    <3>2. CASE Len(lines) = 1
      <4>1. lines = Append(<<>>, lines[1]) /\ <<>> \in Seq(LineOf)
        BY <1>3, <1>6, <3>2
      <4>2. SizeOf(lines) = 0 + lines[1].length
        BY <1>6, <4>1, SizeOn
      <4>. QED BY <1>1, <1>7, <3>1, <3>2, <4>2
    <3>3. CASE Len(lines) # 1
      <4>. DEFINE t == Tail(lines)
      <4>1. /\ t \in Seq(LineOf) /\ Len(t) = Len(lines) - 1
            /\ \A i \in 1..Len(t) : t[i] = lines[i + 1]
        BY <1>6
      <4>. HIDE DEF t, lines
      <4>2. Len(t) \in 1..Len(t) /\ Len(t) + 1 = Len(lines)
        BY <1>6, <3>3, <4>1
      <4>3. t[Len(t)] = lines[Len(lines)]
        BY <4>1, <4>2
      <4>4. t # <<>>
        BY <4>1, <4>2
      <4>5. x.line[1].length > Cap \/ (t # <<>> /\ t[Len(t)] = x.line[1])
        BY <3>1, <4>3, <4>4
      <4>. QED BY <3>1, <4>5 DEF t
    <3>. QED BY <3>2, <3>3
  <2>. QED BY <1>6, <1>8, <1>9, <2>1 DEF Knows
<1>11. AboutOf(o) = AboutOf(x) \cup {e}
  BY <1>8 DEF AboutOf
<1>12. topics' \in [Slugs -> Int]
  <2>1. NoFile \in Int
    BY DEF NoFile
  <2>. HIDE DEF e, lines
  <2>. QED BY <1>1, <1>3, <2>1
<1>13. ASSUME x.alone PROVE Midway(o, topics', index', doubt')
  <2>1. /\ AllTold(index, topics, doubt \cup AboutOf(x))
        /\ AllTold(lines, topics, doubt \ AboutOf(x))
    BY <1>1, <1>3, <1>13 DEF Midway
  <2>2. AllTold(index, topics, doubt \cup AboutOf(o))
    BY <1>11, <2>1 DEF AllTold
  <2>3. AllTold(index, topics', doubt \cup AboutOf(o))
    <3>1. e \in doubt \cup AboutOf(o)
      BY <1>11
    <3>. QED BY <1>1, <1>3, <2>2, <3>1, ToldElsewhere
  <2>4. AllTold(Tail(lines), topics', (doubt \ AboutOf(x)) \ {e})
    BY <1>1, <1>3, <1>5, <2>1, TailTells
  <2>5. (doubt \ AboutOf(x)) \ {e} = doubt \ AboutOf(o)
    BY <1>11
  <2>. QED BY <1>1, <1>8, <2>3, <2>4, <2>5 DEF Midway
<1>. HIDE DEF e, lines
<1>. QED BY <1>1, <1>2, <1>3, <1>4, <1>8, <1>10, <1>12, <1>13, OperationMoves

LEMMA FactUnlisted ==
  ASSUME MemoryInv, NEW p \in Processes, Unlist(p)
  PROVE  MemoryInv'
<1>. DEFINE x == op[p]
            kept == Without(index, x.evicted)
            o == [op[p] EXCEPT !.pc = "cap", !.lines = kept]
<1>1. /\ x.pc = "unlist" /\ topics' = topics /\ index' = index
      /\ \/ kept = index /\ op' = [op EXCEPT ![p] = NoOp] /\ doubt' = Settled(p)
         \/ op' = [op EXCEPT ![p] = o] /\ doubt' = doubt
  BY DEF Unlist
<1>2. Busy(p)
  BY <1>1 DEF Busy
<1>3. /\ x \in Operations /\ Knows(x) /\ AboutOf(x) \subseteq Slugs /\ About(p) = AboutOf(x)
      /\ topics \in [Slugs -> Int] /\ index \in Seq(LineOf) /\ doubt \in SUBSET Slugs
      /\ SizeOf(index) <= Cap /\ Distinct(index)
      /\ ~x.alone => doubt = Slugs
      /\ x.alone => Midway(x, topics, index, doubt)
  BY <1>2, OperationIs
<1>4. x.line = <<>> /\ x.fresh = FALSE /\ AboutOf(x) = x.evicted
  <2>1. x.line = <<>> /\ x.fresh = FALSE
    BY <1>1, <1>3 DEF Knows
  <2>. QED BY <2>1, NoSlugs DEF AboutOf
<1>5. kept \in Seq(LineOf) /\ SizeOf(kept) <= SizeOf(index) /\ Distinct(kept)
  BY <1>3, WithoutIs
<1>6. SizeOf(kept) <= Cap
  <2>1. SizeOf(kept) \in Nat /\ SizeOf(index) \in Nat
    <3>1. PICK g \in [0..Len(kept) -> Nat] : g[Len(kept)] = SizeOf(kept)
      BY <1>5, SizeFold
    <3>2. PICK h \in [0..Len(index) -> Nat] : h[Len(index)] = SizeOf(index)
      BY <1>3, SizeFold
    <3>3. Len(kept) \in 0..Len(kept) /\ Len(index) \in 0..Len(index)
      BY <1>3, <1>5
    <3>. QED BY <3>1, <3>2, <3>3
  <2>. QED BY <1>3, <1>5, <2>1, MemoryAssumption
<1>7. ASSUME x.alone PROVE /\ AllTold(index, topics, doubt \cup x.evicted)
                           /\ AllTold(kept, topics, doubt \ x.evicted)
  <2>1. /\ AllTold(index, topics, doubt \cup x.evicted)
        /\ \A s \in x.evicted : topics[s] = NoFile
    BY <1>1, <1>3, <1>4, <1>7 DEF Midway
  <2>. QED BY <1>3, <2>1, WithoutTells
<1>. HIDE DEF kept
<1>8. CASE kept = index /\ op' = [op EXCEPT ![p] = NoOp] /\ doubt' = Settled(p)
  <2>1. doubt' = IF x.alone THEN doubt \ x.evicted ELSE doubt
    BY <1>3, <1>4, <1>8 DEF Settled
  <2>2. doubt' \in SUBSET Slugs /\ (~x.alone => doubt' = Slugs)
    BY <1>3, <2>1
  <2>3. x.alone => AllTold(index', topics', doubt')
    BY <1>1, <1>7, <1>8, <2>1
  <2>. QED BY <1>1, <1>2, <1>3, <1>8, <2>2, <2>3, NoOpIs, OperationMoves
<1>9. CASE op' = [op EXCEPT ![p] = o] /\ doubt' = doubt
  <2>1. /\ o \in Operations /\ o.pc = "cap" /\ o.line = x.line /\ o.evicted = x.evicted
        /\ o.alone = x.alone /\ o.lines = kept /\ o.fresh = x.fresh
    BY <1>3, <1>5 DEF Operations
  <2>. HIDE DEF o
  <2>2. Knows(o)
    BY <1>4, <1>5, <1>6, <2>1 DEF Knows
  <2>3. AboutOf(o) = x.evicted
    BY <1>4, <2>1 DEF AboutOf
  <2>4. ASSUME x.alone PROVE Midway(o, topics', index', doubt')
    BY <1>1, <1>7, <1>9, <2>1, <2>3, <2>4 DEF Midway
  <2>. QED BY <1>1, <1>2, <1>3, <1>9, <2>1, <2>2, <2>4, OperationMoves
<1>. QED BY <1>1, <1>8, <1>9

LEMMA IndexOpened ==
  ASSUME MemoryInv, NEW p \in Processes, OpenIndex(p)
  PROVE  MemoryInv'
<1>. DEFINE x == op[p]
            o == [op[p] EXCEPT !.pc = "index"]
<1>1. /\ x.pc = "cap"
      /\ x.line # <<>> => (x.lines = <<>> \/ ~(SizeOf(x.lines) > Cap))
      /\ op' = [op EXCEPT ![p] = o] /\ topics' = topics /\ index' = <<>> /\ doubt' = doubt
  BY DEF OpenIndex, Oversized
<1>2. Busy(p)
  BY <1>1 DEF Busy
<1>3. /\ x \in Operations /\ Knows(x) /\ x.lines \in Seq(LineOf)
      /\ topics \in [Slugs -> Int] /\ doubt \in SUBSET Slugs
      /\ ~x.alone => doubt = Slugs
      /\ x.alone => Midway(x, topics, index, doubt)
  BY <1>2, OperationIs
<1>4. index' \in Seq(LineOf) /\ SizeOf(index') <= Cap /\ Distinct(index')
  <2>1. <<>> \in Seq(LineOf) /\ Len(<<>>) = 0
    OBVIOUS
  <2>2. SizeOf(<<>>) = 0
    BY <2>1, SizeFold
  <2>. QED BY <1>1, <2>1, <2>2, MemoryAssumption DEF Distinct
<1>5. SizeOf(x.lines) <= Cap
  <2>1. PICK g \in [0..Len(x.lines) -> Nat] : g[0] = 0 /\ g[Len(x.lines)] = SizeOf(x.lines)
    BY <1>3, SizeFold
  <2>2. Len(x.lines) \in 0..Len(x.lines) /\ (x.lines = <<>> => Len(x.lines) = 0)
    BY <1>3
  <2>3. SizeOf(x.lines) \in Nat /\ (x.lines = <<>> => SizeOf(x.lines) = 0)
    BY <2>1, <2>2
  <2>4. x.line = <<>> => SizeOf(x.lines) <= Cap
    BY <1>1, <1>3 DEF Knows
  <2>. QED BY <1>1, <2>3, <2>4, MemoryAssumption
<1>6. /\ o \in Operations /\ o.pc = "index" /\ o.line = x.line /\ o.evicted = x.evicted
      /\ o.alone = x.alone /\ o.lines = x.lines /\ o.fresh = x.fresh
  BY <1>3 DEF Operations
<1>. HIDE DEF o
<1>7. Knows(o)
  BY <1>1, <1>3, <1>5, <1>6 DEF Knows
<1>8. AboutOf(o) = AboutOf(x)
  BY <1>6 DEF AboutOf
<1>9. ASSUME x.alone PROVE Midway(o, topics', index', doubt')
  BY <1>1, <1>3, <1>6, <1>8, <1>9 DEF Midway
<1>. QED BY <1>1, <1>2, <1>3, <1>4, <1>6, <1>7, <1>9, OperationMoves

LEMMA IndexFilled ==
  ASSUME MemoryInv, NEW p \in Processes, FillIndex(p)
  PROVE  MemoryInv'
<1>. DEFINE x == op[p]
<1>1. /\ x.pc = "index" /\ op' = [op EXCEPT ![p] = NoOp]
      /\ topics' = topics /\ index' = x.lines /\ doubt' = Settled(p)
  BY DEF FillIndex
<1>2. Busy(p)
  BY <1>1 DEF Busy
<1>3. /\ Knows(x) /\ x.lines \in Seq(LineOf) /\ About(p) = AboutOf(x)
      /\ topics \in [Slugs -> Int] /\ doubt \in SUBSET Slugs
      /\ ~x.alone => doubt = Slugs
      /\ x.alone => Midway(x, topics, index, doubt)
  BY <1>2, OperationIs
<1>4. SizeOf(index') <= Cap /\ Distinct(index')
  BY <1>1, <1>3 DEF Knows
<1>5. doubt' = IF x.alone THEN doubt \ AboutOf(x) ELSE doubt
  BY <1>1, <1>3 DEF Settled
<1>6. doubt' \in SUBSET Slugs /\ (~x.alone => doubt' = Slugs)
  BY <1>3, <1>5
<1>7. x.alone => AllTold(index', topics', doubt')
  BY <1>1, <1>3, <1>5 DEF Midway
<1>. QED BY <1>1, <1>2, <1>3, <1>4, <1>6, <1>7, NoOpIs, OperationMoves

LEMMA ProcessDies ==
  ASSUME MemoryInv, NEW p \in Processes, Crash(p)
  PROVE  MemoryInv'
<1>. DEFINE x == op[p]
<1>1. /\ Busy(p) /\ op' = [op EXCEPT ![p] = NoOp] /\ topics' = topics /\ index' = index
      /\ doubt' = doubt \cup (IF x.pc = "index" THEN Slugs ELSE About(p))
  BY DEF Crash
<1>2. /\ x \in Operations /\ About(p) = AboutOf(x) /\ AboutOf(x) \subseteq Slugs
      /\ topics \in [Slugs -> Int] /\ index \in Seq(LineOf) /\ doubt \in SUBSET Slugs
      /\ SizeOf(index) <= Cap /\ Distinct(index)
      /\ ~x.alone => doubt = Slugs
      /\ x.alone => Midway(x, topics, index, doubt)
  BY <1>1, OperationIs
<1>3. doubt' \in SUBSET Slugs /\ (~x.alone => doubt' = Slugs)
  BY <1>1, <1>2
<1>4. ASSUME x.alone PROVE AllTold(index', topics', doubt')
  <2>1. CASE x.pc = "index"
    BY <1>1, <1>2, <2>1 DEF AllTold
  <2>2. CASE x.pc # "index"
    <3>1. x.pc \in {"topic", "read", "unlist", "cap"}
      BY <1>1, <1>2, <2>2 DEF Busy, Operations
    <3>. QED BY <1>1, <1>2, <1>4, <2>2, <3>1 DEF Midway
  <2>. QED BY <2>1, <2>2
<1>. QED BY <1>1, <1>2, <1>3, <1>4, NoOpIs, OperationMoves

LEMMA MemoryMoves == MemoryInv /\ [MemoryNext]_pvars => MemoryInv'
<1>. SUFFICES ASSUME MemoryInv, [MemoryNext]_pvars PROVE MemoryInv'
  OBVIOUS
<1>1. CASE UNCHANGED pvars
  BY <1>1 DEF pvars, MemoryInv, MemoryTyped, Company, Agreed, Busy, Midway, AllTold, TellsOf,
     AboutOf, Knows, Distinct
<1>2. ASSUME NEW p \in Processes, MemoryStep(p) PROVE MemoryInv'
  BY <1>2, TopicOpened, TopicFilled, IndexRead, OldestDropped, FactDeleted, FactUnlisted,
     IndexOpened, IndexFilled, ProcessDies DEF MemoryStep
<1>. QED BY <1>1, <1>2 DEF MemoryNext

LEMMA MemoryAnswers == MemoryInv => MemoryLaw
<1>. SUFFICES ASSUME MemoryInv PROVE MemoryLaw
  OBVIOUS
<1>1. /\ index \in Seq(LineOf) /\ SizeOf(index) <= Cap /\ Distinct(index) /\ Agreed
      /\ op \in [Processes -> Operations] /\ \A p \in Processes : Knows(op[p])
  BY DEF MemoryInv, MemoryTyped
<1>2. DOMAIN index = 1..Len(index)
  BY <1>1
<1>3. IndexBounded
  BY <1>1, <1>2 DEF IndexBounded, Distinct
<1>4. IndexAgrees
  BY <1>1, <1>2 DEF IndexAgrees, Agreed, AllTold, TellsOf, Listed
<1>5. NewestKept
  <2>. SUFFICES ASSUME NEW p \in Processes, op[p].pc \in {"cap", "index"}, op[p].fresh,
                       ~(op[p].line[1].length > Cap)
                PROVE  op[p].line[1].slug \in SlugsOf(op[p].lines)
    BY DEF NewestKept
  <2>1. op[p].lines # <<>> /\ op[p].lines[Len(op[p].lines)] = op[p].line[1]
    BY <1>1 DEF Knows
  <2>2. op[p].lines \in Seq(LineOf)
    BY <1>1 DEF Operations
  <2>3. Len(op[p].lines) \in 1..Len(op[p].lines)
    BY <2>1, <2>2
  <2>. QED BY <2>1, <2>2, <2>3, SlugsAre
<1>. QED BY <1>3, <1>4, <1>5 DEF MemoryLaw

-----------------------------------------------------------------------------
(* The file tools *)

Replacement == [old : Lines, new : Lines, all : BOOLEAN]
Edited == [ok : BOOLEAN, lines : Texts]

LEMMA AppliedType ==
  ASSUME NEW lines \in Texts, NEW e \in Replacement
  PROVE  /\ Applied(lines, e) \in Texts
         /\ \A n \in Nat : lines \in [1..n -> Lines] => Applied(lines, e) \in [1..n -> Lines]
<1>1. PICK n \in 0..MaxLines : lines \in [1..n -> Lines]
  BY DEF Texts
<1>2. e.new \in Lines
  BY DEF Replacement
<1>3. \A m \in Nat : lines \in [1..m -> Lines] => Applied(lines, e) \in [1..m -> Lines]
  BY <1>2 DEF Applied
<1>4. n \in Nat
  OBVIOUS
<1>5. Applied(lines, e) \in [1..n -> Lines]
  BY <1>1, <1>3, <1>4
<1>. QED BY <1>3, <1>5 DEF Texts

\* An edit of a text, or of one that an edit before could not be made to.
Corrected(lines, d, e) ==
  IF d.ok /\ Applicable(d.lines, e) THEN [d EXCEPT !.lines = Applied(@, e)]
  ELSE [ok |-> FALSE, lines |-> lines]

LEMMA EditedType ==
  ASSUME NEW lines \in Texts, NEW d \in Edited, NEW e \in Replacement
  PROVE  Corrected(lines, d, e) \in Edited
<1>1. d.lines \in Texts
  BY DEF Edited
<1>2. Applied(d.lines, e) \in Texts
  BY <1>1, AppliedType
<1>3. [d EXCEPT !.lines = Applied(@, e)] \in Edited
  BY <1>2 DEF Edited
<1>4. [ok |-> FALSE, lines |-> lines] \in Edited
  BY DEF Edited
<1>. QED BY <1>3, <1>4 DEF Corrected

\* What edits make of a text, edit by edit.
LEMMA OutcomeFold ==
  ASSUME NEW lines \in Texts, NEW edits \in Seq(Replacement)
  PROVE  \E g \in [0..Len(edits) -> Edited] :
           /\ g[0] = [ok |-> TRUE, lines |-> lines] /\ g[Len(edits)] = Outcome(lines, edits)
           /\ \A k \in 1..Len(edits) : g[k] = Corrected(lines, g[k - 1], edits[k])
<1>. DEFINE n == Len(edits)
            step == [k \in 1..n |-> [d \in Edited |-> Corrected(lines, d, edits[k])]]
            Is(it) == it = [S \in SUBSET (1..n) |->
                              IF S = {} THEN [ok |-> TRUE, lines |-> lines]
                              ELSE Corrected(lines, it[S \ {Max(S)}], edits[Max(S)])]
            it == CHOOSE f : Is(f)
<1>1. Outcome(lines, edits) = it[1..n]
  <2>1. DOMAIN edits = 1..n
    OBVIOUS
  <2>. QED BY <2>1 DEF Outcome, Corrected, FoldLeft, MapThenFoldSet
<1>2. Stepping(n, Edited, [ok |-> TRUE, lines |-> lines], step)
  <2>1. [ok |-> TRUE, lines |-> lines] \in Edited /\ \A k \in 1..n : edits[k] \in Replacement
    BY DEF Edited
  <2>2. \A k \in 1..n, d \in Edited : Corrected(lines, d, edits[k]) \in Edited
    BY <2>1, EditedType
  <2>3. step \in [1..n -> [Edited -> Edited]]
    BY <2>2
  <2>4. n \in Nat
    OBVIOUS
  <2>. HIDE DEF step, n
  <2>. QED BY <2>1, <2>3, <2>4 DEF Stepping
<1>. HIDE DEF step
<1>3. PICK f : Iterates(n, Edited, [ok |-> TRUE, lines |-> lines], step, f)
  BY <1>2, Iteration
<1>4. ASSUME NEW S \in SUBSET (1..n), S # {}
      PROVE  Max(S) \in 1..n /\ S \ {Max(S)} \in SUBSET (1..n)
  <2>. HIDE DEF n
  <2>1. n \in Nat /\ S \subseteq 0..n
    BY <1>2 DEF Stepping
  <2>2. Max(S) \in S
    BY <1>4, <2>1, Greatest
  <2>. QED BY <2>2
<1>5. Is(f)
  BY <1>3, <1>4 DEF step, Iterates
<1>6. Is(it)
  BY <1>5
<1>. HIDE DEF it
<1>7. Computes(n, Edited, [ok |-> TRUE, lines |-> lines], step, it)
  BY <1>4, <1>6 DEF step, Computes
<1>8. PICK g \in [0..n -> Edited] :
        /\ g[0] = [ok |-> TRUE, lines |-> lines] /\ g[n] = it[1..n]
        /\ \A k \in 1..n : g[k] = step[k][g[k - 1]]
  <2>. HIDE DEF n, Is
  <2>. QED BY <1>2, <1>7, FoldSteps
<1>9. \A k \in 1..n : g[k] = Corrected(lines, g[k - 1], edits[k])
  <2>1. \A k \in 1..n : k - 1 \in 0..n
    BY Len(edits) \in Nat
  <2>. HIDE DEF n
  <2>2. \A k \in 1..n : g[k - 1] \in Edited
    BY <1>8, <2>1
  <2>. QED BY <1>8, <2>2 DEF step
<1>. QED BY <1>1, <1>8, <1>9


\* The versions of a text under edits, as an answer is judged.
Versions(before, edits) ==
  LET step(sofar, e) == Append(sofar,
        [i \in DOMAIN before |->
           IF Last(sofar)[i] = e.old THEN e.new ELSE Last(sofar)[i]])
  IN  FoldLeft(step, <<before>>, edits)

History(m) == {s \in Seq([1..m -> Lines]) : s # <<>>}

Edition(before, d, e) ==
  Append(d, [i \in DOMAIN before |-> IF Last(d)[i] = e.old THEN e.new ELSE Last(d)[i]])

LEMMA EditionType ==
  ASSUME NEW m \in Nat, NEW before \in [1..m -> Lines], NEW d \in History(m), NEW e \in Replacement
  PROVE  Edition(before, d, e) \in History(m)
<1>1. Last(d) \in [1..m -> Lines]
  BY DEF History, Last
<1>2. e.new \in Lines
  BY DEF Replacement
<1>3. DOMAIN before = 1..m
  OBVIOUS
<1>. DEFINE t == [i \in DOMAIN before |-> IF Last(d)[i] = e.old THEN e.new ELSE Last(d)[i]]
<1>4. t \in [1..m -> Lines]
  BY <1>1, <1>2, <1>3
<1>. HIDE DEF t
<1>5. d \in Seq([1..m -> Lines])
  BY DEF History
<1>6. Append(d, t) \in Seq([1..m -> Lines]) /\ Append(d, t) # <<>>
  BY <1>4, <1>5
<1>. QED BY <1>6 DEF History, Edition, t

\* The versions, edit by edit.
LEMMA VersionsFold ==
  ASSUME NEW m \in Nat, NEW before \in [1..m -> Lines], NEW edits \in Seq(Replacement)
  PROVE  \E g \in [0..Len(edits) -> History(m)] :
           /\ g[0] = <<before>> /\ g[Len(edits)] = Versions(before, edits)
           /\ \A k \in 1..Len(edits) : g[k] = Edition(before, g[k - 1], edits[k])
<1>. DEFINE n == Len(edits)
            step == [k \in 1..n |-> [d \in History(m) |-> Edition(before, d, edits[k])]]
            Is(it) == it = [S \in SUBSET (1..n) |->
                              IF S = {} THEN <<before>>
                              ELSE Edition(before, it[S \ {Max(S)}], edits[Max(S)])]
            it == CHOOSE f : Is(f)
<1>1. Versions(before, edits) = it[1..n]
  <2>1. DOMAIN edits = 1..n
    OBVIOUS
  <2>. QED BY <2>1 DEF Versions, Edition, FoldLeft, MapThenFoldSet
<1>2. Stepping(n, History(m), <<before>>, step)
  <2>1. <<before>> \in History(m) /\ \A k \in 1..n : edits[k] \in Replacement
    BY DEF History
  <2>2. \A k \in 1..n, d \in History(m) : Edition(before, d, edits[k]) \in History(m)
    BY <2>1, EditionType
  <2>3. step \in [1..n -> [History(m) -> History(m)]]
    BY <2>2
  <2>. QED BY <2>1, <2>3 DEF Stepping
<1>. HIDE DEF step
<1>3. PICK f : Iterates(n, History(m), <<before>>, step, f)
  BY <1>2, Iteration
<1>4. ASSUME NEW S \in SUBSET (1..n), S # {}
      PROVE  Max(S) \in 1..n /\ S \ {Max(S)} \in SUBSET (1..n)
  <2>. HIDE DEF n
  <2>1. n \in Nat /\ S \subseteq 0..n
    BY <1>2 DEF Stepping
  <2>2. Max(S) \in S
    BY <1>4, <2>1, Greatest
  <2>. QED BY <2>2
<1>5. Is(f)
  BY <1>3, <1>4 DEF step, Iterates
<1>6. Is(it)
  BY <1>5
<1>. HIDE DEF it
<1>7. Computes(n, History(m), <<before>>, step, it)
  BY <1>4, <1>6 DEF step, Computes
<1>8. PICK g \in [0..n -> History(m)] :
        /\ g[0] = <<before>> /\ g[n] = it[1..n]
        /\ \A k \in 1..n : g[k] = step[k][g[k - 1]]
  <2>. HIDE DEF n, Is
  <2>. QED BY <1>2, <1>7, FoldSteps
<1>9. \A k \in 1..n : g[k] = Edition(before, g[k - 1], edits[k])
  <2>1. \A k \in 1..n : k - 1 \in 0..n
    BY Len(edits) \in Nat
  <2>. HIDE DEF n
  <2>2. \A k \in 1..n : g[k - 1] \in History(m)
    BY <1>8, <2>1
  <2>. QED BY <1>8, <2>2 DEF step
<1>. QED BY <1>1, <1>8, <1>9


\* What a search has found so far.
Found == [shown : Seq(Nat), total : Nat]

FoundAt(lines, wanted, limit, d, i) ==
  IF lines[i] # wanted THEN d
  ELSE [shown |-> IF Len(d.shown) >= limit THEN d.shown ELSE d.shown \o Around(lines, i, 0),
        total |-> d.total + 1]

LEMMA FoundType ==
  ASSUME NEW lines \in Texts, NEW wanted, NEW limit, NEW d \in Found, NEW i \in DOMAIN lines
  PROVE  /\ Around(lines, i, 0) = <<i>> /\ i \in Nat
         /\ FoundAt(lines, wanted, limit, d, i) \in Found
<1>1. PICK n \in 0..MaxLines : lines \in [1..n -> Lines]
  BY DEF Texts
<1>2. n \in Nat /\ i \in 1..n /\ Len(lines) = n
  BY <1>1
<1>3. Around(lines, i, 0) = [k \in 1..1 |-> i]
  <2>. DEFINE first == IF i > 0 THEN i - 0 ELSE 1
              last == IF i + 0 < Len(lines) THEN i + 0 ELSE Len(lines)
  <2>1. Around(lines, i, 0) = [k \in 1..(last - first + 1) |-> first + k - 1]
    BY DEF Around
  <2>2. first = i /\ last = i
    BY <1>2
  <2>3. last - first + 1 = 1 /\ \A k \in 1..1 : first + k - 1 = i
    BY <1>2, <2>2
  <2>. HIDE DEF first, last
  <2>. QED BY <2>1, <2>3
<1>4. Around(lines, i, 0) = <<i>> /\ <<i>> \in Seq(Nat)
  <2>1. i \in Nat
    BY <1>2
  <2>. QED BY <1>3, <2>1
<1>5. d.shown \o <<i>> \in Seq(Nat) /\ d.total + 1 \in Nat
  BY <1>4 DEF Found
<1>6. [shown |-> IF Len(d.shown) >= limit THEN d.shown ELSE d.shown \o <<i>>,
       total |-> d.total + 1] \in Found
  BY <1>5 DEF Found
<1>7. ASSUME lines[i] = wanted
      PROVE  [shown |-> IF Len(d.shown) >= limit THEN d.shown
                        ELSE d.shown \o Around(lines, i, 0),
              total |-> d.total + 1] \in Found
  BY <1>4, <1>6
<1>. QED BY <1>2, <1>4, <1>7 DEF FoundAt

\* The places of the lines, one after the other, and the finds along them.
Lined(lines, places) ==
  /\ places = [i \in DOMAIN lines |-> i]
  /\ Len(places) = Len(lines) /\ places \in Seq(DOMAIN lines)

Searched(lines, wanted, limit, places) ==
  \E g \in [0..Len(places) -> Found] :
      /\ g[0] = [shown |-> <<>>, total |-> 0] /\ g[Len(places)] = SearchFile(lines, wanted, 0, limit)
      /\ \A k \in 1..Len(places) : g[k] = FoundAt(lines, wanted, limit, g[k - 1], places[k])

\* What a search without context finds, line by line.
LEMMA SearchFold ==
  ASSUME NEW lines \in Texts, NEW wanted, NEW limit, NEW places, Lined(lines, places)
  PROVE  Searched(lines, wanted, limit, places)
<1>. SUFFICES ASSUME places = [i \in DOMAIN lines |-> i], Len(places) = Len(lines),
                     places \in Seq(DOMAIN lines)
              PROVE  \E g \in [0..Len(places) -> Found] :
                           /\ g[0] = [shown |-> <<>>, total |-> 0] /\ g[Len(places)] = SearchFile(lines, wanted, 0, limit)
                           /\ \A k \in 1..Len(places) : g[k] = FoundAt(lines, wanted, limit, g[k - 1], places[k])
  BY DEF Lined, Searched
<1>. DEFINE n == Len(places)
            step == [k \in 1..n |-> [d \in Found |-> FoundAt(lines, wanted, limit, d, places[k])]]
            Is(it) == it = [S \in SUBSET (1..n) |->
                              IF S = {} THEN [shown |-> <<>>, total |-> 0]
                              ELSE FoundAt(lines, wanted, limit, it[S \ {Max(S)}], places[Max(S)])]
            it == CHOOSE f : Is(f)
<1>1. SearchFile(lines, wanted, 0, limit) = it[1..n]
  <2>1. DOMAIN places = 1..n
    OBVIOUS
  <2>. QED BY <2>1, ZenonT(40) DEF SearchFile, FoundAt, FoldLeft, MapThenFoldSet
<1>2. Stepping(n, Found, [shown |-> <<>>, total |-> 0], step)
  <2>1. [shown |-> <<>>, total |-> 0] \in Found /\ \A k \in 1..n : places[k] \in DOMAIN lines
    BY DEF Found
  <2>2. \A k \in 1..n, d \in Found : FoundAt(lines, wanted, limit, d, places[k]) \in Found
    BY <2>1, FoundType
  <2>3. step \in [1..n -> [Found -> Found]]
    BY <2>2
  <2>4. n \in Nat
    OBVIOUS
  <2>. HIDE DEF step, n
  <2>. QED BY <2>1, <2>3, <2>4 DEF Stepping
<1>. HIDE DEF step
<1>3. PICK f : Iterates(n, Found, [shown |-> <<>>, total |-> 0], step, f)
  BY <1>2, Iteration
<1>4. ASSUME NEW S \in SUBSET (1..n), S # {}
      PROVE  Max(S) \in 1..n /\ S \ {Max(S)} \in SUBSET (1..n)
  <2>. HIDE DEF n
  <2>1. n \in Nat /\ S \subseteq 0..n
    BY <1>2 DEF Stepping
  <2>2. Max(S) \in S
    BY <1>4, <2>1, Greatest
  <2>. QED BY <2>2
<1>5. Is(f)
  BY <1>3, <1>4 DEF step, Iterates
<1>6. Is(it)
  BY <1>5
<1>. HIDE DEF it
<1>7. Computes(n, Found, [shown |-> <<>>, total |-> 0], step, it)
  BY <1>4, <1>6 DEF step, Computes
<1>8. PICK g \in [0..n -> Found] :
        /\ g[0] = [shown |-> <<>>, total |-> 0] /\ g[n] = it[1..n]
        /\ \A k \in 1..n : g[k] = step[k][g[k - 1]]
  <2>. HIDE DEF n, Is
  <2>. QED BY <1>2, <1>7, FoldSteps
<1>9. \A k \in 1..n : g[k] = FoundAt(lines, wanted, limit, g[k - 1], places[k])
  <2>1. \A k \in 1..n : k - 1 \in 0..n
    BY Len(places) \in Nat
  <2>. HIDE DEF n
  <2>2. \A k \in 1..n : g[k - 1] \in Found
    BY <1>8, <2>1
  <2>. QED BY <1>8, <2>2 DEF step
<1>. QED BY <1>1, <1>8, <1>9

\* The replacements of an edit have their places: one, or all that there are.
Placed(lines, e) ==
  LET n == Cardinality(Places(lines, e.old)) IN n = 1 \/ (n > 1 /\ e.all)

\* Edits that all apply make what replacing one after the other makes.
LEMMA EditsMake ==
  ASSUME NEW before \in Texts, NEW edits \in Seq(Replacement), Outcome(before, edits).ok
  PROVE  /\ Last(Versions(before, edits)) = Outcome(before, edits).lines
         /\ \A k \in DOMAIN edits : Placed(Versions(before, edits)[k], edits[k])
<1>. DEFINE n == Len(edits)
<1>1. n \in Nat /\ DOMAIN edits = 1..n /\ \A k \in 1..n : edits[k] \in Replacement
  OBVIOUS
<1>2. PICK m \in 0..MaxLines : before \in [1..m -> Lines]
  BY DEF Texts
<1>3. m \in Nat
  OBVIOUS
<1>4. PICK g \in [0..n -> Edited] :
        /\ g[0] = [ok |-> TRUE, lines |-> before] /\ g[n] = Outcome(before, edits)
        /\ \A k \in 1..n :
             g[k] = (IF g[k - 1].ok /\ Applicable(g[k - 1].lines, edits[k])
                     THEN [g[k - 1] EXCEPT !.lines = Applied(@, edits[k])]
                     ELSE [ok |-> FALSE, lines |-> before])
  BY OutcomeFold DEF Corrected
<1>5. PICK h \in [0..n -> History(m)] :
        /\ h[0] = <<before>> /\ h[n] = Versions(before, edits)
        /\ \A k \in 1..n :
             h[k] = Append(h[k - 1],
                      [i \in DOMAIN before |-> IF Last(h[k - 1])[i] = edits[k].old
                                               THEN edits[k].new ELSE Last(h[k - 1])[i]])
  BY <1>2, <1>3, VersionsFold DEF Edition
<1>. HIDE DEF n
<1>. DEFINE Agree(k) ==
       /\ Len(h[k]) = k + 1 /\ Last(h[k]) = g[k].lines /\ g[k].lines \in [1..m -> Lines]
       /\ \A j \in 1..k : Placed(h[k][j], edits[j])
     T == {k \in 0..n : g[k].ok => Agree(k)}
<1>6. 0 \in T
  <2>1. g[0].lines = before /\ Len(h[0]) = 1 /\ Last(h[0]) = before
    BY <1>4, <1>5 DEF Last
  <2>. QED BY <1>1, <1>2, <2>1
<1>7. ASSUME NEW k \in 0..(n - 1), k \in T PROVE k + 1 \in T
  <2>1. k \in 0..n /\ k + 1 \in 1..n /\ k + 1 \in 0..n /\ (k + 1) - 1 = k /\ k \in Nat
    BY <1>1
  <2>. SUFFICES ASSUME g[k + 1].ok PROVE Agree(k + 1)
    BY <2>1
  <2>. DEFINE e == edits[k + 1]
  <2>2. e \in Replacement /\ g[k] \in Edited
    BY <1>1, <1>4, <2>1
  <2>3. g[k + 1] = (IF g[k].ok /\ Applicable(g[k].lines, e)
                    THEN [g[k] EXCEPT !.lines = Applied(@, e)]
                    ELSE [ok |-> FALSE, lines |-> before])
    BY <1>4, <2>1
  <2>4. g[k].ok /\ Applicable(g[k].lines, e)
    <3>1. CASE ~(g[k].ok /\ Applicable(g[k].lines, e))
      <4>1. g[k + 1].ok = FALSE
        BY <2>3, <3>1
      <4>. QED BY <4>1
    <3>. QED BY <3>1
  <2>5. g[k + 1].lines = Applied(g[k].lines, e)
    <3>1. [g[k] EXCEPT !.lines = Applied(@, e)].lines = Applied(g[k].lines, e)
      BY <2>2 DEF Edited
    <3>. QED BY <2>3, <2>4, <3>1
  <2>6. Agree(k)
    BY <1>7, <2>4
  <2>7. h[k] \in Seq([1..m -> Lines]) /\ h[k] # <<>> /\ Last(h[k]) = h[k][Len(h[k])]
    BY <1>5, <2>1 DEF History, Last
  <2>8. h[k + 1] = Append(h[k], Applied(g[k].lines, e))
    <3>1. DOMAIN before = 1..m /\ DOMAIN g[k].lines = 1..m
      BY <1>2, <2>6
    <3>2. h[k + 1] = Append(h[k], [i \in 1..m |-> IF Last(h[k])[i] = e.old
                                                THEN e.new ELSE Last(h[k])[i]])
      BY <1>5, <2>1, <3>1
    <3>3. Applied(g[k].lines, e) = [i \in 1..m |-> IF g[k].lines[i] = e.old
                                                 THEN e.new ELSE g[k].lines[i]]
      BY <3>1 DEF Applied
    <3>4. Last(h[k]) = g[k].lines
      BY <2>6
    <3>. QED BY <3>2, <3>3, <3>4
  <2>9. Applied(g[k].lines, e) \in [1..m -> Lines]
    <3>1. g[k].lines \in Texts
      BY <2>2 DEF Edited
    <3>. QED BY <1>3, <2>2, <2>6, <3>1, AppliedType
  <2>10. /\ Len(h[k + 1]) = Len(h[k]) + 1
         /\ h[k + 1][Len(h[k]) + 1] = Applied(g[k].lines, e)
         /\ \A j \in 1..Len(h[k]) : h[k + 1][j] = h[k][j]
    BY <2>7, <2>8, <2>9
  <2>11. Last(h[k + 1]) = Applied(g[k].lines, e)
    BY <2>7, <2>10 DEF Last
  <2>12. Placed(g[k].lines, e)
    <3>. DEFINE P == Places(g[k].lines, e.old)
    <3>1. P # {} /\ (Cardinality(P) > 1 => e.all)
      BY <2>4 DEF Applicable
    <3>2. IsFiniteSet(P)
      <4>1. DOMAIN g[k].lines = 1..m
        BY <2>6
      <4>2. P \subseteq 1..m
        BY <4>1 DEF Places
      <4>3. IsFiniteSet(1..m)
        BY <1>3, FS_Interval
      <4>. QED BY <4>2, <4>3, FS_Subset
    <3>3. Cardinality(P) \in Nat /\ Cardinality(P) # 0
      BY <3>1, <3>2, FS_CardinalityType, FS_EmptySet
    <3>. QED BY <3>1, <3>3 DEF Placed
  <2>13. ASSUME NEW j \in 1..(k + 1) PROVE Placed(h[k + 1][j], edits[j])
    <3>1. CASE j \in 1..k
      <4>1. Placed(h[k][j], edits[j]) /\ j \in 1..Len(h[k])
        BY <2>1, <2>6, <3>1
      <4>. QED BY <2>10, <4>1
    <3>2. CASE j = k + 1
      <4>1. j \in 1..Len(h[k]) /\ j = Len(h[k])
        BY <2>1, <2>6, <3>2
      <4>2. h[k + 1][j] = g[k].lines
        BY <2>6, <2>7, <2>10, <4>1
      <4>. QED BY <2>12, <3>2, <4>2
    <3>. QED BY <2>1, <3>1, <3>2
  <2>14. Len(h[k + 1]) = (k + 1) + 1
    BY <2>1, <2>6, <2>10
  <2>. HIDE DEF e
  <2>. QED BY <2>5, <2>9, <2>11, <2>13, <2>14
<1>8. n \in T
  <2>1. 0..n \subseteq T
    <3>. HIDE DEF T
    <3>. QED BY <1>1, <1>6, <1>7, Reaches
  <2>. QED BY <1>1, <2>1
<1>9. g[n].ok
  BY <1>4
<1>10. Agree(n)
  BY <1>8, <1>9
<1>. QED BY <1>1, <1>4, <1>5, <1>10

-----------------------------------------------------------------------------

Call == [path : Paths, edits : Seq(Replacement), before : Texts, after : Texts]
Sound(c) == Outcome(c.before, c.edits).ok /\ c.after = Outcome(c.before, c.edits).lines

\* What was read under the key that a page has now is the page, as long as the
\* clock tells writes apart and files change by the tools only.
PagesTrue ==
  /\ \A k \in DOMAIN pages : k.when <= changes
  /\ \A p \in DOMAIN text, r \in Requests :
       KeyNow(p, r) \in DOMAIN pages => pages[KeyNow(p, r)] = PageOf(text[p], r)

FilesInv ==
  /\ mtime \in [Paths -> Nat] /\ changes \in Nat
  /\ DOMAIN text \subseteq Paths /\ \A p \in DOMAIN text : text[p] \in Texts
  /\ \A p \in Paths : mtime[p] <= changes
  /\ pending \in [Agents -> {NoEdit} \cup {<<c>> : c \in {d \in Call : Sound(d)}}]
  /\ \A k \in DOMAIN pages : k.when \in Nat
  /\ world = "calm" => PagesTrue
  /\ UnchangedIsTrue /\ EditsWhole

\* EditsWhole, of one call.
WholeAnswer ==
  answer.kind = "edited" =>
    /\ Last(Versions(answer.call.before, answer.call.edits)) = text[answer.call.path]
    /\ \A k \in DOMAIN answer.call.edits :
         Placed(Versions(answer.call.before, answer.call.edits)[k], answer.call.edits[k])

LEMMA EditsJudged == EditsWhole <=> WholeAnswer
  BY DEF EditsWhole, WholeAnswer, Versions, Placed

LEMMA FilesStart == FilesInit => FilesInv
<1>. SUFFICES ASSUME FilesInit PROVE FilesInv
  OBVIOUS
<1>. USE DEF FilesInit
<1>1. \A p \in DOMAIN text : text[p] \in Texts
  BY FileToolsAssumption
<1>2. UnchangedIsTrue /\ EditsWhole
  BY DEF UnchangedIsTrue, EditsWhole, Said
<1>3. pending \in [Agents -> {NoEdit} \cup {<<c>> : c \in {d \in Call : Sound(d)}}]
  OBVIOUS
<1>4. mtime \in [Paths -> Nat] /\ changes \in Nat /\ \A p \in Paths : mtime[p] <= changes
  OBVIOUS
<1>5. PagesTrue /\ \A k \in DOMAIN pages : k.when \in Nat
  BY DEF PagesTrue
<1>. QED BY <1>1, <1>2, <1>3, <1>4, <1>5 DEF FilesInv

\* What is not answered as unchanged or edited is not judged.
LEMMA Unjudged ==
  ASSUME answer'.kind \notin {"unchanged", "edited"}
  PROVE  UnchangedIsTrue' /\ EditsWhole'
  BY DEF UnchangedIsTrue, EditsWhole

\* A file changes.
LEMMA FileChanges ==
  ASSUME FilesInv, NEW p \in Paths, NEW lines \in Texts, Change(p, lines),
         pages' = pages, world' = world
  PROVE  /\ mtime' \in [Paths -> Nat] /\ changes' \in Nat
         /\ DOMAIN text' \subseteq Paths /\ text'[p] = lines
         /\ \A q \in DOMAIN text' : text'[q] \in Texts
         /\ \A q \in Paths : mtime'[q] <= changes'
         /\ world' = "calm" => PagesTrue'
<1>1. changes' = changes + 1 /\ changes \in Nat
  BY DEF Change, FilesInv
<1>2. PICK t \in {mtime[p], changes'} :
        (world # "coarse" => t = changes') /\ mtime' = [mtime EXCEPT ![p] = t]
  BY DEF Change
<1>3. mtime \in [Paths -> Nat] /\ \A q \in Paths : mtime[q] <= changes
  BY DEF FilesInv
<1>4. t \in Nat /\ t <= changes'
  BY <1>1, <1>2, <1>3
<1>5. mtime' \in [Paths -> Nat] /\ mtime'[p] = t /\ \A q \in Paths \ {p} : mtime'[q] = mtime[q]
  BY <1>2, <1>3, <1>4
<1>6. \A q \in Paths : mtime'[q] <= changes'
  BY <1>1, <1>3, <1>4, <1>5
<1>7. /\ text' = [q \in DOMAIN text \cup {p} |-> IF q = p THEN lines ELSE text[q]]
      /\ DOMAIN text \subseteq Paths /\ \A q \in DOMAIN text : text[q] \in Texts
  BY DEF Change, FilesInv
<1>8. DOMAIN text' \subseteq Paths /\ text'[p] = lines /\ \A q \in DOMAIN text' : text'[q] \in Texts
  BY <1>7
<1>9. ASSUME world' = "calm" PROVE PagesTrue'
  <2>1. PagesTrue /\ t = changes' /\ \A k \in DOMAIN pages : k.when \in Nat
    BY <1>2, <1>9 DEF FilesInv
  <2>2. \A k \in DOMAIN pages' : k.when <= changes'
    BY <1>1, <2>1 DEF PagesTrue
  <2>3. ASSUME NEW q \in DOMAIN text', NEW r \in Requests, KeyNow(q, r)' \in DOMAIN pages'
        PROVE  pages'[KeyNow(q, r)'] = PageOf(text'[q], r)
    <3>1. KeyNow(q, r)'.when = mtime'[q]
      BY DEF KeyNow, PageKey
    <3>2. mtime'[q] <= changes
      BY <2>1, <2>3, <3>1 DEF PagesTrue
    <3>3. q # p
      BY <1>1, <1>5, <2>1, <3>2
    <3>4. q \in DOMAIN text /\ q \in Paths /\ text'[q] = text[q] /\ mtime'[q] = mtime[q]
      BY <1>5, <1>7, <3>3
    <3>5. KeyNow(q, r)' = KeyNow(q, r)
      BY <3>4 DEF KeyNow
    <3>. QED BY <2>1, <2>3, <3>4, <3>5 DEF PagesTrue
  <2>. QED BY <2>2, <2>3 DEF PagesTrue
<1>. QED BY <1>1, <1>5, <1>6, <1>8, <1>9

LEMMA FilesStep == FilesInv /\ [FilesNext]_fvars => FilesInv'
<1>. SUFFICES ASSUME FilesInv, [FilesNext]_fvars PROVE FilesInv'
  OBVIOUS
<1>0. CASE UNCHANGED fvars
  <2>1. /\ world' = world /\ text' = text /\ mtime' = mtime /\ changes' = changes
        /\ seen' = seen /\ pages' = pages /\ told' = told /\ pending' = pending
        /\ answer' = answer
    BY <1>0 DEF fvars
  <2>2. (UnchangedIsTrue <=> UnchangedIsTrue') /\ (EditsWhole <=> EditsWhole')
    <3>1. UnchangedIsTrue <=> UnchangedIsTrue'
      BY <2>1 DEF UnchangedIsTrue, KeyNow
    <3>2. WholeAnswer <=> WholeAnswer'
      BY <2>1 DEF WholeAnswer
    <3>3. (EditsWhole <=> WholeAnswer) /\ (EditsWhole' <=> WholeAnswer')
      BY EditsJudged, PTL
    <3>. QED BY <3>1, <3>2, <3>3
  <2>3. PagesTrue <=> PagesTrue'
    BY <2>1 DEF PagesTrue, KeyNow
  <2>. QED BY <2>1, <2>2, <2>3 DEF FilesInv
<1>1. ASSUME world' = world, UNCHANGED <<text, mtime, changes, pages>>,
             pending' \in [Agents -> {NoEdit} \cup {<<c>> : c \in {d \in Call : Sound(d)}}],
             UnchangedIsTrue', EditsWhole'
      PROVE  FilesInv'
  <2>1. PagesTrue <=> PagesTrue'
    BY <1>1 DEF PagesTrue, KeyNow
  <2>. QED BY <1>1, <2>1 DEF FilesInv
<1>2. ASSUME world' = world, NEW p \in Paths, NotAFile(p) PROVE FilesInv'
  BY <1>1, <1>2, Unjudged DEF NotAFile, FilesInv, Said
<1>3. ASSUME world' = world, NEW p \in Paths, NEW lines \in Drafts, WriteFile(p, lines)
      PROVE  FilesInv'
  <2>1. lines \in Texts
    BY FileToolsAssumption
  <2>2. Change(p, lines) /\ pages' = pages /\ pending' = pending /\ answer' = Said("written")
    BY <1>3 DEF WriteFile
  <2>3. /\ mtime' \in [Paths -> Nat] /\ changes' \in Nat
        /\ DOMAIN text' \subseteq Paths
        /\ \A q \in DOMAIN text' : text'[q] \in Texts
        /\ \A q \in Paths : mtime'[q] <= changes'
        /\ world' = "calm" => PagesTrue'
    BY <1>3, <2>1, <2>2, FileChanges
  <2>4. UnchangedIsTrue' /\ EditsWhole'
    BY <2>2, Unjudged DEF Said
  <2>. QED BY <2>2, <2>3, <2>4 DEF FilesInv
<1>4. ASSUME world' = world, NEW p \in Paths, RemoveFile(p) PROVE FilesInv'
  <2>1. /\ text' = [q \in DOMAIN text \ {p} |-> text[q]] /\ changes' = changes + 1
        /\ mtime' = mtime /\ pages' = pages /\ pending' = pending /\ answer' = Said("none")
    BY <1>4 DEF RemoveFile
  <2>2. /\ DOMAIN text' \subseteq DOMAIN text
        /\ \A q \in DOMAIN text' : text'[q] = text[q]
    BY <2>1
  <2>3. ASSUME world' = "calm" PROVE PagesTrue'
    <3>1. PagesTrue /\ changes \in Nat /\ \A k \in DOMAIN pages : k.when \in Nat
      BY <1>4, <2>3 DEF FilesInv
    <3>2. \A k \in DOMAIN pages' : k.when <= changes'
      BY <2>1, <3>1 DEF PagesTrue
    <3>3. \A q \in DOMAIN text', r \in Requests : KeyNow(q, r)' = KeyNow(q, r)
      BY <2>1, <2>2 DEF KeyNow
    <3>. QED BY <2>1, <2>2, <3>1, <3>2, <3>3 DEF PagesTrue
  <2>4. UnchangedIsTrue' /\ EditsWhole'
    BY <2>1, Unjudged DEF Said
  <2>5. changes' \in Nat /\ \A q \in Paths : mtime'[q] <= changes'
    BY <2>1 DEF FilesInv
  <2>. QED BY <2>1, <2>2, <2>3, <2>4, <2>5 DEF FilesInv
<1>5. ASSUME world' = world, NEW a \in Agents, NEW p \in Paths, NEW r \in Requests, Point(a, p, r)
      PROVE  FilesInv'
  <2>1. /\ p \in DOMAIN text /\ KeyNow(p, r) \in DOMAIN pages
        /\ answer' = [kind |-> "unchanged", agent |-> a, path |-> p, request |-> r]
        /\ text' = text /\ mtime' = mtime /\ changes' = changes /\ pages' = pages
        /\ pending' = pending
    BY <1>5 DEF Point, Exists
  <2>2. UnchangedIsTrue'
    <3>1. ASSUME world = "calm" PROVE pages[KeyNow(p, r)] = PageOf(text[p], r)
      BY <2>1, <3>1 DEF FilesInv, PagesTrue
    <3>2. KeyNow(p, r)' = KeyNow(p, r) /\ answer'.path = p /\ answer'.request = r
      BY <2>1 DEF KeyNow
    <3>. QED BY <1>5, <2>1, <3>1, <3>2 DEF UnchangedIsTrue, KeyNow
  <2>3. EditsWhole'
    BY <2>1 DEF EditsWhole
  <2>. QED BY <1>1, <1>5, <2>1, <2>2, <2>3 DEF FilesInv
<1>6. ASSUME world' = world, NEW a \in Agents, NEW p \in Paths, NEW r \in Requests, ReadPage(a, p, r)
      PROVE  FilesInv'
  <2>. DEFINE key == PageKey(p, r, mtime'[p], Len(text'[p]))
  <2>1. /\ p \in DOMAIN text /\ pending' = pending /\ answer' = Said("page")
        /\ pages' = [k \in DOMAIN pages \cup {key} |->
                       IF k = key THEN PageOf(text[p], r) ELSE pages[k]]
    BY <1>6 DEF ReadPage, Exists
  <2>2. UnchangedIsTrue' /\ EditsWhole'
    BY <2>1, Unjudged DEF Said
  <2>3. key.when = mtime'[p]
    BY DEF PageKey
  <2>4. CASE UNCHANGED <<text, mtime, changes>>
    <3>1. text' = text /\ mtime' = mtime /\ changes' = changes /\ key = KeyNow(p, r)
      BY <2>4 DEF KeyNow
    <3>2. \A k \in DOMAIN pages' : k.when \in Nat
      BY <2>1, <2>3, <3>1 DEF FilesInv
    <3>3. ASSUME world' = "calm" PROVE PagesTrue'
      <4>1. PagesTrue
        BY <1>6, <3>3 DEF FilesInv
      <4>2. \A k \in DOMAIN pages' : k.when <= changes'
        BY <2>1, <2>3, <3>1, <4>1 DEF PagesTrue, FilesInv
      <4>3. ASSUME NEW q \in DOMAIN text, NEW s \in Requests, KeyNow(q, s) \in DOMAIN pages'
            PROVE  pages'[KeyNow(q, s)] = PageOf(text[q], s)
        <5>1. CASE KeyNow(q, s) = key
          <6>1. q = p /\ s = r
            BY <3>1, <5>1 DEF KeyNow, PageKey
          <6>. QED BY <2>1, <3>1, <6>1
        <5>2. CASE KeyNow(q, s) # key
          BY <2>1, <4>1, <4>3, <5>2 DEF PagesTrue
        <5>. QED BY <5>1, <5>2
      <4>4. \A q \in DOMAIN text, s \in Requests : KeyNow(q, s)' = KeyNow(q, s)
        BY <3>1 DEF KeyNow
      <4>. QED BY <3>1, <4>2, <4>3, <4>4 DEF PagesTrue
    <3>. QED BY <2>1, <2>2, <3>1, <3>2, <3>3 DEF FilesInv
  <2>5. CASE world = "programs" /\ \E lines \in Drafts : Change(p, lines)
    <3>1. PICK lines \in Drafts : Change(p, lines)
      BY <2>5
    <3>2. lines \in Texts
      BY FileToolsAssumption
    <3>3. /\ changes' = changes + 1 /\ changes \in Nat
          /\ text' = [q \in DOMAIN text \cup {p} |-> IF q = p THEN lines ELSE text[q]]
          /\ \E t \in {mtime[p], changes'} : mtime' = [mtime EXCEPT ![p] = t]
      BY <3>1 DEF Change, FilesInv
    <3>4. /\ mtime' \in [Paths -> Nat] /\ \A q \in Paths : mtime'[q] <= changes'
      BY <3>3 DEF FilesInv
    <3>5. DOMAIN text' \subseteq Paths /\ \A q \in DOMAIN text' : text'[q] \in Texts
      BY <3>2, <3>3 DEF FilesInv
    <3>6. \A k \in DOMAIN pages' : k.when \in Nat
      BY <2>1, <2>3, <3>4 DEF FilesInv
    <3>7. world' # "calm"
      BY <1>6, <2>5
    <3>8. changes' \in Nat
      BY <3>3
    <3>9. pending' \in [Agents -> {NoEdit} \cup {<<c>> : c \in {d \in Call : Sound(d)}}]
      BY <2>1 DEF FilesInv
    <3>. QED BY <2>2, <3>4, <3>5, <3>6, <3>7, <3>8, <3>9 DEF FilesInv
  <2>. QED BY <1>6, <2>4, <2>5 DEF ReadPage
<1>7. ASSUME world' = world, NEW p \in Paths, NEW edits \in EditLists, RefuseEdit(p, edits)
      PROVE  FilesInv'
  BY <1>1, <1>7, Unjudged DEF RefuseEdit, FilesInv, Said
<1>8. ASSUME world' = world, NEW a \in Agents, NEW p \in Paths, NEW edits \in EditLists,
             BeginEdit(a, p, edits)
      PROVE  FilesInv'
  <2>. DEFINE c == [path |-> p, edits |-> edits, before |-> text[p],
                    after |-> Outcome(text[p], edits).lines]
  <2>1. /\ p \in DOMAIN text /\ Outcome(text[p], edits).ok
        /\ pending' = [pending EXCEPT ![a] = <<c>>] /\ answer' = Said("none")
        /\ UNCHANGED <<text, mtime, changes, pages>>
    BY <1>8 DEF BeginEdit, Exists
  <2>2. edits \in Seq(Replacement)
    BY FileToolsAssumption DEF Replacement
  <2>3. text[p] \in Texts
    BY <2>1 DEF FilesInv
  <2>4. Outcome(text[p], edits) \in Edited
    <3>. DEFINE before == text[p]
    <3>. HIDE DEF before
    <3>0. before \in Texts
      BY <2>3 DEF before
    <3>1. PICK g \in [0..Len(edits) -> Edited] :
            /\ g[0] = [ok |-> TRUE, lines |-> before] /\ g[Len(edits)] = Outcome(before, edits)
            /\ \A k \in 1..Len(edits) :
                 g[k] = (IF g[k - 1].ok /\ Applicable(g[k - 1].lines, edits[k])
                         THEN [g[k - 1] EXCEPT !.lines = Applied(@, edits[k])]
                         ELSE [ok |-> FALSE, lines |-> before])
      BY <2>2, <3>0, OutcomeFold
    <3>2. Len(edits) \in 0..Len(edits)
      BY <2>2
    <3>. QED BY <3>1, <3>2 DEF before
  <2>5. Outcome(text[p], edits).lines \in Texts
    BY <2>4 DEF Edited
  <2>6. c \in Call /\ Sound(c)
    BY <2>1, <2>2, <2>3, <2>5 DEF Call, Sound
  <2>. HIDE DEF c
  <2>7. pending' \in [Agents -> {NoEdit} \cup {<<d>> : d \in {x \in Call : Sound(x)}}]
    <3>. DEFINE Q == {NoEdit} \cup {<<d>> : d \in {x \in Call : Sound(x)}}
    <3>1. <<c>> \in Q /\ pending \in [Agents -> Q]
      BY <2>6 DEF FilesInv
    <3>. HIDE DEF Q
    <3>2. pending' \in [Agents -> Q]
      BY <2>1, <3>1
    <3>. QED BY <3>2 DEF Q
  <2>8. UnchangedIsTrue' /\ EditsWhole'
    BY <2>1, Unjudged DEF Said
  <2>. QED BY <1>1, <1>8, <2>1, <2>7, <2>8
<1>9. ASSUME world' = world, NEW a \in Agents, EndEdit(a) PROVE FilesInv'
  <2>. DEFINE Q == {NoEdit} \cup {<<d>> : d \in {x \in Call : Sound(x)}}
  <2>1. pending \in [Agents -> Q] /\ pending[a] # NoEdit
    BY <1>9 DEF FilesInv, EndEdit
  <2>2. PICK c \in Call : Sound(c) /\ pending[a] = <<c>>
    BY <2>1
  <2>3. /\ Change(c.path, c.after) /\ pending' = [pending EXCEPT ![a] = NoEdit]
        /\ answer' = [kind |-> "edited", call |-> c] /\ pages' = pages
    BY <1>9, <2>2 DEF EndEdit
  <2>4. c.path \in Paths /\ c.after \in Texts /\ c.before \in Texts /\ c.edits \in Seq(Replacement)
    BY DEF Call
  <2>5. /\ mtime' \in [Paths -> Nat] /\ changes' \in Nat
        /\ DOMAIN text' \subseteq Paths /\ text'[c.path] = c.after
        /\ \A q \in DOMAIN text' : text'[q] \in Texts
        /\ \A q \in Paths : mtime'[q] <= changes'
        /\ world' = "calm" => PagesTrue'
    BY <1>9, <2>3, <2>4, FileChanges
  <2>6. pending' \in [Agents -> Q]
    <3>1. NoEdit \in Q
      OBVIOUS
    <3>. HIDE DEF Q
    <3>. QED BY <2>1, <2>3, <3>1
  <2>7. /\ Last(Versions(c.before, c.edits)) = text'[c.path]
        /\ \A k \in DOMAIN c.edits : Placed(Versions(c.before, c.edits)[k], c.edits[k])
    BY <2>2, <2>4, <2>5, EditsMake DEF Sound
  <2>8. (EditsWhole' <=> WholeAnswer') /\ WholeAnswer'
    <3>1. EditsWhole' <=> WholeAnswer'
      BY EditsJudged, PTL
    <3>2. WholeAnswer'
      BY <2>3, <2>7 DEF WholeAnswer
    <3>. QED BY <3>1, <3>2
  <2>9. EditsWhole'
    BY <2>8
  <2>10. UnchangedIsTrue'
    BY <2>3 DEF UnchangedIsTrue
  <2>11. \A k \in DOMAIN pages' : k.when \in Nat
    BY <2>3 DEF FilesInv
  <2>. QED BY <2>5, <2>6, <2>9, <2>10, <2>11 DEF FilesInv
<1>10. ASSUME world' = world, NEW a \in Agents, Compact(a) PROVE FilesInv'
  BY <1>1, <1>10, Unjudged DEF Compact, FilesInv, Said
<1>. QED BY <1>0, <1>2, <1>3, <1>4, <1>5, <1>6, <1>7, <1>8, <1>9, <1>10 DEF FilesNext

-----------------------------------------------------------------------------
\* The pages from a place on, each to the next.
LEMMA PageIs ==
  ASSUME NEW lines \in Texts, NEW at \in 0..MaxLines, NEW n \in Nat \ {0}
  PROVE  LET page == PageOf(lines, [offset |-> at, limit |-> n]) IN
         /\ Len(lines) \in 0..MaxLines /\ lines \in Seq(Lines)
         /\ page.more = 0 => page.lines = SubSeq(lines, at + 1, Len(lines))
         /\ page.more # 0 => /\ at + n \in 0..Len(lines) /\ at <= Len(lines)
                             /\ page.lines = SubSeq(lines, at + 1, at + n)
<1>1. PICK m \in 0..MaxLines : lines \in [1..m -> Lines]
  BY DEF Texts
<1>2. /\ MaxLines \in Nat /\ m \in Nat /\ Len(lines) = m /\ lines \in Seq(Lines)
  BY <1>1, FileToolsAssumption
<1>. DEFINE end == IF at + n < Len(lines) THEN at + n ELSE Len(lines)
            page == PageOf(lines, [offset |-> at, limit |-> n])
<1>3. page.lines = SubSeq(lines, at + 1, end) /\ page.more = Len(lines) - end
  BY DEF PageOf
<1>4. CASE at + n < Len(lines)
  BY <1>2, <1>3, <1>4
<1>5. CASE ~(at + n < Len(lines))
  BY <1>2, <1>3, <1>5
<1>. HIDE DEF page, end
<1>. QED BY <1>2, <1>4, <1>5 DEF page, end

LEMMA FilePaged ==
  ASSUME NEW lines \in Texts, NEW n \in Nat \ {0}
  PROVE  LET Rest[at \in 0..MaxLines] ==
               LET page == PageOf(lines, [offset |-> at, limit |-> n])
               IN  IF page.more = 0 THEN page.lines ELSE page.lines \o Rest[at + n]
         IN  Rest[0] = lines
<1>. DEFINE page(at) == PageOf(lines, [offset |-> at, limit |-> n])
            m == Len(lines)
            Is(f) == f = [at \in 0..MaxLines |->
                            IF page(at).more = 0 THEN page(at).lines
                            ELSE page(at).lines \o f[at + n]]
            left(at) == SubSeq(lines, at + 1, m)
            ideal == [at \in 0..MaxLines |-> left(at)]
<1>1. /\ MaxLines \in Nat /\ m \in 0..MaxLines /\ lines \in Seq(Lines)
      /\ \A at \in 0..MaxLines :
           /\ page(at).more = 0 => page(at).lines = left(at)
           /\ page(at).more # 0 => /\ at + n \in 0..m /\ at <= m
                                   /\ page(at).lines = SubSeq(lines, at + 1, at + n)
  <2>1. MaxLines \in Nat /\ 0 \in 0..MaxLines
    BY FileToolsAssumption
  <2>2. m \in 0..MaxLines /\ lines \in Seq(Lines)
    BY <2>1, PageIs
  <2>3. ASSUME NEW at \in 0..MaxLines
        PROVE  /\ page(at).more = 0 => page(at).lines = left(at)
               /\ page(at).more # 0 => /\ at + n \in 0..m /\ at <= m
                                       /\ page(at).lines = SubSeq(lines, at + 1, at + n)
    <3>1. /\ page(at).more = 0 => page(at).lines = SubSeq(lines, at + 1, Len(lines))
          /\ page(at).more # 0 => /\ at + n \in 0..Len(lines) /\ at <= Len(lines)
                                  /\ page(at).lines = SubSeq(lines, at + 1, at + n)
      BY PageIs
    <3>. HIDE DEF page
    <3>. QED BY <3>1
  <2>. HIDE DEF page, left
  <2>. QED BY <2>1, <2>2, <2>3
<1>. HIDE DEF page
<1>2. ASSUME NEW at \in 0..MaxLines, page(at).more # 0
      PROVE  at + n \in 0..MaxLines /\ page(at).lines \o left(at + n) = left(at)
  <2>1. at + n \in 0..m /\ at <= m /\ page(at).lines = SubSeq(lines, at + 1, at + n)
    BY <1>1, <1>2
  <2>2. at + 1 \in 1..(Len(lines) + 1) /\ at + n \in ((at + 1) - 1)..Len(lines)
        /\ Len(lines) \in (at + n)..Len(lines)
    BY <1>1, <2>1
  <2>3. SubSeq(lines, at + 1, at + n) \o SubSeq(lines, (at + n) + 1, Len(lines))
          = SubSeq(lines, at + 1, Len(lines))
    BY <1>1, <2>2, ConcatAdjacentSubSeq
  <2>4. left(at + n) = SubSeq(lines, (at + n) + 1, Len(lines))
        /\ left(at) = SubSeq(lines, at + 1, Len(lines))
    OBVIOUS
  <2>5. at + n \in 0..MaxLines
    BY <1>1, <2>1
  <2>. HIDE DEF left
  <2>6. page(at).lines \o left(at + n) = left(at)
    BY <2>1, <2>3, <2>4
  <2>. QED BY <2>5, <2>6
<1>3. Is(ideal)
  <2>1. ASSUME NEW at \in 0..MaxLines
        PROVE  ideal[at] = IF page(at).more = 0 THEN page(at).lines
                           ELSE page(at).lines \o ideal[at + n]
    <3>. HIDE DEF left
    <3>. QED BY <1>1, <1>2
  <2>. HIDE DEF left
  <2>. QED BY <2>1
<1>. DEFINE Rest == CHOOSE f : Is(f)
<1>4. Is(Rest)
  BY <1>3
<1>. HIDE DEF Rest, left, m
<1>5. ASSUME NEW at \in 0..MaxLines
      PROVE  Rest[at] = IF page(at).more = 0 THEN page(at).lines
                        ELSE page(at).lines \o Rest[at + n]
  BY <1>4
<1>. DEFINE T == {at \in 0..MaxLines : Rest[at] # left(at)}
<1>6. T = {}
  <2>. SUFFICES ASSUME T # {} PROVE FALSE
    OBVIOUS
  <2>1. PICK at \in T : \A k \in T : k <= at
    <3>1. T \subseteq 0..MaxLines
      OBVIOUS
    <3>. HIDE DEF T
    <3>. QED BY <1>1, <3>1, LastOf
  <2>2. at \in 0..MaxLines /\ Rest[at] # left(at)
    OBVIOUS
  <2>3. CASE page(at).more = 0
    BY <1>1, <1>5, <2>2, <2>3
  <2>4. CASE page(at).more # 0
    <3>1. at + n \in 0..MaxLines /\ page(at).lines \o left(at + n) = left(at)
      BY <1>2, <2>2, <2>4
    <3>2. ~(at + n <= at)
      BY <2>2
    <3>3. Rest[at + n] = left(at + n)
      BY <2>1, <3>1, <3>2
    <3>. QED BY <1>5, <2>2, <2>4, <3>1, <3>3
  <2>. QED BY <2>3, <2>4
<1>7. Rest[0] = left(0)
  BY <1>1, <1>6
<1>8. left(0) = lines
  BY <1>1, SubSeqFull DEF left, m
<1>. QED BY <1>7, <1>8 DEF Rest, page

\* What a search finds, unless it stops at the limit, is what there is.
LEMMA SearchFinds ==
  ASSUME NEW lines \in Texts, NEW wanted, NEW limit \in Nat \ {0}
  PROVE  LET found == SearchFile(lines, wanted, 0, limit) IN
         Announced(found.total, limit) \/ ToSet(Shown(found, limit)) = Places(lines, wanted)
<1>. DEFINE places == [i \in DOMAIN lines |-> i]
            n == Len(lines)
            found == SearchFile(lines, wanted, 0, limit)
<1>1. n \in Nat /\ DOMAIN lines = 1..n
  <2>1. PICK m \in 0..MaxLines : lines \in [1..m -> Lines]
    BY DEF Texts
  <2>. QED BY <2>1
<1>2. /\ places \in Seq(DOMAIN lines) /\ Len(places) = n /\ \A k \in 1..n : places[k] = k
      /\ places = [i \in DOMAIN lines |-> i]
  BY <1>1
<1>. HIDE DEF places
<1>3. PICK g \in [0..n -> Found] :
        /\ g[0] = [shown |-> <<>>, total |-> 0] /\ g[n] = found
        /\ \A k \in 1..n :
             g[k] = (IF lines[places[k]] # wanted THEN g[k - 1]
                     ELSE [shown |-> IF Len(g[k - 1].shown) >= limit THEN g[k - 1].shown
                                     ELSE g[k - 1].shown \o Around(lines, places[k], 0),
                           total |-> g[k - 1].total + 1])
  <2>1. \E h \in [0..Len(places) -> Found] :
          /\ h[0] = [shown |-> <<>>, total |-> 0]
          /\ h[Len(places)] = SearchFile(lines, wanted, 0, limit)
          /\ \A k \in 1..Len(places) :
               h[k] = (IF lines[places[k]] # wanted THEN h[k - 1]
                       ELSE [shown |-> IF Len(h[k - 1].shown) >= limit THEN h[k - 1].shown
                                       ELSE h[k - 1].shown \o Around(lines, places[k], 0),
                             total |-> h[k - 1].total + 1])
    <3>1. Len(places) = Len(lines)
      BY <1>2
    <3>2. Lined(lines, places)
      BY <1>2, <3>1 DEF Lined
    <3>. HIDE DEF n, found
    <3>3. Searched(lines, wanted, limit, places)
      BY <3>2, SearchFold
    <3>. QED BY <3>3 DEF Searched, FoundAt
  <2>2. Len(places) = n
    BY <1>2
  <2>. HIDE DEF n
  <2>. QED BY <2>1, <2>2 DEF found
<1>. HIDE DEF found, n
<1>. DEFINE Places1(k) == {i \in 1..k : lines[i] = wanted}
            T == {k \in 0..n : g[k].total <= limit =>
                    /\ Len(g[k].shown) = g[k].total
                    /\ {g[k].shown[j] : j \in 1..Len(g[k].shown)} = Places1(k)}
<1>4. 0 \in T
  <2>1. Places1(0) = {}
    OBVIOUS
  <2>. QED BY <1>1, <1>3, <2>1
<1>5. ASSUME NEW k \in 0..(n - 1), k \in T PROVE k + 1 \in T
  <2>1. k \in 0..n /\ k + 1 \in 1..n /\ k + 1 \in 0..n /\ (k + 1) - 1 = k /\ k \in Nat
        /\ 1..(k + 1) = 1..k \cup {k + 1}
    BY <1>1
  <2>2. g[k] \in Found /\ g[k].total \in Nat /\ g[k].shown \in Seq(Nat)
    BY <1>3, <2>1 DEF Found
  <2>. DEFINE i == k + 1
  <2>3. i \in DOMAIN lines /\ places[i] = i
    BY <1>1, <1>2, <2>1
  <2>4. Around(lines, i, 0) = <<i>>
    BY <2>2, <2>3, FoundType
  <2>5. g[i] = (IF lines[i] # wanted THEN g[k]
                ELSE [shown |-> IF Len(g[k].shown) >= limit THEN g[k].shown
                                ELSE g[k].shown \o <<i>>,
                      total |-> g[k].total + 1])
    BY <1>3, <2>1, <2>3, <2>4
  <2>6. CASE lines[i] # wanted
    <3>1. g[i] = g[k] /\ Places1(i) = Places1(k)
      BY <2>1, <2>5, <2>6
    <3>. QED BY <1>5, <2>1, <3>1
  <2>7. CASE lines[i] = wanted
    <3>. SUFFICES ASSUME g[i].total <= limit
                  PROVE  /\ Len(g[i].shown) = g[i].total
                         /\ {g[i].shown[j] : j \in 1..Len(g[i].shown)} = Places1(i)
      BY <2>1
    <3>1. g[i].total = g[k].total + 1
      BY <2>5, <2>7
    <3>2. g[k].total <= limit /\ ~(g[k].total >= limit)
      BY <2>2, <3>1
    <3>3. Len(g[k].shown) = g[k].total
          /\ {g[k].shown[j] : j \in 1..Len(g[k].shown)} = Places1(k)
      BY <1>5, <3>2
    <3>4. g[i].shown = g[k].shown \o <<i>>
      BY <2>5, <2>7, <3>2, <3>3
    <3>5. /\ Len(g[i].shown) = Len(g[k].shown) + 1
          /\ g[i].shown[Len(g[k].shown) + 1] = i
          /\ \A j \in 1..Len(g[k].shown) : g[i].shown[j] = g[k].shown[j]
      BY <2>1, <2>2, <3>4
    <3>6. Places1(i) = Places1(k) \cup {i}
      BY <2>1, <2>7
    <3>7. {g[i].shown[j] : j \in 1..Len(g[i].shown)}
            = {g[k].shown[j] : j \in 1..Len(g[k].shown)} \cup {i}
      <4>1. Len(g[k].shown) \in Nat
        BY <2>2
      <4>2. 1..Len(g[i].shown) = 1..Len(g[k].shown) \cup {Len(g[k].shown) + 1}
        BY <3>5, <4>1
      <4>3. ASSUME NEW j \in 1..Len(g[i].shown)
            PROVE  g[i].shown[j] \in {g[k].shown[x] : x \in 1..Len(g[k].shown)} \cup {i}
        BY <3>5, <4>2
      <4>4. ASSUME NEW j \in 1..Len(g[k].shown)
            PROVE  g[k].shown[j] \in {g[i].shown[x] : x \in 1..Len(g[i].shown)}
        <5>1. j \in 1..Len(g[i].shown) /\ g[i].shown[j] = g[k].shown[j]
          BY <3>5, <4>2
        <5>. QED BY <5>1
      <4>5. i \in {g[i].shown[x] : x \in 1..Len(g[i].shown)}
        <5>1. Len(g[k].shown) + 1 \in 1..Len(g[i].shown)
          BY <4>2
        <5>. QED BY <3>5, <5>1
      <4>. HIDE DEF i
      <4>. QED BY <4>3, <4>4, <4>5
    <3>. QED BY <3>1, <3>3, <3>5, <3>6, <3>7
  <2>. QED BY <2>6, <2>7
<1>6. n \in T
  <2>1. 0..n \subseteq T
    <3>. HIDE DEF T
    <3>. QED BY <1>1, <1>4, <1>5, Reaches
  <2>. QED BY <1>1, <2>1
<1>7. found.total \in Nat /\ found.shown \in Seq(Nat)
  <2>1. g[n] \in Found
    BY <1>1, <1>3
  <2>. QED BY <1>3, <2>1 DEF Found
<1>8. ASSUME found.total <= limit PROVE ToSet(Shown(found, limit)) = Places(lines, wanted)
  <2>1. Len(found.shown) = found.total
        /\ {found.shown[j] : j \in 1..Len(found.shown)} = Places1(n)
    BY <1>3, <1>6, <1>8
  <2>2. Shown(found, limit) = found.shown
    <3>1. (IF Len(found.shown) < limit THEN Len(found.shown) ELSE limit) = Len(found.shown)
      BY <1>7, <1>8, <2>1
    <3>2. SubSeq(found.shown, 1, Len(found.shown)) = found.shown
      BY <1>7, SubSeqFull
    <3>. QED BY <3>1, <3>2 DEF Shown
  <2>3. ToSet(found.shown) = {found.shown[j] : j \in 1..Len(found.shown)}
    <3>1. DOMAIN found.shown = 1..Len(found.shown)
      BY <1>7
    <3>. QED BY <3>1 DEF ToSet
  <2>4. Places1(n) = Places(lines, wanted)
    BY <1>1 DEF Places
  <2>. QED BY <2>1, <2>2, <2>3, <2>4
<1>9. ~(found.total <= limit) => Announced(found.total, limit)
  BY <1>7 DEF Announced
<1>. QED BY <1>8, <1>9 DEF found

\* What is known of the tools says what is asked of them.
LEMMA FilesAnswer == FilesInv => FilesLaw
<1>. SUFFICES ASSUME FilesInv PROVE FilesLaw
  OBVIOUS
<1>1. \A p \in DOMAIN text : text[p] \in Texts
  BY DEF FilesInv
<1>2. PagesCover
  <2>1. 1..MaxLines \subseteq Nat \ {0}
    BY FileToolsAssumption
  <2>. QED BY <1>1, <2>1, FilePaged DEF PagesCover
<1>3. SearchTold
  <2>1. Limits \subseteq Nat \ {0}
    BY FileToolsAssumption
  <2>. QED BY <1>1, <2>1, SearchFinds DEF SearchTold
<1>. QED BY <1>2, <1>3 DEF FilesInv, FilesLaw

-----------------------------------------------------------------------------
(* CuckooFilter: numbers *)


\* The next power of two, from that of the half.
LEMMA NextPowerIs ==
  /\ \A n \in Nat : NextPower[n] \in Nat
  /\ \A n \in Nat : NextPower[n] = IF n <= 1 THEN 1 ELSE 2 * NextPower[CeilDiv(n, 2)]
<1>. DEFINE Is(f) == f = [n \in Nat |-> IF n <= 1 THEN 1 ELSE 2 * f[CeilDiv(n, 2)]]
            half == [n \in Nat \ {0} |-> IF n = 1 THEN 0 ELSE CeilDiv(n, 2)]
            step == [n \in Nat \ {0} |-> [d \in Nat |-> IF n = 1 THEN 1 ELSE 2 * d]]
<1>1. Descent(Nat, 1, half, step)
  <2>1. \A n \in Nat \ {0} : half[n] \in Nat /\ half[n] < n
    BY DEF CeilDiv
  <2>2. half \in [Nat \ {0} -> Nat] /\ step \in [Nat \ {0} -> [Nat -> Nat]]
    BY <2>1
  <2>. HIDE DEF half, step
  <2>. QED BY <2>1, <2>2 DEF Descent
<1>2. PICK f : Descended(Nat, 1, half, step, f)
  <2>. HIDE DEF half, step
  <2>. QED BY <1>1, Descends
<1>3. f \in [Nat -> Nat] /\ \A n \in Nat : f[n] = IF n <= 1 THEN 1 ELSE 2 * f[CeilDiv(n, 2)]
  <2>1. f \in [Nat -> Nat] /\ f[0] = 1
    BY <1>2 DEF Descended
  <2>2. ASSUME NEW n \in Nat \ {0} PROVE f[n] = IF n = 1 THEN 1 ELSE 2 * f[CeilDiv(n, 2)]
    <3>1. f[n] = step[n][f[half[n]]] /\ half[n] \in Nat
      BY <1>1, <1>2 DEF Descended, Descent
    <3>2. f[half[n]] \in Nat
      BY <2>1, <3>1
    <3>. QED BY <3>1, <3>2
  <2>. QED BY <2>1, <2>2
<1>4. Is(f)
  BY <1>3
<1>5. Is(NextPower)
  BY <1>4 DEF NextPower
<1>. DEFINE P == NextPower
<1>6. \A n \in Nat : P[n] = IF n <= 1 THEN 1 ELSE 2 * P[CeilDiv(n, 2)]
  <2>. HIDE DEF P
  <2>. QED BY <1>5 DEF P
<1>7. ASSUME NEW n \in Nat PROVE P[n] \in Nat
  <2>. DEFINE S == {k \in Nat : P[k] \notin Nat}
  <2>. SUFFICES ASSUME S # {} PROVE FALSE
    OBVIOUS
  <2>1. PICK k \in S : \A j \in S : k <= j
    <3>1. S \subseteq Nat
      OBVIOUS
    <3>. HIDE DEF S
    <3>. QED BY <3>1, MinOf
  <2>. HIDE DEF P
  <2>2. k > 1 /\ k \in Nat
    BY <1>6
  <2>3. CeilDiv(k, 2) \in Nat /\ ~(k <= CeilDiv(k, 2))
    BY <2>2 DEF CeilDiv
  <2>4. P[CeilDiv(k, 2)] \in Nat
    BY <2>1, <2>3
  <2>5. P[k] = 2 * P[CeilDiv(k, 2)]
    BY <1>6, <2>2
  <2>. QED BY <2>4, <2>5
<1>. QED BY <1>6, <1>7

\* The exclusive or, from that of the halves.
LEMMA ExclusiveOrIs ==
  /\ ExclusiveOr \in [Nat -> [Nat -> Nat]]
  /\ \A a, b \in Nat :
       ExclusiveOr[a][b] = ((a + b) % 2) + 2 * ExclusiveOr[a \div 2][b \div 2]
<1>. DEFINE D == [Nat -> Nat]
            Is(f) == f = [a \in Nat |->
                            [b \in Nat |-> IF a = 0 \/ b = 0 THEN a + b
                                         ELSE ((a + b) % 2) + 2 * f[a \div 2][b \div 2]]]
            base == [b \in Nat |-> b]
            half == [a \in Nat \ {0} |-> a \div 2]
            next(a, d) == [b \in Nat |-> IF b = 0 THEN a ELSE ((a + b) % 2) + 2 * d[b \div 2]]
            step == [a \in Nat \ {0} |-> [d \in D |-> next(a, d)]]
<1>1. Descent(D, base, half, step)
  <2>1. half \in [Nat \ {0} -> Nat] /\ \A a \in Nat \ {0} : half[a] < a
    OBVIOUS
  <2>2. ASSUME NEW a \in Nat \ {0}, NEW d \in D PROVE next(a, d) \in D
    <3>1. ASSUME NEW b \in Nat
          PROVE  (IF b = 0 THEN a ELSE ((a + b) % 2) + 2 * d[b \div 2]) \in Nat
      <4>1. b \div 2 \in Nat /\ (a + b) % 2 \in Nat
        OBVIOUS
      <4>2. d[b \div 2] \in Nat
        BY <4>1
      <4>. QED BY <4>1, <4>2
    <3>. QED BY <3>1
  <2>. HIDE DEF next
  <2>3. step \in [Nat \ {0} -> [D -> D]]
    BY <2>2
  <2>. HIDE DEF half, step
  <2>. QED BY <2>1, <2>3 DEF Descent
<1>2. PICK f : Descended(D, base, half, step, f)
  <2>. HIDE DEF half, step, base, D
  <2>. QED BY <1>1, Descends
<1>3. /\ f \in [Nat -> D] /\ f[0] = base
      /\ \A a \in Nat \ {0} : f[a] = next(a, f[a \div 2])
  <2>1. /\ f \in [Nat -> D] /\ f[0] = base
        /\ \A a \in Nat \ {0} : f[a] = step[a][f[half[a]]]
    BY <1>2 DEF Descended
  <2>2. ASSUME NEW a \in Nat \ {0} PROVE f[a] = next(a, f[a \div 2])
    <3>1. a \div 2 \in Nat /\ half[a] = a \div 2
      OBVIOUS
    <3>2. f[a \div 2] \in D
      BY <2>1, <3>1
    <3>. HIDE DEF D, next
    <3>. QED BY <2>1, <3>1, <3>2
  <2>. QED BY <2>1, <2>2
<1>4. Is(f)
  <2>1. ASSUME NEW a \in Nat
        PROVE  f[a] = [b \in Nat |-> IF a = 0 \/ b = 0 THEN a + b
                                     ELSE ((a + b) % 2) + 2 * f[a \div 2][b \div 2]]
    <3>1. CASE a = 0
      BY <1>3, <3>1
    <3>2. CASE a # 0
      BY <1>3, <3>2
    <3>. QED BY <3>1, <3>2
  <2>. QED BY <1>3, <2>1
<1>5. Is(ExclusiveOr)
  <2>. HIDE DEF base, half, step, D
  <2>. QED BY <1>4 DEF ExclusiveOr
<1>. DEFINE X == ExclusiveOr
<1>. DEFINE row(a) == [b \in Nat |-> IF a = 0 \/ b = 0 THEN a + b
                                    ELSE ((a + b) % 2) + 2 * X[a \div 2][b \div 2]]
<1>6. \A a, b \in Nat : X[a][b] = IF a = 0 \/ b = 0 THEN a + b
                                ELSE ((a + b) % 2) + 2 * X[a \div 2][b \div 2]
  <2>1. X = [a \in Nat |-> row(a)]
    BY <1>5
  <2>. HIDE DEF X
  <2>2. \A a, b \in Nat : row(a)[b] = IF a = 0 \/ b = 0 THEN a + b
                                ELSE ((a + b) % 2) + 2 * X[a \div 2][b \div 2]
    OBVIOUS
  <2>. HIDE DEF row
  <2>3. \A a \in Nat : X[a] = row(a)
    BY <2>1
  <2>. QED BY <2>2, <2>3
<1>7. X = [a \in Nat |-> X[a]] /\ \A a \in Nat : X[a] = [b \in Nat |-> X[a][b]]
  <2>1. X = [a \in Nat |-> row(a)]
    BY <1>5
  <2>. HIDE DEF X
  <2>2. \A a \in Nat : row(a) = [b \in Nat |-> row(a)[b]]
    OBVIOUS
  <2>. HIDE DEF row
  <2>3. \A a \in Nat : X[a] = row(a)
    BY <2>1
  <2>. QED BY <2>1, <2>2, <2>3
<1>. HIDE DEF row
<1>8. ASSUME NEW a \in Nat PROVE \A b \in Nat : X[a][b] \in Nat
  <2>. DEFINE S == {k \in Nat : \E b \in Nat : X[k][b] \notin Nat}
  <2>. SUFFICES ASSUME S # {} PROVE FALSE
    OBVIOUS
  <2>1. PICK k \in S : \A j \in S : k <= j
    <3>1. S \subseteq Nat
      OBVIOUS
    <3>. HIDE DEF S
    <3>. QED BY <3>1, MinOf
  <2>2. PICK b \in Nat : X[k][b] \notin Nat
    BY <2>1
  <2>. HIDE DEF X
  <2>3. k \in Nat /\ k # 0 /\ b # 0 /\ X[k][b] = ((k + b) % 2) + 2 * X[k \div 2][b \div 2]
    BY <1>6, <2>2
  <2>4. k \div 2 \in Nat /\ b \div 2 \in Nat /\ (k + b) % 2 \in Nat /\ ~(k <= k \div 2)
    BY <2>3
  <2>5. X[k \div 2][b \div 2] \in Nat
    BY <2>1, <2>4
  <2>. QED BY <2>2, <2>3, <2>4, <2>5
<1>9. X \in [Nat -> [Nat -> Nat]]
  <2>. HIDE DEF X
  <2>1. \A a \in Nat : X[a] \in [Nat -> Nat]
    BY <1>7, <1>8
  <2>. QED BY <1>7, <2>1
<1>10. ASSUME NEW a \in Nat, NEW b \in Nat
       PROVE  X[a][b] = ((a + b) % 2) + 2 * X[a \div 2][b \div 2]
  <2>. HIDE DEF X
  <2>1. a \div 2 \in Nat /\ b \div 2 \in Nat /\ 0 \div 2 = 0
    OBVIOUS
  <2>2. CASE a = 0 \/ b = 0
    <3>1. X[a][b] = a + b /\ X[a \div 2][b \div 2] = (a \div 2) + (b \div 2)
      BY <1>6, <2>1, <2>2
    <3>. QED BY <2>1, <2>2, <3>1
  <2>. QED BY <1>6, <2>2
<1>. QED BY <1>9, <1>10

\* Going to the other bucket twice leads back, when the buckets are a power of two.
Returning(n) ==
  /\ n \in Nat \ {0}
  /\ \A a \in 0..(n - 1), b \in Nat : ExclusiveOr[ExclusiveOr[a][b] % n][b] % n = a

LEMMA Remainders ==
  ASSUME NEW n \in Nat \ {0}, NEW m \in Nat, NEW r \in {0, 1}
  PROVE  /\ m % n \in 0..(n - 1)
         /\ (r + 2 * m) % (2 * n) = r + 2 * (m % n)
<1>. DEFINE q == m \div n
            s == m % n
<1>1. q \in Nat /\ s \in 0..(n - 1) /\ m = q * n + s
  OBVIOUS
<1>. HIDE DEF q, s
<1>2. r + 2 * m = q * (2 * n) + (r + 2 * s) /\ r + 2 * s \in 0..(2 * n - 1)
  BY <1>1
<1>3. (r + 2 * m) % (2 * n) = r + 2 * s
  BY <1>1, <1>2
<1>. QED BY <1>1, <1>3 DEF s

LEMMA ReturningTwice ==
  ASSUME NEW n, Returning(n)
  PROVE  Returning(2 * n)
<1>1. n \in Nat \ {0} /\ 2 * n \in Nat \ {0}
  BY DEF Returning
<1>. SUFFICES ASSUME NEW a \in 0..(2 * n - 1), NEW b \in Nat
              PROVE  ExclusiveOr[ExclusiveOr[a][b] % (2 * n)][b] % (2 * n) = a
  BY <1>1 DEF Returning
<1>. DEFINE h == a \div 2
            l == b \div 2
            x == ExclusiveOr[h][l]
            y == x % n
            r == (a + b) % 2
            c == r + 2 * y
<1>2. /\ a \in Nat /\ h \in 0..(n - 1) /\ h \in Nat /\ l \in Nat /\ r \in {0, 1}
      /\ a = 2 * h + (a % 2)
  BY <1>1
<1>3. x \in Nat /\ ExclusiveOr[a][b] = r + 2 * x
  BY <1>2, ExclusiveOrIs
<1>. HIDE DEF x, r, h, l
<1>4. y \in 0..(n - 1) /\ ExclusiveOr[a][b] % (2 * n) = c
  BY <1>1, <1>2, <1>3, Remainders
<1>. HIDE DEF y
<1>5. c \in Nat /\ c \div 2 = y /\ (c + b) % 2 = a % 2
  <2>1. c \in Nat /\ c \div 2 = y
    BY <1>1, <1>2, <1>4
  <2>2. (c + b) % 2 = (r + b) % 2
    BY <1>1, <1>2, <1>4
  <2>3. (r + b) % 2 = a % 2
    BY <1>2 DEF r
  <2>. QED BY <2>1, <2>2, <2>3
<1>. HIDE DEF c
<1>6. ExclusiveOr[c][b] = (a % 2) + 2 * ExclusiveOr[y][l] /\ ExclusiveOr[y][l] \in Nat
  <2>1. ExclusiveOr[c][b] = ((c + b) % 2) + 2 * ExclusiveOr[c \div 2][b \div 2]
    BY <1>5, ExclusiveOrIs
  <2>2. y \in Nat /\ l \in Nat
    BY <1>1, <1>2, <1>4
  <2>3. ExclusiveOr[y][l] \in Nat
    BY <2>2, ExclusiveOrIs
  <2>. QED BY <1>5, <2>1, <2>3 DEF l
<1>7. ExclusiveOr[y][l] % n = h
  BY <1>2 DEF Returning, y, x
<1>8. ExclusiveOr[c][b] % (2 * n) = (a % 2) + 2 * h
  <2>1. a % 2 \in {0, 1}
    BY <1>2
  <2>. QED BY <1>1, <1>6, <1>7, <2>1, Remainders
<1>. QED BY <1>2, <1>4, <1>8

LEMMA NumBucketsReturn == Returning(NumBuckets)
<1>. DEFINE S == {n \in Nat : ~Returning(NextPower[n])}
<1>1. Returning(1)
  <2>1. 1 \in Nat \ {0}
    OBVIOUS
  <2>2. ASSUME NEW a \in 0..(1 - 1), NEW b \in Nat
        PROVE  ExclusiveOr[ExclusiveOr[a][b] % 1][b] % 1 = a
    <3>1. a = 0 /\ a \in Nat
      OBVIOUS
    <3>2. \A x \in Nat : x % 1 = 0
      OBVIOUS
    <3>3. ExclusiveOr[a][b] \in Nat
      BY <3>1, ExclusiveOrIs
    <3>4. ExclusiveOr[a][b] % 1 \in Nat
      BY <3>2, <3>3
    <3>5. ExclusiveOr[ExclusiveOr[a][b] % 1][b] \in Nat
      BY <3>4, ExclusiveOrIs
    <3>. QED BY <3>1, <3>2, <3>5
  <2>. QED BY <2>1, <2>2 DEF Returning
<1>2. S = {}
  <2>. SUFFICES ASSUME S # {} PROVE FALSE
    OBVIOUS
  <2>1. PICK k \in S : \A j \in S : k <= j
    <3>1. S \subseteq Nat
      OBVIOUS
    <3>. HIDE DEF S
    <3>. QED BY <3>1, MinOf
  <2>2. k \in Nat /\ ~(k <= 1)
    BY <1>1, NextPowerIs
  <2>3. CeilDiv(k, 2) \in Nat /\ ~(k <= CeilDiv(k, 2))
    BY <2>2 DEF CeilDiv
  <2>4. Returning(NextPower[CeilDiv(k, 2)])
    BY <2>1, <2>3
  <2>5. NextPower[k] = 2 * NextPower[CeilDiv(k, 2)]
    BY <2>2, NextPowerIs
  <2>. QED BY <2>4, <2>5, ReturningTwice
<1>3. CeilDiv(Capacity, BucketSize) \in Nat
  <2>1. Capacity \in Nat \ {0} /\ BucketSize \in Nat \ {0}
    BY FilterAssumption
  <2>. QED BY <2>1 DEF CeilDiv
<1>. QED BY <1>2, <1>3 DEF NumBuckets

-----------------------------------------------------------------------------
(* CuckooFilter: slots *)

Stamps == {Fingerprint[k] : k \in Keys}
Rows == 0..(NumBuckets - 1)
Grids == [Rows -> Seq(Stamps)]

\* A key's buckets lead to each other, and to them leads no other bucket.
LEMMA Partners ==
  /\ NumBuckets \in Nat \ {0} /\ Rows \subseteq Nat
  /\ \A i \in Rows, f \in Stamps : Partner(i, f) \in Rows /\ Partner(Partner(i, f), f) = i
  /\ \A k \in Keys : Index(k) \in Rows /\ Fingerprint[k] \in Stamps /\ Home(k) \subseteq Rows
<1>1. NumBuckets \in Nat \ {0} /\ \A a \in Rows, b \in Nat :
        ExclusiveOr[ExclusiveOr[a][b] % NumBuckets][b] % NumBuckets = a
  BY NumBucketsReturn DEF Returning, Rows
<1>. HIDE DEF Rows
<1>2. \A m \in Nat : m % NumBuckets \in Rows
  <2>. HIDE DEF NumBuckets
  <2>. QED BY <1>1 DEF Rows
<1>3. Rows \subseteq Nat
  BY DEF Rows
<1>4. \A f \in Stamps : HashOf[f] \in Nat
  BY FilterAssumption DEF Stamps
<1>5. ASSUME NEW i \in Rows, NEW f \in Stamps
      PROVE  Partner(i, f) \in Rows /\ Partner(Partner(i, f), f) = i
  <2>1. ExclusiveOr[i][HashOf[f]] \in Nat
    BY <1>3, <1>4, ExclusiveOrIs
  <2>. QED BY <1>1, <1>2, <1>4, <2>1 DEF Partner
<1>6. ASSUME NEW k \in Keys
      PROVE  Index(k) \in Rows /\ Fingerprint[k] \in Stamps /\ Home(k) \subseteq Rows
  <2>1. Index(k) \in Rows /\ Fingerprint[k] \in Stamps
    BY <1>2, FilterAssumption DEF Index, Stamps
  <2>. QED BY <1>5, <2>1 DEF Home
<1>. QED BY <1>1, <1>3, <1>5, <1>6

\* The slots of g, and those that hold a print of M in its bucket.
SlotsOf(g) == UNION {{<<i, n>> : n \in DOMAIN g[i]} : i \in DOMAIN g}
Where(g, M) == {p \in SlotsOf(g) : <<p[1], g[p[1]][p[2]]>> \in M}

\* One or none.
Bit(b) == IF b THEN 1 ELSE 0

LEMMA SlotsAre ==
  ASSUME NEW g \in Grids
  PROVE  /\ IsFiniteSet(SlotsOf(g)) /\ SlotsOf(g) \subseteq Rows \X Nat
         /\ \A i \in Rows, n \in Nat : <<i, n>> \in SlotsOf(g) <=> n \in 1..Len(g[i])
<1>. DEFINE row(i) == {<<i, n>> : n \in DOMAIN g[i]}
            R == {row(i) : i \in Rows}
<1>1. DOMAIN g = Rows /\ \A i \in Rows : DOMAIN g[i] = 1..Len(g[i]) /\ Len(g[i]) \in Nat
  BY DEF Grids
<1>2. IsFiniteSet(R)
  <2>1. IsFiniteSet(Rows)
    <3>1. NumBuckets \in Nat
      BY Partners
    <3>. HIDE DEF NumBuckets
    <3>2. 0 \in Int /\ NumBuckets - 1 \in Int
      BY <3>1
    <3>3. IsFiniteSet(0..(NumBuckets - 1))
      BY <3>2, FS_Interval
    <3>. QED BY <3>3 DEF Rows
  <2>2. [i \in Rows |-> row(i)] \in Surjection(Rows, R)
    <3>. HIDE DEF row
    <3>. QED BY DEF Surjection
  <2>. HIDE DEF R
  <2>. QED BY <2>1, <2>2, FS_Surjection
<1>3. ASSUME NEW i \in Rows PROVE IsFiniteSet(row(i))
  <2>1. IsFiniteSet(1..Len(g[i]))
    <3>1. 1 \in Int /\ Len(g[i]) \in Int
      BY <1>1
    <3>. QED BY <3>1, FS_Interval
  <2>2. [n \in 1..Len(g[i]) |-> <<i, n>>] \in Surjection(1..Len(g[i]), row(i))
    BY <1>1 DEF Surjection
  <2>. HIDE DEF row
  <2>. QED BY <2>1, <2>2, FS_Surjection
<1>4. SlotsOf(g) = UNION R
  BY <1>1 DEF SlotsOf
<1>5. IsFiniteSet(SlotsOf(g))
  <2>1. \A T \in R : IsFiniteSet(T)
    <3>. HIDE DEF row
    <3>. QED BY <1>3
  <2>. HIDE DEF R
  <2>. QED BY <1>2, <1>4, <2>1, FS_UNION
<1>6. SlotsOf(g) \subseteq Rows \X Nat
  BY <1>1, <1>4
<1>7. \A i \in Rows, n \in Nat : <<i, n>> \in SlotsOf(g) <=> n \in 1..Len(g[i])
  BY <1>1, <1>4
<1>. QED BY <1>5, <1>6, <1>7

LEMMA WhereIs ==
  ASSUME NEW g \in Grids, NEW M
  PROVE  /\ IsFiniteSet(Where(g, M)) /\ Cardinality(Where(g, M)) \in Nat
         /\ Where(g, M) \subseteq Rows \X Nat
         /\ \A i \in Rows, n \in Nat :
              <<i, n>> \in Where(g, M) <=> n \in 1..Len(g[i]) /\ <<i, g[i][n]>> \in M
<1>1. Where(g, M) \subseteq SlotsOf(g)
  BY DEF Where
<1>2. IsFiniteSet(Where(g, M))
  BY <1>1, SlotsAre, FS_Subset
<1>3. Cardinality(Where(g, M)) \in Nat
  BY <1>2, FS_CardinalityType
<1>4. \A i \in Rows, n \in Nat :
        <<i, n>> \in Where(g, M) <=> n \in 1..Len(g[i]) /\ <<i, g[i][n]>> \in M
  BY SlotsAre DEF Where
<1>5. Where(g, M) \subseteq Rows \X Nat
  BY <1>1, SlotsAre
<1>. QED BY <1>2, <1>3, <1>4, <1>5

\* Two sets of slots are one when they have the same slots.
LEMMA SameSlots ==
  ASSUME NEW X, NEW Y, X \subseteq Rows \X Nat, Y \subseteq Rows \X Nat,
         \A i \in Rows, n \in Nat : <<i, n>> \in X <=> <<i, n>> \in Y
  PROVE  X = Y
OBVIOUS

\* One more slot, or none.
LEMMA OneMore ==
  ASSUME NEW R, NEW X, NEW here, NEW b \in BOOLEAN, IsFiniteSet(R), here \notin R,
         X = R \cup (IF b THEN {here} ELSE {})
  PROVE  Cardinality(R) \in Nat /\ Cardinality(X) = Cardinality(R) + Bit(b)
<1>1. Cardinality(R) \in Nat
  BY FS_CardinalityType
<1>2. CASE b
  BY <1>1, <1>2, FS_AddElement DEF Bit
<1>3. CASE ~b
  BY <1>1, <1>3 DEF Bit
<1>. QED BY <1>1, <1>2, <1>3

\* What an insertion, an exchange and a removal make of their number.
PutIn(g, i, f, h) ==
  /\ g \in Grids /\ i \in Rows /\ f \in Stamps
  /\ h = [g EXCEPT ![i] = Append(@, f)]

LEMMA WherePut ==
  ASSUME NEW g, NEW i, NEW f, NEW h, PutIn(g, i, f, h), NEW M
  PROVE  /\ h \in Grids /\ \A j \in Rows : Len(h[j]) = Len(g[j]) + Bit(j = i)
         /\ Cardinality(Where(h, M)) = Cardinality(Where(g, M)) + Bit(<<i, f>> \in M)
<1>. USE DEF PutIn
<1>1. /\ h \in Grids /\ Len(h[i]) = Len(g[i]) + 1
      /\ \A j \in Rows : Len(g[j]) \in Nat
  BY DEF Grids
<1>2. /\ \A j \in Rows : j # i => h[j] = g[j]
      /\ \A n \in 1..Len(g[i]) : h[i][n] = g[i][n]
      /\ h[i][Len(g[i]) + 1] = f
  BY DEF Grids
<1>. DEFINE last == Len(g[i]) + 1
            fresh == <<i, last>>
            b == <<i, f>> \in M
            X == Where(g, M) \cup (IF b THEN {fresh} ELSE {})
<1>3. /\ \A j \in Rows, n \in Nat :
           <<j, n>> \in Where(g, M) <=> n \in 1..Len(g[j]) /\ <<j, g[j][n]>> \in M
      /\ \A j \in Rows, n \in Nat :
           <<j, n>> \in Where(h, M) <=> n \in 1..Len(h[j]) /\ <<j, h[j][n]>> \in M
      /\ Where(g, M) \subseteq Rows \X Nat /\ Where(h, M) \subseteq Rows \X Nat
      /\ IsFiniteSet(Where(g, M)) /\ Cardinality(Where(g, M)) \in Nat
  BY <1>1, WhereIs
<1>4. Where(h, M) = X
  <2>1. X \subseteq Rows \X Nat
    BY <1>1, <1>3
  <2>2. ASSUME NEW j \in Rows, NEW n \in Nat
        PROVE  <<j, n>> \in Where(h, M) <=> <<j, n>> \in X
    <3>1. CASE j # i
      BY <1>2, <1>3, <3>1
    <3>2. CASE j = i /\ n = last
      <4>1. n \in 1..Len(h[j]) /\ n \notin 1..Len(g[j]) /\ h[j][n] = f
        BY <1>1, <1>2, <3>2
      <4>2. <<j, n>> \in Where(h, M) <=> b
        BY <1>3, <3>2, <4>1
      <4>3. <<j, n>> \in X <=> b
        BY <1>3, <3>2, <4>1
      <4>. QED BY <4>2, <4>3
    <3>3. CASE j = i /\ n # last
      <4>1. n \in 1..Len(h[j]) <=> n \in 1..Len(g[j])
        BY <1>1, <3>3
      <4>2. n \in 1..Len(g[j]) => h[j][n] = g[j][n]
        BY <1>2, <3>3
      <4>3. <<j, n>> # fresh
        BY <3>3
      <4>. QED BY <1>3, <4>1, <4>2, <4>3
    <3>. QED BY <3>1, <3>2, <3>3
  <2>. HIDE DEF X
  <2>. QED BY <1>3, <2>1, <2>2, SameSlots
<1>5. fresh \notin Where(g, M)
  <2>1. last \in Nat /\ last \notin 1..Len(g[i])
    BY <1>1
  <2>. HIDE DEF last
  <2>. QED BY <1>3, <2>1
<1>6. ASSUME NEW j \in Rows PROVE Len(h[j]) = Len(g[j]) + Bit(j = i)
  <2>1. CASE j = i
    BY <1>1, <2>1 DEF Bit
  <2>2. CASE j # i
    BY <1>1, <1>2, <2>2 DEF Bit
  <2>. QED BY <2>1, <2>2
<1>7. Cardinality(X) = Cardinality(Where(g, M)) + Bit(b)
  <2>. DEFINE R == Where(g, M)
  <2>1. IsFiniteSet(R) /\ b \in BOOLEAN /\ X = R \cup (IF b THEN {fresh} ELSE {}) /\ fresh \notin R
    BY <1>3, <1>5
  <2>. HIDE DEF fresh, X, b, R
  <2>2. Cardinality(X) = Cardinality(R) + Bit(b)
    BY <2>1, OneMore
  <2>. QED BY <2>2 DEF R
<1>. QED BY <1>1, <1>4, <1>6, <1>7

Swap(g, i, s, f, h) ==
  /\ g \in Grids /\ i \in Rows /\ f \in Stamps /\ s \in 1..Len(g[i])
  /\ h = [g EXCEPT ![i][s] = f]

LEMMA WhereSwapped ==
  ASSUME NEW g, NEW i, NEW s, NEW f, NEW h, Swap(g, i, s, f, h), NEW M
  PROVE  /\ h \in Grids /\ \A j \in Rows : Len(h[j]) = Len(g[j])
         /\ Cardinality(Where(h, M)) + Bit(<<i, g[i][s]>> \in M)
              = Cardinality(Where(g, M)) + Bit(<<i, f>> \in M)
<1>. USE DEF Swap
<1>1. g[i] \in Seq(Stamps) /\ h = [g EXCEPT ![i] = [g[i] EXCEPT ![s] = f]]
  BY DEF Grids
<1>2. /\ [g[i] EXCEPT ![s] = f] \in Seq(Stamps) /\ Len([g[i] EXCEPT ![s] = f]) = Len(g[i])
      /\ \A n \in 1..Len(g[i]) : [g[i] EXCEPT ![s] = f][n] = IF n = s THEN f ELSE g[i][n]
  BY <1>1
<1>3. /\ h \in Grids /\ \A j \in Rows : Len(h[j]) = Len(g[j]) /\ Len(g[j]) \in Nat
      /\ \A j \in Rows : j # i => h[j] = g[j]
      /\ \A n \in 1..Len(g[i]) : h[i][n] = IF n = s THEN f ELSE g[i][n]
  BY <1>1, <1>2 DEF Grids
<1>. DEFINE here == <<i, s>>
            R == Where(g, M) \ {here}
<1>4. /\ \A j \in Rows, n \in Nat :
           <<j, n>> \in Where(g, M) <=> n \in 1..Len(g[j]) /\ <<j, g[j][n]>> \in M
      /\ \A j \in Rows, n \in Nat :
           <<j, n>> \in Where(h, M) <=> n \in 1..Len(h[j]) /\ <<j, h[j][n]>> \in M
      /\ Where(g, M) \subseteq Rows \X Nat /\ Where(h, M) \subseteq Rows \X Nat
      /\ IsFiniteSet(Where(g, M))
  BY <1>3, WhereIs
<1>5. s \in Nat /\ s \in 1..Len(h[i])
  BY <1>3
<1>6. Where(g, M) = R \cup (IF <<i, g[i][s]>> \in M THEN {here} ELSE {})
  BY <1>4, <1>5
<1>7. Where(h, M) = R \cup (IF <<i, f>> \in M THEN {here} ELSE {})
  <2>. DEFINE X == R \cup (IF <<i, f>> \in M THEN {here} ELSE {})
  <2>1. X \subseteq Rows \X Nat
    BY <1>4, <1>5
  <2>2. ASSUME NEW j \in Rows, NEW n \in Nat
        PROVE  <<j, n>> \in Where(h, M) <=> <<j, n>> \in X
    <3>1. CASE j # i
      BY <1>3, <1>4, <3>1
    <3>2. CASE j = i /\ n = s
      BY <1>3, <1>4, <1>5, <3>2
    <3>3. CASE j = i /\ n # s
      <4>1. <<j, n>> # here /\ (n \in 1..Len(g[j]) => h[j][n] = g[j][n])
        BY <1>3, <3>3
      <4>. QED BY <1>3, <1>4, <4>1
    <3>. QED BY <3>1, <3>2, <3>3
  <2>. HIDE DEF X
  <2>3. Where(h, M) = X
    BY <1>4, <2>1, <2>2, SameSlots
  <2>. QED BY <2>3 DEF X
<1>8. IsFiniteSet(R) /\ here \notin R
  BY <1>4, FS_RemoveElement
<1>. HIDE DEF here, R
<1>9. Cardinality(R) \in Nat /\ Cardinality(Where(h, M)) = Cardinality(R) + Bit(<<i, f>> \in M)
  <2>. DEFINE b == <<i, f>> \in M
  <2>. HIDE DEF b
  <2>1. b \in BOOLEAN
    BY DEF b
  <2>2. Where(h, M) = R \cup (IF b THEN {here} ELSE {})
    BY <1>7 DEF b
  <2>3. Cardinality(R) \in Nat /\ Cardinality(Where(h, M)) = Cardinality(R) + Bit(b)
    BY <1>8, <2>1, <2>2, OneMore
  <2>. QED BY <2>3 DEF b
<1>10. Cardinality(Where(g, M)) = Cardinality(R) + Bit(<<i, g[i][s]>> \in M)
  <2>. DEFINE b == <<i, g[i][s]>> \in M
  <2>. HIDE DEF b
  <2>1. b \in BOOLEAN /\ Where(g, M) = R \cup (IF b THEN {here} ELSE {})
    BY <1>6 DEF b
  <2>2. Cardinality(Where(g, M)) = Cardinality(R) + Bit(b)
    BY <1>8, <2>1, OneMore
  <2>. QED BY <2>2 DEF b
<1>11. Bit(<<i, f>> \in M) \in Nat /\ Bit(<<i, g[i][s]>> \in M) \in Nat
  BY DEF Bit
<1>. QED BY <1>3, <1>9, <1>10, <1>11

LEMMA RowTaken ==
  ASSUME NEW q \in Seq(Stamps), NEW s \in 1..Len(q)
  PROVE  /\ RemoveAt(q, s) \in Seq(Stamps) /\ Len(RemoveAt(q, s)) = Len(q) - 1
         /\ \A n \in 1..(Len(q) - 1) : RemoveAt(q, s)[n] = IF n < s THEN q[n] ELSE q[n + 1]
<1>. DEFINE u == SubSeq(q, 1, s - 1)
            v == SubSeq(q, s + 1, Len(q))
<1>1. /\ u \in Seq(Stamps) /\ Len(u) = s - 1
      /\ \A n \in 1..(s - 1) : u[n] = q[n]
  OBVIOUS
<1>2. /\ v \in Seq(Stamps) /\ Len(v) = Len(q) - s
      /\ \A n \in 1..(Len(q) - s) : v[n] = q[s + n]
  OBVIOUS
<1>3. RemoveAt(q, s) = u \o v /\ s \in Nat /\ Len(q) \in Nat
  BY DEF RemoveAt
<1>. HIDE DEF u, v
<1>4. u \o v \in Seq(Stamps) /\ Len(u \o v) = Len(q) - 1
  BY <1>1, <1>2, <1>3
<1>5. ASSUME NEW n \in 1..(Len(q) - 1)
      PROVE  (u \o v)[n] = IF n < s THEN q[n] ELSE q[n + 1]
  <2>1. CASE n < s
    BY <1>1, <1>2, <1>3, <2>1
  <2>2. CASE ~(n < s)
    <3>1. n - (s - 1) \in 1..(Len(q) - s) /\ s + (n - (s - 1)) = n + 1
      BY <1>3, <2>2
    <3>2. (u \o v)[n] = v[n - (s - 1)]
      BY <1>1, <1>2, <1>3, <2>2
    <3>3. v[n - (s - 1)] = q[n + 1]
      BY <1>2, <3>1
    <3>. QED BY <2>2, <3>2, <3>3
  <2>. QED BY <2>1, <2>2
<1>. QED BY <1>3, <1>4, <1>5

TakenOut(g, i, s, h) ==
  /\ g \in Grids /\ i \in Rows /\ s \in 1..Len(g[i])
  /\ h = [g EXCEPT ![i] = RemoveAt(@, s)]

LEMMA WhereTaken ==
  ASSUME NEW g, NEW i, NEW s, NEW h, TakenOut(g, i, s, h), NEW M
  PROVE  /\ h \in Grids /\ \A j \in Rows : Len(h[j]) <= Len(g[j])
         /\ Cardinality(Where(h, M)) + Bit(<<i, g[i][s]>> \in M) = Cardinality(Where(g, M))
<1>. USE DEF TakenOut
<1>1. /\ Len(g[i]) \in Nat /\ s \in Nat /\ RemoveAt(g[i], s) \in Seq(Stamps)
      /\ Len(RemoveAt(g[i], s)) = Len(g[i]) - 1
      /\ \A n \in 1..(Len(g[i]) - 1) :
           RemoveAt(g[i], s)[n] = IF n < s THEN g[i][n] ELSE g[i][n + 1]
  <2>1. g[i] \in Seq(Stamps)
    BY DEF Grids
  <2>2. Len(g[i]) \in Nat
    BY <2>1
  <2>. QED BY <2>1, <2>2, RowTaken
<1>2. /\ h \in Grids /\ h[i] = RemoveAt(g[i], s)
      /\ \A j \in Rows : j # i => h[j] = g[j]
  BY <1>1 DEF Grids
<1>3. \A j \in Rows : Len(h[j]) <= Len(g[j])
  <2>1. \A j \in Rows : Len(g[j]) \in Nat
    BY DEF Grids
  <2>. QED BY <1>1, <1>2, <2>1
<1>. DEFINE here == <<i, s>>
            R == Where(g, M) \ {here}
            W == Where(h, M)
            earlier(p) == IF p[1] = i /\ p[2] >= s THEN <<i, p[2] + 1>> ELSE p
            F == [p \in W |-> earlier(p)]
<1>4. /\ \A j \in Rows, n \in Nat :
           <<j, n>> \in Where(g, M) <=> n \in 1..Len(g[j]) /\ <<j, g[j][n]>> \in M
      /\ \A j \in Rows, n \in Nat :
           <<j, n>> \in W <=> n \in 1..Len(h[j]) /\ <<j, h[j][n]>> \in M
      /\ Where(g, M) \subseteq Rows \X Nat /\ W \subseteq Rows \X Nat
      /\ IsFiniteSet(Where(g, M)) /\ IsFiniteSet(W)
      /\ Cardinality(Where(g, M)) \in Nat /\ Cardinality(W) \in Nat
  BY <1>2, WhereIs
<1>. HIDE DEF Grids, W
<1>5. ASSUME NEW p \in W PROVE earlier(p) \in R
  <2>1. PICK j \in Rows, n \in Nat : p = <<j, n>>
    BY <1>4
  <2>2. n \in 1..Len(h[j]) /\ <<j, h[j][n]>> \in M
    BY <1>4, <2>1
  <2>3. CASE j # i
    <3>1. earlier(p) = <<j, n>> /\ <<j, n>> # here
      BY <2>1, <2>3
    <3>2. <<j, n>> \in Where(g, M)
      BY <1>2, <1>4, <2>2, <2>3
    <3>. QED BY <3>1, <3>2
  <2>4. CASE j = i
    <3>1. n \in 1..(Len(g[i]) - 1) /\ h[i][n] = IF n < s THEN g[i][n] ELSE g[i][n + 1]
      BY <1>1, <1>2, <2>2, <2>4
    <3>2. CASE n < s
      <4>1. earlier(p) = <<i, n>> /\ n \in 1..Len(g[i]) /\ <<i, n>> # here
        BY <1>1, <2>1, <2>4, <3>1, <3>2
      <4>. QED BY <1>4, <2>2, <2>4, <3>1, <3>2, <4>1
    <3>3. CASE ~(n < s)
      <4>1. /\ earlier(p) = <<i, n + 1>> /\ n + 1 \in 1..Len(g[i]) /\ n + 1 \in Nat
            /\ <<i, n + 1>> # here
        BY <1>1, <2>1, <2>4, <3>1, <3>3
      <4>. QED BY <1>4, <2>2, <2>4, <3>1, <3>3, <4>1
    <3>. QED BY <3>2, <3>3
  <2>. QED BY <2>3, <2>4
<1>6. ASSUME NEW p \in W, NEW q \in W, earlier(p) = earlier(q) PROVE p = q
  <2>1. PICK j \in Rows, n \in Nat : p = <<j, n>>
    BY <1>4
  <2>2. PICK k \in Rows, m \in Nat : q = <<k, m>>
    BY <1>4
  <2>3. earlier(p) = <<j, IF j = i /\ n >= s THEN n + 1 ELSE n>>
    BY <2>1
  <2>4. earlier(q) = <<k, IF k = i /\ m >= s THEN m + 1 ELSE m>>
    BY <2>2
  <2>5. j = k /\ (IF j = i /\ n >= s THEN n + 1 ELSE n) = (IF k = i /\ m >= s THEN m + 1 ELSE m)
    BY <1>6, <2>3, <2>4
  <2>6. n = m
    BY <1>1, <2>5
  <2>. QED BY <2>1, <2>2, <2>5, <2>6
<1>7. ASSUME NEW q \in R PROVE \E p \in W : earlier(p) = q
  <2>1. PICK j \in Rows, n \in Nat : q = <<j, n>>
    BY <1>4
  <2>2. n \in 1..Len(g[j]) /\ <<j, g[j][n]>> \in M /\ ~(j = i /\ n = s)
    BY <1>4, <2>1
  <2>3. CASE j # i
    <3>1. q \in W /\ earlier(q) = q
      BY <1>2, <1>4, <2>1, <2>2, <2>3
    <3>. QED BY <3>1
  <2>4. CASE j = i /\ n < s
    <3>1. n \in 1..(Len(g[i]) - 1)
      BY <1>1, <2>2, <2>4
    <3>2. h[i][n] = g[i][n] /\ n \in 1..Len(h[i])
      BY <1>1, <1>2, <2>4, <3>1
    <3>3. q \in W /\ earlier(q) = q
      BY <1>1, <1>4, <2>1, <2>2, <2>4, <3>2
    <3>. QED BY <3>3
  <2>5. CASE j = i /\ n > s
    <3>1. n - 1 \in 1..(Len(g[i]) - 1) /\ n - 1 \in Nat /\ ~(n - 1 < s) /\ n - 1 + 1 = n
      BY <1>1, <2>2, <2>5
    <3>2. h[i][n - 1] = g[i][n] /\ n - 1 \in 1..Len(h[i])
      BY <1>1, <1>2, <2>5, <3>1
    <3>3. <<i, n - 1>> \in W
      BY <1>4, <2>2, <2>5, <3>1, <3>2
    <3>4. earlier(<<i, n - 1>>) = q
      BY <1>1, <2>1, <2>5, <3>1
    <3>. QED BY <3>3, <3>4
  <2>. QED BY <1>1, <2>2, <2>3, <2>4, <2>5
<1>8. F \in Bijection(W, R)
  <2>. HIDE DEF R, earlier
  <2>1. F \in Injection(W, R)
    BY <1>5, <1>6 DEF Injection, IsInjective
  <2>2. F \in Surjection(W, R)
    BY <1>5, <1>7 DEF Surjection
  <2>. QED BY <2>1, <2>2 DEF Bijection
<1>. HIDE DEF F, earlier
<1>9. Cardinality(R) = Cardinality(W)
  BY <1>4, <1>8, FS_Bijection DEF ExistsBijection
<1>10. IsFiniteSet(R) /\ here \notin R
  BY <1>4, FS_RemoveElement
<1>11. Where(g, M) = R \cup (IF <<i, g[i][s]>> \in M THEN {here} ELSE {})
  BY <1>1, <1>4
<1>. HIDE DEF R, here
<1>12. Cardinality(Where(g, M)) = Cardinality(R) + Bit(<<i, g[i][s]>> \in M)
  <2>. DEFINE b == <<i, g[i][s]>> \in M
  <2>. HIDE DEF b
  <2>1. b \in BOOLEAN /\ Where(g, M) = R \cup (IF b THEN {here} ELSE {})
    BY <1>11 DEF b
  <2>2. Cardinality(Where(g, M)) = Cardinality(R) + Bit(b)
    BY <1>10, <2>1, OneMore
  <2>. QED BY <2>2 DEF b
<1>. QED BY <1>2, <1>3, <1>9, <1>12 DEF W

-----------------------------------------------------------------------------
(* CuckooFilter: what is missing *)

\* One for each time that a key of A is in by the answers.
Tokens(ad, A) == UNION {{<<l, n>> : n \in 1..ad[l]} : l \in A}
Records == [Keys -> Nat]

LEMMA TokensAre ==
  ASSUME NEW ad \in Records, NEW A, A \subseteq Keys
  PROVE  /\ IsFiniteSet(Tokens(ad, A)) /\ Cardinality(Tokens(ad, A)) \in Nat
         /\ Tokens(ad, A) \subseteq Keys \X Nat
         /\ \A l \in Keys, n \in Nat : <<l, n>> \in Tokens(ad, A) <=> l \in A /\ n \in 1..ad[l]
<1>. DEFINE row(l) == {<<l, n>> : n \in 1..ad[l]}
            R == {row(l) : l \in A}
<1>1. \A l \in Keys : ad[l] \in Nat
  BY DEF Records
<1>2. IsFiniteSet(R)
  <2>1. IsFiniteSet(A)
    BY FilterAssumption, FS_Subset
  <2>2. [l \in A |-> row(l)] \in Surjection(A, R)
    <3>. HIDE DEF row
    <3>. QED BY DEF Surjection
  <2>. HIDE DEF R
  <2>. QED BY <2>1, <2>2, FS_Surjection
<1>3. ASSUME NEW l \in A PROVE IsFiniteSet(row(l))
  <2>1. IsFiniteSet(1..ad[l])
    BY <1>1, FS_Interval
  <2>2. [n \in 1..ad[l] |-> <<l, n>>] \in Surjection(1..ad[l], row(l))
    BY DEF Surjection
  <2>. HIDE DEF row
  <2>. QED BY <2>1, <2>2, FS_Surjection
<1>4. Tokens(ad, A) = UNION R
  BY DEF Tokens
<1>5. IsFiniteSet(Tokens(ad, A))
  <2>1. \A T \in R : IsFiniteSet(T)
    <3>. HIDE DEF row
    <3>. QED BY <1>3
  <2>. HIDE DEF R
  <2>. QED BY <1>2, <1>4, <2>1, FS_UNION
<1>6. Tokens(ad, A) \subseteq Keys \X Nat
  BY <1>1, <1>4
<1>7. \A l \in Keys, n \in Nat : <<l, n>> \in Tokens(ad, A) <=> l \in A /\ n \in 1..ad[l]
  BY <1>1, <1>4
<1>8. Cardinality(Tokens(ad, A)) \in Nat
  BY <1>5, FS_CardinalityType
<1>. QED BY <1>5, <1>6, <1>7, <1>8

OneUp(ad, k, ae) ==
  ad \in Records /\ k \in Keys /\ ae = [ad EXCEPT ![k] = @ + 1]
OneDown(ad, k, ae) ==
  ad \in Records /\ k \in Keys /\ ad[k] > 0 /\ ae = [ad EXCEPT ![k] = @ - 1]

LEMMA TokensUp ==
  ASSUME NEW ad, NEW k, NEW ae, OneUp(ad, k, ae), NEW A, A \subseteq Keys
  PROVE  /\ ae \in Records
         /\ Cardinality(Tokens(ae, A)) = Cardinality(Tokens(ad, A)) + Bit(k \in A)
<1>. USE DEF OneUp
<1>1. /\ ae \in Records /\ ad[k] \in Nat /\ ae[k] = ad[k] + 1
      /\ \A l \in Keys : l # k => ae[l] = ad[l]
  BY DEF Records
<1>. DEFINE R == Tokens(ad, A)
            last == ad[k] + 1
            fresh == <<k, last>>
            b == k \in A
            X == R \cup (IF b THEN {fresh} ELSE {})
<1>2. /\ IsFiniteSet(R) /\ R \subseteq Keys \X Nat /\ Tokens(ae, A) \subseteq Keys \X Nat
      /\ \A l \in Keys, n \in Nat : <<l, n>> \in R <=> l \in A /\ n \in 1..ad[l]
      /\ \A l \in Keys, n \in Nat : <<l, n>> \in Tokens(ae, A) <=> l \in A /\ n \in 1..ae[l]
  BY <1>1, TokensAre
<1>3. Tokens(ae, A) = X
  <2>. DEFINE Y == Tokens(ae, A)
  <2>1. X \subseteq Keys \X Nat
    BY <1>1, <1>2
  <2>2. ASSUME NEW l \in Keys, NEW n \in Nat PROVE <<l, n>> \in Y <=> <<l, n>> \in X
    <3>1. CASE l # k
      BY <1>1, <1>2, <3>1
    <3>2. CASE l = k /\ n = last
      <4>1. n \in 1..ae[l] /\ n \notin 1..ad[l]
        BY <1>1, <3>2
      <4>2. <<l, n>> \in Y <=> b
        BY <1>2, <3>2, <4>1
      <4>3. <<l, n>> \in X <=> b
        BY <1>2, <3>2, <4>1
      <4>. QED BY <4>2, <4>3
    <3>3. CASE l = k /\ n # last
      <4>1. n \in 1..ae[l] <=> n \in 1..ad[l]
        BY <1>1, <3>3
      <4>2. <<l, n>> # fresh
        BY <3>3
      <4>. QED BY <1>2, <4>1, <4>2
    <3>. QED BY <3>1, <3>2, <3>3
  <2>3. Y \subseteq Keys \X Nat
    BY <1>2
  <2>. HIDE DEF X, Y
  <2>4. X = Y
    BY <2>1, <2>2, <2>3
  <2>. QED BY <2>4 DEF Y
<1>4. fresh \notin R
  <2>1. last \in Nat /\ last \notin 1..ad[k]
    BY <1>1
  <2>. HIDE DEF last, R
  <2>. QED BY <1>2, <2>1
<1>5. Cardinality(X) = Cardinality(R) + Bit(b)
  <2>1. b \in BOOLEAN /\ X = R \cup (IF b THEN {fresh} ELSE {})
    OBVIOUS
  <2>. HIDE DEF fresh, X, b, R
  <2>. QED BY <1>2, <1>4, <2>1, OneMore
<1>. QED BY <1>1, <1>3, <1>5

LEMMA TokensDown ==
  ASSUME NEW ad, NEW k, NEW ae, OneDown(ad, k, ae), NEW A, A \subseteq Keys
  PROVE  /\ ae \in Records
         /\ Cardinality(Tokens(ae, A)) + Bit(k \in A) = Cardinality(Tokens(ad, A))
<1>. USE DEF OneDown
<1>1. ad[k] - 1 \in Nat /\ ae[k] = ad[k] - 1 /\ ad[k] \in Nat
  BY DEF Records
<1>2. ae \in Records
  BY <1>1 DEF Records
<1>. DEFINE up == [ae EXCEPT ![k] = @ + 1]
<1>3. up[k] = ad[k]
  BY <1>1, <1>2 DEF Records
<1>4. \A l \in Keys : up[l] = ad[l]
  BY <1>2, <1>3 DEF Records
<1>5. up = ad
  BY <1>2, <1>4 DEF Records
<1>6. OneUp(ae, k, ad)
  BY <1>2, <1>5 DEF OneUp
<1>. QED BY <1>2, <1>6, TokensUp

\* The places of a key's fingerprint, and the keys that share them.
Class(k) == Home(k) \X {Fingerprint[k]}

LEMMA Classes ==
  /\ \A k, l \in Keys : \A i \in Home(k) : <<i, Fingerprint[k]>> \in Class(l) <=> k \in Alike(l)
  /\ \A k, l \in Keys : k \in Alike(l) => Alike(k) = Alike(l) /\ Class(k) = Class(l)
  /\ \A k \in Keys : k \in Alike(k) /\ Alike(k) \subseteq Keys
  /\ \A i \in Rows, f \in Stamps, l \in Keys :
       <<Partner(i, f), f>> \in Class(l) <=> <<i, f>> \in Class(l)
<1>1. ASSUME NEW k \in Keys, NEW i \in Home(k)
      PROVE  i \in Rows /\ Home(k) = {i, Partner(i, Fingerprint[k])}
  <2>1. Index(k) \in Rows /\ Fingerprint[k] \in Stamps /\ Home(k) \subseteq Rows
    BY Partners
  <2>2. Partner(Partner(Index(k), Fingerprint[k]), Fingerprint[k]) = Index(k)
    BY <2>1, Partners
  <2>. QED BY <2>1, <2>2 DEF Home
<1>2. ASSUME NEW k \in Keys, NEW l \in Keys, NEW i \in Home(k)
      PROVE  <<i, Fingerprint[k]>> \in Class(l) <=> k \in Alike(l)
  <2>1. <<i, Fingerprint[k]>> \in Class(l) <=> i \in Home(l) /\ Fingerprint[k] = Fingerprint[l]
    BY DEF Class
  <2>2. i \in Home(l) /\ Fingerprint[k] = Fingerprint[l] => Home(k) = Home(l)
    <3>. SUFFICES ASSUME i \in Home(l), Fingerprint[k] = Fingerprint[l] PROVE Home(k) = Home(l)
      OBVIOUS
    <3>1. Home(l) = {i, Partner(i, Fingerprint[l])} /\ Home(k) = {i, Partner(i, Fingerprint[k])}
      BY <1>1
    <3>. QED BY <3>1
  <2>. QED BY <2>1, <2>2 DEF Alike
<1>3. \A k, l \in Keys : k \in Alike(l) => Alike(k) = Alike(l) /\ Class(k) = Class(l)
  BY DEF Alike, Class
<1>4. \A k \in Keys : k \in Alike(k) /\ Alike(k) \subseteq Keys
  BY DEF Alike
<1>5. ASSUME NEW i \in Rows, NEW f \in Stamps, NEW l \in Keys
      PROVE  <<Partner(i, f), f>> \in Class(l) <=> <<i, f>> \in Class(l)
  <2>1. Partner(Partner(i, f), f) = i
    BY Partners
  <2>2. ASSUME f = Fingerprint[l], Partner(i, f) \in Home(l) PROVE i \in Home(l)
    <3>1. Home(l) = {Partner(i, f), Partner(Partner(i, f), Fingerprint[l])}
      BY <1>1, <2>2
    <3>. QED BY <2>1, <2>2, <3>1
  <2>3. ASSUME f = Fingerprint[l], i \in Home(l) PROVE Partner(i, f) \in Home(l)
    <3>1. Home(l) = {i, Partner(i, Fingerprint[l])}
      BY <1>1, <2>3
    <3>. QED BY <2>3, <3>1
  <2>. QED BY <2>2, <2>3 DEF Class
<1>. QED BY <1>2, <1>3, <1>4, <1>5

\* The insertion that is under way.
Moves == [key : Keys, print : Stamps, bucket : Rows]
Proper(g, mv, ad) ==
  /\ g \in Grids /\ ad \in Records
  /\ mv = <<>> \/ \E m \in Moves : mv = <<m>>

\* How many fingerprints of k's class are missing, counting the insertion that
\* is under way and the fingerprint that it has in hand.
InHand(mv, k) ==
  IF mv = <<>> THEN 0
  ELSE Bit(mv[1].key \in Alike(k)) - Bit(<<mv[1].bucket, mv[1].print>> \in Class(k))
Lacking(g, mv, ad, k) ==
  Cardinality(Tokens(ad, Alike(k))) - Cardinality(Where(g, Class(k))) + InHand(mv, k)

\* One for each of them.
LostOf(g, mv, ad) == UNION {{<<Alike(k), n>> : n \in 1..Lacking(g, mv, ad, k)} : k \in Keys}

LEMMA LackingIs ==
  ASSUME NEW g, NEW mv, NEW ad, Proper(g, mv, ad), NEW k \in Keys
  PROVE  /\ Cardinality(Tokens(ad, Alike(k))) \in Nat
         /\ Cardinality(Where(g, Class(k))) \in Nat
         /\ InHand(mv, k) \in Int /\ Lacking(g, mv, ad, k) \in Int
<1>1. Cardinality(Tokens(ad, Alike(k))) \in Nat
  BY TokensAre, Classes DEF Proper
<1>2. Cardinality(Where(g, Class(k))) \in Nat
  BY WhereIs DEF Proper
<1>3. InHand(mv, k) \in Int
  BY DEF InHand, Bit
<1>. QED BY <1>1, <1>2, <1>3 DEF Lacking

LEMMA LostIs ==
  ASSUME NEW g, NEW mv, NEW ad, Proper(g, mv, ad)
  PROVE  /\ IsFiniteSet(LostOf(g, mv, ad)) /\ Cardinality(LostOf(g, mv, ad)) \in Nat
         /\ \A x : x \in LostOf(g, mv, ad) <=>
              \E k \in Keys : \E n \in 1..Lacking(g, mv, ad, k) : x = <<Alike(k), n>>
<1>. DEFINE row(k) == {<<Alike(k), n>> : n \in 1..Lacking(g, mv, ad, k)}
            R == {row(k) : k \in Keys}
<1>1. IsFiniteSet(R)
  <2>1. IsFiniteSet(Keys)
    BY FilterAssumption
  <2>2. [k \in Keys |-> row(k)] \in Surjection(Keys, R)
    <3>. HIDE DEF row
    <3>. QED BY DEF Surjection
  <2>. HIDE DEF R
  <2>. QED BY <2>1, <2>2, FS_Surjection
<1>2. ASSUME NEW k \in Keys PROVE IsFiniteSet(row(k))
  <2>. DEFINE I == 1..Lacking(g, mv, ad, k)
  <2>1. IsFiniteSet(I)
    BY LackingIs, FS_Interval
  <2>2. [n \in I |-> <<Alike(k), n>>] \in Surjection(I, row(k))
    <3>. HIDE DEF I
    <3>. QED BY DEF Surjection, I
  <2>. HIDE DEF row, I
  <2>. QED BY <2>1, <2>2, FS_Surjection
<1>3. LostOf(g, mv, ad) = UNION R
  BY DEF LostOf
<1>4. IsFiniteSet(LostOf(g, mv, ad))
  <2>1. \A T \in R : IsFiniteSet(T)
    <3>. HIDE DEF row
    <3>. QED BY <1>2
  <2>. HIDE DEF R
  <2>. QED BY <1>1, <1>3, <2>1, FS_UNION
<1>5. Cardinality(LostOf(g, mv, ad)) \in Nat
  BY <1>4, FS_CardinalityType
<1>. QED BY <1>3, <1>4, <1>5

\* A step that makes no class miss more, or only that of j and by one.
NoneMore(g, mv, ad, h, mw, ae) ==
  \A k \in Keys : Lacking(h, mw, ae, k) <= Lacking(g, mv, ad, k)
OneMoreOf(j, g, mv, ad, h, mw, ae) ==
  \A k \in Keys : Lacking(h, mw, ae, k) <= Lacking(g, mv, ad, k) + Bit(k \in Alike(j))

LEMMA LostStays ==
  ASSUME NEW g, NEW mv, NEW ad, Proper(g, mv, ad), NEW h, NEW mw, NEW ae, Proper(h, mw, ae),
         NoneMore(g, mv, ad, h, mw, ae)
  PROVE  Cardinality(LostOf(h, mw, ae)) <= Cardinality(LostOf(g, mv, ad))
<1>. DEFINE O == LostOf(g, mv, ad)
            N == LostOf(h, mw, ae)
<1>1. ASSUME NEW x \in N PROVE x \in O
  <2>1. PICK k \in Keys, n \in Int : n \in 1..Lacking(h, mw, ae, k) /\ x = <<Alike(k), n>>
    BY LostIs
  <2>2. n \in 1..Lacking(g, mv, ad, k)
    BY <2>1, LackingIs DEF NoneMore
  <2>. QED BY <2>1, <2>2, LostIs
<1>2. IsFiniteSet(O)
  BY LostIs
<1>. HIDE DEF O, N
<1>3. Cardinality(N) <= Cardinality(O)
  BY <1>1, <1>2, FS_Subset
<1>. QED BY <1>3 DEF O, N

LEMMA LostOne ==
  ASSUME NEW g, NEW mv, NEW ad, Proper(g, mv, ad), NEW h, NEW mw, NEW ae, Proper(h, mw, ae),
         NEW j \in Keys, OneMoreOf(j, g, mv, ad, h, mw, ae)
  PROVE  Cardinality(LostOf(h, mw, ae)) <= Cardinality(LostOf(g, mv, ad)) + 1
<1>. DEFINE O == LostOf(g, mv, ad)
            N == LostOf(h, mw, ae)
            last == Lacking(g, mv, ad, j) + 1
            fresh == <<Alike(j), last>>
<1>1. ASSUME NEW x \in N PROVE x \in O \cup {fresh}
  <2>1. PICK k \in Keys, n \in Int : n \in 1..Lacking(h, mw, ae, k) /\ x = <<Alike(k), n>>
    BY LostIs
  <2>2. Lacking(h, mw, ae, k) \in Int /\ Lacking(g, mv, ad, k) \in Int
    BY LackingIs
  <2>3. CASE n \in 1..Lacking(g, mv, ad, k)
    BY <2>1, <2>3, LostIs
  <2>4. CASE n \notin 1..Lacking(g, mv, ad, k)
    <3>1. k \in Alike(j) /\ n = Lacking(g, mv, ad, k) + 1
      BY <2>1, <2>2, <2>4 DEF OneMoreOf, Bit
    <3>2. Alike(k) = Alike(j) /\ Class(k) = Class(j)
      BY <3>1, Classes
    <3>3. Lacking(g, mv, ad, k) = Lacking(g, mv, ad, j)
      BY <3>2 DEF Lacking, InHand
    <3>. QED BY <2>1, <3>1, <3>2, <3>3
  <2>. QED BY <2>3, <2>4
<1>2. IsFiniteSet(O) /\ Cardinality(O) \in Nat /\ IsFiniteSet(N) /\ Cardinality(N) \in Nat
  BY LostIs
<1>. HIDE DEF O, N, fresh
<1>3. IsFiniteSet(O \cup {fresh}) /\ Cardinality(O \cup {fresh}) <= Cardinality(O) + 1
  <2>1. /\ IsFiniteSet(O \cup {fresh})
        /\ Cardinality(O \cup {fresh}) = IF fresh \in O THEN Cardinality(O) ELSE Cardinality(O) + 1
    BY <1>2, FS_AddElement
  <2>. QED BY <1>2, <2>1
<1>4. Cardinality(N) <= Cardinality(O \cup {fresh})
  BY <1>1, <1>3, FS_Subset
<1>5. Cardinality(O \cup {fresh}) \in Nat
  BY <1>3, FS_CardinalityType
<1>6. Cardinality(N) <= Cardinality(O) + 1
  BY <1>2, <1>3, <1>4, <1>5
<1>. QED BY <1>6 DEF O, N

-----------------------------------------------------------------------------
(* CuckooFilter: the invariant *)

FilterInv ==
  /\ Proper(buckets, moving, added) /\ misuses \in Nat
  /\ count = Cardinality(Where(buckets, Rows \X Stamps))
  /\ \A i \in Rows : Len(buckets[i]) <= BucketSize
  /\ Cardinality(LostOf(buckets, moving, added)) <= misuses

LEMMA FilterStarts == FilterInit => FilterInv
<1>. SUFFICES ASSUME FilterInit PROVE FilterInv
  OBVIOUS
<1>1. /\ Proper(buckets, moving, added) /\ misuses = 0 /\ count = 0 /\ moving = <<>>
      /\ \A i \in Rows : Len(buckets[i]) = 0
      /\ \A k \in Keys : added[k] = 0
  BY DEF FilterInit, Proper, Grids, Records, Rows
<1>2. ASSUME NEW M PROVE Where(buckets, M) = {} /\ Cardinality(Where(buckets, M)) = 0
  <2>1. Where(buckets, M) = {}
    <3>1. buckets \in Grids
      BY <1>1 DEF Proper
    <3>2. \A i \in Rows, n \in Nat : <<i, n>> \notin Where(buckets, M)
      <4>. SUFFICES ASSUME NEW i \in Rows, NEW n \in Nat, <<i, n>> \in Where(buckets, M) PROVE FALSE
        OBVIOUS
      <4>1. n \in 1..Len(buckets[i])
        BY <3>1, WhereIs
      <4>. QED BY <1>1, <4>1
    <3>3. Where(buckets, M) \subseteq Rows \X Nat
      BY <3>1, WhereIs
    <3>. QED BY <3>2, <3>3
  <2>. QED BY <2>1, FS_EmptySet
<1>3. ASSUME NEW k \in Keys PROVE Lacking(buckets, moving, added, k) = 0
  <2>1. Tokens(added, Alike(k)) = {}
    BY <1>1, TokensAre, Classes DEF Proper
  <2>2. Cardinality(Tokens(added, Alike(k))) = 0
    BY <2>1, FS_EmptySet
  <2>. QED BY <1>1, <1>2, <2>2 DEF Lacking, InHand
<1>4. LostOf(buckets, moving, added) = {}
  BY <1>1, <1>3, LostIs
<1>5. Cardinality(LostOf(buckets, moving, added)) = 0
  BY <1>4, FS_EmptySet
<1>6. BucketSize \in Nat
  BY FilterAssumption
<1>. QED BY <1>1, <1>2, <1>5, <1>6 DEF FilterInv

\* A fingerprint in a bucket of its own has every key of its class counted.
LEMMA PlaceKeeps ==
  ASSUME FilterInv, NEW k \in Keys, NEW i \in Home(k), HasRoom(i), Place(i, Fingerprint[k]),
         moving = <<>>, added' = [added EXCEPT ![k] = @ + 1], UNCHANGED <<moving, misuses>>
  PROVE  FilterInv'
<1>. DEFINE f == Fingerprint[k]
<1>1. i \in Rows /\ f \in Stamps /\ buckets \in Grids /\ added \in Records
      /\ Proper(buckets, moving, added)
  BY Partners DEF FilterInv, Proper
<1>2. buckets' = [buckets EXCEPT ![i] = Append(@, f)] /\ count' = count + 1
  BY DEF Place
<1>. HIDE DEF f
<1>3. /\ buckets' \in Grids /\ \A j \in Rows : Len(buckets'[j]) = Len(buckets[j]) + Bit(j = i)
      /\ \A M : Cardinality(Where(buckets', M)) = Cardinality(Where(buckets, M)) + Bit(<<i, f>> \in M)
  <2>1. PutIn(buckets, i, f, buckets')
    BY <1>1, <1>2 DEF PutIn
  <2>2. ASSUME NEW M
        PROVE  /\ buckets' \in Grids
               /\ \A j \in Rows : Len(buckets'[j]) = Len(buckets[j]) + Bit(j = i)
               /\ Cardinality(Where(buckets', M))
                    = Cardinality(Where(buckets, M)) + Bit(<<i, f>> \in M)
    BY <2>1, WherePut
  <2>. QED BY <2>2
<1>4. /\ added' \in Records
      /\ \A A : A \subseteq Keys =>
           Cardinality(Tokens(added', A)) = Cardinality(Tokens(added, A)) + Bit(k \in A)
  <2>1. OneUp(added, k, added')
    BY <1>1 DEF OneUp
  <2>2. ASSUME NEW A, A \subseteq Keys
        PROVE  /\ added' \in Records
               /\ Cardinality(Tokens(added', A)) = Cardinality(Tokens(added, A)) + Bit(k \in A)
    BY <2>1, <2>2, TokensUp
  <2>. QED BY <2>2
<1>5. Proper(buckets', moving', added')
  BY <1>3, <1>4 DEF Proper
<1>6. ASSUME NEW l \in Keys
      PROVE  Lacking(buckets', moving', added', l) <= Lacking(buckets, moving, added, l)
  <2>1. Cardinality(Tokens(added', Alike(l)))
          = Cardinality(Tokens(added, Alike(l))) + Bit(k \in Alike(l))
    BY <1>4, Classes
  <2>2. Cardinality(Where(buckets', Class(l)))
          = Cardinality(Where(buckets, Class(l))) + Bit(k \in Alike(l))
    BY <1>3, Classes DEF f
  <2>3. InHand(moving', l) = 0 /\ InHand(moving, l) = 0 /\ Bit(k \in Alike(l)) \in Nat
    BY DEF InHand, Bit
  <2>4. /\ Cardinality(Tokens(added, Alike(l))) \in Nat
        /\ Cardinality(Where(buckets, Class(l))) \in Nat
    BY <1>1, LackingIs
  <2>. QED BY <2>1, <2>2, <2>3, <2>4 DEF Lacking
<1>7. Cardinality(LostOf(buckets', moving', added')) <= misuses'
  <2>1. NoneMore(buckets, moving, added, buckets', moving', added')
    BY <1>6 DEF NoneMore
  <2>2. Cardinality(LostOf(buckets', moving', added')) <= Cardinality(LostOf(buckets, moving, added))
    BY <1>1, <1>5, <2>1, LostStays
  <2>3. /\ Cardinality(LostOf(buckets', moving', added')) \in Nat
        /\ Cardinality(LostOf(buckets, moving, added)) \in Nat
    BY <1>1, <1>5, LostIs
  <2>. QED BY <2>2, <2>3 DEF FilterInv
<1>8. count' = Cardinality(Where(buckets', Rows \X Stamps))
  BY <1>1, <1>2, <1>3 DEF FilterInv, Bit
<1>9. \A j \in Rows : Len(buckets'[j]) <= BucketSize
  <2>1. BucketSize \in Nat /\ \A j \in Rows : Len(buckets[j]) \in Nat
    BY <1>1, FilterAssumption DEF Grids
  <2>. SUFFICES ASSUME NEW j \in Rows PROVE Len(buckets'[j]) <= BucketSize
    OBVIOUS
  <2>2. Len(buckets'[j]) = Len(buckets[j]) + Bit(j = i) /\ Len(buckets[j]) <= BucketSize
    BY <1>3 DEF FilterInv
  <2>3. CASE j = i
    BY <2>1, <2>2, <2>3 DEF HasRoom, Bit
  <2>4. CASE j # i
    BY <2>1, <2>2, <2>4 DEF Bit
  <2>. QED BY <2>3, <2>4
<1>. QED BY <1>5, <1>7, <1>8, <1>9 DEF FilterInv

LEMMA CrowdKeeps ==
  ASSUME FilterInv, NEW k \in Keys, CrowdKey(k)
  PROVE  FilterInv'
<1>1. PICK i \in Home(k) : moving' = <<[key |-> k, print |-> Fingerprint[k], bucket |-> i]>>
  BY DEF CrowdKey
<1>2. i \in Rows /\ Fingerprint[k] \in Stamps /\ moving = <<>>
      /\ UNCHANGED <<buckets, count, added, misuses>> /\ Proper(buckets, moving, added)
  BY Partners DEF CrowdKey, FilterInv
<1>3. Proper(buckets', moving', added')
  BY <1>1, <1>2 DEF Proper, Moves
<1>4. ASSUME NEW l \in Keys
      PROVE  Lacking(buckets', moving', added', l) <= Lacking(buckets, moving, added, l)
  <2>1. InHand(moving, l) = 0 /\ InHand(moving', l) = 0
    BY <1>1, <1>2, Classes DEF InHand, Bit
  <2>2. Lacking(buckets, moving, added, l) \in Int
    BY <1>2, LackingIs
  <2>. QED BY <1>2, <2>1, <2>2 DEF Lacking
<1>5. Cardinality(LostOf(buckets', moving', added')) <= misuses'
  <2>1. NoneMore(buckets, moving, added, buckets', moving', added')
    BY <1>4 DEF NoneMore
  <2>2. Cardinality(LostOf(buckets', moving', added')) <= Cardinality(LostOf(buckets, moving, added))
    BY <1>2, <1>3, <2>1, LostStays
  <2>3. /\ Cardinality(LostOf(buckets', moving', added')) \in Nat
        /\ Cardinality(LostOf(buckets, moving, added)) \in Nat
    BY <1>2, <1>3, LostIs
  <2>. QED BY <1>2, <2>2, <2>3 DEF FilterInv
<1>. QED BY <1>2, <1>3, <1>5 DEF FilterInv

\* An exchange leaves the number of the class of each of the two as it was.
LEMMA KickKeeps ==
  ASSUME FilterInv, Kick
  PROVE  FilterInv'
<1>. DEFINE m == moving[1]
            i == m.bucket
            f == m.print
<1>1. /\ m \in Moves /\ moving = <<m>> /\ i \in Rows /\ f \in Stamps /\ m.key \in Keys
      /\ buckets \in Grids /\ added \in Records /\ Proper(buckets, moving, added)
  BY DEF FilterInv, Proper, Moves, Kick
<1>. HIDE DEF m, i, f
<1>. DEFINE d(slot) == buckets[i][slot]
            next(slot) == Partner(i, d(slot))
            swapped(slot) == [buckets EXCEPT ![i][slot] = f]
<1>2. PICK slot \in 1..Len(buckets[i]) :
        IF Len(swapped(slot)[next(slot)]) < BucketSize
          THEN /\ buckets' = [swapped(slot) EXCEPT ![next(slot)] = Append(@, d(slot))]
               /\ count' = count + 1
               /\ added' = [added EXCEPT ![m.key] = @ + 1]
               /\ moving' = <<>>
          ELSE /\ buckets' = swapped(slot)
               /\ moving' = <<[m EXCEPT !.print = d(slot), !.bucket = next(slot)]>>
               /\ UNCHANGED <<count, added>>
  BY DEF Kick, NextBucket, m, i, f
<1>3. UNCHANGED misuses
  BY DEF Kick
<1>. DEFINE e == buckets[i][slot]
            j == Partner(i, e)
            g == [buckets EXCEPT ![i][slot] = f]
<1>4. e \in Stamps /\ j \in Rows
  <2>1. e \in Stamps
    BY <1>1 DEF Grids
  <2>. QED BY <1>1, <2>1, Partners
<1>5. /\ IF Len(g[j]) < BucketSize
           THEN /\ buckets' = [g EXCEPT ![j] = Append(@, e)]
                /\ count' = count + 1
                /\ added' = [added EXCEPT ![m.key] = @ + 1]
                /\ moving' = <<>>
           ELSE /\ buckets' = g
                /\ moving' = <<[m EXCEPT !.print = e, !.bucket = j]>>
                /\ UNCHANGED <<count, added>>
  BY <1>2
<1>. DEFINE with(M) == Cardinality(Where(g, M)) + Bit(<<i, e>> \in M)
                         = Cardinality(Where(buckets, M)) + Bit(<<i, f>> \in M)
<1>6. /\ g \in Grids /\ \A n \in Rows : Len(g[n]) = Len(buckets[n])
      /\ \A M : with(M)
  <2>1. ASSUME NEW M
        PROVE  g \in Grids /\ (\A n \in Rows : Len(g[n]) = Len(buckets[n])) /\ with(M)
    <3>. DEFINE h == g
    <3>1. h = [buckets EXCEPT ![i][slot] = f]
      OBVIOUS
    <3>. HIDE DEF h
    <3>2. /\ h \in Grids /\ \A n \in Rows : Len(h[n]) = Len(buckets[n])
          /\ Cardinality(Where(h, M)) + Bit(<<i, e>> \in M)
               = Cardinality(Where(buckets, M)) + Bit(<<i, f>> \in M)
      <4>1. Swap(buckets, i, slot, f, h)
        BY <1>1, <3>1 DEF Swap
      <4>. HIDE DEF e
      <4>. QED BY <4>1, WhereSwapped DEF e
    <3>. QED BY <3>2 DEF h
  <2>. HIDE DEF g, with
  <2>. QED BY <2>1
<1>. HIDE DEF g
<1>7. \A l \in Keys : <<j, e>> \in Class(l) <=> <<i, e>> \in Class(l)
  BY <1>1, <1>4, Classes
<1>. HIDE DEF e, j
<1>8. ASSUME NEW M, <<i, e>> \in M, <<i, f>> \in M
      PROVE  Cardinality(Where(g, M)) = Cardinality(Where(buckets, M))
  <2>1. with(M)
    BY <1>6
  <2>2. Cardinality(Where(g, M)) \in Nat /\ Cardinality(Where(buckets, M)) \in Nat
    BY <1>1, <1>6, WhereIs
  <2>. QED BY <1>8, <2>1, <2>2 DEF Bit
<1>9. Cardinality(Where(g, Rows \X Stamps)) = count
  <2>1. <<i, e>> \in Rows \X Stamps /\ <<i, f>> \in Rows \X Stamps
    BY <1>1, <1>4
  <2>. QED BY <1>8, <2>1 DEF FilterInv
<1>10. \A n \in Rows : Len(g[n]) <= BucketSize
  BY <1>6 DEF FilterInv
<1>11. ASSUME NEW l \in Keys
       PROVE  Cardinality(Tokens(added, Alike(l))) - Cardinality(Where(g, Class(l)))
                + Bit(m.key \in Alike(l)) - Bit(<<j, e>> \in Class(l))
                  = Lacking(buckets, moving, added, l)
  <2>. DEFINE t == Cardinality(Tokens(added, Alike(l)))
              n == Cardinality(Where(g, Class(l)))
              o == Cardinality(Where(buckets, Class(l)))
              k == Bit(m.key \in Alike(l))
              x == Bit(<<i, f>> \in Class(l))
              y == Bit(<<i, e>> \in Class(l))
              z == Bit(<<j, e>> \in Class(l))
  <2>1. n + y = o + x
    <3>1. with(Class(l))
      BY <1>6
    <3>. QED BY <3>1
  <2>2. n \in Nat /\ o \in Nat /\ t \in Nat
    BY <1>1, <1>6, WhereIs, LackingIs
  <2>3. InHand(moving, l) = k - x
    BY <1>1 DEF InHand, i, f
  <2>4. k \in Nat /\ x \in Nat /\ y \in Nat /\ z = y
    BY <1>7 DEF Bit
  <2>5. Lacking(buckets, moving, added, l) = t - o + (k - x)
    BY <2>3 DEF Lacking
  <2>. HIDE DEF t, n, o, k, x, y, z
  <2>6. t - n + k - z = t - o + (k - x)
    BY <2>1, <2>2, <2>4
  <2>. QED BY <2>5, <2>6 DEF t, n, k, z
<1>. HIDE DEF with
<1>12. ASSUME Proper(buckets', moving', added'),
              \A l \in Keys : Lacking(buckets', moving', added', l) = Lacking(buckets, moving, added, l)
       PROVE  Cardinality(LostOf(buckets', moving', added')) <= misuses'
  <2>1. NoneMore(buckets, moving, added, buckets', moving', added')
    <3>1. \A l \in Keys : Lacking(buckets, moving, added, l) \in Int
      BY <1>1, LackingIs
    <3>. QED BY <1>12, <3>1 DEF NoneMore
  <2>2. Cardinality(LostOf(buckets', moving', added')) <= Cardinality(LostOf(buckets, moving, added))
    BY <1>1, <1>12, <2>1, LostStays
  <2>3. /\ Cardinality(LostOf(buckets', moving', added')) \in Nat
        /\ Cardinality(LostOf(buckets, moving, added)) \in Nat
    BY <1>1, <1>12, LostIs
  <2>. QED BY <1>3, <2>2, <2>3 DEF FilterInv
<1>13. CASE Len(g[j]) < BucketSize
  <2>1. /\ buckets' = [g EXCEPT ![j] = Append(@, e)] /\ count' = count + 1
        /\ added' = [added EXCEPT ![m.key] = @ + 1] /\ moving' = <<>>
    BY <1>5, <1>13
  <2>2. /\ buckets' \in Grids /\ \A n \in Rows : Len(buckets'[n]) = Len(g[n]) + Bit(n = j)
        /\ \A M : Cardinality(Where(buckets', M)) = Cardinality(Where(g, M)) + Bit(<<j, e>> \in M)
    <3>1. PutIn(g, j, e, buckets')
      BY <1>4, <1>6, <2>1 DEF PutIn
    <3>. QED BY <3>1, WherePut
  <2>3. /\ added' \in Records
        /\ \A A : A \subseteq Keys =>
             Cardinality(Tokens(added', A)) = Cardinality(Tokens(added, A)) + Bit(m.key \in A)
    <3>1. OneUp(added, m.key, added')
      BY <1>1, <2>1 DEF OneUp
    <3>2. {} \subseteq Keys
      OBVIOUS
    <3>. QED BY <3>1, <3>2, TokensUp
  <2>4. Proper(buckets', moving', added')
    BY <2>1, <2>2, <2>3 DEF Proper
  <2>5. ASSUME NEW l \in Keys
        PROVE  Lacking(buckets', moving', added', l) = Lacking(buckets, moving, added, l)
    <3>1. Cardinality(Tokens(added', Alike(l)))
            = Cardinality(Tokens(added, Alike(l))) + Bit(m.key \in Alike(l))
      BY <2>3, Classes
    <3>2. Cardinality(Where(buckets', Class(l)))
            = Cardinality(Where(g, Class(l))) + Bit(<<j, e>> \in Class(l))
      BY <2>2
    <3>3. InHand(moving', l) = 0
      BY <2>1 DEF InHand
    <3>4. /\ Bit(m.key \in Alike(l)) \in Nat /\ Bit(<<j, e>> \in Class(l)) \in Nat
          /\ Cardinality(Where(g, Class(l))) \in Nat /\ Cardinality(Tokens(added, Alike(l))) \in Nat
      BY <1>1, <1>6, WhereIs, LackingIs DEF Bit
    <3>. QED BY <1>11, <3>1, <3>2, <3>3, <3>4 DEF Lacking
  <2>6. count' = Cardinality(Where(buckets', Rows \X Stamps))
    <3>1. Bit(<<j, e>> \in Rows \X Stamps) = 1
      BY <1>4 DEF Bit
    <3>. QED BY <1>9, <2>1, <2>2, <3>1
  <2>7. \A n \in Rows : Len(buckets'[n]) <= BucketSize
    <3>1. BucketSize \in Nat /\ \A n \in Rows : Len(g[n]) \in Nat
      BY <1>6, FilterAssumption DEF Grids
    <3>. SUFFICES ASSUME NEW n \in Rows PROVE Len(buckets'[n]) <= BucketSize
      OBVIOUS
    <3>2. Len(buckets'[n]) = Len(g[n]) + Bit(n = j) /\ Len(g[n]) <= BucketSize
      BY <1>10, <2>2
    <3>3. CASE n = j
      BY <1>13, <3>1, <3>2, <3>3 DEF Bit
    <3>4. CASE n # j
      BY <3>1, <3>2, <3>4 DEF Bit
    <3>. QED BY <3>3, <3>4
  <2>8. misuses' \in Nat
    BY <1>3 DEF FilterInv
  <2>. QED BY <1>12, <2>4, <2>5, <2>6, <2>7, <2>8 DEF FilterInv
<1>14. CASE ~(Len(g[j]) < BucketSize)
  <2>1. /\ buckets' = g /\ moving' = <<[m EXCEPT !.print = e, !.bucket = j]>>
        /\ UNCHANGED <<count, added>>
    BY <1>5, <1>14
  <2>. DEFINE w == [m EXCEPT !.print = e, !.bucket = j]
  <2>2. w \in Moves /\ w.key = m.key /\ w.print = e /\ w.bucket = j
    BY <1>1, <1>4 DEF Moves
  <2>. HIDE DEF w
  <2>3. Proper(buckets', moving', added')
    BY <1>1, <1>6, <2>1, <2>2 DEF Proper, w
  <2>4. ASSUME NEW l \in Keys
        PROVE  Lacking(buckets', moving', added', l) = Lacking(buckets, moving, added, l)
    <3>1. InHand(moving', l) = Bit(m.key \in Alike(l)) - Bit(<<j, e>> \in Class(l))
      BY <2>1, <2>2 DEF InHand, w
    <3>2. /\ Bit(m.key \in Alike(l)) \in Nat /\ Bit(<<j, e>> \in Class(l)) \in Nat
          /\ Cardinality(Where(g, Class(l))) \in Nat /\ Cardinality(Tokens(added, Alike(l))) \in Nat
      BY <1>1, <1>6, WhereIs, LackingIs DEF Bit
    <3>. QED BY <1>11, <2>1, <3>1, <3>2 DEF Lacking
  <2>5. misuses' \in Nat /\ count' = Cardinality(Where(buckets', Rows \X Stamps))
    BY <1>3, <1>9, <2>1 DEF FilterInv
  <2>6. \A n \in Rows : Len(buckets'[n]) <= BucketSize
    BY <1>10, <2>1
  <2>. QED BY <1>12, <2>3, <2>4, <2>5, <2>6 DEF FilterInv
<1>. QED BY <1>13, <1>14

\* A fingerprint that is dropped is missing from its class, if it has one.
LEMMA GiveUpKeeps ==
  ASSUME FilterInv, GiveUp
  PROVE  FilterInv'
<1>. DEFINE m == moving[1]
            i == m.bucket
            f == m.print
<1>1. /\ m \in Moves /\ moving = <<m>> /\ i \in Rows /\ f \in Stamps
      /\ Proper(buckets, moving, added) /\ moving' = <<>> /\ misuses' = misuses + 1
      /\ UNCHANGED <<buckets, count, added>>
  BY DEF FilterInv, Proper, Moves, GiveUp
<1>2. Proper(buckets', moving', added')
  BY <1>1 DEF Proper
<1>. HIDE DEF m
<1>3. ASSUME NEW l \in Keys
      PROVE  Lacking(buckets', moving', added', l)
               <= Lacking(buckets, moving, added, l) + Bit(<<i, f>> \in Class(l))
  <2>. DEFINE t == Cardinality(Tokens(added, Alike(l)))
              o == Cardinality(Where(buckets, Class(l)))
              k == Bit(m.key \in Alike(l))
              x == Bit(<<i, f>> \in Class(l))
  <2>1. t \in Nat /\ o \in Nat /\ k \in Nat /\ x \in Nat
    BY <1>1, LackingIs DEF Bit
  <2>2. InHand(moving, l) = k - x /\ InHand(moving', l) = 0
    BY <1>1 DEF InHand, m
  <2>3. Lacking(buckets, moving, added, l) = t - o + (k - x)
    BY <2>2 DEF Lacking
  <2>4. Lacking(buckets', moving', added', l) = t - o + 0
    BY <1>1, <2>2 DEF Lacking
  <2>. HIDE DEF t, o, k, x
  <2>5. t - o + 0 <= t - o + (k - x) + x
    BY <2>1
  <2>. QED BY <2>3, <2>4, <2>5 DEF x
<1>4. \A l \in Keys : Lacking(buckets, moving, added, l) \in Int
  BY <1>1, LackingIs
<1>5. Cardinality(LostOf(buckets', moving', added')) <= Cardinality(LostOf(buckets, moving, added)) + 1
  <2>1. CASE \E j \in Keys : <<i, f>> \in Class(j)
    <3>1. PICK j \in Keys : <<i, f>> \in Class(j)
      BY <2>1
    <3>2. ASSUME NEW l \in Keys PROVE Bit(<<i, f>> \in Class(l)) = Bit(l \in Alike(j))
      <4>1. f = Fingerprint[j] /\ i \in Home(j)
        BY <3>1 DEF Class
      <4>2. <<i, f>> \in Class(l) <=> j \in Alike(l)
        BY <4>1, Classes
      <4>3. j \in Alike(l) <=> l \in Alike(j)
        BY DEF Alike
      <4>. QED BY <4>2, <4>3 DEF Bit
    <3>3. OneMoreOf(j, buckets, moving, added, buckets', moving', added')
      BY <1>3, <3>2 DEF OneMoreOf
    <3>. QED BY <1>1, <1>2, <3>3, LostOne
  <2>2. CASE ~ \E j \in Keys : <<i, f>> \in Class(j)
    <3>1. \A l \in Keys : Bit(<<i, f>> \in Class(l)) = 0
      BY <2>2 DEF Bit
    <3>2. NoneMore(buckets, moving, added, buckets', moving', added')
      BY <1>3, <1>4, <3>1 DEF NoneMore
    <3>3. /\ Cardinality(LostOf(buckets', moving', added')) \in Nat
          /\ Cardinality(LostOf(buckets, moving, added)) \in Nat
      BY <1>1, <1>2, LostIs
    <3>4. Cardinality(LostOf(buckets', moving', added')) <= Cardinality(LostOf(buckets, moving, added))
      BY <1>1, <1>2, <3>2, LostStays
    <3>. QED BY <3>3, <3>4
  <2>. QED BY <2>1, <2>2
<1>6. /\ Cardinality(LostOf(buckets', moving', added')) \in Nat
      /\ Cardinality(LostOf(buckets, moving, added)) \in Nat
  BY <1>1, <1>2, LostIs
<1>7. misuses \in Nat /\ Cardinality(LostOf(buckets, moving, added)) <= misuses
  BY DEF FilterInv
<1>8. misuses' \in Nat /\ Cardinality(LostOf(buckets', moving', added')) <= misuses'
  BY <1>1, <1>5, <1>6, <1>7
<1>. QED BY <1>1, <1>2, <1>8 DEF FilterInv

\* The slot of the first copy in a bucket.
FirstCopy(k, i) == SelectInSeq(buckets[i], LAMBDA f : f = Fingerprint[k])

LEMMA FirstCopyIs ==
  ASSUME NEW k, NEW i \in Rows, buckets \in Grids, Has(i, Fingerprint[k])
  PROVE  FirstCopy(k, i) \in 1..Len(buckets[i]) /\ buckets[i][FirstCopy(k, i)] = Fingerprint[k]
<1>. DEFINE I == {n \in 1..Len(buckets[i]) : buckets[i][n] = Fingerprint[k]}
<1>1. I # {}
  <2>1. DOMAIN buckets[i] = 1..Len(buckets[i])
    BY DEF Grids
  <2>2. PICK n \in DOMAIN buckets[i] : buckets[i][n] = Fingerprint[k]
    BY DEF Has, ToSet
  <2>. QED BY <2>1, <2>2
<1>2. FirstCopy(k, i) = Min(I)
  BY <1>1 DEF FirstCopy, SelectInSeq
<1>3. Min(I) \in I
  <2>1. I \subseteq Nat
    OBVIOUS
  <2>. HIDE DEF I
  <2>. QED BY <1>1, <2>1, MinOf
<1>. QED BY <1>2, <1>3

LEMMA RemoveKeeps ==
  ASSUME FilterInv, NEW k \in Keys, RemoveKey(k)
  PROVE  FilterInv'
<1>. DEFINE f == Fingerprint[k]
            full == added[k] > 0
<1>1. /\ moving = <<>> /\ UNCHANGED moving /\ Proper(buckets, moving, added)
      /\ buckets \in Grids /\ added \in Records /\ added[k] \in Nat
      /\ misuses' = IF full THEN misuses ELSE misuses + 1
  BY DEF RemoveKey, FilterInv, Proper, Records
<1>2. /\ added' \in Records
      /\ \A l \in Keys : Cardinality(Tokens(added', Alike(l))) + Bit(full /\ k \in Alike(l))
                           = Cardinality(Tokens(added, Alike(l)))
  <2>1. CASE full
    <3>1. OneDown(added, k, added')
      BY <1>1, <2>1 DEF RemoveKey, OneDown
    <3>2. ASSUME NEW A, A \subseteq Keys
          PROVE  /\ added' \in Records
                 /\ Cardinality(Tokens(added', A)) + Bit(k \in A) = Cardinality(Tokens(added, A))
      BY <3>1, <3>2, TokensDown
    <3>3. \A l \in Keys : Bit(full /\ k \in Alike(l)) = Bit(k \in Alike(l)) /\ Alike(l) \subseteq Keys
      BY <2>1, Classes DEF Bit
    <3>. QED BY <3>2, <3>3
  <2>2. CASE ~full
    <3>1. added' = added
      BY <1>1, <2>2 DEF RemoveKey, Records
    <3>2. \A l \in Keys : Bit(full /\ k \in Alike(l)) = 0
                            /\ Cardinality(Tokens(added, Alike(l))) \in Nat
      BY <1>1, <2>2, LackingIs DEF Bit
    <3>. QED BY <1>1, <3>1, <3>2
  <2>. QED BY <2>1, <2>2
<1>. DEFINE found == Holder(k) # {}
<1>3. /\ buckets' \in Grids /\ \A j \in Rows : Len(buckets'[j]) <= Len(buckets[j])
      /\ count' = count - Bit(found)
      /\ \A l \in Keys : Cardinality(Where(buckets', Class(l))) + Bit(found /\ k \in Alike(l))
                           = Cardinality(Where(buckets, Class(l)))
      /\ Cardinality(Where(buckets', Rows \X Stamps)) + Bit(found)
           = Cardinality(Where(buckets, Rows \X Stamps))
  <2>1. CASE found
    <3>1. PICK i \in Holder(k) :
            /\ buckets' = [buckets EXCEPT ![i] =
                             RemoveAt(@, SelectInSeq(@, LAMBDA g : g = Fingerprint[k]))]
            /\ count' = count - 1
      BY <2>1 DEF RemoveKey
    <3>2. i \in Home(k) /\ i \in Rows /\ Has(i, f) /\ f \in Stamps
      BY Partners DEF Holder, Home
    <3>. DEFINE s == FirstCopy(k, i)
    <3>3. s \in 1..Len(buckets[i]) /\ buckets[i][s] = f
      BY <1>1, <3>2, FirstCopyIs
    <3>4. buckets' = [buckets EXCEPT ![i] = RemoveAt(@, s)]
      BY <3>1 DEF FirstCopy
    <3>. HIDE DEF s, f
    <3>5. TakenOut(buckets, i, s, buckets')
      BY <1>1, <3>2, <3>3, <3>4 DEF TakenOut
    <3>6. ASSUME NEW M
          PROVE  /\ buckets' \in Grids /\ \A j \in Rows : Len(buckets'[j]) <= Len(buckets[j])
                 /\ Cardinality(Where(buckets', M)) + Bit(<<i, f>> \in M)
                      = Cardinality(Where(buckets, M))
      BY <3>3, <3>5, WhereTaken
    <3>7. ASSUME NEW l \in Keys PROVE Bit(<<i, f>> \in Class(l)) = Bit(found /\ k \in Alike(l))
      <4>1. <<i, f>> \in Class(l) <=> k \in Alike(l)
        BY <3>2, Classes DEF f
      <4>. QED BY <2>1, <4>1 DEF Bit
    <3>8. Bit(<<i, f>> \in Rows \X Stamps) = Bit(found) /\ Bit(found) = 1
      BY <2>1, <3>2 DEF Bit
    <3>9. buckets' \in Grids /\ \A j \in Rows : Len(buckets'[j]) <= Len(buckets[j])
      BY <3>6
    <3>10. Cardinality(Where(buckets', Rows \X Stamps)) + Bit(found)
             = Cardinality(Where(buckets, Rows \X Stamps))
      BY <3>6, <3>8
    <3>11. \A l \in Keys : Cardinality(Where(buckets', Class(l))) + Bit(found /\ k \in Alike(l))
                             = Cardinality(Where(buckets, Class(l)))
      BY <3>6, <3>7
    <3>. QED BY <3>1, <3>8, <3>9, <3>10, <3>11
  <2>2. CASE ~found
    <3>1. buckets' = buckets /\ count' = count
      BY <2>2 DEF RemoveKey
    <3>2. Bit(found) = 0 /\ \A l \in Keys : Bit(found /\ k \in Alike(l)) = 0
      BY <2>2 DEF Bit
    <3>3. \A M : Cardinality(Where(buckets, M)) \in Nat
      BY <1>1, WhereIs
    <3>4. count \in Nat /\ \A j \in Rows : Len(buckets[j]) \in Nat
      BY <1>1, <3>3 DEF FilterInv, Grids
    <3>. HIDE DEF found
    <3>. QED BY <1>1, <3>1, <3>2, <3>3, <3>4
  <2>. QED BY <2>1, <2>2
<1>. HIDE DEF found, full
<1>4. Proper(buckets', moving', added')
  BY <1>1, <1>2, <1>3 DEF Proper
<1>5. ASSUME NEW l \in Keys
      PROVE  Lacking(buckets', moving', added', l)
               <= Lacking(buckets, moving, added, l)
                    + (Bit(found /\ k \in Alike(l)) - Bit(full /\ k \in Alike(l)))
  <2>. DEFINE t == Cardinality(Tokens(added, Alike(l)))
              u == Cardinality(Tokens(added', Alike(l)))
              o == Cardinality(Where(buckets, Class(l)))
              n == Cardinality(Where(buckets', Class(l)))
              x == Bit(found /\ k \in Alike(l))
              y == Bit(full /\ k \in Alike(l))
  <2>1. t \in Nat /\ o \in Nat
    BY <1>1, LackingIs
  <2>2. u \in Nat /\ n \in Nat
    BY <1>4, LackingIs
  <2>3. x \in Nat /\ y \in Nat
    BY DEF Bit
  <2>4. u + y = t /\ n + x = o
    BY <1>2, <1>3
  <2>5. Lacking(buckets, moving, added, l) = t - o + 0
    BY <1>1 DEF Lacking, InHand
  <2>6. Lacking(buckets', moving', added', l) = u - n + 0
    BY <1>1 DEF Lacking, InHand
  <2>. HIDE DEF t, u, o, n, x, y
  <2>7. u - n + 0 <= t - o + 0 + (x - y)
    BY <2>1, <2>2, <2>3, <2>4
  <2>. QED BY <2>5, <2>6, <2>7 DEF x, y
<1>6. \A l \in Keys : Lacking(buckets, moving, added, l) \in Int
                        /\ Lacking(buckets', moving', added', l) \in Int
  BY <1>1, <1>4, LackingIs
<1>7. /\ Cardinality(LostOf(buckets', moving', added')) \in Nat
      /\ Cardinality(LostOf(buckets, moving, added)) \in Nat
  BY <1>1, <1>4, LostIs
<1>8. misuses \in Nat /\ Cardinality(LostOf(buckets, moving, added)) <= misuses
  BY DEF FilterInv
<1>9. misuses' \in Nat /\ Cardinality(LostOf(buckets', moving', added')) <= misuses'
  <2>1. CASE full
    <3>1. ASSUME NEW l \in Keys
          PROVE  Lacking(buckets', moving', added', l) <= Lacking(buckets, moving, added, l)
      <4>1. Bit(found /\ k \in Alike(l)) - Bit(full /\ k \in Alike(l)) \in {0, -1}
        BY <2>1 DEF Bit
      <4>. QED BY <1>5, <1>6, <4>1
    <3>2. NoneMore(buckets, moving, added, buckets', moving', added')
      BY <3>1 DEF NoneMore
    <3>3. Cardinality(LostOf(buckets', moving', added')) <= Cardinality(LostOf(buckets, moving, added))
      BY <1>1, <1>4, <3>2, LostStays
    <3>. QED BY <1>1, <1>7, <1>8, <2>1, <3>3
  <2>2. CASE ~full
    <3>1. ASSUME NEW l \in Keys
          PROVE  Lacking(buckets', moving', added', l)
                   <= Lacking(buckets, moving, added, l) + Bit(l \in Alike(k))
      <4>1. k \in Alike(l) <=> l \in Alike(k)
        BY DEF Alike
      <4>2. /\ Bit(found /\ k \in Alike(l)) - Bit(full /\ k \in Alike(l)) \in Int
            /\ Bit(l \in Alike(k)) \in Nat
            /\ Bit(found /\ k \in Alike(l)) - Bit(full /\ k \in Alike(l)) <= Bit(l \in Alike(k))
        BY <2>2, <4>1 DEF Bit
      <4>. QED BY <1>5, <1>6, <4>2
    <3>2. OneMoreOf(k, buckets, moving, added, buckets', moving', added')
      BY <3>1 DEF OneMoreOf
    <3>3. Cardinality(LostOf(buckets', moving', added'))
            <= Cardinality(LostOf(buckets, moving, added)) + 1
      BY <1>1, <1>4, <3>2, LostOne
    <3>. QED BY <1>1, <1>7, <1>8, <2>2, <3>3
  <2>. QED BY <2>1, <2>2
<1>10. count' = Cardinality(Where(buckets', Rows \X Stamps))
  <2>1. /\ Cardinality(Where(buckets', Rows \X Stamps)) \in Nat
        /\ Cardinality(Where(buckets, Rows \X Stamps)) \in Nat /\ Bit(found) \in Nat
    BY <1>1, <1>3, WhereIs DEF Bit
  <2>. QED BY <1>3, <2>1 DEF FilterInv
<1>11. \A j \in Rows : Len(buckets'[j]) <= BucketSize
  <2>1. BucketSize \in Nat /\ \A j \in Rows : Len(buckets[j]) \in Nat /\ Len(buckets'[j]) \in Nat
    BY <1>1, <1>3, FilterAssumption DEF Grids
  <2>. QED BY <1>3, <2>1 DEF FilterInv
<1>. QED BY <1>4, <1>9, <1>10, <1>11 DEF FilterInv

LEMMA FilterMoves == FilterInv /\ [FilterNext]_cvars => FilterInv'
<1>. SUFFICES ASSUME FilterInv, [FilterNext]_cvars PROVE FilterInv'
  OBVIOUS
<1>1. CASE UNCHANGED cvars
  BY <1>1 DEF cvars, FilterInv
<1>2. ASSUME NEW k \in Keys, AddKey(k) PROVE FilterInv'
  <2>1. PICK i \in Home(k) : HasRoom(i) /\ Place(i, Fingerprint[k])
    BY <1>2 DEF AddKey, Home
  <2>. QED BY <1>2, <2>1, PlaceKeeps DEF AddKey
<1>. QED
  BY <1>1, <1>2, CrowdKeeps, RemoveKeeps, KickKeeps, GiveUpKeeps DEF FilterNext

LEMMA FilterAnswers == FilterInv => FilterLaw
<1>. SUFFICES ASSUME FilterInv PROVE FilterLaw
  OBVIOUS
<1>1. /\ buckets \in Grids /\ Proper(buckets, moving, added) /\ misuses \in Nat
      /\ added \in Records /\ DOMAIN buckets = Rows
  BY DEF FilterInv, Proper, Grids
<1>2. Slots = Where(buckets, Rows \X Stamps)
  <2>1. Slots = SlotsOf(buckets)
    BY DEF Slots, SlotsOf
  <2>2. ASSUME NEW p \in SlotsOf(buckets) PROVE <<p[1], buckets[p[1]][p[2]]>> \in Rows \X Stamps
    <3>1. PICK i \in Rows, n \in Nat : p = <<i, n>>
      BY <1>1, SlotsAre
    <3>2. n \in 1..Len(buckets[i])
      BY <1>1, <3>1, SlotsAre
    <3>3. buckets[i][n] \in Stamps
      BY <1>1, <3>2 DEF Grids
    <3>. QED BY <3>1, <3>3
  <2>. QED BY <2>1, <2>2 DEF Where
<1>3. ASSUME NEW k \in Keys
      PROVE  /\ Additions(k) = Tokens(added, Alike(k)) /\ Copies(k) = Where(buckets, Class(k))
             /\ Cardinality(Additions(k)) \in Nat /\ Cardinality(Copies(k)) \in Nat
             /\ moving = <<>> => Lacking(buckets, moving, added, k)
                                   = Cardinality(Additions(k)) - Cardinality(Copies(k))
  <2>1. Additions(k) = Tokens(added, Alike(k))
    BY DEF Additions, Tokens
  <2>2. Copies(k) = Where(buckets, Class(k))
    BY DEF Copies, Where, Class, Slots, SlotsOf
  <2>3. Cardinality(Additions(k)) \in Nat /\ Cardinality(Copies(k)) \in Nat
    BY <1>1, <2>1, <2>2, LackingIs
  <2>. QED BY <2>1, <2>2, <2>3 DEF Lacking, InHand
<1>4. ASSUME moving = <<>>
      PROVE  UNION {Missing(k) : k \in Keys} = LostOf(buckets, moving, added)
  <2>1. \A k \in Keys :
          Missing(k) = {<<Alike(k), n>> : n \in 1..Lacking(buckets, moving, added, k)}
    BY <1>3, <1>4 DEF Missing
  <2>. QED BY <2>1 DEF LostOf
<1>5. NoneLost
  BY <1>4 DEF NoneLost, FilterInv
<1>6. CountsStored
  BY <1>1, <1>2 DEF CountsStored, FilterInv
<1>7. NoFalseNegative
  <2>. SUFFICES ASSUME moving = <<>>, misuses = 0, NEW k \in Keys, added[k] > 0
                PROVE  MightContain(k)
    BY DEF NoFalseNegative
  <2>1. LostOf(buckets, moving, added) = {}
    <3>1. /\ IsFiniteSet(LostOf(buckets, moving, added))
          /\ Cardinality(LostOf(buckets, moving, added)) \in Nat
      BY <1>1, LostIs
    <3>2. Cardinality(LostOf(buckets, moving, added)) = 0
      BY <3>1 DEF FilterInv
    <3>. QED BY <3>1, <3>2, FS_EmptySet
  <2>2. Cardinality(Additions(k)) <= Cardinality(Copies(k))
    <3>. SUFFICES ASSUME ~(Cardinality(Additions(k)) <= Cardinality(Copies(k))) PROVE FALSE
      OBVIOUS
    <3>1. 1 \in 1..Lacking(buckets, moving, added, k)
      BY <1>3
    <3>2. <<Alike(k), 1>> \in LostOf(buckets, moving, added)
      BY <1>1, <3>1, LostIs
    <3>. QED BY <2>1, <3>2
  <2>3. Cardinality(Additions(k)) # 0
    <3>1. added[k] \in Nat /\ Alike(k) \subseteq Keys /\ k \in Alike(k)
      BY <1>1, Classes DEF Records
    <3>2. <<k, 1>> \in Additions(k)
      BY <1>1, <1>3, <3>1, TokensAre
    <3>3. IsFiniteSet(Additions(k))
      BY <1>1, <1>3, <3>1, TokensAre
    <3>. QED BY <3>2, <3>3, FS_EmptySet
  <2>4. Copies(k) # {}
    <3>1. Cardinality(Copies(k)) # 0
      BY <1>3, <2>2, <2>3
    <3>. QED BY <3>1, FS_EmptySet
  <2>5. PICK p \in Copies(k) : TRUE
    BY <2>4
  <2>6. PICK i \in Rows, n \in Nat : p = <<i, n>>
    BY <1>1, <1>3, <2>5, WhereIs
  <2>7. n \in 1..Len(buckets[i]) /\ <<i, buckets[i][n]>> \in Class(k)
    BY <1>1, <1>3, <2>5, <2>6, WhereIs
  <2>8. i \in Home(k) /\ buckets[i][n] = Fingerprint[k]
    BY <2>7 DEF Class
  <2>9. Has(i, Fingerprint[k])
    BY <1>1, <2>7, <2>8 DEF Has, ToSet, Grids
  <2>. QED BY <2>8, <2>9 DEF MightContain
<1>. QED BY <1>5, <1>6, <1>7 DEF FilterLaw

-----------------------------------------------------------------------------
(* RagTree: the ranking of a set *)

LEMMA BetterIs ==
  ASSUME NEW set, set \subseteq Nodes
  PROVE  /\ IsFiniteSet(set) /\ Cardinality(set) \in Nat
         /\ \A n \in set : /\ IsFiniteSet(Better(set, n))
                           /\ Cardinality(Better(set, n)) \in 0..(Cardinality(set) - 1)
         /\ \A m, n \in set : Cardinality(Better(set, m)) = Cardinality(Better(set, n)) => m = n
<1>1. IsFiniteSet(set) /\ Cardinality(set) \in Nat
  <2>1. IsFiniteSet(set)
    BY TreeAssumption, FS_Subset
  <2>. QED BY <2>1, FS_CardinalityType
<1>2. \A n \in set : Score[n] \in Int
  BY TreeAssumption
<1>3. ASSUME NEW n \in set
      PROVE  /\ IsFiniteSet(Better(set, n))
             /\ Cardinality(Better(set, n)) \in 0..(Cardinality(set) - 1)
  <2>1. Better(set, n) \subseteq set \ {n}
    BY <1>2 DEF Better
  <2>2. IsFiniteSet(set \ {n}) /\ Cardinality(set \ {n}) = Cardinality(set) - 1
    BY <1>1, FS_RemoveElement
  <2>3. IsFiniteSet(Better(set, n)) /\ Cardinality(Better(set, n)) <= Cardinality(set \ {n})
    BY <2>1, <2>2, FS_Subset
  <2>4. Cardinality(Better(set, n)) \in Nat
    BY <2>3, FS_CardinalityType
  <2>. QED BY <1>1, <2>2, <2>3, <2>4
<1>4. ASSUME NEW m \in set, NEW n \in set, Score[m] > Score[n]
      PROVE  Cardinality(Better(set, m)) # Cardinality(Better(set, n))
  <2>1. Better(set, m) \subseteq Better(set, n)
    BY <1>2, <1>4 DEF Better
  <2>2. m \in Better(set, n) /\ m \notin Better(set, m)
    BY <1>2, <1>4 DEF Better
  <2>3. Cardinality(Better(set, m)) = Cardinality(Better(set, n)) => Better(set, n) = Better(set, m)
    BY <1>3, <2>1, FS_Subset
  <2>. QED BY <2>2, <2>3
<1>5. ASSUME NEW m \in set, NEW n \in set, m # n
      PROVE  Cardinality(Better(set, m)) # Cardinality(Better(set, n))
  <2>1. Score[m] # Score[n]
    BY <1>5, TreeAssumption
  <2>2. Score[m] > Score[n] \/ Score[n] > Score[m]
    BY <1>2, <2>1
  <2>. QED BY <1>4, <2>2
<1>. QED BY <1>1, <1>3, <1>5

\* It is the set in an order.
LEMMA RankedIs ==
  ASSUME NEW set, set \subseteq Nodes
  PROVE  /\ Cardinality(set) \in Nat
         /\ Ranked(set) \in [1..Cardinality(set) -> set]
         /\ {Ranked(set)[i] : i \in 1..Cardinality(set)} = set
         /\ ToSet(Ranked(set)) = set /\ Len(Ranked(set)) = Cardinality(set)
<1>. DEFINE N == Cardinality(set)
            R == 0..(N - 1)
            F == [n \in set |-> Cardinality(Better(set, n))]
<1>1. /\ IsFiniteSet(set) /\ N \in Nat
      /\ \A n \in set : Cardinality(Better(set, n)) \in R
      /\ \A m, n \in set : Cardinality(Better(set, m)) = Cardinality(Better(set, n)) => m = n
  BY BetterIs
<1>2. F \in Injection(set, R)
  <2>. HIDE DEF R
  <2>. QED BY <1>1 DEF Injection, IsInjective
<1>3. IsFiniteSet(R) /\ Cardinality(R) = N
  <2>. HIDE DEF N
  <2>. QED BY <1>1, FS_Interval
<1>4. F \in Surjection(set, R)
  <2>. HIDE DEF F, R
  <2>. QED BY <1>1, <1>2, <1>3, FS_Injection
<1>5. ASSUME NEW i \in 1..N
      PROVE  Ranked(set)[i] \in set /\ Cardinality(Better(set, Ranked(set)[i])) = i - 1
  <2>1. i - 1 \in R
    BY <1>1
  <2>2. \E n \in set : Cardinality(Better(set, n)) = i - 1
    <3>. HIDE DEF R
    <3>. QED BY <1>4, <2>1 DEF Surjection
  <2>3. Ranked(set)[i] = CHOOSE n \in set : Cardinality(Better(set, n)) = i - 1
    BY DEF Ranked
  <2>. QED BY <2>2, <2>3
<1>6. ASSUME NEW n \in set PROVE \E i \in 1..N : Ranked(set)[i] = n
  <2>. DEFINE i == Cardinality(Better(set, n)) + 1
  <2>1. i \in 1..N /\ i - 1 = Cardinality(Better(set, n))
    BY <1>1
  <2>2. Cardinality(Better(set, Ranked(set)[i])) = i - 1 /\ Ranked(set)[i] \in set
    BY <1>5, <2>1
  <2>. QED BY <1>1, <2>1, <2>2
<1>7. Ranked(set) \in [1..N -> set]
  <2>1. Ranked(set) = [i \in 1..N |-> Ranked(set)[i]]
    BY DEF Ranked
  <2>. QED BY <1>5, <2>1
<1>. HIDE DEF N
<1>8. {Ranked(set)[i] : i \in 1..N} = set
  BY <1>5, <1>6
<1>9. ToSet(Ranked(set)) = set /\ Len(Ranked(set)) = N
  <2>1. DOMAIN Ranked(set) = 1..N /\ Ranked(set) \in Seq(set)
    BY <1>1, <1>7
  <2>2. Len(Ranked(set)) = N
    BY <1>1, <2>1
  <2>. QED BY <1>8, <2>1, <2>2 DEF ToSet
<1>. QED BY <1>1, <1>7, <1>8, <1>9 DEF N

\* The best of it are of it, not more than the width, and one at least.
LEMMA BestIs ==
  ASSUME NEW set, set \subseteq Nodes, NEW width \in Nat \ {0}
  PROVE  /\ Best(set, width) \subseteq set
         /\ IsFiniteSet(Best(set, width)) /\ Cardinality(Best(set, width)) <= width
         /\ set # {} => Best(set, width) # {}
         /\ width >= Cardinality(set) => Best(set, width) = set
<1>. DEFINE N == Cardinality(set)
            I == 1..N \cap 1..width
<1>1. N \in Nat /\ Ranked(set) \in [1..N -> set] /\ {Ranked(set)[i] : i \in 1..N} = set
  BY RankedIs
<1>2. Best(set, width) = {Ranked(set)[i] : i \in I}
  BY DEF Best
<1>3. IsFiniteSet(I) /\ Cardinality(I) <= width
  <2>1. IsFiniteSet(1..width) /\ Cardinality(1..width) = width
    BY FS_Interval
  <2>2. I \subseteq 1..width
    OBVIOUS
  <2>. HIDE DEF I
  <2>. QED BY <2>1, <2>2, FS_Subset
<1>4. IsFiniteSet(Best(set, width)) /\ Cardinality(Best(set, width)) <= width
  <2>. DEFINE B == Best(set, width)
              f == [i \in I |-> Ranked(set)[i]]
  <2>1. f \in Surjection(I, B)
    <3>. HIDE DEF I
    <3>. QED BY <1>2 DEF Surjection
  <2>. HIDE DEF I, f, B
  <2>2. IsFiniteSet(B) /\ Cardinality(B) <= Cardinality(I)
    BY <1>3, <2>1, FS_Surjection
  <2>3. Cardinality(B) \in Nat /\ Cardinality(I) \in Nat
    BY <1>3, <2>2, FS_CardinalityType
  <2>4. Cardinality(B) <= width
    BY <1>3, <2>2, <2>3
  <2>. QED BY <2>2, <2>4 DEF B
<1>5. Best(set, width) \subseteq set
  BY <1>1, <1>2
<1>6. set # {} => Best(set, width) # {}
  <2>. SUFFICES ASSUME set # {} PROVE Best(set, width) # {}
    OBVIOUS
  <2>1. PICK i \in 1..N : TRUE
    BY <1>1
  <2>2. 1 \in I
    BY <1>1, <2>1
  <2>. HIDE DEF I
  <2>. QED BY <1>2, <2>2
<1>7. width >= N => Best(set, width) = set
  <2>1. width >= N => I = 1..N
    BY <1>1
  <2>. HIDE DEF I
  <2>. QED BY <1>1, <1>2, <2>1
<1>. QED BY <1>4, <1>5, <1>6, <1>7

-----------------------------------------------------------------------------
(* RagTree: how nodes are linked *)

Parents == Nodes \cup {NoParent}

\* The depth of each node, where nodes were added in order and stayed.
Depths(r) ==
  \A n \in DOMAIN nodes :
    /\ r[n] \in 1..Cardinality(DOMAIN nodes)
    /\ IF nodes[n].parent = NoParent THEN r[n] = 1
       ELSE /\ nodes[n].parent \in DOMAIN nodes
            /\ nodes[nodes[n].parent].tenant = nodes[n].tenant
            /\ r[n] = r[nodes[n].parent] + 1

\* There each list has the nodes that are its own.
InOwnLists ==
  /\ \A m, n \in Nodes :
       n \in ToSet(children[m]) <=> n \in DOMAIN nodes /\ nodes[n].parent = m
  /\ \A t \in Tenants, n \in Nodes :
       n \in ToSet(roots[t]) <=>
         n \in DOMAIN nodes /\ nodes[n].parent = NoParent /\ nodes[n].tenant = t

TreeTyped ==
  /\ DOMAIN nodes \subseteq Nodes
  /\ \A n \in DOMAIN nodes : nodes[n].tenant \in Tenants /\ nodes[n].parent \in Parents
  /\ children \in [Nodes -> Seq(Nodes)] /\ roots \in [Tenants -> Seq(Nodes)]
  /\ unruly \in BOOLEAN

TreeInv ==
  /\ TreeTyped /\ LinkedOnce
  /\ ~unruly => InOwnLists /\ \E r \in [Nodes -> Nat] : Depths(r)

\* A list with one more, which it has once.
LEMMA WithIs ==
  ASSUME NEW s \in Seq(Nodes), NEW n \in Nodes
  PROVE  /\ With(s, n) \in Seq(Nodes)
         /\ ToSet(With(s, n)) = ToSet(s) \cup {n}
         /\ \A m : Contains(With(s, n), m) <=> m \in ToSet(With(s, n))
         /\ \A m : Contains(s, m) <=> m \in ToSet(s)
         /\ IsInjective(s) => IsInjective(With(s, n))
<1>1. /\ Len(s) \in Nat /\ DOMAIN s = 1..Len(s)
      /\ Append(s, n) \in Seq(Nodes) /\ DOMAIN Append(s, n) = 1..(Len(s) + 1)
      /\ Len(Append(s, n)) = Len(s) + 1 /\ Append(s, n)[Len(s) + 1] = n
      /\ \A i \in 1..Len(s) : Append(s, n)[i] = s[i]
  OBVIOUS
<1>2. ASSUME NEW q \in Seq(Nodes), NEW m PROVE Contains(q, m) <=> m \in ToSet(q)
  <2>1. DOMAIN q = 1..Len(q)
    OBVIOUS
  <2>. QED BY <2>1 DEF Contains, ToSet
<1>3. With(s, n) \in Seq(Nodes)
  BY <1>1 DEF With
<1>4. ToSet(With(s, n)) = ToSet(s) \cup {n}
  <2>1. CASE Contains(s, n)
    <3>1. n \in ToSet(s)
      BY <1>2, <2>1
    <3>. QED BY <2>1, <3>1 DEF With
  <2>2. CASE ~Contains(s, n)
    <3>1. ToSet(Append(s, n)) = ToSet(s) \cup {n}
      <4>1. ASSUME NEW x \in ToSet(Append(s, n)) PROVE x \in ToSet(s) \cup {n}
        <5>1. PICK i \in 1..(Len(s) + 1) : x = Append(s, n)[i]
          BY <1>1 DEF ToSet
        <5>2. CASE i = Len(s) + 1
          BY <1>1, <5>1, <5>2
        <5>3. CASE i \in 1..Len(s)
          BY <1>1, <5>1, <5>3 DEF ToSet
        <5>. QED BY <1>1, <5>2, <5>3
      <4>2. ASSUME NEW x \in ToSet(s) PROVE x \in ToSet(Append(s, n))
        <5>1. PICK i \in 1..Len(s) : x = s[i]
          BY <1>1 DEF ToSet
        <5>2. i \in DOMAIN Append(s, n) /\ x = Append(s, n)[i]
          BY <1>1, <5>1
        <5>. QED BY <5>2 DEF ToSet
      <4>3. n \in ToSet(Append(s, n))
        <5>1. Len(s) + 1 \in DOMAIN Append(s, n)
          BY <1>1
        <5>. QED BY <1>1, <5>1 DEF ToSet
      <4>. QED BY <4>1, <4>2, <4>3
    <3>. QED BY <2>2, <3>1 DEF With
  <2>. QED BY <2>1, <2>2
<1>5. ASSUME IsInjective(s) PROVE IsInjective(With(s, n))
  <2>1. CASE Contains(s, n)
    BY <1>5, <2>1 DEF With
  <2>2. CASE ~Contains(s, n)
    <3>1. \A i \in 1..Len(s) : s[i] # n
      BY <2>2 DEF Contains
    <3>2. ASSUME NEW i \in 1..(Len(s) + 1), NEW j \in 1..(Len(s) + 1),
                 Append(s, n)[i] = Append(s, n)[j]
          PROVE  i = j
      <4>1. CASE i \in 1..Len(s) /\ j \in 1..Len(s)
        BY <1>1, <1>5, <3>2, <4>1 DEF IsInjective
      <4>2. CASE i = Len(s) + 1 /\ j \in 1..Len(s)
        BY <1>1, <3>1, <3>2, <4>2
      <4>3. CASE j = Len(s) + 1 /\ i \in 1..Len(s)
        BY <1>1, <3>1, <3>2, <4>3
      <4>. QED BY <1>1, <4>1, <4>2, <4>3
    <3>3. With(s, n) = Append(s, n)
      BY <2>2 DEF With
    <3>. QED BY <1>1, <3>2, <3>3 DEF IsInjective
  <2>. QED BY <2>1, <2>2
<1>. QED BY <1>2, <1>3, <1>4, <1>5

LEMMA TreeStarts == RagTreeInit => TreeInv
<1>. SUFFICES ASSUME RagTreeInit PROVE TreeInv
  OBVIOUS
<1>1. /\ DOMAIN nodes = {} /\ unruly = FALSE
      /\ \A n \in Nodes : children[n] = <<>>
      /\ \A t \in Tenants : roots[t] = <<>>
  BY DEF RagTreeInit
<1>2. ToSet(<<>>) = {} /\ IsInjective(<<>>)
  BY DEF ToSet, IsInjective
<1>3. TreeTyped
  <2>1. <<>> \in Seq(Nodes)
    OBVIOUS
  <2>. QED BY <1>1, <2>1 DEF TreeTyped, RagTreeInit
<1>4. LinkedOnce
  BY <1>1, <1>2 DEF LinkedOnce
<1>5. InOwnLists
  BY <1>1, <1>2 DEF InOwnLists
<1>6. \E r \in [Nodes -> Nat] : Depths(r)
  <2>1. [n \in Nodes |-> 1] \in [Nodes -> Nat] /\ Depths([n \in Nodes |-> 1])
    BY <1>1 DEF Depths
  <2>. QED BY <2>1
<1>. QED BY <1>3, <1>4, <1>5, <1>6 DEF TreeInv

LEMMA AddKeepsLinks ==
  ASSUME TreeInv, NEW n \in Nodes, NEW t \in Tenants, NEW p \in Parents, AddNode(n, t, p)
  PROVE  TreeInv'
<1>. DEFINE own == [tenant |-> t, parent |-> p]
<1>1. /\ DOMAIN nodes' = DOMAIN nodes \cup {n} /\ nodes'[n] = own
      /\ \A m \in DOMAIN nodes : m # n => nodes'[m] = nodes[m]
      /\ p # n
  BY DEF AddNode
<1>2. /\ DOMAIN nodes \subseteq Nodes /\ unruly \in BOOLEAN
      /\ \A m \in DOMAIN nodes : nodes[m].tenant \in Tenants /\ nodes[m].parent \in Parents
      /\ children \in [Nodes -> Seq(Nodes)] /\ roots \in [Tenants -> Seq(Nodes)]
  BY DEF TreeInv, TreeTyped
<1>3. unruly' \in BOOLEAN
  BY DEF AddNode
<1>4. IF p = NoParent
        THEN roots' = [roots EXCEPT ![t] = With(@, n)] /\ UNCHANGED children
        ELSE children' = [children EXCEPT ![p] = With(@, n)] /\ UNCHANGED roots
  BY DEF AddNode
<1>5. /\ children' \in [Nodes -> Seq(Nodes)] /\ roots' \in [Tenants -> Seq(Nodes)]
      /\ \A m \in Nodes : children'[m] = IF m = p THEN With(children[m], n) ELSE children[m]
      /\ \A s \in Tenants : roots'[s] = IF p = NoParent /\ s = t THEN With(roots[s], n) ELSE roots[s]
  <2>0. NoParent \notin Nodes
    BY TreeAssumption
  <2>1. CASE p = NoParent
    <3>1. With(roots[t], n) \in Seq(Nodes)
      BY <1>2, WithIs
    <3>. QED BY <1>2, <1>4, <2>0, <2>1, <3>1
  <2>2. CASE p # NoParent
    <3>1. p \in Nodes
      BY <2>2 DEF Parents
    <3>2. With(children[p], n) \in Seq(Nodes)
      BY <1>2, <3>1, WithIs
    <3>. QED BY <1>2, <1>4, <2>2, <3>1, <3>2
  <2>. QED BY <2>1, <2>2
<1>6. TreeTyped'
  BY <1>1, <1>2, <1>3, <1>5 DEF TreeTyped
<1>7. /\ \A m \in Nodes : ToSet(children'[m]) = ToSet(children[m]) \cup (IF m = p THEN {n} ELSE {})
      /\ \A s \in Tenants : ToSet(roots'[s]) = ToSet(roots[s])
                              \cup (IF p = NoParent /\ s = t THEN {n} ELSE {})
  BY <1>2, <1>5, WithIs
<1>8. LinkedOnce'
  <2>1. ASSUME NEW m \in Nodes PROVE IsInjective(children'[m])
    <3>1. IsInjective(children[m]) /\ children[m] \in Seq(Nodes)
      BY <1>2 DEF TreeInv, LinkedOnce
    <3>. QED BY <1>5, <3>1, WithIs
  <2>2. ASSUME NEW s \in Tenants PROVE IsInjective(roots'[s])
    <3>1. IsInjective(roots[s]) /\ roots[s] \in Seq(Nodes)
      BY <1>2 DEF TreeInv, LinkedOnce
    <3>. QED BY <1>5, <3>1, WithIs
  <2>3. ASSUME NEW m \in DOMAIN nodes'
        PROVE  Contains(IF nodes'[m].parent = NoParent THEN roots'[nodes'[m].tenant]
                        ELSE children'[nodes'[m].parent], m)
    <3>1. /\ m \in Nodes
          /\ \A u \in Nodes, x \in Nodes : Contains(children'[u], x) <=> x \in ToSet(children'[u])
          /\ \A s \in Tenants, x \in Nodes : Contains(roots'[s], x) <=> x \in ToSet(roots'[s])
      <4>1. m \in Nodes
        BY <1>1, <1>2
      <4>2. ASSUME NEW q \in Seq(Nodes), NEW x \in Nodes PROVE Contains(q, x) <=> x \in ToSet(q)
        BY WithIs
      <4>. QED BY <1>5, <4>1, <4>2
    <3>2. CASE m = n
      <4>1. nodes'[m].parent = p /\ nodes'[m].tenant = t
        BY <1>1, <3>2
      <4>2. CASE p = NoParent
        BY <1>7, <3>1, <3>2, <4>1, <4>2
      <4>3. CASE p # NoParent
        <5>1. p \in Nodes
          BY <4>3 DEF Parents
        <5>. QED BY <1>7, <3>1, <3>2, <4>1, <4>3, <5>1
      <4>. QED BY <4>2, <4>3
    <3>3. CASE m # n
      <4>1. m \in DOMAIN nodes /\ nodes'[m] = nodes[m]
        BY <1>1, <3>3
      <4>2. Contains(IF nodes[m].parent = NoParent THEN roots[nodes[m].tenant]
                     ELSE children[nodes[m].parent], m)
        BY <4>1 DEF TreeInv, LinkedOnce
      <4>3. nodes[m].tenant \in Tenants /\ nodes[m].parent \in Parents
        BY <1>2, <4>1
      <4>4. CASE nodes[m].parent = NoParent
        <5>1. Contains(roots[nodes[m].tenant], m) /\ roots[nodes[m].tenant] \in Seq(Nodes)
          BY <1>2, <4>2, <4>3, <4>4
        <5>2. m \in ToSet(roots[nodes[m].tenant])
          BY <3>1, <5>1, WithIs
        <5>. QED BY <1>7, <3>1, <4>1, <4>3, <4>4, <5>2
      <4>5. CASE nodes[m].parent # NoParent
        <5>1. nodes[m].parent \in Nodes
          BY <4>3, <4>5 DEF Parents
        <5>2. Contains(children[nodes[m].parent], m) /\ children[nodes[m].parent] \in Seq(Nodes)
          BY <1>2, <4>2, <4>5, <5>1
        <5>3. m \in ToSet(children[nodes[m].parent])
          BY <3>1, <5>2, WithIs
        <5>. QED BY <1>7, <3>1, <4>1, <4>5, <5>1, <5>3
      <4>. QED BY <4>4, <4>5
    <3>. QED BY <3>2, <3>3
  <2>. QED BY <2>1, <2>2, <2>3 DEF LinkedOnce
<1>9. ASSUME ~unruly' PROVE InOwnLists' /\ \E r \in [Nodes -> Nat] : Depths(r)'
  <2>1. /\ ~unruly
        /\ n \in DOMAIN nodes => nodes[n] = own
        /\ p # NoParent => p \in DOMAIN nodes /\ nodes[p].tenant = t
    BY <1>9, <1>2 DEF AddNode
  <2>2. InOwnLists
    BY <2>1 DEF TreeInv
  <2>3. \A m \in DOMAIN nodes : nodes'[m] = nodes[m]
    BY <1>1, <2>1
  <2>4. own.tenant = t /\ own.parent = p
    OBVIOUS
  <2>. HIDE DEF own
  <2>5. ASSUME NEW m \in Nodes, NEW x \in Nodes
        PROVE  x \in ToSet(children'[m]) <=> x \in DOMAIN nodes' /\ nodes'[x].parent = m
    <3>1. x \in ToSet(children[m]) <=> x \in DOMAIN nodes /\ nodes[x].parent = m
      BY <2>2 DEF InOwnLists
    <3>2. CASE x = n
      BY <1>1, <1>7, <2>1, <2>4, <3>1, <3>2
    <3>3. CASE x # n
      BY <1>1, <1>7, <3>1, <3>3
    <3>. QED BY <3>2, <3>3
  <2>6. ASSUME NEW s \in Tenants, NEW x \in Nodes
        PROVE  x \in ToSet(roots'[s]) <=>
                 x \in DOMAIN nodes' /\ nodes'[x].parent = NoParent /\ nodes'[x].tenant = s
    <3>1. x \in ToSet(roots[s]) <=>
            x \in DOMAIN nodes /\ nodes[x].parent = NoParent /\ nodes[x].tenant = s
      BY <2>2 DEF InOwnLists
    <3>2. CASE x = n
      BY <1>1, <1>7, <2>1, <2>4, <3>1, <3>2
    <3>3. CASE x # n
      BY <1>1, <1>7, <3>1, <3>3
    <3>. QED BY <3>2, <3>3
  <2>7. PICK r \in [Nodes -> Nat] : Depths(r)
    BY <2>1 DEF TreeInv
  <2>8. /\ IsFiniteSet(DOMAIN nodes) /\ Cardinality(DOMAIN nodes) \in Nat
        /\ Cardinality(DOMAIN nodes') = IF n \in DOMAIN nodes THEN Cardinality(DOMAIN nodes)
                                        ELSE Cardinality(DOMAIN nodes) + 1
    <3>1. IsFiniteSet(DOMAIN nodes)
      BY <1>2, TreeAssumption, FS_Subset
    <3>2. Cardinality(DOMAIN nodes \cup {n}) = IF n \in DOMAIN nodes THEN Cardinality(DOMAIN nodes)
                                               ELSE Cardinality(DOMAIN nodes) + 1
      BY <3>1, FS_AddElement
    <3>. QED BY <1>1, <3>1, <3>2, FS_CardinalityType
  <2>. DEFINE q == IF n \in DOMAIN nodes THEN r
                   ELSE [r EXCEPT ![n] = IF p = NoParent THEN 1 ELSE r[p] + 1]
  <2>9. PICK w \in [Nodes -> Nat] : w = q
    <3>1. p # NoParent => r[p] \in Nat
      BY <1>2, <2>1, <2>7
    <3>2. q \in [Nodes -> Nat]
      BY <2>7, <3>1
    <3>. QED BY <3>2
  <2>10. Depths(w)'
    <3>1. ASSUME NEW m \in DOMAIN nodes
          PROVE  /\ w[m] = r[m] /\ r[m] \in 1..Cardinality(DOMAIN nodes')
                 /\ IF nodes'[m].parent = NoParent THEN w[m] = 1
                    ELSE /\ nodes'[m].parent \in DOMAIN nodes'
                         /\ nodes'[nodes'[m].parent].tenant = nodes'[m].tenant
                         /\ w[m] = w[nodes'[m].parent] + 1
      <4>1. \A x \in DOMAIN nodes : w[x] = r[x]
        BY <1>2, <2>7, <2>9
      <4>2. r[m] \in 1..Cardinality(DOMAIN nodes) /\ nodes'[m] = nodes[m]
        BY <2>3, <2>7 DEF Depths
      <4>3. r[m] \in 1..Cardinality(DOMAIN nodes')
        BY <2>8, <4>2
      <4>4. IF nodes[m].parent = NoParent THEN r[m] = 1
            ELSE /\ nodes[m].parent \in DOMAIN nodes
                 /\ nodes[nodes[m].parent].tenant = nodes[m].tenant
                 /\ r[m] = r[nodes[m].parent] + 1
        BY <2>7 DEF Depths
      <4>. HIDE DEF q
      <4>. QED BY <1>1, <2>3, <4>1, <4>2, <4>3, <4>4
    <3>2. ASSUME n \notin DOMAIN nodes
          PROVE  /\ w[n] \in 1..Cardinality(DOMAIN nodes')
                 /\ IF nodes'[n].parent = NoParent THEN w[n] = 1
                    ELSE /\ nodes'[n].parent \in DOMAIN nodes'
                         /\ nodes'[nodes'[n].parent].tenant = nodes'[n].tenant
                         /\ w[n] = w[nodes'[n].parent] + 1
      <4>1. nodes'[n].parent = p /\ nodes'[n].tenant = t
        BY <1>1, <2>4
      <4>2. w[n] = IF p = NoParent THEN 1 ELSE r[p] + 1
        BY <2>7, <2>9, <3>2
      <4>3. CASE p = NoParent
        <5>1. w[n] = 1 /\ 1 \in 1..Cardinality(DOMAIN nodes')
          BY <2>8, <3>2, <4>2, <4>3
        <5>. HIDE DEF q
        <5>. QED BY <4>1, <4>3, <5>1
      <4>4. CASE p # NoParent
        <5>1. p \in DOMAIN nodes /\ nodes[p].tenant = t /\ r[p] \in 1..Cardinality(DOMAIN nodes)
          BY <2>1, <2>7, <4>4 DEF Depths
        <5>2. w[p] = r[p] /\ nodes'[p] = nodes[p]
          BY <2>3, <3>1, <5>1
        <5>3. w[n] = r[p] + 1 /\ w[n] \in 1..Cardinality(DOMAIN nodes')
          BY <2>8, <3>2, <4>2, <4>4, <5>1
        <5>. HIDE DEF q
        <5>. QED BY <1>1, <4>1, <4>4, <5>1, <5>2, <5>3
      <4>. QED BY <4>3, <4>4
    <3>3. \A m \in DOMAIN nodes' : m = n \/ m \in DOMAIN nodes
      BY <1>1
    <3>. HIDE DEF q
    <3>. QED BY <3>1, <3>2, <3>3 DEF Depths
  <2>. HIDE DEF q
  <2>. QED BY <2>5, <2>6, <2>9, <2>10 DEF InOwnLists
<1>. QED BY <1>6, <1>8, <1>9 DEF TreeInv

LEMMA TreeMoves == TreeInv /\ [RagTreeNext]_rvars => TreeInv'
<1>1. TreeInv /\ UNCHANGED rvars => TreeInv'
  BY DEF rvars, TreeInv, TreeTyped, LinkedOnce, InOwnLists, Depths
<1>. QED BY <1>1, AddKeepsLinks DEF RagTreeNext, Parents

-----------------------------------------------------------------------------
(* RagTree: reading *)

LEMMA ListsWithin ==
  ASSUME TreeTyped
  PROVE  /\ \A n \in Nodes : ChildrenOf(n) \subseteq DOMAIN nodes
         /\ \A t \in Tenants : RootsFor(t) \subseteq DOMAIN nodes
BY DEF ChildrenOf, RootsFor, Present

\* A way up, from the next shorter one.
LEMMA UpwardIs ==
  ASSUME TreeTyped
  PROVE  \A k \in Nat, m \in Parents :
           /\ Upward[k][m] \in Seq(Nodes) /\ Upward[0][m] = <<>>
           /\ m \notin DOMAIN nodes => Upward[k][m] = <<>>
           /\ Upward[k + 1][m] = IF m \notin DOMAIN nodes THEN <<>>
                                 ELSE Append(Upward[k][nodes[m].parent], m)
<1>. DEFINE D == [Parents -> Seq(Nodes)]
            base == [m \in Parents |-> <<>>]
            half == [k \in Nat \ {0} |-> k - 1]
            next(d) == [m \in Parents |-> IF m \notin DOMAIN nodes THEN <<>>
                                          ELSE Append(d[nodes[m].parent], m)]
            step == [k \in Nat \ {0} |-> [d \in D |-> next(d)]]
            Is(f) == f = [k \in Nat |->
                            [m \in Parents |-> IF m \notin DOMAIN nodes \/ k = 0 THEN <<>>
                                               ELSE Append(f[k - 1][nodes[m].parent], m)]]
<1>1. DOMAIN nodes \subseteq Nodes /\ \A m \in DOMAIN nodes : nodes[m].parent \in Parents
  BY DEF TreeTyped
<1>2. Descent(D, base, half, step)
  <2>1. half \in [Nat \ {0} -> Nat] /\ \A k \in Nat \ {0} : half[k] < k
    OBVIOUS
  <2>2. ASSUME NEW d \in D PROVE next(d) \in D
    <3>1. ASSUME NEW m \in Parents
          PROVE  (IF m \notin DOMAIN nodes THEN <<>> ELSE Append(d[nodes[m].parent], m)) \in Seq(Nodes)
      BY <1>1
    <3>. QED BY <3>1
  <2>3. base \in D
    <3>1. <<>> \in Seq(Nodes)
      OBVIOUS
    <3>. QED BY <3>1
  <2>. HIDE DEF next, D, base
  <2>4. step \in [Nat \ {0} -> [D -> D]]
    BY <2>2
  <2>. HIDE DEF half, step
  <2>. QED BY <2>1, <2>3, <2>4 DEF Descent
<1>3. PICK f : Descended(D, base, half, step, f)
  <2>. HIDE DEF half, step, base, D
  <2>. QED BY <1>2, Descends
<1>4. f \in [Nat -> D] /\ f[0] = base /\ \A k \in Nat \ {0} : f[k] = next(f[k - 1])
  <2>1. /\ f \in [Nat -> D] /\ f[0] = base
        /\ \A k \in Nat \ {0} : f[k] = step[k][f[half[k]]]
    BY <1>3 DEF Descended
  <2>2. ASSUME NEW k \in Nat \ {0} PROVE f[k] = next(f[k - 1])
    <3>1. k - 1 \in Nat /\ half[k] = k - 1
      OBVIOUS
    <3>2. f[k - 1] \in D
      BY <2>1, <3>1
    <3>. HIDE DEF D, next
    <3>. QED BY <2>1, <3>1, <3>2
  <2>. QED BY <2>1, <2>2
<1>5. Is(f)
  <2>1. ASSUME NEW k \in Nat
        PROVE  f[k] = [m \in Parents |-> IF m \notin DOMAIN nodes \/ k = 0 THEN <<>>
                                         ELSE Append(f[k - 1][nodes[m].parent], m)]
    <3>1. CASE k = 0
      BY <1>4, <3>1
    <3>2. CASE k # 0
      BY <1>4, <3>2
    <3>. QED BY <3>1, <3>2
  <2>. QED BY <1>4, <2>1
<1>6. Is(Upward)
  <2>. HIDE DEF base, half, step, D
  <2>. QED BY <1>5 DEF Upward, Parents
<1>. DEFINE X == Upward
            row(k) == [m \in Parents |-> IF m \notin DOMAIN nodes \/ k = 0 THEN <<>>
                                         ELSE Append(X[k - 1][nodes[m].parent], m)]
<1>7. X = [k \in Nat |-> row(k)]
  BY <1>6
<1>. HIDE DEF X
<1>8. \A k \in Nat, m \in Parents :
        X[k][m] = IF m \notin DOMAIN nodes \/ k = 0 THEN <<>>
                  ELSE Append(X[k - 1][nodes[m].parent], m)
  <2>1. \A k \in Nat, m \in Parents :
          row(k)[m] = IF m \notin DOMAIN nodes \/ k = 0 THEN <<>>
                      ELSE Append(X[k - 1][nodes[m].parent], m)
    OBVIOUS
  <2>. HIDE DEF row
  <2>. QED BY <1>7, <2>1
<1>. HIDE DEF row
<1>10. ASSUME NEW k \in Nat, NEW m \in Parents
       PROVE  /\ X[0][m] = <<>>
              /\ X[k + 1][m] = IF m \notin DOMAIN nodes THEN <<>> ELSE Append(X[k][nodes[m].parent], m)
  <2>. DEFINE j == k + 1
  <2>1. j \in Nat /\ j # 0 /\ j - 1 = k
    OBVIOUS
  <2>. HIDE DEF j
  <2>2. X[j][m] = IF m \notin DOMAIN nodes \/ j = 0 THEN <<>>
                  ELSE Append(X[j - 1][nodes[m].parent], m)
    BY <1>8, <2>1
  <2>3. X[j][m] = IF m \notin DOMAIN nodes THEN <<>> ELSE Append(X[k][nodes[m].parent], m)
    BY <2>1, <2>2
  <2>. QED BY <1>8, <2>3 DEF j
<1>9. ASSUME NEW n \in Nat PROVE \A m \in Parents : X[n][m] \in Seq(Nodes)
  <2>. DEFINE S == {k \in Nat : \A m \in Parents : X[k][m] \in Seq(Nodes)}
  <2>1. 0 \in S
    <3>1. <<>> \in Seq(Nodes)
      OBVIOUS
    <3>2. \A m \in Parents : X[0][m] = <<>>
      BY <1>10
    <3>. QED BY <3>1, <3>2
  <2>2. \A k \in 0..(n - 1) : k \in S => k + 1 \in S
    <3>. SUFFICES ASSUME NEW k \in 0..(n - 1), k \in S, NEW m \in Parents
                  PROVE  X[k + 1][m] \in Seq(Nodes)
      OBVIOUS
    <3>2. CASE m \in DOMAIN nodes
      <4>1. X[k][nodes[m].parent] \in Seq(Nodes) /\ m \in Nodes
        BY <1>1, <3>2
      <4>2. Append(X[k][nodes[m].parent], m) \in Seq(Nodes)
        BY <4>1
      <4>3. X[k + 1][m] = Append(X[k][nodes[m].parent], m)
        BY <1>10, <3>2
      <4>. QED BY <4>2, <4>3
    <3>3. CASE m \notin DOMAIN nodes
      <4>1. <<>> \in Seq(Nodes)
        OBVIOUS
      <4>. QED BY <1>10, <3>3, <4>1
    <3>. QED BY <3>2, <3>3
  <2>. HIDE DEF S
  <2>3. n \in S
    BY <2>1, <2>2, Reaches
  <2>. QED BY <2>3 DEF S
<1>11. \A k \in Nat, m \in Parents : m \notin DOMAIN nodes => X[k][m] = <<>>
  BY <1>8
<1>. QED BY <1>9, <1>10, <1>11 DEF X

\* Of a frontier, the leaves that are kept and what is below those kept.
KeptLeaves(F, width) == {n \in Best(F, width) : IsLeaf(n)}
Beneath(F, width) == Below(Best(F, width))

\* The leaves met, from those met further down.
Descending(width, k, F) ==
  /\ Downward(width)[k][F] \in SUBSET Nodes
  /\ Downward(width)[0][F] = {} /\ Downward(width)[k][{}] = {}
  /\ Downward(width)[k + 1][F] =
       IF F = {} THEN {} ELSE KeptLeaves(F, width) \cup Downward(width)[k][Beneath(F, width)]

LEMMA DownwardIs ==
  ASSUME TreeTyped, NEW width \in Nat \ {0}
  PROVE  \A k \in Nat, F \in SUBSET Nodes : Descending(width, k, F)
<1>. DEFINE leaves(F) == KeptLeaves(F, width)
            below(F) == Beneath(F, width)
            D == [SUBSET Nodes -> SUBSET Nodes]
            base == [F \in SUBSET Nodes |-> {}]
            half == [k \in Nat \ {0} |-> k - 1]
            next(d) == [F \in SUBSET Nodes |-> IF F = {} THEN {} ELSE leaves(F) \cup d[below(F)]]
            step == [k \in Nat \ {0} |-> [d \in D |-> next(d)]]
            Is(f) == f = [k \in Nat |->
                            [F \in SUBSET Nodes |->
                               IF F = {} \/ k = 0 THEN {} ELSE leaves(F) \cup f[k - 1][below(F)]]]
<1>1. \A F \in SUBSET Nodes : leaves(F) \in SUBSET Nodes /\ below(F) \in SUBSET Nodes
  <2>. SUFFICES ASSUME NEW F \in SUBSET Nodes
                PROVE  leaves(F) \in SUBSET Nodes /\ below(F) \in SUBSET Nodes
    OBVIOUS
  <2>1. Best(F, width) \subseteq Nodes
    BY BestIs
  <2>2. \A n \in Nodes : ChildrenOf(n) \subseteq Nodes
    BY ListsWithin DEF TreeTyped
  <2>. QED BY <2>1, <2>2 DEF Below, KeptLeaves, Beneath
<1>2. Descent(D, base, half, step)
  <2>1. half \in [Nat \ {0} -> Nat] /\ \A k \in Nat \ {0} : half[k] < k
    OBVIOUS
  <2>2. ASSUME NEW d \in D PROVE next(d) \in D
    <3>. HIDE DEF leaves, below
    <3>1. ASSUME NEW F \in SUBSET Nodes
          PROVE  (IF F = {} THEN {} ELSE leaves(F) \cup d[below(F)]) \in SUBSET Nodes
      <4>1. d[below(F)] \in SUBSET Nodes
        BY <1>1
      <4>. QED BY <1>1, <4>1
    <3>. QED BY <3>1
  <2>3. base \in D
    OBVIOUS
  <2>. HIDE DEF next, D, base
  <2>4. step \in [Nat \ {0} -> [D -> D]]
    BY <2>2
  <2>. HIDE DEF half, step
  <2>. QED BY <2>1, <2>3, <2>4 DEF Descent
<1>3. PICK f : Descended(D, base, half, step, f)
  <2>. HIDE DEF half, step, base, D
  <2>. QED BY <1>2, Descends
<1>4. f \in [Nat -> D] /\ f[0] = base /\ \A k \in Nat \ {0} : f[k] = next(f[k - 1])
  <2>1. /\ f \in [Nat -> D] /\ f[0] = base
        /\ \A k \in Nat \ {0} : f[k] = step[k][f[half[k]]]
    BY <1>3 DEF Descended
  <2>2. ASSUME NEW k \in Nat \ {0} PROVE f[k] = next(f[k - 1])
    <3>1. k - 1 \in Nat /\ half[k] = k - 1
      OBVIOUS
    <3>2. f[k - 1] \in D
      BY <2>1, <3>1
    <3>. HIDE DEF D, next
    <3>. QED BY <2>1, <3>1, <3>2
  <2>. QED BY <2>1, <2>2
<1>5. Is(f)
  <2>. HIDE DEF leaves, below
  <2>1. ASSUME NEW k \in Nat
        PROVE  f[k] = [F \in SUBSET Nodes |->
                         IF F = {} \/ k = 0 THEN {} ELSE leaves(F) \cup f[k - 1][below(F)]]
    <3>1. CASE k = 0
      BY <1>4, <3>1
    <3>2. CASE k # 0
      BY <1>4, <3>2
    <3>. QED BY <3>1, <3>2
  <2>. QED BY <1>4, <2>1
<1>. DEFINE X == Downward(width)
<1>6. Is(X)
  <2>1. X = CHOOSE g : Is(g)
    <3>. HIDE DEF base, half, step, D
    <3>. QED BY DEF Downward, KeptLeaves, Beneath
  <2>. HIDE DEF base, half, step, D, X, Is
  <2>. QED BY <1>5, <2>1
<1>. DEFINE row(k) == [F \in SUBSET Nodes |->
                         IF F = {} \/ k = 0 THEN {} ELSE leaves(F) \cup X[k - 1][below(F)]]
<1>. HIDE DEF X, leaves, below
<1>7. X = [k \in Nat |-> row(k)]
  BY <1>6
<1>8. \A k \in Nat, F \in SUBSET Nodes :
        X[k][F] = IF F = {} \/ k = 0 THEN {} ELSE leaves(F) \cup X[k - 1][below(F)]
  <2>1. \A k \in Nat, F \in SUBSET Nodes :
          row(k)[F] = IF F = {} \/ k = 0 THEN {} ELSE leaves(F) \cup X[k - 1][below(F)]
    OBVIOUS
  <2>. HIDE DEF row
  <2>. QED BY <1>7, <2>1
<1>. HIDE DEF row
<1>10. ASSUME NEW k \in Nat, NEW F \in SUBSET Nodes
       PROVE  /\ X[0][F] = {}
              /\ X[k + 1][F] = IF F = {} THEN {} ELSE leaves(F) \cup X[k][below(F)]
  <2>. DEFINE j == k + 1
  <2>1. j \in Nat /\ j # 0 /\ j - 1 = k
    OBVIOUS
  <2>. HIDE DEF j
  <2>2. X[j][F] = IF F = {} \/ j = 0 THEN {} ELSE leaves(F) \cup X[j - 1][below(F)]
    BY <1>8, <2>1
  <2>3. X[j][F] = IF F = {} THEN {} ELSE leaves(F) \cup X[k][below(F)]
    BY <2>1, <2>2
  <2>. QED BY <1>8, <2>3 DEF j
<1>9. ASSUME NEW n \in Nat PROVE \A F \in SUBSET Nodes : X[n][F] \in SUBSET Nodes
  <2>. DEFINE S == {k \in Nat : \A F \in SUBSET Nodes : X[k][F] \in SUBSET Nodes}
  <2>1. 0 \in S
    BY <1>10
  <2>2. \A k \in 0..(n - 1) : k \in S => k + 1 \in S
    <3>. SUFFICES ASSUME NEW k \in 0..(n - 1), k \in S, NEW F \in SUBSET Nodes
                  PROVE  X[k + 1][F] \in SUBSET Nodes
      OBVIOUS
    <3>2. X[k][below(F)] \in SUBSET Nodes /\ leaves(F) \in SUBSET Nodes
      BY <1>1
    <3>3. X[k + 1][F] = IF F = {} THEN {} ELSE leaves(F) \cup X[k][below(F)]
      BY <1>10
    <3>. QED BY <3>2, <3>3
  <2>. HIDE DEF S
  <2>3. n \in S
    BY <2>1, <2>2, Reaches
  <2>. QED BY <2>3 DEF S
<1>11. \A k \in Nat : X[k][{}] = {}
  BY <1>8
<1>. QED BY <1>9, <1>10, <1>11 DEF X, leaves, below, Descending

-----------------------------------------------------------------------------
(* RagTree: paths and navigation *)

\* Nodes that were added in order and stayed, with their depths.
Ordered(r) == TreeTyped /\ InOwnLists /\ r \in [Nodes -> Nat] /\ Depths(r)

LEMMA OrderedIs ==
  ASSUME NEW r, Ordered(r)
  PROVE  /\ DOMAIN nodes \subseteq Nodes /\ Cardinality(Nodes) \in Nat
         /\ \A n \in DOMAIN nodes :
              /\ r[n] \in 1..Cardinality(Nodes)
              /\ nodes[n].tenant \in Tenants /\ nodes[n].parent \in Parents
              /\ nodes[n].parent = NoParent => r[n] = 1
              /\ nodes[n].parent # NoParent =>
                   /\ nodes[n].parent \in DOMAIN nodes
                   /\ nodes[nodes[n].parent].tenant = nodes[n].tenant
                   /\ r[n] = r[nodes[n].parent] + 1
         /\ \A n \in Nodes : ChildrenOf(n) = {m \in DOMAIN nodes : nodes[m].parent = n}
         /\ \A t \in Tenants :
              RootsFor(t) = {m \in DOMAIN nodes : nodes[m].parent = NoParent /\ nodes[m].tenant = t}
<1>1. DOMAIN nodes \subseteq Nodes
  BY DEF Ordered, TreeTyped
<1>2. /\ Cardinality(Nodes) \in Nat /\ Cardinality(DOMAIN nodes) \in Nat
      /\ Cardinality(DOMAIN nodes) <= Cardinality(Nodes)
  <2>1. IsFiniteSet(Nodes)
    BY TreeAssumption
  <2>2. IsFiniteSet(DOMAIN nodes) /\ Cardinality(DOMAIN nodes) <= Cardinality(Nodes)
    BY <1>1, <2>1, FS_Subset
  <2>. QED BY <2>1, <2>2, FS_CardinalityType
<1>3. ASSUME NEW n \in DOMAIN nodes
      PROVE  /\ r[n] \in 1..Cardinality(Nodes)
             /\ nodes[n].tenant \in Tenants /\ nodes[n].parent \in Parents
             /\ nodes[n].parent = NoParent => r[n] = 1
             /\ nodes[n].parent # NoParent =>
                  /\ nodes[n].parent \in DOMAIN nodes
                  /\ nodes[nodes[n].parent].tenant = nodes[n].tenant
                  /\ r[n] = r[nodes[n].parent] + 1
  <2>1. r[n] \in 1..Cardinality(DOMAIN nodes)
    BY DEF Ordered, Depths
  <2>2. r[n] \in 1..Cardinality(Nodes)
    BY <1>2, <2>1
  <2>. QED BY <2>2 DEF Ordered, Depths, TreeTyped
<1>4. \A n \in Nodes : ChildrenOf(n) = {m \in DOMAIN nodes : nodes[m].parent = n}
  <2>. SUFFICES ASSUME NEW n \in Nodes
                PROVE  ChildrenOf(n) = {m \in DOMAIN nodes : nodes[m].parent = n}
    OBVIOUS
  <2>1. \A m \in Nodes : m \in ToSet(children[n]) <=> m \in DOMAIN nodes /\ nodes[m].parent = n
    BY DEF Ordered, InOwnLists
  <2>. QED BY <1>1, <2>1 DEF ChildrenOf, Present
<1>5. ASSUME NEW t \in Tenants
      PROVE  RootsFor(t) = {m \in DOMAIN nodes : nodes[m].parent = NoParent /\ nodes[m].tenant = t}
  <2>1. \A m \in Nodes : m \in ToSet(roots[t]) <=>
          m \in DOMAIN nodes /\ nodes[m].parent = NoParent /\ nodes[m].tenant = t
    BY DEF Ordered, InOwnLists
  <2>. QED BY <1>1, <2>1 DEF RootsFor, Present
<1>. QED BY <1>1, <1>2, <1>3, <1>4, <1>5

\* What a path of n is.
IsPath(r, q, n) ==
  /\ q \in Seq(Nodes) /\ Len(q) = r[n] /\ q[1] \in RootsFor(nodes[n].tenant)
  /\ \A m \in ToSet(q) : nodes[m].tenant = nodes[n].tenant

LEMMA PathsAre ==
  ASSUME NEW r, Ordered(r), NEW c \in Nat
  PROVE  \A n \in DOMAIN nodes : r[n] <= c => IsPath(r, Upward[c][n], n)
<1>. DEFINE S == {k \in Nat : \A n \in DOMAIN nodes : r[n] <= k => IsPath(r, Upward[k][n], n)}
<1>0. NoParent \notin Nodes /\ DOMAIN nodes \subseteq Parents
  BY OrderedIs, TreeAssumption DEF Parents
<1>1. 0 \in S
  BY OrderedIs
<1>2. ASSUME NEW k \in 0..(c - 1), k \in S PROVE k + 1 \in S
  <2>. SUFFICES ASSUME NEW n \in DOMAIN nodes, r[n] <= k + 1
                PROVE  IsPath(r, Upward[k + 1][n], n)
    OBVIOUS
  <2>. DEFINE p == nodes[n].parent
              u == Upward[k][p]
  <2>1. k + 1 \in Nat /\ k + 1 # 0 /\ k + 1 - 1 = k /\ k \in Nat
    OBVIOUS
  <2>2. TreeTyped /\ n \in Nodes /\ p \in Parents /\ nodes[n].tenant \in Tenants
    BY OrderedIs DEF Ordered
  <2>3. Upward[k + 1][n] = Append(u, n) /\ u \in Seq(Nodes)
    BY <1>0, <2>1, <2>2, UpwardIs
  <2>4. CASE p = NoParent
    <3>1. u = <<>>
      BY <1>0, <2>1, <2>2, <2>4, OrderedIs, UpwardIs
    <3>2. Append(u, n) = <<n>> /\ r[n] = 1 /\ n \in RootsFor(nodes[n].tenant)
      BY <2>2, <2>4, <3>1, OrderedIs
    <3>3. ToSet(<<n>>) = {n} /\ <<n>> \in Seq(Nodes) /\ Len(<<n>>) = 1 /\ <<n>>[1] = n
      BY <2>2 DEF ToSet
    <3>. QED BY <2>3, <3>2, <3>3 DEF IsPath
  <2>5. CASE p # NoParent
    <3>1. p \in DOMAIN nodes /\ nodes[p].tenant = nodes[n].tenant /\ r[n] = r[p] + 1
      BY <2>5, OrderedIs
    <3>2. r[p] \in 1..Cardinality(Nodes) /\ r[p] <= k
      BY <2>1, <3>1, OrderedIs
    <3>3. IsPath(r, u, p)
      BY <1>2, <3>1, <3>2
    <3>4. /\ Append(u, n) \in Seq(Nodes) /\ Len(Append(u, n)) = Len(u) + 1
          /\ DOMAIN Append(u, n) = 1..(Len(u) + 1) /\ Append(u, n)[Len(u) + 1] = n
          /\ \A i \in 1..Len(u) : Append(u, n)[i] = u[i]
      BY <2>2, <2>3
    <3>. HIDE DEF u, p
    <3>5. u \in Seq(Nodes) /\ Len(u) = r[p] /\ u[1] \in RootsFor(nodes[p].tenant)
          /\ \A m \in ToSet(u) : nodes[m].tenant = nodes[p].tenant
      BY <3>3 DEF IsPath
    <3>6. 1 \in 1..Len(u) /\ Append(u, n)[1] = u[1]
      BY <3>2, <3>4, <3>5
    <3>7. ASSUME NEW m \in ToSet(Append(u, n)) PROVE nodes[m].tenant = nodes[n].tenant
      <4>1. PICK i \in 1..(Len(u) + 1) : m = Append(u, n)[i]
        BY <3>4 DEF ToSet
      <4>2. CASE i = Len(u) + 1
        BY <3>4, <4>1, <4>2
      <4>3. CASE i \in 1..Len(u)
        <5>1. m = u[i] /\ DOMAIN u = 1..Len(u)
          BY <3>4, <3>5, <4>1, <4>3
        <5>2. m \in ToSet(u)
          BY <4>3, <5>1 DEF ToSet
        <5>. QED BY <3>1, <3>5, <5>2
      <4>. QED BY <3>2, <3>5, <4>2, <4>3
    <3>. QED BY <2>3, <3>1, <3>4, <3>5, <3>6, <3>7 DEF IsPath
  <2>. QED BY <2>4, <2>5
<1>. HIDE DEF S
<1>3. c \in S
  BY <1>1, <1>2, Reaches
<1>. QED BY <1>3 DEF S

\* The nodes of a tenant at a depth.
AtDepth(r, t, d) == {n \in DOMAIN nodes : nodes[n].tenant = t /\ r[n] = d}

\* What is met on k levels from nodes of a tenant at a depth.
Meets(r, t, width, k) ==
  \A d \in Nat \ {0} : \A F \in SUBSET AtDepth(r, t, d) :
    LET met == Downward(width)[k][F]
    IN  /\ \A n \in met : n \in DOMAIN nodes /\ nodes[n].tenant = t /\ r[n] >= d /\ IsLeaf(n)
        /\ F # {} /\ k + d > Cardinality(Nodes) => met # {}
        /\ \A e \in Nat : Cardinality({n \in met : r[n] = e}) <= width
        /\ width >= Cardinality(Nodes) /\ F = AtDepth(r, t, d) /\ k + d > Cardinality(Nodes) =>
             \A n \in DOMAIN nodes : nodes[n].tenant = t /\ r[n] >= d /\ IsLeaf(n) => n \in met

\* What is kept of some of them, and what is below those.
LevelBelow(r, t, width, d, F) ==
  /\ F \in SUBSET Nodes /\ KeptLeaves(F, width) \subseteq F
  /\ IsFiniteSet(KeptLeaves(F, width)) /\ Cardinality(KeptLeaves(F, width)) <= width
  /\ \A n \in KeptLeaves(F, width) : IsLeaf(n)
  /\ Beneath(F, width) \subseteq AtDepth(r, t, d + 1)
  /\ F # {} /\ KeptLeaves(F, width) = {} => Beneath(F, width) # {}
  /\ width >= Cardinality(Nodes) /\ F = AtDepth(r, t, d) =>
       KeptLeaves(F, width) = {n \in F : IsLeaf(n)} /\ Beneath(F, width) = AtDepth(r, t, d + 1)

LEMMA LevelsBelow ==
  ASSUME NEW r, Ordered(r), NEW t, NEW width \in Nat \ {0}, NEW d \in Nat \ {0},
         NEW F, F \subseteq AtDepth(r, t, d)
  PROVE  LevelBelow(r, t, width, d, F)
<1>. DEFINE K == Best(F, width)
<1>1. F \in SUBSET Nodes
  BY OrderedIs DEF AtDepth
<1>2. K \subseteq F /\ (F # {} => K # {}) /\ (width >= Cardinality(F) => K = F)
  BY <1>1, BestIs
<1>. HIDE DEF K
<1>3. \A n \in K : ChildrenOf(n) = {m \in DOMAIN nodes : nodes[m].parent = n}
  BY <1>1, <1>2, OrderedIs
<1>4. Below(K) \subseteq AtDepth(r, t, d + 1)
  <2>. SUFFICES ASSUME NEW n \in K, NEW m \in ChildrenOf(n) PROVE m \in AtDepth(r, t, d + 1)
    BY DEF Below
  <2>1. m \in DOMAIN nodes /\ nodes[m].parent = n /\ n \in Nodes /\ n # NoParent
    BY <1>1, <1>2, <1>3, TreeAssumption
  <2>2. n \in DOMAIN nodes /\ nodes[n].tenant = t /\ r[n] = d
    BY <1>2 DEF AtDepth
  <2>3. nodes[m].tenant = t /\ r[m] = d + 1
    BY <2>1, <2>2, OrderedIs
  <2>. QED BY <2>1, <2>3 DEF AtDepth
<1>5. ASSUME F # {}, \A n \in K : ~IsLeaf(n) PROVE Below(K) # {}
  BY <1>2, <1>5 DEF IsLeaf, Below
<1>6. ASSUME width >= Cardinality(Nodes), F = AtDepth(r, t, d)
      PROVE  K = F /\ Below(K) = AtDepth(r, t, d + 1)
  <2>1. Cardinality(F) <= Cardinality(Nodes) /\ Cardinality(F) \in Nat /\ Cardinality(Nodes) \in Nat
    <3>1. IsFiniteSet(F) /\ Cardinality(F) <= Cardinality(Nodes)
      BY <1>1, TreeAssumption, FS_Subset
    <3>. QED BY <3>1, OrderedIs, FS_CardinalityType
  <2>2. K = F
    BY <1>2, <1>6, <2>1
  <2>3. ASSUME NEW m \in AtDepth(r, t, d + 1) PROVE m \in Below(K)
    <3>1. m \in DOMAIN nodes /\ nodes[m].tenant = t /\ r[m] = d + 1
      BY DEF AtDepth
    <3>. DEFINE p == nodes[m].parent
    <3>2. p # NoParent
      BY <3>1, OrderedIs
    <3>3. p \in DOMAIN nodes /\ nodes[p].tenant = t /\ r[m] = r[p] + 1
      BY <3>1, <3>2, OrderedIs
    <3>4. r[p] = d
      <4>1. r[p] \in 1..Cardinality(Nodes)
        BY <3>3, OrderedIs
      <4>. QED BY <3>1, <3>3, <4>1
    <3>5. p \in K
      BY <1>6, <2>2, <3>3, <3>4 DEF AtDepth
    <3>6. m \in ChildrenOf(p)
      BY <1>3, <3>1, <3>5
    <3>. QED BY <3>5, <3>6 DEF Below
  <2>. QED BY <1>4, <2>2, <2>3
<1>7. IsFiniteSet(KeptLeaves(F, width)) /\ Cardinality(KeptLeaves(F, width)) <= width
  <2>1. KeptLeaves(F, width) \subseteq K
    BY DEF KeptLeaves, K
  <2>2. IsFiniteSet(K) /\ Cardinality(K) <= width
    BY <1>1, BestIs DEF K
  <2>3. /\ IsFiniteSet(KeptLeaves(F, width))
        /\ Cardinality(KeptLeaves(F, width)) <= Cardinality(K)
    BY <2>1, <2>2, FS_Subset
  <2>4. Cardinality(KeptLeaves(F, width)) \in Nat /\ Cardinality(K) \in Nat
    BY <2>2, <2>3, FS_CardinalityType
  <2>. QED BY <2>2, <2>3, <2>4
<1>8. Beneath(F, width) = Below(K) /\ KeptLeaves(F, width) = {n \in K : IsLeaf(n)}
  BY DEF K, Beneath, KeptLeaves
<1>9. /\ F # {} /\ KeptLeaves(F, width) = {} => Beneath(F, width) # {}
      /\ KeptLeaves(F, width) \subseteq F /\ \A n \in KeptLeaves(F, width) : IsLeaf(n)
  BY <1>2, <1>5, <1>8
<1>10. width >= Cardinality(Nodes) /\ F = AtDepth(r, t, d) =>
         KeptLeaves(F, width) = {n \in F : IsLeaf(n)} /\ Beneath(F, width) = AtDepth(r, t, d + 1)
  BY <1>6, <1>8
<1>. QED BY <1>1, <1>4, <1>7, <1>8, <1>9, <1>10 DEF LevelBelow

LEMMA MeetsAll ==
  ASSUME NEW r, Ordered(r), NEW t, NEW width \in Nat \ {0}, NEW c \in Nat
  PROVE  Meets(r, t, width, c)
<1>. DEFINE S == {k \in Nat : Meets(r, t, width, k)}
            C == Cardinality(Nodes)
<1>1. TreeTyped /\ C \in Nat /\ \A n \in DOMAIN nodes : r[n] \in 1..C
  BY OrderedIs DEF Ordered
<1>. HIDE DEF C
<1>2. 0 \in S
  <2>. SUFFICES ASSUME NEW d \in Nat \ {0}, NEW F \in SUBSET AtDepth(r, t, d)
                PROVE  /\ Downward(width)[0][F] = {}
                       /\ F # {} => ~(0 + d > C)
                       /\ 0 + d > C => \A n \in DOMAIN nodes : ~(r[n] >= d)
                       /\ \A e \in Nat : Cardinality({n \in {} : r[n] = e}) <= width
    BY DEF Meets, C
  <2>1. F \in SUBSET Nodes
    BY OrderedIs DEF AtDepth
  <2>2. Downward(width)[0][F] = {}
    <3>1. Descending(width, 0, F)
      BY <1>1, <2>1, DownwardIs
    <3>. QED BY <3>1 DEF Descending
  <2>3. F # {} => ~(0 + d > C)
    BY <1>1 DEF AtDepth
  <2>4. 0 + d > C => \A n \in DOMAIN nodes : ~(r[n] >= d)
    BY <1>1
  <2>5. ASSUME NEW e \in Nat PROVE Cardinality({n \in {} : r[n] = e}) <= width
    <3>1. {n \in {} : r[n] = e} = {}
      OBVIOUS
    <3>. QED BY <3>1, FS_EmptySet
  <2>. QED BY <2>2, <2>3, <2>4, <2>5
<1>3. ASSUME NEW k \in 0..(c - 1), k \in S PROVE k + 1 \in S
  <2>. SUFFICES ASSUME NEW d \in Nat \ {0}, NEW F \in SUBSET AtDepth(r, t, d)
                PROVE  /\ \A n \in Downward(width)[k + 1][F] :
                            n \in DOMAIN nodes /\ nodes[n].tenant = t /\ r[n] >= d /\ IsLeaf(n)
                       /\ F # {} /\ k + 1 + d > C => Downward(width)[k + 1][F] # {}
                       /\ \A e \in Nat : Cardinality({n \in Downward(width)[k + 1][F] : r[n] = e}) <= width
                       /\ width >= C /\ F = AtDepth(r, t, d) /\ k + 1 + d > C =>
                            \A n \in DOMAIN nodes :
                              nodes[n].tenant = t /\ r[n] >= d /\ IsLeaf(n) => n \in Downward(width)[k + 1][F]
    BY DEF Meets, C
  <2>. DEFINE B == Beneath(F, width)
              leaves == KeptLeaves(F, width)
              lower == Downward(width)[k][B]
              met == Downward(width)[k + 1][F]
  <2>1. k + 1 \in Nat /\ k + 1 # 0 /\ k + 1 - 1 = k /\ k \in Nat /\ d + 1 \in Nat \ {0}
    OBVIOUS
  <2>2. /\ F \in SUBSET Nodes /\ leaves \subseteq F /\ B \subseteq AtDepth(r, t, d + 1)
        /\ IsFiniteSet(leaves) /\ Cardinality(leaves) <= width /\ \A n \in leaves : IsLeaf(n)
        /\ F # {} /\ leaves = {} => B # {}
        /\ width >= C /\ F = AtDepth(r, t, d) =>
             leaves = {n \in F : IsLeaf(n)} /\ B = AtDepth(r, t, d + 1)
    <3>1. F \subseteq AtDepth(r, t, d)
      OBVIOUS
    <3>2. LevelBelow(r, t, width, d, F)
      BY <3>1, LevelsBelow
    <3>. QED BY <3>2 DEF C, LevelBelow
  <2>3. \A n \in F : n \in DOMAIN nodes /\ nodes[n].tenant = t /\ r[n] = d
    BY DEF AtDepth
  <2>4. met = IF F = {} THEN {} ELSE leaves \cup lower
    <3>1. Descending(width, k, F)
      BY <1>1, <2>1, <2>2, DownwardIs
    <3>. QED BY <3>1 DEF Descending
  <2>5. F = {} => met = {}
    BY <2>4
  <2>. HIDE DEF B
  <2>6. /\ \A n \in lower : n \in DOMAIN nodes /\ nodes[n].tenant = t /\ r[n] >= d + 1 /\ IsLeaf(n)
        /\ B # {} /\ k + (d + 1) > C => lower # {}
        /\ \A e \in Nat : Cardinality({n \in lower : r[n] = e}) <= width
        /\ width >= C /\ B = AtDepth(r, t, d + 1) /\ k + (d + 1) > C =>
             \A n \in DOMAIN nodes : nodes[n].tenant = t /\ r[n] >= d + 1 /\ IsLeaf(n) => n \in lower
    BY <1>3, <2>1, <2>2 DEF Meets, C
  <2>. HIDE DEF lower, met, leaves
  <2>7. ASSUME NEW n \in met
        PROVE  n \in DOMAIN nodes /\ nodes[n].tenant = t /\ r[n] >= d /\ IsLeaf(n)
    <3>1. n \in leaves \/ n \in lower
      BY <2>4
    <3>2. CASE n \in leaves
      BY <2>2, <2>3, <3>2
    <3>3. CASE n \in lower
      <4>1. n \in DOMAIN nodes /\ nodes[n].tenant = t /\ r[n] >= d + 1 /\ IsLeaf(n)
        BY <2>6, <3>3
      <4>2. r[n] \in Nat
        BY <1>1, <4>1
      <4>. QED BY <4>1, <4>2
    <3>. QED BY <3>1, <3>2, <3>3
  <2>8. ASSUME F # {}, k + 1 + d > C PROVE met # {}
    <3>1. CASE leaves # {}
      BY <2>4, <2>8, <3>1
    <3>2. CASE leaves = {}
      <4>1. B # {} /\ k + (d + 1) > C
        BY <1>1, <2>2, <2>8, <3>2
      <4>. QED BY <2>4, <2>6, <2>8, <4>1
    <3>. QED BY <3>1, <3>2
  <2>9. ASSUME NEW e \in Nat PROVE Cardinality({n \in met : r[n] = e}) <= width
    <3>. DEFINE M == {n \in met : r[n] = e}
    <3>1. CASE F = {}
      <4>1. M = {}
        BY <2>4, <3>1
      <4>. QED BY <4>1, FS_EmptySet
    <3>2. CASE F # {} /\ e = d
      <4>1. M \subseteq leaves
        <5>. SUFFICES ASSUME NEW n \in met, r[n] = d, n \notin leaves PROVE FALSE
          BY <3>2
        <5>1. n \in lower
          BY <2>4
        <5>2. r[n] >= d + 1
          BY <2>6, <5>1
        <5>. QED BY <5>2
      <4>. HIDE DEF M
      <4>2. IsFiniteSet(M) /\ Cardinality(M) <= Cardinality(leaves)
        BY <2>2, <4>1, FS_Subset
      <4>3. Cardinality(M) \in Nat /\ Cardinality(leaves) \in Nat
        BY <2>2, <4>2, FS_CardinalityType
      <4>. QED BY <2>2, <4>2, <4>3 DEF M
    <3>3. CASE F # {} /\ e # d
      <4>1. M = {n \in lower : r[n] = e}
        <5>1. ASSUME NEW n \in leaves PROVE r[n] # e
          BY <2>2, <2>3, <3>3
        <5>. QED BY <2>4, <3>3, <5>1
      <4>. QED BY <2>6, <4>1
    <3>. QED BY <3>1, <3>2, <3>3
  <2>10. ASSUME width >= C, F = AtDepth(r, t, d), k + 1 + d > C,
                NEW n \in DOMAIN nodes, nodes[n].tenant = t, r[n] >= d, IsLeaf(n)
         PROVE  n \in met
    <3>1. leaves = {m \in F : IsLeaf(m)} /\ B = AtDepth(r, t, d + 1) /\ k + (d + 1) > C
      BY <1>1, <2>2, <2>10
    <3>2. CASE r[n] = d
      <4>1. n \in F
        BY <2>10, <3>2 DEF AtDepth
      <4>. QED BY <2>4, <2>10, <3>1, <4>1
    <3>3. CASE r[n] # d
      <4>1. r[n] \in Nat /\ r[n] >= d + 1
        BY <1>1, <2>10, <3>3
      <4>2. n \in lower
        BY <2>6, <2>10, <3>1, <4>1
      <4>3. F # {}
        <5>. SUFFICES ASSUME F = {} PROVE FALSE
          OBVIOUS
        <5>1. B = {}
          <6>1. Best(F, width) = {}
            BY <2>2, BestIs
          <6>. QED BY <6>1 DEF B, Beneath, Below
        <5>2. Descending(width, k, {})
          BY <1>1, <2>1, DownwardIs
        <5>. QED BY <4>2, <5>1, <5>2 DEF lower, Descending
      <4>. QED BY <2>4, <4>2, <4>3
    <3>. QED BY <3>2, <3>3
  <2>. QED BY <2>7, <2>8, <2>9, <2>10 DEF met
<1>. HIDE DEF S
<1>4. c \in S
  BY <1>2, <1>3, Reaches
<1>. QED BY <1>4 DEF S

-----------------------------------------------------------------------------
(* RagTree: what the paths and a navigation are *)

LEMMA TreeAnswers == TreeInv => RagTreeLaw
<1>. SUFFICES ASSUME TreeInv, ~unruly PROVE NavigationSound
  BY DEF TreeInv, RagTreeLaw, NavigationSound
<1>. DEFINE C == Cardinality(Nodes)
<1>1. PICK r : Ordered(r)
  BY DEF TreeInv, Ordered
<1>2. /\ DOMAIN nodes \subseteq Nodes /\ C \in Nat
      /\ \A n \in DOMAIN nodes : r[n] \in 1..C /\ nodes[n].tenant \in Tenants
  BY <1>1, OrderedIs
<1>. HIDE DEF C
<1>3. ASSUME NEW n \in DOMAIN nodes
      PROVE  /\ PathToRoot(n)[1] \in RootsFor(nodes[n].tenant)
             /\ \A m \in ToSet(PathToRoot(n)) : nodes[m].tenant = nodes[n].tenant
             /\ Len(PathToRoot(n)) = r[n]
  <2>1. IsPath(r, Upward[C][n], n)
    BY <1>1, <1>2, PathsAre
  <2>. QED BY <2>1 DEF IsPath, PathToRoot, C
<1>4. ASSUME NEW t \in Tenants, NEW width \in Widths
      PROVE  LET found == Navigate(t, width)
                 owned == {n \in DOMAIN nodes : nodes[n].tenant = t}
             IN  /\ \A n \in ToSet(found) : n \in owned /\ IsLeaf(n)
                 /\ owned # {} => found # <<>>
                 /\ \A d \in 1..Cardinality(Nodes) :
                      Cardinality({n \in ToSet(found) : Len(PathToRoot(n)) = d}) <= width
                 /\ width >= Cardinality(Nodes) => ToSet(found) = {n \in owned : IsLeaf(n)}
  <2>. DEFINE F == RootsFor(t)
              met == Downward(width)[C][F]
              found == Navigate(t, width)
              owned == {n \in DOMAIN nodes : nodes[n].tenant = t}
  <2>1. width \in Nat \ {0}
    BY TreeAssumption
  <2>2. F = AtDepth(r, t, 1)
    <3>1. F = {n \in DOMAIN nodes : nodes[n].parent = NoParent /\ nodes[n].tenant = t}
      BY <1>1, OrderedIs
    <3>2. ASSUME NEW n \in DOMAIN nodes, r[n] = 1 PROVE nodes[n].parent = NoParent
      <4>. SUFFICES ASSUME nodes[n].parent # NoParent PROVE FALSE
        OBVIOUS
      <4>1. nodes[n].parent \in DOMAIN nodes /\ r[n] = r[nodes[n].parent] + 1
        BY <1>1, OrderedIs
      <4>2. r[nodes[n].parent] \in 1..C
        BY <1>2, <4>1
      <4>. QED BY <1>2, <3>2, <4>1, <4>2
    <3>3. \A n \in DOMAIN nodes : nodes[n].parent = NoParent => r[n] = 1
      BY <1>1, OrderedIs
    <3>. QED BY <3>1, <3>2, <3>3 DEF AtDepth
  <2>3. Meets(r, t, width, C)
    BY <1>1, <1>2, <2>1, MeetsAll
  <2>4. /\ \A n \in met : n \in DOMAIN nodes /\ nodes[n].tenant = t /\ r[n] >= 1 /\ IsLeaf(n)
        /\ F # {} => met # {}
        /\ \A e \in Nat : Cardinality({n \in met : r[n] = e}) <= width
        /\ width >= C =>
             \A n \in DOMAIN nodes : nodes[n].tenant = t /\ r[n] >= 1 /\ IsLeaf(n) => n \in met
    <3>1. 1 \in Nat \ {0} /\ F \in SUBSET AtDepth(r, t, 1) /\ C + 1 > C
      BY <1>2, <2>2
    <3>. HIDE DEF F
    <3>. QED BY <2>2, <2>3, <3>1 DEF Meets, C
  <2>5. met \subseteq Nodes
    BY <1>2, <2>4
  <2>6. ToSet(found) = met
    <3>1. found = Ranked(met)
      BY DEF Navigate, C
    <3>. HIDE DEF met, found
    <3>. QED BY <2>5, <3>1, RankedIs
  <2>. HIDE DEF met, found, F
  <2>7. owned # {} => F # {}
    BY <1>3 DEF F
  <2>8. owned # {} => found # <<>>
    <3>1. ToSet(<<>>) = {}
      BY DEF ToSet
    <3>. QED BY <2>4, <2>6, <2>7, <3>1
  <2>9. ASSUME NEW d \in 1..Cardinality(Nodes)
        PROVE  Cardinality({n \in ToSet(found) : Len(PathToRoot(n)) = d}) <= width
    <3>1. {n \in ToSet(found) : Len(PathToRoot(n)) = d} = {n \in met : r[n] = d}
      BY <1>3, <2>4, <2>6
    <3>2. d \in Nat
      OBVIOUS
    <3>. QED BY <2>4, <3>1, <3>2
  <2>10. ASSUME width >= Cardinality(Nodes) PROVE ToSet(found) = {n \in owned : IsLeaf(n)}
    <3>1. \A n \in DOMAIN nodes : r[n] >= 1
      BY <1>2
    <3>2. width >= C
      BY <2>10 DEF C
    <3>3. \A n \in DOMAIN nodes : nodes[n].tenant = t /\ IsLeaf(n) => n \in met
      BY <2>4, <3>1, <3>2
    <3>. QED BY <2>4, <2>6, <3>3
  <2>11. \A n \in ToSet(found) : n \in owned /\ IsLeaf(n)
    BY <2>4, <2>6
  <2>. QED BY <2>8, <2>9, <2>10, <2>11 DEF found
<1>. QED BY <1>3, <1>4 DEF NavigationSound
=============================================================================

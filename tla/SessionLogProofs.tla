-------------------------- MODULE SessionLogProofs ---------------------------
(***************************************************************************)
(* What a session keeps, for logs of any length.  A fold is the last of    *)
(* the conversations read event by event, which is how each fold of        *)
(* SessionFold is reasoned about; then the boundary is a cut, the          *)
(* incremental fold is the fold, a repaired log has no orphan, and a       *)
(* session that this build began folds away whole turns only.              *)
(***************************************************************************)
EXTENDS SessionLog, WellFoundedInduction, TLAPS

\* A set of natural numbers that is not empty has a least member.
LEMMA Least ==
  ASSUME NEW S, S \subseteq Nat, S # {}
  PROVE  \E n \in S : \A m \in S : n <= m
<1>. DEFINE Less == OpToRel(<, Nat)
<1>1. IsWellFoundedOn(Less, Nat)
  BY NatLessThanWellFounded
<1>2. \A m, n \in Nat : m < n => <<m, n>> \in Less
  BY DEF OpToRel
<1>. HIDE DEF Less
<1>3. PICK n \in S : \A m \in S : ~(<<m, n>> \in Less)
  BY <1>1, WFMin
<1>4. ASSUME NEW m \in S PROVE n <= m
  <2>1. n \in Nat /\ m \in Nat /\ ~(m < n)
    BY <1>2, <1>3
  <2>. QED
    BY <2>1
<1>. QED
  BY <1>4

\* A set of numbers up to n that is not empty has a greatest member.
LEMMA Greatest ==
  ASSUME NEW n \in Nat, NEW S, S \subseteq 0..n, S # {}
  PROVE  Max(S) \in S /\ \A k \in S : k <= Max(S)
<1>. DEFINE R == {n - k : k \in S}
<1>1. R \subseteq Nat /\ R # {}
  <2>1. \A k \in S : n - k \in Nat
    OBVIOUS
  <2>. QED
    BY <2>1
<1>2. PICK r \in R : \A q \in R : r <= q
  BY <1>1, Least
<1>3. PICK m \in S : r = n - m
  OBVIOUS
<1>4. \A k \in S : m >= k
  <2>1. \A k \in S : n - m <= n - k
    BY <1>2, <1>3
  <2>. QED BY <2>1
<1>5. \A k \in S : Max(S) >= k
  BY <1>4 DEF Max
<1>6. Max(S) \in S
  BY <1>4 DEF Max
<1>. QED
  BY <1>5, <1>6

\* What is true of the first of some numbers, and of each that follows one of
\* which it is true, is true of all: stated of the set of those of which it is.
LEMMA Reaches ==
  ASSUME NEW n \in Nat, NEW S, 0 \in S,
         \A k \in 0..(n - 1) : k \in S => k + 1 \in S
  PROVE  0..n \subseteq S
<1>. DEFINE T == {k \in 0..n : k \notin S}
<1>. SUFFICES ASSUME T # {} PROVE FALSE
  OBVIOUS
<1>1. PICK k \in T : \A m \in T : k <= m
  <2>1. T \subseteq Nat
    OBVIOUS
  <2>. QED BY <2>1, Least
<1>2. k # 0
  OBVIOUS
<1>3. k - 1 \in 0..(n - 1) /\ k - 1 \notin T
  BY <1>1, <1>2
<1>4. k - 1 \in S
  BY <1>3
<1>5. k - 1 + 1 = k
  OBVIOUS
<1>. QED
  BY <1>3, <1>4, <1>5

\* A fold of n steps, and a function that computes it for every set of them.
Steps(n, D, base, step) == n \in Nat /\ base \in D /\ step \in [1..n -> [D -> D]]

\* it is what folding n steps over a base computes, set by set.
Iterates(n, D, base, step, it) ==
  /\ it \in [SUBSET (1..n) -> D]
  /\ \A s \in SUBSET (1..n) :
       it[s] = IF s = {} THEN base ELSE step[Max(s)][it[s \ {Max(s)}]]

\* There is one, whatever the steps are.
LEMMA Iteration ==
  ASSUME NEW n, NEW D, NEW base, NEW step, Steps(n, D, base, step)
  PROVE  \E it : Iterates(n, D, base, step, it)
<1>. USE DEF Steps
<1>. DEFINE Of(k, it) == \A s \in SUBSET (1..k) :
              it[s] = IF s = {} THEN base ELSE step[Max(s)][it[s \ {Max(s)}]]
            S == {k \in 0..n : \E it \in [SUBSET (1..k) -> D] : Of(k, it)}
<1>1. 0 \in S
  <2>1. SUBSET (1..0) = {{}}
    <3>1. 1..0 = {} OBVIOUS
    <3> QED BY <3>1
  <2>2. [s \in SUBSET (1..0) |-> base] \in [SUBSET (1..0) -> D]
    OBVIOUS
  <2>3. Of(0, [s \in SUBSET (1..0) |-> base])
    BY <2>1
  <2>. HIDE DEF Of
  <2>4. \E it \in [SUBSET (1..0) -> D] : Of(0, it)
    BY <2>2, <2>3
  <2>5. 0 \in 0..n
    OBVIOUS
  <2>. QED
    BY <2>4, <2>5, Zenon
<1>2. ASSUME NEW k \in 0..(n - 1), k \in S PROVE k + 1 \in S
  <2>1. PICK it \in [SUBSET (1..k) -> D] : Of(k, it)
    BY <1>2
  <2>. DEFINE new == [s \in SUBSET (1..(k + 1)) |->
                        IF k + 1 \in s THEN step[k + 1][it[s \ {k + 1}]] ELSE it[s]]
  <2>2. \A s \in SUBSET (1..(k + 1)) :
          /\ s \ {k + 1} \in SUBSET (1..k)
          /\ k + 1 \notin s => s \in SUBSET (1..k)
    <3>1. 1..(k + 1) = (1..k) \cup {k + 1}
      OBVIOUS
    <3>. QED BY <3>1
  <2>3. new \in [SUBSET (1..(k + 1)) -> D]
    <3>1. k + 1 \in 1..n
      OBVIOUS
    <3>. QED BY <2>2, <3>1
  <2>4. ASSUME NEW s \in SUBSET (1..(k + 1))
        PROVE  new[s] = IF s = {} THEN base ELSE step[Max(s)][new[s \ {Max(s)}]]
    <3>1. CASE k + 1 \in s
      <4>1. Max(s) = k + 1
        <5>1. s \subseteq 0..(k + 1) /\ s # {}
          BY <3>1
        <5>2. Max(s) \in s /\ k + 1 <= Max(s)
          BY <3>1, <5>1, Greatest, k + 1 \in Nat
        <5>3. Max(s) \in 0..(k + 1)
          BY <5>1, <5>2
        <5>. QED BY <5>2, <5>3
      <4>2. new[s \ {k + 1}] = it[s \ {k + 1}]
        <5>1. s \ {k + 1} \in SUBSET (1..(k + 1)) /\ k + 1 \notin s \ {k + 1}
          OBVIOUS
        <5>. QED BY <5>1
      <4>. QED BY <3>1, <4>1, <4>2
    <3>2. CASE k + 1 \notin s
      <4>1. s \in SUBSET (1..k)
        BY <2>2, <3>2
      <4>2. new[s] = it[s] /\ new[s \ {Max(s)}] = it[s \ {Max(s)}]
        <5>1. s \ {Max(s)} \in SUBSET (1..(k + 1)) /\ k + 1 \notin s \ {Max(s)}
          BY <3>2
        <5>. QED BY <3>2, <5>1
      <4>. QED BY <2>1, <4>1, <4>2
    <3>. QED BY <3>1, <3>2
  <2>5. Of(k + 1, new)
    BY <2>4
  <2>. QED
    <3>1. k + 1 \in 0..n OBVIOUS
    <3>. QED BY <2>3, <2>5, <3>1
<1>3. n \in S
  <2>. HIDE DEF S
  <2>1. 0..n \subseteq S
    BY <1>1, <1>2, Reaches
  <2>. QED BY <2>1
<1>. QED
  BY <1>3 DEF Iterates

\* What a function that computes a fold of n steps says of its beginnings.
LEMMA Beginnings ==
  ASSUME NEW n \in Nat, NEW k \in 1..n
  PROVE  /\ 1..k \in SUBSET (1..n) /\ 1..k # {}
         /\ Max(1..k) = k /\ (1..k) \ {k} = 1..(k - 1)
<1>1. Max(1..k) \in 1..k /\ k <= Max(1..k)
  <2>1. 1..k \subseteq 0..n /\ k \in 1..k
    OBVIOUS
  <2>. QED BY <2>1, Greatest
<1>. QED BY <1>1

\* A conversation as it is read.
Conv == [messages : Seq(Event), summary : Nat, tokens : Nat]

LEMMA ReadType ==
  ASSUME NEW c \in Conv, NEW e \in Event, NEW gone
  PROVE  ReadEvent(c, e, gone) \in Conv
<1>1. e.id \in Nat /\ e.tokens \in Nat
  BY DEF Event, MessageKinds
<1>2. \A t \in Nat : Measure(t, e) \in Nat /\ Summarize(t, e) \in Nat
  BY <1>1 DEF Measure, Summarize
<1>. QED
  <2>1. c.messages \in Seq(Event) /\ c.summary \in Nat /\ c.tokens \in Nat
    BY DEF Conv
  <2>2. Append(c.messages, e) \in Seq(Event)
    BY <2>1
  <2>. QED BY <1>2, <2>1, <2>2 DEF ReadEvent, Shown, Conv

\* A full fold, event by event.
LEMMA ReadFold ==
  ASSUME NEW s \in Seq(Event), NEW gone
  PROVE  \E g \in [0..Len(s) -> Conv] :
           /\ g[0] = Nothing /\ g[Len(s)] = Folded(s, gone)
           /\ \A k \in 1..Len(s) : g[k] = ReadEvent(g[k - 1], s[k], gone)
<1>. DEFINE n == Len(s)
            step == [k \in 1..n |-> [c \in Conv |-> ReadEvent(c, s[k], gone)]]
            Is(it) == it = [S \in SUBSET (1..n) |->
                              IF S = {} THEN Nothing
                              ELSE ReadEvent(it[S \ {Max(S)}], s[Max(S)], gone)]
            chosen == CHOOSE it : Is(it)
<1>1. Folded(s, gone) = chosen[1..n]
  <2>1. DOMAIN s = 1..n
    OBVIOUS
  <2>. QED BY <2>1 DEF Folded, FoldLeft, MapThenFoldSet
<1>2. n \in Nat /\ Nothing \in Conv /\ step \in [1..n -> [Conv -> Conv]]
  <2>1. \A k \in 1..n : s[k] \in Event
    OBVIOUS
  <2>2. Nothing \in Conv
    BY DEF Nothing, Conv
  <2>. QED BY <2>1, <2>2, ReadType
<1>. HIDE DEF step
<1>3. PICK it : Iterates(n, Conv, Nothing, step, it)
  BY <1>2, Iteration DEF Steps
<1>4. ASSUME NEW S \in SUBSET (1..n), S # {}
      PROVE  Max(S) \in 1..n /\ S \ {Max(S)} \in SUBSET (1..n)
  <2>. HIDE DEF n
  <2>1. S \subseteq 0..n
    BY <1>2
  <2>. QED BY <1>2, <1>4, <2>1, Greatest
<1>5. Is(it)
  BY <1>3, <1>4 DEF step, Iterates
<1>6. Is(chosen)
  BY <1>5
<1>. HIDE DEF chosen
<1>7. \A k \in 1..n : chosen[1..k] = ReadEvent(chosen[1..(k - 1)], s[k], gone)
  <2>. SUFFICES ASSUME NEW k \in 1..n
                PROVE  chosen[1..k] = ReadEvent(chosen[1..(k - 1)], s[k], gone)
    OBVIOUS
  <2>. HIDE DEF n
  <2>1. /\ 1..k \in SUBSET (1..n) /\ 1..k # {}
        /\ Max(1..k) = k /\ (1..k) \ {k} = 1..(k - 1)
    BY <1>2, Beginnings
  <2>2. chosen[1..k] = ReadEvent(chosen[(1..k) \ {Max(1..k)}], s[Max(1..k)], gone)
    BY <1>6, <2>1
  <2>. QED BY <2>1, <2>2
<1>8. chosen[1..0] = Nothing
  BY <1>6
<1>. DEFINE T == {k \in 0..n : chosen[1..k] \in Conv}
<1>9. 0..n \subseteq T
  <2>1. 0 \in T
    BY <1>2, <1>8
  <2>2. ASSUME NEW k \in 0..(n - 1), k \in T PROVE k + 1 \in T
    <3>1. k + 1 \in 1..n /\ (k + 1) - 1 = k /\ s[k + 1] \in Event
      OBVIOUS
    <3>2. chosen[1..(k + 1)] = ReadEvent(chosen[1..k], s[k + 1], gone)
      BY <1>7, <3>1
    <3>. QED BY <2>2, <3>1, <3>2, ReadType
  <2>. HIDE DEF T
  <2>. QED BY <1>2, <2>1, <2>2, Reaches
<1>. DEFINE g == [k \in 0..n |-> chosen[1..k]]
<1>10. g \in [0..n -> Conv]
  BY <1>9
<1>11. \A k \in 1..n : g[k] = ReadEvent(g[k - 1], s[k], gone)
  BY <1>7
<1>12. g[0] = Nothing /\ g[n] = Folded(s, gone)
  BY <1>1, <1>2, <1>8
<1>. HIDE DEF g
<1>. QED
  BY <1>10, <1>11, <1>12

\* What has been read is read once more with the next event.
LEMMA ReadOn ==
  ASSUME NEW s \in Seq(Event), NEW e \in Event, NEW gone
  PROVE  /\ Folded(<<>>, gone) = Nothing /\ Folded(s, gone) \in Conv
         /\ Folded(Append(s, e), gone) = ReadEvent(Folded(s, gone), e, gone)
<1>. DEFINE n == Len(s)
            t == Append(s, e)
<1>1. n \in Nat /\ t \in Seq(Event) /\ Len(t) = n + 1 /\ t[n + 1] = e
      /\ \A k \in 1..n : t[k] = s[k]
  OBVIOUS
<1>. HIDE DEF t
<1>2. PICK g \in [0..n -> Conv] :
        /\ g[0] = Nothing /\ g[n] = Folded(s, gone)
        /\ \A k \in 1..n : g[k] = ReadEvent(g[k - 1], s[k], gone)
  BY ReadFold
<1>3. PICK h \in [0..(n + 1) -> Conv] :
        /\ h[0] = Nothing /\ h[n + 1] = Folded(t, gone)
        /\ \A k \in 1..(n + 1) : h[k] = ReadEvent(h[k - 1], t[k], gone)
  BY <1>1, ReadFold
<1>. HIDE DEF n
<1>. DEFINE S == {k \in 0..n : g[k] = h[k]}
<1>4. 0..n \subseteq S
  <2>1. 0 \in S
    BY <1>1, <1>2, <1>3
  <2>2. ASSUME NEW k \in 0..(n - 1), k \in S PROVE k + 1 \in S
    <3>1. k + 1 \in 1..n /\ k + 1 \in 1..(n + 1) /\ (k + 1) - 1 = k
      BY <1>1
    <3>. QED BY <1>1, <1>2, <1>3, <2>2, <3>1
  <2>. HIDE DEF S
  <2>. QED BY <1>1, <2>1, <2>2, Reaches
<1>5. g[n] = h[n] /\ n \in 0..n
  BY <1>1, <1>4
<1>6. h[n + 1] = ReadEvent(h[n], e, gone)
  BY <1>1, <1>3
<1>7. Folded(<<>>, gone) = Nothing
  <2>1. <<>> \in Seq(Event) /\ Len(<<>>) = 0
    OBVIOUS
  <2>. QED BY <2>1, ReadFold
<1>. QED
  BY <1>2, <1>3, <1>5, <1>6, <1>7 DEF t

-----------------------------------------------------------------------------
(* The incremental fold *)

\* An incremental fold.
Cache == [seen : Seq(Event), gone : SUBSET Nat, messages : Seq(Event),
          summary : Nat, tokens : Nat]

LEMMA ApplyType ==
  ASSUME NEW c \in Cache, NEW e \in Event
  PROVE  /\ ApplyMessage(c, e) \in Cache
         /\ ApplyMessage(c, e).seen = c.seen /\ ApplyMessage(c, e).gone = c.gone
         /\ ApplyMessage(c, e).summary = c.summary
         /\ ApplyMessage(c, e).messages = IF e.id \in c.gone \/ e.kind \notin MessageKinds
                                            THEN c.messages ELSE Append(c.messages, e)
<1>1. e.tokens \in Nat
  BY DEF Event, MessageKinds
<1>2. \A t \in Nat : Measure(t, e) \in Nat
  BY <1>1 DEF Measure
<1>3. c.messages \in Seq(Event) /\ c.tokens \in Nat
  BY DEF Cache
<1>4. Append(c.messages, e) \in Seq(Event)
  BY <1>3
<1>. QED
  BY <1>2, <1>3, <1>4 DEF ApplyMessage, Shown, Cache

LEMMA ApplyFold ==
  ASSUME NEW s \in Seq(Event), NEW c0 \in Cache
  PROVE  \E g \in [0..Len(s) -> Cache] :
           /\ g[0] = c0 /\ g[Len(s)] = FoldLeft(ApplyMessage, c0, s)
           /\ \A k \in 1..Len(s) : g[k] = ApplyMessage(g[k - 1], s[k])
<1>. DEFINE n == Len(s)
            step == [k \in 1..n |-> [c \in Cache |-> ApplyMessage(c, s[k])]]
            Is(it) == it = [S \in SUBSET (1..n) |->
                              IF S = {} THEN c0
                              ELSE ApplyMessage(it[S \ {Max(S)}], s[Max(S)])]
            chosen == CHOOSE it : Is(it)
<1>1. FoldLeft(ApplyMessage, c0, s) = chosen[1..n]
  <2>1. DOMAIN s = 1..n
    OBVIOUS
  <2>. QED BY <2>1 DEF FoldLeft, MapThenFoldSet
<1>2. n \in Nat /\ step \in [1..n -> [Cache -> Cache]]
  <2>1. \A k \in 1..n : s[k] \in Event
    OBVIOUS
  <2>. QED BY <2>1, ApplyType
<1>. HIDE DEF step
<1>3. PICK it : Iterates(n, Cache, c0, step, it)
  BY <1>2, Iteration DEF Steps
<1>4. ASSUME NEW S \in SUBSET (1..n), S # {}
      PROVE  Max(S) \in 1..n /\ S \ {Max(S)} \in SUBSET (1..n)
  <2>. HIDE DEF n
  <2>1. S \subseteq 0..n
    BY <1>2
  <2>. QED BY <1>2, <1>4, <2>1, Greatest
<1>5. Is(it)
  BY <1>3, <1>4 DEF step, Iterates
<1>6. Is(chosen)
  BY <1>5
<1>. HIDE DEF chosen
<1>7. \A k \in 1..n : chosen[1..k] = ApplyMessage(chosen[1..(k - 1)], s[k])
  <2>. SUFFICES ASSUME NEW k \in 1..n
                PROVE  chosen[1..k] = ApplyMessage(chosen[1..(k - 1)], s[k])
    OBVIOUS
  <2>. HIDE DEF n
  <2>1. /\ 1..k \in SUBSET (1..n) /\ 1..k # {}
        /\ Max(1..k) = k /\ (1..k) \ {k} = 1..(k - 1)
    BY <1>2, Beginnings
  <2>2. chosen[1..k] = ApplyMessage(chosen[(1..k) \ {Max(1..k)}], s[Max(1..k)])
    BY <1>6, <2>1
  <2>. QED BY <2>1, <2>2
<1>8. chosen[1..0] = c0
  BY <1>6
<1>. DEFINE T == {k \in 0..n : chosen[1..k] \in Cache}
<1>9. 0..n \subseteq T
  <2>1. 0 \in T
    BY <1>2, <1>8
  <2>2. ASSUME NEW k \in 0..(n - 1), k \in T PROVE k + 1 \in T
    <3>1. k + 1 \in 1..n /\ (k + 1) - 1 = k /\ s[k + 1] \in Event
      OBVIOUS
    <3>2. chosen[1..(k + 1)] = ApplyMessage(chosen[1..k], s[k + 1])
      BY <1>7, <3>1
    <3>3. ApplyMessage(chosen[1..k], s[k + 1]) \in Cache
      BY <2>2, <3>1, ApplyType
    <3>. QED BY <3>1, <3>2, <3>3
  <2>. HIDE DEF T
  <2>. QED BY <1>2, <2>1, <2>2, Reaches
<1>. DEFINE g == [k \in 0..n |-> chosen[1..k]]
<1>10. g \in [0..n -> Cache]
  BY <1>9
<1>11. \A k \in 1..n : g[k] = ApplyMessage(g[k - 1], s[k])
  BY <1>7
<1>12. g[0] = c0 /\ g[n] = FoldLeft(ApplyMessage, c0, s)
  BY <1>1, <1>2, <1>8
<1>. HIDE DEF g
<1>. QED
  BY <1>10, <1>11, <1>12

\* A rebuilt cache has the messages that the fold shows.
LEMMA RebuildRight ==
  ASSUME NEW c \in Cache
  PROVE  /\ Rebuild(c) \in Cache
         /\ Rebuild(c).seen = c.seen /\ Rebuild(c).gone = c.gone
         /\ Rebuild(c).summary = c.summary /\ Rebuild(c).tokens = 0
         /\ Rebuild(c).messages = Folded(c.seen, c.gone).messages
<1>. DEFINE n == Len(c.seen)
            c0 == [c EXCEPT !.messages = <<>>]
<1>1. c.seen \in Seq(Event) /\ c0 \in Cache /\ n \in Nat
      /\ c0.seen = c.seen /\ c0.gone = c.gone /\ c0.summary = c.summary /\ c0.messages = <<>>
  <2>1. c.seen \in Seq(Event) /\ <<>> \in Seq(Event)
    BY DEF Cache
  <2>2. c0 \in Cache
    BY <2>1 DEF Cache
  <2>3. c0.seen = c.seen /\ c0.gone = c.gone /\ c0.summary = c.summary /\ c0.messages = <<>>
    BY DEF Cache
  <2>4. n \in Nat
    BY <2>1
  <2>. QED BY <2>1, <2>2, <2>3, <2>4
<1>. HIDE DEF c0
<1>2. PICK g \in [0..n -> Cache] :
        /\ g[0] = c0 /\ g[n] = FoldLeft(ApplyMessage, c0, c.seen)
        /\ \A k \in 1..n : g[k] = ApplyMessage(g[k - 1], c.seen[k])
  BY <1>1, ApplyFold
<1>3. PICK h \in [0..n -> Conv] :
        /\ h[0] = Nothing /\ h[n] = Folded(c.seen, c.gone)
        /\ \A k \in 1..n : h[k] = ReadEvent(h[k - 1], c.seen[k], c.gone)
  BY <1>1, ReadFold
<1>4. \A k \in 1..n : c.seen[k] \in Event
  BY <1>1
<1>. HIDE DEF n
<1>. DEFINE S == {k \in 0..n : /\ g[k].seen = c.seen /\ g[k].gone = c.gone
                               /\ g[k].summary = c.summary
                               /\ g[k].messages = h[k].messages}
<1>5. 0..n \subseteq S
  <2>1. 0 \in S
    BY <1>1, <1>2, <1>3 DEF Nothing
  <2>2. ASSUME NEW k \in 0..(n - 1), k \in S PROVE k + 1 \in S
    <3>1. k + 1 \in 1..n /\ (k + 1) - 1 = k /\ k \in 0..n /\ k + 1 \in 0..n
      BY <1>1
    <3>. DEFINE e == c.seen[k + 1]
    <3>2. e \in Event /\ g[k] \in Cache /\ h[k] \in Conv
      BY <1>4, <3>1
    <3>3. g[k + 1] = ApplyMessage(g[k], e) /\ h[k + 1] = ReadEvent(h[k], e, c.gone)
      BY <1>2, <1>3, <3>1
    <3>. HIDE DEF e
    <3>4. h[k + 1].messages = IF e.id \in c.gone \/ e.kind \notin MessageKinds
                                THEN h[k].messages ELSE Append(h[k].messages, e)
      BY <3>2, <3>3 DEF ReadEvent, Shown, Conv
    <3>. QED BY <2>2, <3>1, <3>2, <3>3, <3>4, ApplyType
  <2>. HIDE DEF S
  <2>. QED BY <1>1, <2>1, <2>2, Reaches
<1>6. n \in S /\ n \in 0..n
  BY <1>1, <1>5
<1>. DEFINE r == g[n]
<1>7. Rebuild(c) = [r EXCEPT !.tokens = 0]
  BY <1>2 DEF Rebuild, c0
<1>8. r \in Cache /\ r.seen = c.seen /\ r.gone = c.gone /\ r.summary = c.summary
      /\ r.messages = h[n].messages
  BY <1>6
<1>. HIDE DEF r
<1>9. Rebuild(c) \in Cache
  <2>1. r \in Cache
    BY <1>8
  <2>2. [r EXCEPT !.tokens = 0] \in Cache
    BY <2>1 DEF Cache
  <2>. QED BY <1>7, <2>2
<1>11. Rebuild(c).tokens = 0
  BY <1>7, <1>8 DEF Cache
<1>10. /\ Rebuild(c).seen = r.seen /\ Rebuild(c).gone = r.gone
       /\ Rebuild(c).summary = r.summary /\ Rebuild(c).messages = r.messages
  <2>1. Rebuild(c).seen = r.seen
    BY <1>7, <1>8 DEF Cache
  <2>2. Rebuild(c).gone = r.gone
    BY <1>7, <1>8 DEF Cache
  <2>3. Rebuild(c).summary = r.summary
    BY <1>7, <1>8 DEF Cache
  <2>4. Rebuild(c).messages = r.messages
    BY <1>7, <1>8 DEF Cache
  <2>. QED BY <2>1, <2>2, <2>3, <2>4
<1>. QED
  BY <1>3, <1>8, <1>9, <1>10, <1>11

\* What is folded away when an event is appended.
LEMMA GoneOn ==
  ASSUME NEW s \in Seq(Event), NEW e \in Event
  PROVE  Gone(<<>>) = {} /\ Gone(s) \in SUBSET Nat /\ Gone(Append(s, e)) = Gone(s) \cup e.gone
<1>1. ToSet(Append(s, e)) = ToSet(s) \cup {e}
  <2>1. DOMAIN Append(s, e) = 1..(Len(s) + 1) /\ DOMAIN s = 1..Len(s)
    OBVIOUS
  <2>2. \A i \in 1..Len(s) : Append(s, e)[i] = s[i]
    OBVIOUS
  <2>3. Append(s, e)[Len(s) + 1] = e
    OBVIOUS
  <2>. QED BY <2>1, <2>2, <2>3 DEF ToSet
<1>2. ToSet(<<>>) = {}
  BY DEF ToSet
<1>3. ToSet(s) \subseteq Event
  BY DEF ToSet
<1>4. \A x \in Event : x.gone \subseteq Nat
  BY DEF Event
<1>. QED BY <1>1, <1>2, <1>3, <1>4 DEF Gone

\* The cache is what the fold makes of the events that it has seen.
Right(c) ==
  /\ c \in Cache
  /\ c.gone = Gone(c.seen)
  /\ c.messages = Folded(c.seen, c.gone).messages
  /\ c.summary = Folded(c.seen, c.gone).summary
  /\ c.tokens = Folded(c.seen, c.gone).tokens

\* One more event keeps it so, if it is not folded away as it comes.
LEMMA AbsorbRight ==
  ASSUME NEW c, Right(c), NEW e \in Event, e.id \notin c.gone
  PROVE  Right(Absorb(c, e)) /\ Absorb(c, e).seen = Append(c.seen, e)
<1>. DEFINE seen == [c EXCEPT !.seen = Append(@, e)]
            next0 == [seen EXCEPT !.gone = @ \cup e.gone, !.summary = e.id]
            fold == Folded(c.seen, c.gone)
<1>1. c \in Cache /\ c.seen \in Seq(Event) /\ c.gone \in SUBSET Nat
  BY DEF Right, Cache
<1>2. e.id \in Nat /\ e.gone \in SUBSET Nat /\ e.gone \subseteq 1..(e.id - 1)
      /\ (e.kind # "compaction" => e.gone = {}) /\ e.id \notin e.gone /\ e.tokens \in Nat
  BY DEF Event, MessageKinds
<1>3. Append(c.seen, e) \in Seq(Event)
  BY <1>1
<1>4. Gone(Append(c.seen, e)) = c.gone \cup e.gone
  BY <1>1, GoneOn DEF Right
<1>5. fold \in Conv /\ \A gone : Folded(Append(c.seen, e), gone) = ReadEvent(Folded(c.seen, gone), e, gone)
  BY <1>1, ReadOn
<1>6. seen \in Cache /\ seen.seen = Append(c.seen, e) /\ seen.gone = c.gone
      /\ seen.messages = c.messages /\ seen.summary = c.summary /\ seen.tokens = c.tokens
  <2>1. seen \in Cache
    BY <1>1, <1>3 DEF Cache
  <2>. QED BY <1>1, <2>1 DEF Cache
<1>. HIDE DEF seen, fold
<1>7. CASE e.kind = "compaction"
  <2>1. next0 \in Cache
    BY <1>2, <1>6 DEF Cache
  <2>2. next0.seen = seen.seen /\ next0.gone = c.gone \cup e.gone /\ next0.summary = e.id
    BY <1>6 DEF Cache
  <2>3. Absorb(c, e) = Rebuild(next0)
    BY <1>7 DEF Absorb, seen
  <2>. DEFINE new == Absorb(c, e)
              gone == c.gone \cup e.gone
  <2>4. /\ new \in Cache /\ new.seen = Append(c.seen, e) /\ new.gone = gone
        /\ new.summary = e.id /\ new.tokens = 0
        /\ new.messages = Folded(Append(c.seen, e), gone).messages
    <3>. HIDE DEF next0
    <3>1. /\ Rebuild(next0) \in Cache
          /\ Rebuild(next0).seen = next0.seen /\ Rebuild(next0).gone = next0.gone
          /\ Rebuild(next0).summary = next0.summary /\ Rebuild(next0).tokens = 0
          /\ Rebuild(next0).messages = Folded(next0.seen, next0.gone).messages
      BY <2>1, RebuildRight
    <3>2. next0.seen = Append(c.seen, e) /\ next0.gone = gone /\ next0.summary = e.id
      BY <1>6, <2>2
    <3>. HIDE DEF gone
    <3>. QED BY <2>3, <3>1, <3>2
  <2>5. Folded(Append(c.seen, e), gone) = ReadEvent(Folded(c.seen, gone), e, gone)
        /\ Folded(c.seen, gone) \in Conv
    BY <1>1, ReadOn
  <2>6. e.id \notin gone
    BY <1>2
  <2>7. \A x \in Conv : ReadEvent(x, e, gone).summary = e.id /\ ReadEvent(x, e, gone).tokens = 0
    BY <1>7, <2>6 DEF ReadEvent, Shown, Summarize, Measure, Conv
  <2>8. /\ Folded(Append(c.seen, e), gone).summary = e.id
        /\ Folded(Append(c.seen, e), gone).tokens = 0
    <3>. HIDE DEF gone
    <3>. QED BY <2>5, <2>7
  <2>. HIDE DEF new
  <2>9. Right(new) /\ new.seen = Append(c.seen, e)
    BY <1>4, <2>4, <2>8 DEF Right
  <2>. QED BY <2>9 DEF new
<1>8. CASE e.kind # "compaction"
  <2>1. Absorb(c, e) = ApplyMessage(seen, e)
    BY <1>8 DEF Absorb, seen
  <2>2. c.gone \cup e.gone = c.gone
    BY <1>2, <1>8
  <2>. DEFINE new == Absorb(c, e)
  <2>3. /\ new \in Cache /\ new.seen = Append(c.seen, e) /\ new.gone = c.gone
        /\ new.summary = c.summary
        /\ new.messages = IF e.kind \notin MessageKinds THEN c.messages ELSE Append(c.messages, e)
    BY <1>6, <2>1, ApplyType
  <2>4. new.tokens = IF e.kind \notin MessageKinds THEN c.tokens ELSE Measure(c.tokens, e)
    BY <1>6, <2>1 DEF ApplyMessage, Shown, Cache
  <2>5. Folded(Append(c.seen, e), c.gone) = ReadEvent(fold, e, c.gone)
    BY <1>5 DEF fold
  <2>6. c.messages = fold.messages /\ c.summary = fold.summary /\ c.tokens = fold.tokens
    BY DEF fold, Right
  <2>7. /\ ReadEvent(fold, e, c.gone).summary = c.summary
        /\ ReadEvent(fold, e, c.gone).messages = new.messages
        /\ ReadEvent(fold, e, c.gone).tokens = new.tokens
    <3>. HIDE DEF new
    <3>1. e.kind \notin MessageKinds => Measure(c.tokens, e) = c.tokens
      BY <1>8 DEF Measure, MessageKinds
    <3>2. Summarize(c.summary, e) = c.summary
      BY <1>8 DEF Summarize
    <3>. QED BY <1>5, <2>3, <2>4, <2>6, <3>1, <3>2 DEF ReadEvent, Shown, Conv
  <2>. HIDE DEF new
  <2>8. Right(new)
    BY <1>4, <2>2, <2>3, <2>5, <2>7 DEF Right
  <2>. QED BY <2>3, <2>8 DEF new
<1>. QED BY <1>7, <1>8

\* Absorbing keeps the type, whatever is absorbed.
LEMMA AbsorbType ==
  ASSUME NEW c \in Cache, NEW e \in Event
  PROVE  Absorb(c, e) \in Cache
<1>. DEFINE seen == [c EXCEPT !.seen = Append(@, e)]
            next0 == [seen EXCEPT !.gone = @ \cup e.gone, !.summary = e.id]
<1>1. e.id \in Nat /\ e.gone \in SUBSET Nat
  BY DEF Event
<1>2. seen \in Cache
  <2>1. c.seen \in Seq(Event)
    BY DEF Cache
  <2>2. Append(c.seen, e) \in Seq(Event)
    BY <2>1
  <2>. QED BY <2>2 DEF Cache
<1>. HIDE DEF seen
<1>3. next0 \in Cache
  BY <1>1, <1>2 DEF Cache
<1>4. Absorb(c, e) = IF e.kind = "compaction" THEN Rebuild(next0) ELSE ApplyMessage(seen, e)
  BY DEF Absorb, seen
<1>. HIDE DEF next0
<1>. QED BY <1>2, <1>3, <1>4, RebuildRight, ApplyType

LEMMA AbsorbFold ==
  ASSUME NEW s \in Seq(Event), NEW c0 \in Cache
  PROVE  \E g \in [0..Len(s) -> Cache] :
           /\ g[0] = c0 /\ g[Len(s)] = FoldLeft(Absorb, c0, s)
           /\ \A k \in 1..Len(s) : g[k] = Absorb(g[k - 1], s[k])
<1>. DEFINE n == Len(s)
            step == [k \in 1..n |-> [c \in Cache |-> Absorb(c, s[k])]]
            Is(it) == it = [S \in SUBSET (1..n) |->
                              IF S = {} THEN c0
                              ELSE Absorb(it[S \ {Max(S)}], s[Max(S)])]
            chosen == CHOOSE it : Is(it)
<1>1. FoldLeft(Absorb, c0, s) = chosen[1..n]
  <2>1. DOMAIN s = 1..n
    OBVIOUS
  <2>. QED BY <2>1 DEF FoldLeft, MapThenFoldSet
<1>2. n \in Nat /\ step \in [1..n -> [Cache -> Cache]]
  <2>1. \A k \in 1..n : s[k] \in Event
    OBVIOUS
  <2>. QED BY <2>1, AbsorbType
<1>. HIDE DEF step
<1>3. PICK it : Iterates(n, Cache, c0, step, it)
  BY <1>2, Iteration DEF Steps
<1>4. ASSUME NEW S \in SUBSET (1..n), S # {}
      PROVE  Max(S) \in 1..n /\ S \ {Max(S)} \in SUBSET (1..n)
  <2>. HIDE DEF n
  <2>1. S \subseteq 0..n
    BY <1>2
  <2>. QED BY <1>2, <1>4, <2>1, Greatest
<1>5. Is(it)
  BY <1>3, <1>4 DEF step, Iterates
<1>6. Is(chosen)
  BY <1>5
<1>. HIDE DEF chosen
<1>7. \A k \in 1..n : chosen[1..k] = Absorb(chosen[1..(k - 1)], s[k])
  <2>. SUFFICES ASSUME NEW k \in 1..n
                PROVE  chosen[1..k] = Absorb(chosen[1..(k - 1)], s[k])
    OBVIOUS
  <2>. HIDE DEF n
  <2>1. /\ 1..k \in SUBSET (1..n) /\ 1..k # {}
        /\ Max(1..k) = k /\ (1..k) \ {k} = 1..(k - 1)
    BY <1>2, Beginnings
  <2>2. chosen[1..k] = Absorb(chosen[(1..k) \ {Max(1..k)}], s[Max(1..k)])
    BY <1>6, <2>1
  <2>. QED BY <2>1, <2>2
<1>8. chosen[1..0] = c0
  BY <1>6
<1>. DEFINE T == {k \in 0..n : chosen[1..k] \in Cache}
<1>9. 0..n \subseteq T
  <2>1. 0 \in T
    BY <1>2, <1>8
  <2>2. ASSUME NEW k \in 0..(n - 1), k \in T PROVE k + 1 \in T
    <3>1. k + 1 \in 1..n /\ (k + 1) - 1 = k /\ s[k + 1] \in Event
      OBVIOUS
    <3>2. chosen[1..(k + 1)] = Absorb(chosen[1..k], s[k + 1])
      BY <1>7, <3>1
    <3>3. Absorb(chosen[1..k], s[k + 1]) \in Cache
      BY <2>2, <3>1, AbsorbType
    <3>. QED BY <3>1, <3>2, <3>3
  <2>. HIDE DEF T
  <2>. QED BY <1>2, <2>1, <2>2, Reaches
<1>. DEFINE g == [k \in 0..n |-> chosen[1..k]]
<1>10. g \in [0..n -> Cache]
  BY <1>9
<1>11. \A k \in 1..n : g[k] = Absorb(g[k - 1], s[k])
  BY <1>7
<1>12. g[0] = c0 /\ g[n] = FoldLeft(Absorb, c0, s)
  BY <1>1, <1>2, <1>8
<1>. HIDE DEF g
<1>. QED
  BY <1>10, <1>11, <1>12


\* No event is folded away before it comes.
Fresh(s) == \A i, j \in DOMAIN s : i <= j => s[j].id \notin s[i].gone

\* What _sync_fold makes of the events of a run.
LEMMA SyncedRight ==
  ASSUME NEW c, Right(c), NEW s \in Seq(Event), IsPrefix(c.seen, s), Fresh(s)
  PROVE  Right(Synced(c, s)) /\ Synced(c, s).seen = s
<1>. DEFINE m == Len(c.seen)
            rest == SubSeq(s, m + 1, Len(s))
            n == Len(rest)
<1>1. /\ c \in Cache /\ c.seen \in Seq(Event) /\ m \in Nat /\ m <= Len(s)
      /\ \A i \in 1..m : c.seen[i] = s[i]
  <2>1. c \in Cache /\ c.seen \in Seq(Event)
    BY DEF Right, Cache
  <2>2. m \in Nat /\ m <= Len(s) /\ SubSeq(c.seen, 1, m) = SubSeq(s, 1, m)
    BY <2>1 DEF IsPrefix
  <2>3. \A i \in 1..m : SubSeq(c.seen, 1, m)[i] = c.seen[i] /\ SubSeq(s, 1, m)[i] = s[i]
    BY <2>1, <2>2
  <2>. QED BY <2>1, <2>2, <2>3
<1>. HIDE DEF m
<1>2. /\ rest \in Seq(Event) /\ n = Len(s) - m /\ n \in Nat
      /\ \A i \in 1..n : rest[i] = s[m + i]
  BY <1>1
<1>. HIDE DEF rest, n
<1>3. PICK g \in [0..n -> Cache] :
        /\ g[0] = c /\ g[n] = FoldLeft(Absorb, c, rest)
        /\ \A k \in 1..n : g[k] = Absorb(g[k - 1], rest[k])
  BY <1>1, <1>2, AbsorbFold DEF n
<1>. DEFINE S == {k \in 0..n : Right(g[k]) /\ g[k].seen = SubSeq(s, 1, m + k)}
<1>4. 0..n \subseteq S
  <2>1. 0 \in S
    <3>1. c.seen = SubSeq(s, 1, m)
      BY <1>1 DEF m
    <3>. QED BY <1>1, <1>2, <1>3, <3>1
  <2>2. ASSUME NEW k \in 0..(n - 1), k \in S PROVE k + 1 \in S
    <3>1. k + 1 \in 1..n /\ (k + 1) - 1 = k /\ k + 1 \in 0..n /\ m + k + 1 \in 1..Len(s)
          /\ m + (k + 1) = m + k + 1
      BY <1>1, <1>2
    <3>. DEFINE e == s[m + k + 1]
                d == g[k]
    <3>2. e \in Event /\ g[k + 1] = Absorb(d, e)
      BY <1>2, <1>3, <3>1
    <3>3. Right(d) /\ d.seen = SubSeq(s, 1, m + k)
      BY <2>2
    <3>4. e.id \notin d.gone
      <4>1. d.gone = Gone(SubSeq(s, 1, m + k))
        BY <3>3 DEF Right
      <4>2. SubSeq(s, 1, m + k) \in Seq(Event) /\ DOMAIN SubSeq(s, 1, m + k) = 1..(m + k)
            /\ \A i \in 1..(m + k) : SubSeq(s, 1, m + k)[i] = s[i]
        BY <1>1, <3>1
      <4>3. \A i \in 1..(m + k) : e.id \notin s[i].gone
        BY <1>1, <3>1 DEF Fresh
      <4>. HIDE DEF d, e
      <4>. QED BY <4>1, <4>2, <4>3 DEF Gone, ToSet
    <3>5. Append(SubSeq(s, 1, m + k), e) = SubSeq(s, 1, m + (k + 1))
      BY <1>1, <3>1
    <3>. HIDE DEF d, e
    <3>6. Right(g[k + 1]) /\ g[k + 1].seen = SubSeq(s, 1, m + (k + 1))
      BY <3>2, <3>3, <3>4, <3>5, AbsorbRight
    <3>. QED BY <3>1, <3>6
  <2>. HIDE DEF S
  <2>. QED BY <1>2, <2>1, <2>2, Reaches
<1>5. n \in S
  BY <1>2, <1>4
<1>6. SubSeq(s, 1, m + n) = s
  BY <1>1, <1>2
<1>7. Synced(c, s) = g[n]
  BY <1>3 DEF Synced, rest, m
<1>. QED BY <1>5, <1>6, <1>7

-----------------------------------------------------------------------------
(* The boundary of a compaction *)

\* A walk down from any number, until one where it stops.
Walk(n, stop, down, f) ==
  f = [b \in 0..n |-> IF b \in stop THEN b ELSE f[down[b]]]

\* down leads to smaller numbers until it stops.
Descends(n, stop, down) ==
  n \in Nat /\ \A b \in 0..n : b \notin stop => down[b] \in 0..(b - 1)

LEMMA WalkExists ==
  ASSUME NEW n, NEW stop, NEW down, Descends(n, stop, down)
  PROVE  \E f : Walk(n, stop, down, f)
<1>. USE DEF Descends
<1>. DEFINE S == {k \in 0..n : \E f : Walk(k, stop, down, f)}
<1>1. 0 \in S
  <2>1. 0 \in 0..n /\ 0 \in stop
    OBVIOUS
  <2>2. Walk(0, stop, down, [b \in 0..0 |-> b])
    <3>1. \A b \in 0..0 : b \in stop /\ b = 0
      BY <2>1
    <3>. QED BY <3>1 DEF Walk
  <2>. QED BY <2>1, <2>2
<1>2. ASSUME NEW k \in 0..(n - 1), k \in S PROVE k + 1 \in S
  <2>1. PICK f : Walk(k, stop, down, f)
    BY <1>2
  <2>. DEFINE g == [b \in 0..(k + 1) |->
                      IF b \in 0..k THEN f[b] ELSE IF b \in stop THEN b ELSE f[down[b]]]
  <2>2. k + 1 \in 0..n /\ \A b \in 0..k : b \in 0..n
    OBVIOUS
  <2>3. ASSUME NEW b \in 0..(k + 1)
        PROVE  g[b] = IF b \in stop THEN b ELSE g[down[b]]
    <3>1. CASE b \in 0..k
      <4>1. b \notin stop => down[b] \in 0..k
        BY <2>2, <3>1
      <4>2. f[b] = IF b \in stop THEN b ELSE f[down[b]]
        BY <2>1, <3>1 DEF Walk
      <4>. QED BY <3>1, <4>1, <4>2
    <3>2. CASE b = k + 1
      <4>1. b \notin stop => down[b] \in 0..k
        BY <2>2, <3>2
      <4>2. b \notin 0..k
        BY <3>2
      <4>. QED BY <3>2, <4>1, <4>2
    <3>. QED BY <3>1, <3>2
  <2>4. Walk(k + 1, stop, down, g)
    <3>1. g = [b \in 0..(k + 1) |-> g[b]]
      OBVIOUS
    <3>. HIDE DEF g
    <3>. QED BY <2>3, <3>1 DEF Walk
  <2>. QED BY <2>2, <2>4
<1>3. n \in S
  <2>. HIDE DEF S
  <2>1. 0..n \subseteq S
    BY <1>1, <1>2, Reaches
  <2>. QED BY <2>1
<1>. QED BY <1>3

\* It ends where it stops, no higher than it began, and passes no place below
\* which no step leads.
LEMMA WalkEnds ==
  ASSUME NEW n, NEW stop, NEW down, Descends(n, stop, down),
         NEW f, Walk(n, stop, down, f),
         NEW low \in Nat, \A b \in 0..n : b >= low /\ b \notin stop => down[b] >= low,
         NEW b \in 0..n
  PROVE  f[b] \in 0..b /\ f[b] \in stop /\ (b >= low => f[b] >= low)
<1>. USE DEF Descends
<1>. DEFINE Ends(x) == f[x] \in 0..x /\ f[x] \in stop /\ (x >= low => f[x] >= low)
            T == {x \in 0..n : ~Ends(x)}
<1>. SUFFICES ASSUME T # {} PROVE FALSE
  BY b \in 0..n
<1>1. PICK x \in T : \A y \in T : x <= y
  <2>1. T \subseteq Nat
    OBVIOUS
  <2>. QED BY <2>1, Least
<1>2. x \in 0..n /\ f[x] = IF x \in stop THEN x ELSE f[down[x]]
  BY DEF Walk
<1>3. CASE x \in stop
  BY <1>2, <1>3
<1>4. CASE x \notin stop
  <2>1. down[x] \in 0..(x - 1) /\ down[x] \in 0..n
    BY <1>2, <1>4
  <2>2. down[x] \notin T
    BY <1>1, <2>1
  <2>3. Ends(down[x])
    BY <2>1, <2>2
  <2>4. x >= low => down[x] >= low
    BY <1>2, <1>4
  <2>5. Ends(x)
    BY <1>2, <1>4, <2>1, <2>3, <2>4
  <2>. QED BY <2>5
<1>. QED BY <1>3, <1>4

\* A place to cut: no result behind it has its response before it.
Cut(s, b) ==
  \A i \in (b + 1)..Len(s) : s[i].kind = "result" => Origin(s, s[i].calls) \notin 1..b

\* What the origin of some calls is.
LEMMA OriginRange ==
  ASSUME NEW s \in Seq(Event), NEW calls
  PROVE  /\ Origin(s, calls) \in 0..Len(s)
         /\ Origin(s, calls) # 0 => /\ s[Origin(s, calls)].kind = "response"
                                    /\ calls \subseteq s[Origin(s, calls)].calls
         /\ \A i \in 1..Len(s) : s[i].kind = "response" /\ calls \subseteq s[i].calls =>
              i <= Origin(s, calls)
<1>. DEFINE I == {i \in 1..Len(s) : s[i].kind = "response" /\ calls \subseteq s[i].calls}
<1>1. Origin(s, calls) = IF I # {} THEN Max(I) ELSE 0
  BY DEF Origin, SelectLastInSeq
<1>2. Len(s) \in Nat /\ I \subseteq 0..Len(s)
  OBVIOUS
<1>3. I # {} => Max(I) \in I /\ \A i \in I : i <= Max(I)
  <2>. HIDE DEF I
  <2>. QED BY <1>2, Greatest
<1>. DEFINE o == Origin(s, calls)
<1>4. o \in 0..Len(s) /\ (o # 0 => o \in I) /\ \A i \in I : i <= o
  <2>1. \A i \in I : i \in 1..Len(s)
    OBVIOUS
  <2>. HIDE DEF I
  <2>2. CASE I = {}
    BY <1>1, <1>2, <2>2
  <2>3. CASE I # {}
    <3>1. o = Max(I)
      BY <1>1, <2>3
    <3>. HIDE DEF o
    <3>. QED BY <1>2, <1>3, <2>1, <2>3, <3>1
  <2>. QED BY <2>2, <2>3
<1>. HIDE DEF o
<1>5. /\ o # 0 => s[o].kind = "response" /\ calls \subseteq s[o].calls
      /\ \A i \in 1..Len(s) : s[i].kind = "response" /\ calls \subseteq s[i].calls => i <= o
  BY <1>4
<1>. QED BY <1>4, <1>5 DEF o

\* compaction_boundary: where it retreats to, the retained tail has no result
\* whose response is in front of it, and no place further on that leaves the
\* last few events is one.
THEOREM BoundaryIsCut ==
  ASSUME NEW s \in Seq(Event)
  PROVE  /\ Boundary(s) \in 0..Len(s) /\ Cut(s, Boundary(s))
         /\ Boundary(s) > 0 => Boundary(s) <= Len(s) - RecentKeep
         /\ \A b \in 0..(Len(s) - RecentKeep) : Cut(s, b) => b <= Boundary(s)
<1>. DEFINE n == Len(s)
            I(b) == {i \in (b + 1)..n : s[i].kind = "result" /\ Origin(s, s[i].calls) \in 1..b}
            Split(b) == IF I(b) # {} THEN Min(I(b)) ELSE 0
            stop == {b \in 0..n : b = 0 \/ Split(b) = 0}
            down == [b \in 0..n |-> Origin(s, s[Split(b)].calls) - 1]
            Is(f) == f = [b \in 0..n |-> IF b = 0 \/ Split(b) = 0 THEN b
                                         ELSE f[Origin(s, s[Split(b)].calls) - 1]]
            chosen == CHOOSE f : Is(f)
<1>1. n \in Nat /\ RecentKeep \in Nat
  BY KeepAssumption
<1>2. ASSUME NEW b \in 0..n, I(b) # {} PROVE Split(b) \in I(b)
  <2>1. I(b) \subseteq Nat
    BY <1>1
  <2>. HIDE DEF I
  <2>2. PICK i \in I(b) : \A j \in I(b) : i <= j
    BY <1>2, <2>1, Least
  <2>3. Min(I(b)) \in I(b)
    BY <2>2 DEF Min
  <2>. QED BY <1>2, <2>3
<1>3. ASSUME NEW b \in 0..n
      PROVE  /\ Split(b) = 0 <=> I(b) = {}
             /\ b \notin stop => Split(b) \in I(b) /\ down[b] \in 0..(b - 1)
                                 /\ down[b] = Origin(s, s[Split(b)].calls) - 1
  <2>1. 0 \notin I(b)
    OBVIOUS
  <2>2. Split(b) = 0 <=> I(b) = {}
    <3>. HIDE DEF I
    <3>. QED BY <1>2, <2>1
  <2>3. ASSUME b \notin stop PROVE Split(b) \in I(b)
    <3>. HIDE DEF I
    <3>. QED BY <1>2, <2>2, <2>3
  <2>4. ASSUME b \notin stop PROVE Origin(s, s[Split(b)].calls) \in 1..b
    <3>. HIDE DEF Split
    <3>. QED BY <2>3, <2>4
  <2>. HIDE DEF I, Split, stop
  <2>. QED BY <2>2, <2>3, <2>4
<1>. HIDE DEF I, Split
<1>4. Descends(n, stop, down)
  BY <1>1, <1>3 DEF Descends
<1>5. \A f : Is(f) <=> Walk(n, stop, down, f)
  <2>1. \A b \in 0..n : (b = 0 \/ Split(b) = 0) <=> b \in stop
    OBVIOUS
  <2>2. \A b \in 0..n : down[b] = Origin(s, s[Split(b)].calls) - 1
    OBVIOUS
  <2>. HIDE DEF stop, down
  <2>. QED BY <2>1, <2>2 DEF Walk
<1>6. Walk(n, stop, down, chosen)
  <2>. HIDE DEF stop, down, Is
  <2>1. PICK f : Walk(n, stop, down, f)
    BY <1>4, WalkExists
  <2>2. Is(f)
    BY <1>5, <2>1
  <2>3. Is(chosen)
    BY <2>2
  <2>. QED BY <1>5, <2>3
<1>7. Boundary(s) = IF n <= RecentKeep THEN 0 ELSE chosen[n - RecentKeep]
  BY DEF Boundary, SelectInSubSeq, Split, I
<1>8. \A b \in stop : b \in 0..n /\ Cut(s, b)
  <2>. SUFFICES ASSUME NEW b \in stop PROVE b \in 0..n /\ Cut(s, b)
    OBVIOUS
  <2>1. b \in 0..n /\ (b = 0 \/ I(b) = {})
    BY <1>3
  <2>. QED BY <2>1 DEF Cut, I
<1>9. ASSUME NEW low \in Nat, Cut(s, low), NEW b \in 0..n, b >= low, b \notin stop
      PROVE  down[b] >= low
  <2>1. /\ Split(b) \in (b + 1)..n /\ s[Split(b)].kind = "result"
        /\ Origin(s, s[Split(b)].calls) \in 1..b
    BY <1>3, <1>9 DEF I
  <2>2. Split(b) \in (low + 1)..n
    BY <1>9, <2>1
  <2>3. Origin(s, s[Split(b)].calls) \notin 1..low
    BY <1>9, <2>1, <2>2 DEF Cut
  <2>4. down[b] = Origin(s, s[Split(b)].calls) - 1
    OBVIOUS
  <2>. HIDE DEF down
  <2>. QED BY <2>1, <2>3, <2>4
<1>. HIDE DEF stop, down, chosen
<1>10. CASE n <= RecentKeep
  <2>1. Boundary(s) = 0 /\ Cut(s, 0)
    BY <1>7, <1>10 DEF Cut
  <2>. HIDE DEF n
  <2>2. \A b \in 0..(n - RecentKeep) : b <= 0
    BY <1>1, <1>10
  <2>3. Boundary(s) \in 0..n /\ ~(Boundary(s) > 0)
    BY <1>1, <2>1
  <2>. QED BY <2>1, <2>2, <2>3 DEF n
<1>11. CASE n > RecentKeep
  <2>. DEFINE top == n - RecentKeep
  <2>1. top \in 0..n /\ Boundary(s) = chosen[top]
    BY <1>1, <1>7, <1>11
  <2>. HIDE DEF top
  <2>2. Cut(s, 0)
    BY DEF Cut
  <2>3. ASSUME NEW low \in Nat, Cut(s, low)
        PROVE  chosen[top] \in 0..top /\ chosen[top] \in stop /\ (top >= low => chosen[top] >= low)
    <3>1. \A b \in 0..n : b >= low /\ b \notin stop => down[b] >= low
      BY <1>9, <2>3
    <3>. QED BY <1>4, <1>6, <2>1, <3>1, WalkEnds
  <2>4. chosen[top] \in 0..top /\ chosen[top] \in stop
    BY <2>2, <2>3
  <2>5. Boundary(s) \in 0..n /\ Cut(s, Boundary(s)) /\ Boundary(s) <= top
    BY <1>8, <2>1, <2>4
  <2>6. \A b \in 0..top : Cut(s, b) => b <= Boundary(s)
    BY <2>1, <2>3
  <2>. QED BY <2>5, <2>6 DEF top
<1>. QED BY <1>1, <1>10, <1>11

-----------------------------------------------------------------------------
(* Repair, and the events that a response is followed by *)

LEMMA RepairedType ==
  ASSUME NEW kept \in Seq(Event), NEW e \in Event, NEW dropped, NEW restored
  PROVE  /\ [e EXCEPT !.gone = @ \ restored] \in Event
         /\ Repaired(kept, e, dropped, restored) \in Seq(Event)
<1>1. [e EXCEPT !.gone = @ \ restored] \in Event
  BY DEF Event
<1>. QED BY <1>1 DEF Repaired

\* The logs copied so far, event by event.
Copyings(s, dropped, restored) ==
  {g \in [0..Len(s) -> Seq(Event)] :
     /\ g[0] = <<>> /\ g[Len(s)] = Copied(s, dropped, restored)
     /\ \A k \in 1..Len(s) : g[k] = Repaired(g[k - 1], s[k], dropped, restored)}

\* A copy, event by event.
LEMMA RepairFold ==
  ASSUME NEW s \in Seq(Event), NEW dropped, NEW restored
  PROVE  Copyings(s, dropped, restored) # {}
<1>. DEFINE n == Len(s)
            step == [k \in 1..n |-> [c \in Seq(Event) |-> Repaired(c, s[k], dropped, restored)]]
            Is(it) == it = [S \in SUBSET (1..n) |->
                              IF S = {} THEN <<>>
                              ELSE Repaired(it[S \ {Max(S)}], s[Max(S)], dropped, restored)]
            chosen == CHOOSE it : Is(it)
<1>1. Copied(s, dropped, restored) = chosen[1..n]
  <2>1. DOMAIN s = 1..n
    OBVIOUS
  <2>. QED BY <2>1 DEF Copied, FoldLeft, MapThenFoldSet
<1>2. n \in Nat /\ <<>> \in Seq(Event) /\ step \in [1..n -> [Seq(Event) -> Seq(Event)]]
  <2>1. \A k \in 1..n : s[k] \in Event
    OBVIOUS
  <2>2. \A k \in 1..n : \A c \in Seq(Event) :
          Repaired(c, s[k], dropped, restored) \in Seq(Event)
    BY <2>1, RepairedType
  <2>. QED BY <2>2
<1>. HIDE DEF step
<1>3. PICK it : Iterates(n, Seq(Event), <<>>, step, it)
  BY <1>2, Iteration DEF Steps
<1>4. ASSUME NEW S \in SUBSET (1..n), S # {}
      PROVE  Max(S) \in 1..n /\ S \ {Max(S)} \in SUBSET (1..n)
  <2>. HIDE DEF n
  <2>1. S \subseteq 0..n
    BY <1>2
  <2>. QED BY <1>2, <1>4, <2>1, Greatest
<1>5. Is(it)
  BY <1>3, <1>4 DEF step, Iterates
<1>6. Is(chosen)
  BY <1>5
<1>. HIDE DEF chosen
<1>7. \A k \in 1..n : chosen[1..k] = Repaired(chosen[1..(k - 1)], s[k], dropped, restored)
  <2>. SUFFICES ASSUME NEW k \in 1..n
                PROVE  chosen[1..k] = Repaired(chosen[1..(k - 1)], s[k], dropped, restored)
    OBVIOUS
  <2>. HIDE DEF n
  <2>1. /\ 1..k \in SUBSET (1..n) /\ 1..k # {}
        /\ Max(1..k) = k /\ (1..k) \ {k} = 1..(k - 1)
    BY <1>2, Beginnings
  <2>2. chosen[1..k] = Repaired(chosen[(1..k) \ {Max(1..k)}], s[Max(1..k)], dropped, restored)
    BY <1>6, <2>1
  <2>. QED BY <2>1, <2>2
<1>8. chosen[1..0] = <<>>
  BY <1>6
<1>. DEFINE T == {k \in 0..n : chosen[1..k] \in Seq(Event)}
<1>9. 0..n \subseteq T
  <2>1. 0 \in T
    <3>1. chosen[1..0] \in Seq(Event)
      BY <1>8
    <3>2. 0 \in 0..n
      BY <1>2
    <3>. QED BY <3>1, <3>2
  <2>2. ASSUME NEW k \in 0..(n - 1), k \in T PROVE k + 1 \in T
    <3>1. k + 1 \in 1..n /\ (k + 1) - 1 = k /\ s[k + 1] \in Event
      OBVIOUS
    <3>2. chosen[1..(k + 1)] = Repaired(chosen[1..k], s[k + 1], dropped, restored)
      BY <1>7, <3>1
    <3>3. Repaired(chosen[1..k], s[k + 1], dropped, restored) \in Seq(Event)
      BY <2>2, <3>1, RepairedType
    <3>. QED BY <3>1, <3>2, <3>3
  <2>. HIDE DEF T
  <2>. QED BY <1>2, <2>1, <2>2, Reaches
<1>. DEFINE g == [k \in 0..n |-> chosen[1..k]]
<1>10. g \in [0..n -> Seq(Event)]
  BY <1>9
<1>11. \A k \in 1..n : g[k] = Repaired(g[k - 1], s[k], dropped, restored)
  BY <1>7
<1>12. g[0] = <<>> /\ g[n] = Copied(s, dropped, restored)
  BY <1>1, <1>2, <1>8
<1>. HIDE DEF g
<1>. QED
  BY <1>10, <1>11, <1>12 DEF Copyings

\* What is planned, and the plans that follow it.
Rows(c, s, P) == c \in Seq(P) /\ s \in Seq(Seq(P))
\* What is planned so far, answer by answer.
Plannings(c, s, P) ==
  {g \in [0..Len(s) -> Seq(P)] :
     /\ g[0] = c /\ g[Len(s)] = Planned(c, s)
     /\ \A k \in 1..Len(s) : g[k] = (g[k - 1] \o s[k])}

\* A plan, answer by answer.
LEMMA PlanFold ==
  ASSUME NEW P, NEW s, NEW c0, Rows(c0, s, P)
  PROVE  Plannings(c0, s, P) # {}
<1>. DEFINE n == Len(s)
            step == [k \in 1..n |-> [c \in Seq(P) |-> (c \o s[k])]]
            Is(it) == it = [S \in SUBSET (1..n) |->
                              IF S = {} THEN c0
                              ELSE (it[S \ {Max(S)}] \o s[Max(S)])]
            chosen == CHOOSE it : Is(it)
<1>0. c0 \in Seq(P) /\ s \in Seq(Seq(P))
  BY DEF Rows
<1>1. Planned(c0, s) = chosen[1..n]
  <2>1. DOMAIN s = 1..n
    BY <1>0
  <2>. QED BY <2>1 DEF Planned, FoldLeft, MapThenFoldSet
<1>2. n \in Nat /\ step \in [1..n -> [Seq(P) -> Seq(P)]]
  <2>1. n \in Nat /\ \A k \in 1..n : s[k] \in Seq(P)
    BY <1>0
  <2>. QED BY <2>1
<1>. HIDE DEF step
<1>3. PICK it : Iterates(n, Seq(P), c0, step, it)
  BY <1>0, <1>2, Iteration DEF Steps
<1>4. ASSUME NEW S \in SUBSET (1..n), S # {}
      PROVE  Max(S) \in 1..n /\ S \ {Max(S)} \in SUBSET (1..n)
  <2>. HIDE DEF n
  <2>1. S \subseteq 0..n
    BY <1>2
  <2>. QED BY <1>2, <1>4, <2>1, Greatest
<1>5. Is(it)
  BY <1>3, <1>4 DEF step, Iterates
<1>6. Is(chosen)
  BY <1>5
<1>. HIDE DEF chosen
<1>7. \A k \in 1..n : chosen[1..k] = (chosen[1..(k - 1)] \o s[k])
  <2>. SUFFICES ASSUME NEW k \in 1..n
                PROVE  chosen[1..k] = (chosen[1..(k - 1)] \o s[k])
    OBVIOUS
  <2>. HIDE DEF n
  <2>1. /\ 1..k \in SUBSET (1..n) /\ 1..k # {}
        /\ Max(1..k) = k /\ (1..k) \ {k} = 1..(k - 1)
    BY <1>2, Beginnings
  <2>2. chosen[1..k] = (chosen[(1..k) \ {Max(1..k)}] \o s[Max(1..k)])
    BY <1>6, <2>1
  <2>. QED BY <2>1, <2>2
<1>8. chosen[1..0] = c0
  BY <1>6
<1>. DEFINE T == {k \in 0..n : chosen[1..k] \in Seq(P)}
<1>9. 0..n \subseteq T
  <2>1. 0 \in T
    BY <1>0, <1>2, <1>8
  <2>2. ASSUME NEW k \in 0..(n - 1), k \in T PROVE k + 1 \in T
    <3>1. k + 1 \in 1..n /\ (k + 1) - 1 = k /\ s[k + 1] \in Seq(P)
      BY <1>0
    <3>2. chosen[1..(k + 1)] = (chosen[1..k] \o s[k + 1])
      BY <1>7, <3>1
    <3>3. (chosen[1..k] \o s[k + 1]) \in Seq(P)
      BY <2>2, <3>1
    <3>4. chosen[1..(k + 1)] \in Seq(P) /\ k + 1 \in 0..n
      BY <3>1, <3>2, <3>3
    <3>. QED BY <3>4
  <2>. HIDE DEF T
  <2>. QED BY <1>2, <2>1, <2>2, Reaches
<1>. DEFINE g == [k \in 0..n |-> chosen[1..k]]
<1>10. g \in [0..n -> Seq(P)]
  BY <1>9
<1>11. \A k \in 1..n : g[k] = (g[k - 1] \o s[k])
  <2>. SUFFICES ASSUME NEW k \in 1..n PROVE g[k] = (g[k - 1] \o s[k])
    OBVIOUS
  <2>1. g[k] = chosen[1..k] /\ g[k - 1] = chosen[1..(k - 1)]
    OBVIOUS
  <2>. HIDE DEF g
  <2>. QED BY <1>7, <2>1
<1>12. g[0] = c0 /\ g[n] = Planned(c0, s)
  BY <1>1, <1>2, <1>8
<1>. HIDE DEF g
<1>. QED
  BY <1>10, <1>11, <1>12 DEF Plannings



\* Events come in the order of their ids.
Ascending(s) == \A i, j \in DOMAIN s : i < j => s[i].id < s[j].id

\* Then none is folded away before it comes.
LEMMA AscendingFresh ==
  ASSUME NEW s \in Seq(Event), Ascending(s)
  PROVE  Fresh(s)
<1>. SUFFICES ASSUME NEW i \in DOMAIN s, NEW j \in DOMAIN s, i <= j
              PROVE  s[j].id \notin s[i].gone
  BY DEF Fresh
<1>1. s[i] \in Event /\ s[j] \in Event /\ i \in Nat /\ j \in Nat
  OBVIOUS
<1>2. s[i].gone \subseteq 1..(s[i].id - 1) /\ s[i].id \in Nat /\ s[j].id \in Nat
  BY <1>1 DEF Event
<1>3. s[i].id <= s[j].id
  BY <1>1, <1>2 DEF Ascending
<1>. QED BY <1>2, <1>3

\* A new event comes last.
LEMMA AscendingOn ==
  ASSUME NEW s \in Seq(Event), Ascending(s), NEW e \in Event,
         \A i \in DOMAIN s : s[i].id < e.id
  PROVE  Append(s, e) \in Seq(Event) /\ Ascending(Append(s, e))
<1>1. DOMAIN s = 1..Len(s) /\ DOMAIN Append(s, e) = 1..(Len(s) + 1)
      /\ \A i \in 1..Len(s) : Append(s, e)[i] = s[i]
  OBVIOUS
<1>2. Append(s, e)[Len(s) + 1] = e
  OBVIOUS
<1>3. ASSUME NEW i \in 1..(Len(s) + 1), NEW j \in 1..(Len(s) + 1), i < j
      PROVE  Append(s, e)[i].id < Append(s, e)[j].id
  <2>1. i \in 1..Len(s) /\ (j \in 1..Len(s) \/ j = Len(s) + 1)
    BY <1>3
  <2>. QED BY <1>1, <1>2, <1>3, <2>1 DEF Ascending
<1>. QED BY <1>1, <1>3 DEF Ascending

\* The first k events.
LEMMA AscendingCut ==
  ASSUME NEW s \in Seq(Event), Ascending(s), NEW k \in 0..Len(s)
  PROVE  /\ SubSeq(s, 1, k) \in Seq(Event) /\ Ascending(SubSeq(s, 1, k))
         /\ DOMAIN SubSeq(s, 1, k) = 1..k /\ \A i \in 1..k : SubSeq(s, 1, k)[i] = s[i]
<1>1. /\ SubSeq(s, 1, k) \in Seq(Event) /\ DOMAIN SubSeq(s, 1, k) = 1..k
      /\ \A i \in 1..k : SubSeq(s, 1, k)[i] = s[i]
  OBVIOUS
<1>2. 1..k \subseteq DOMAIN s
  OBVIOUS
<1>. DEFINE c == SubSeq(s, 1, k)
<1>3. \A i, j \in 1..k : i < j => s[i].id < s[j].id
  BY <1>2 DEF Ascending
<1>4. DOMAIN c = 1..k /\ \A i \in 1..k : c[i] = s[i]
  BY <1>1
<1>. HIDE DEF c
<1>5. Ascending(c)
  BY <1>3, <1>4 DEF Ascending
<1>. QED BY <1>1, <1>5 DEF c

\* A repaired log is one: some of its events, in their order.
LEMMA RepairKeeps ==
  ASSUME NEW s \in Seq(Event), Ascending(s)
  PROVE  /\ Repair(s) \in Seq(Event) /\ Ascending(Repair(s))
         /\ \A i \in DOMAIN Repair(s) : \E j \in DOMAIN s : Repair(s)[i].id = s[j].id
<1>. DEFINE n == Len(s)
            dropped == Dropped(s)
            restored == Restored(s)
<1>1. n \in Nat /\ DOMAIN s = 1..n /\ \A k \in 1..n : s[k] \in Event
  OBVIOUS
<1>. HIDE DEF dropped, restored
<1>2. PICK g \in [0..n -> Seq(Event)] :
        /\ g[0] = <<>> /\ g[n] = Copied(s, dropped, restored)
        /\ \A k \in 1..n : g[k] = Repaired(g[k - 1], s[k], dropped, restored)
  <2>1. Copyings(s, dropped, restored) # {}
    BY RepairFold
  <2>. QED BY <2>1 DEF Copyings
<1>. HIDE DEF n
<1>. DEFINE Good(k) == /\ Ascending(g[k])
                       /\ \A i \in DOMAIN g[k] : \E j \in 1..k : g[k][i].id = s[j].id
            S == {k \in 0..n : Good(k)}
<1>3. 0..n \subseteq S
  <2>1. 0 \in S
    <3>1. Good(0)
      BY <1>2 DEF Ascending
    <3>. QED BY <1>1, <3>1
  <2>2. ASSUME NEW k \in 0..(n - 1), k \in S PROVE k + 1 \in S
    <3>1. k + 1 \in 1..n /\ (k + 1) - 1 = k /\ k \in 0..n /\ k + 1 \in 0..n /\ k \in Nat
      BY <1>1
    <3>. DEFINE e == s[k + 1]
                d == [e EXCEPT !.gone = @ \ restored]
                old == g[k]
    <3>2. e \in Event /\ old \in Seq(Event) /\ d \in Event /\ d.id = e.id
      <4>1. e \in Event /\ old \in Seq(Event)
        BY <1>1, <3>1
      <4>2. d \in Event
        BY <4>1, <1>2, RepairedType
      <4>3. d.id = e.id
        BY <4>1 DEF Event
      <4>. QED BY <4>1, <4>2, <4>3
    <3>3. g[k + 1] = IF e.id \in dropped THEN old ELSE Append(old, d)
      BY <1>2, <3>1 DEF Repaired
    <3>4. \A j \in 1..k : s[j].id < e.id
      <4>. SUFFICES ASSUME NEW j \in 1..k PROVE s[j].id < s[k + 1].id
        OBVIOUS
      <4>1. j \in DOMAIN s /\ k + 1 \in DOMAIN s /\ j < k + 1
        BY <1>1, <3>1
      <4>. QED BY <4>1 DEF Ascending
    <3>5. Ascending(old) /\ \A i \in DOMAIN old : \E j \in 1..k : old[i].id = s[j].id
      BY <2>2
    <3>. HIDE DEF old, d
    <3>6. CASE e.id \in dropped
      <4>1. \A i \in DOMAIN old : \E j \in 1..(k + 1) : old[i].id = s[j].id
        BY <3>1, <3>5
      <4>2. Good(k + 1)
        BY <3>3, <3>5, <3>6, <4>1
      <4>. QED BY <3>1, <4>2
    <3>7. CASE e.id \notin dropped
      <4>1. Append(old, d) \in Seq(Event) /\ Ascending(Append(old, d))
        BY <3>2, <3>4, <3>5, AscendingOn
      <4>2. DOMAIN Append(old, d) = 1..(Len(old) + 1) /\ DOMAIN old = 1..Len(old)
            /\ Append(old, d)[Len(old) + 1] = d
            /\ \A i \in 1..Len(old) : Append(old, d)[i] = old[i]
        BY <3>2
      <4>3. \A i \in 1..(Len(old) + 1) : \E j \in 1..(k + 1) : Append(old, d)[i].id = s[j].id
        <5>. SUFFICES ASSUME NEW i \in 1..(Len(old) + 1)
                      PROVE  \E j \in 1..(k + 1) : Append(old, d)[i].id = s[j].id
          OBVIOUS
        <5>1. CASE i = Len(old) + 1
          BY <3>1, <3>2, <4>2, <5>1
        <5>2. CASE i \in 1..Len(old)
          <6>1. PICK j \in 1..k : old[i].id = s[j].id
            BY <3>5, <4>2, <5>2
          <6>. QED BY <3>1, <4>2, <5>2, <6>1
        <5>. QED BY <3>2, <5>1, <5>2
      <4>4. Good(k + 1)
        <5>1. g[k + 1] = Append(old, d)
          BY <3>3, <3>7
        <5>. QED BY <4>1, <4>2, <4>3, <5>1
      <4>. QED BY <3>1, <4>4
    <3>. QED BY <3>6, <3>7
  <2>. HIDE DEF S
  <2>. QED BY <1>1, <2>1, <2>2, Reaches
<1>4. n \in 0..n
  BY <1>1
<1>5. Good(n) /\ g[n] \in Seq(Event)
  BY <1>2, <1>3, <1>4
<1>6. Repair(s) = g[n]
  BY <1>2 DEF Repair, dropped, restored
<1>. QED BY <1>1, <1>5, <1>6

\* The answers to some calls are planned after what is planned already.
LEMMA PlanKeeps ==
  ASSUME NEW P, NEW s \in Seq(Seq(P)), NEW base \in Seq(P)
  PROVE  Planned(base, s) \in Seq(P) /\ Len(Planned(base, s)) >= Len(base)
<1>. DEFINE n == Len(s)
<1>1. PICK g \in [0..Len(s) -> Seq(P)] :
        /\ g[0] = base /\ g[Len(s)] = Planned(base, s)
        /\ \A k \in 1..Len(s) : g[k] = (g[k - 1] \o s[k])
  <2>1. Rows(base, s, P)
    BY DEF Rows
  <2>2. Plannings(base, s, P) # {}
    BY <2>1, PlanFold
  <2>. QED BY <2>2 DEF Plannings
<1>2. n \in Nat /\ \A k \in 1..n : s[k] \in Seq(P)
  OBVIOUS
<1>a. g \in [0..n -> Seq(P)] /\ g[0] = base /\ g[n] = Planned(base, s)
      /\ \A k \in 1..n : g[k] = (g[k - 1] \o s[k])
  BY <1>1
<1>. HIDE DEF n
<1>. DEFINE S == {k \in 0..n : Len(g[k]) >= Len(base)}
<1>3. 0..n \subseteq S
  <2>1. 0 \in S
    BY <1>a, <1>2
  <2>2. ASSUME NEW k \in 0..(n - 1), k \in S PROVE k + 1 \in S
    <3>1. k + 1 \in 1..n /\ (k + 1) - 1 = k /\ k \in 0..n /\ k + 1 \in 0..n
      BY <1>2
    <3>2. g[k + 1] = g[k] \o s[k + 1] /\ g[k] \in Seq(P) /\ s[k + 1] \in Seq(P)
      BY <1>a, <1>2, <3>1
    <3>3. Len(g[k + 1]) = Len(g[k]) + Len(s[k + 1]) /\ Len(s[k + 1]) \in Nat /\ Len(g[k]) \in Nat
      BY <3>2
    <3>4. Len(g[k]) >= Len(base) /\ Len(base) \in Nat
      BY <2>2
    <3>. DEFINE x == Len(g[k]) y == Len(s[k + 1]) z == Len(g[k + 1]) l == Len(base)
    <3>5. x \in Nat /\ y \in Nat /\ z = x + y /\ x >= l /\ l \in Nat
      BY <3>3, <3>4
    <3>. HIDE DEF x, y, z, l
    <3>6. z >= l
      BY <3>5
    <3>. USE DEF z, l
    <3>. QED BY <3>1, <3>6
  <2>. HIDE DEF S
  <2>. QED BY <1>2, <2>1, <2>2, Reaches
<1>. QED BY <1>a, <1>2, <1>3

\* What is planned after a response: its own calls are answered, by one each.
PlanOf(C) == {p \in Plan : p.kind = "result" => \E c \in C : p.calls = {c}}

\* What follows a response answers calls of that response.
LEMMA TurnsType ==
  ASSUME NEW calls \in Seq(CallIds), calls # <<>>, NEW t \in Turns(calls)
  PROVE  t \in Seq(PlanOf(ToSet(calls))) /\ t # <<>>
<1>. DEFINE C == ToSet(calls)
            notes == [i \in DOMAIN calls |-> [kind |-> "note", calls |-> {}]]
            Answers == UNION {Answer(c) : c \in C}
<1>1. DOMAIN calls = 1..Len(calls) /\ Len(calls) \in Nat /\ C \subseteq CallIds
      /\ Len(calls) > 0
  BY DEF ToSet
<1>. HIDE DEF C
<1>2. /\ [kind |-> "note", calls |-> {}] \in PlanOf(C)
      /\ [kind |-> "user", calls |-> {}] \in PlanOf(C)
      /\ \A c \in C : [kind |-> "result", calls |-> {c}] \in PlanOf(C)
  BY <1>1 DEF PlanOf, Plan
<1>3. Answers \subseteq Seq(PlanOf(C))
  <2>. SUFFICES ASSUME NEW c \in C PROVE Answer(c) \subseteq Seq(PlanOf(C))
    OBVIOUS
  <2>. DEFINE x == [kind |-> "note", calls |-> {}]
              y == [kind |-> "user", calls |-> {}]
              z == [kind |-> "result", calls |-> {c}]
  <2>1. x \in PlanOf(C) /\ y \in PlanOf(C) /\ z \in PlanOf(C)
    BY <1>2
  <2>2. Answer(c) = {<<z>>, <<x>> \o <<z>>, <<x>> \o <<z>> \o <<y>>}
    BY DEF Answer
  <2>. HIDE DEF x, y, z
  <2>. QED BY <2>1, <2>2
<1>4. PICK a \in [DOMAIN calls -> Answers] : t = Planned(notes, a)
  BY DEF Turns, C
<1>. HIDE DEF Answers
<1>5. a \in Seq(Seq(PlanOf(C)))
  BY <1>1, <1>3, <1>4
<1>6. notes \in Seq(PlanOf(C)) /\ Len(notes) = Len(calls)
  BY <1>1, <1>2
<1>. HIDE DEF notes
<1>7. t \in Seq(PlanOf(C)) /\ Len(t) >= Len(notes)
  BY <1>4, <1>5, <1>6, PlanKeeps
<1>. QED BY <1>1, <1>6, <1>7 DEF C

-----------------------------------------------------------------------------
(* The runs of a session *)

\* Events of which each has its position for an id.
Positions(s) == s \in Seq(Event) /\ \A i \in DOMAIN s : s[i].id = i

\* A new event has the next id.
LEMMA NewIsEvent ==
  ASSUME Positions(stored), NEW kind \in MessageKinds \cup {"compaction", "note"},
         NEW calls \in SUBSET CallIds, NEW tokens \in Nat, NEW gone \in SUBSET (1..Len(stored)),
         kind # "compaction" => gone = {}
  PROVE  New(kind, calls, tokens, gone) \in Event
         /\ New(kind, calls, tokens, gone).id = Len(stored) + 1
<1>1. Len(stored) \in Nat
  BY DEF Positions
<1>. DEFINE e == New(kind, calls, tokens, gone)
<1>2. /\ e.id = Len(stored) + 1 /\ e.gone = gone /\ e.kind = kind
      /\ e \in [id : Nat \ {0}, kind : MessageKinds \cup {"compaction", "note"},
                calls : SUBSET CallIds, tokens : Nat, gone : SUBSET Nat]
  BY <1>1 DEF New
<1>3. e.gone \subseteq 1..(e.id - 1)
  BY <1>1, <1>2
<1>. QED BY <1>2, <1>3 DEF Event

\* The store grows by an event whose id is the next position.
LEMMA StoreGrows ==
  ASSUME NEW s, Positions(s), NEW e \in Event, e.id = Len(s) + 1
  PROVE  Positions(Append(s, e)) /\ Len(Append(s, e)) = Len(s) + 1
<1>1. s \in Seq(Event) /\ DOMAIN s = 1..Len(s) /\ Len(s) \in Nat
  BY DEF Positions
<1>2. /\ Append(s, e) \in Seq(Event) /\ Len(Append(s, e)) = Len(s) + 1
      /\ DOMAIN Append(s, e) = 1..(Len(s) + 1)
      /\ Append(s, e)[Len(s) + 1] = e
      /\ \A i \in 1..Len(s) : Append(s, e)[i] = s[i]
  BY <1>1
<1>3. \A i \in 1..(Len(s) + 1) : Append(s, e)[i].id = i
  <2>. SUFFICES ASSUME NEW i \in 1..(Len(s) + 1) PROVE Append(s, e)[i].id = i
    OBVIOUS
  <2>1. CASE i = Len(s) + 1
    BY <1>2, <2>1
  <2>2. CASE i \in 1..Len(s)
    BY <1>1, <1>2, <2>2 DEF Positions
  <2>. QED BY <1>1, <2>1, <2>2
<1>. QED BY <1>2, <1>3 DEF Positions

\* The events of a run are in the order of their ids, which are those of
\* stored events.
InStore(s, m) == s \in Seq(Event) /\ Ascending(s) /\ \A i \in DOMAIN s : s[i].id <= m

\* A run that keeps a new event has its events in order.
LEMMA InStoreOn ==
  ASSUME NEW s, NEW m \in Nat, InStore(s, m), NEW e \in Event, e.id > m, NEW k \in Nat, e.id <= k
  PROVE  InStore(Append(s, e), k)
<1>1. s \in Seq(Event) /\ \A i \in DOMAIN s : s[i].id \in Nat /\ s[i].id <= m
  BY DEF InStore, Event
<1>2. e.id \in Nat
  BY DEF Event
<1>3. Append(s, e) \in Seq(Event) /\ Ascending(Append(s, e))
  BY <1>1, <1>2, AscendingOn DEF InStore
<1>4. /\ DOMAIN Append(s, e) = 1..(Len(s) + 1) /\ DOMAIN s = 1..Len(s) /\ Len(s) \in Nat
      /\ Append(s, e)[Len(s) + 1] = e
      /\ \A i \in 1..Len(s) : Append(s, e)[i] = s[i]
  BY <1>1
<1>5. \A i \in 1..(Len(s) + 1) : Append(s, e)[i].id <= k
  <2>. SUFFICES ASSUME NEW i \in 1..(Len(s) + 1) PROVE Append(s, e)[i].id <= k
    OBVIOUS
  <2>1. CASE i = Len(s) + 1
    BY <1>4, <2>1
  <2>2. CASE i \in 1..Len(s)
    BY <1>1, <1>2, <1>4, <2>2
  <2>. QED BY <1>4, <2>1, <2>2
<1>. QED BY <1>3, <1>4, <1>5 DEF InStore

\* A prefix of the events of a run is one of more of them.
LEMMA PrefixOn ==
  ASSUME NEW p \in Seq(Event), NEW s \in Seq(Event), IsPrefix(p, s), NEW e \in Event
  PROVE  IsPrefix(p, Append(s, e))
<1>1. Len(p) <= Len(s) /\ SubSeq(p, 1, Len(p)) = SubSeq(s, 1, Len(p))
  BY DEF IsPrefix
<1>2. Len(p) <= Len(Append(s, e)) /\ SubSeq(Append(s, e), 1, Len(p)) = SubSeq(s, 1, Len(p))
  BY <1>1
<1>. QED BY <1>1, <1>2 DEF IsPrefix

LEMMA PrefixSelf ==
  ASSUME NEW s \in Seq(Event)
  PROVE  IsPrefix(s, s) /\ IsPrefix(s \o <<>>, s)
<1>1. s \o <<>> = s
  OBVIOUS
<1>. QED BY <1>1 DEF IsPrefix

\* The cache of a run that begins.
LEMMA EmptyRight ==
  ASSUME NEW s \in Seq(Event)
  PROVE  Right(EmptyCache) /\ IsPrefix(EmptyCache.seen, s)
<1>1. /\ EmptyCache.seen = <<>> /\ EmptyCache.gone = {} /\ EmptyCache.messages = <<>>
      /\ EmptyCache.summary = 0 /\ EmptyCache.tokens = 0 /\ EmptyCache \in Cache
  BY DEF EmptyCache, Cache
<1>2. Gone(<<>>) = {}
  BY DEF Gone, ToSet
<1>3. Folded(<<>>, {}) = Nothing
  <2>1. [id |-> 1, kind |-> "note", calls |-> {}, tokens |-> 0, gone |-> {}] \in Event
    BY DEF Event
  <2>2. <<>> \in Seq(Event)
    OBVIOUS
  <2>. QED BY <2>1, <2>2, ReadOn
<1>4. IsPrefix(<<>>, s)
  BY DEF IsPrefix
<1>. QED BY <1>1, <1>2, <1>3, <1>4 DEF Right, Nothing

\* What every session keeps: the events of a run are stored ones, in order,
\* and the cache is the fold of some first of them.
Held ==
  /\ TypeOK
  /\ Right(cache)
  /\ IsPrefix(cache.seen, log)
  /\ InStore(log, Len(stored))

\* The cache after a step that reads the events.
LEMMA HeldSynced ==
  ASSUME Held
  PROVE  Right(Synced(cache, log)) /\ Synced(cache, log).seen = log
<1>1. log \in Seq(Event) /\ Ascending(log)
  BY DEF Held, InStore
<1>2. Fresh(log)
  BY <1>1, AscendingFresh
<1>. QED BY <1>1, <1>2, SyncedRight DEF Held

LEMMA HeldStart == Init => Held
<1>. SUFFICES ASSUME Init PROVE Held
  OBVIOUS
<1>1. Positions(stored)
  BY LogAssumption DEF Init, Positions
<1>2. log \in Seq(Event) /\ log = <<>> /\ Len(stored) \in Nat
  BY <1>1 DEF Init, Positions
<1>3. TypeOK
  BY <1>1, <1>2 DEF Init, TypeOK, Positions, Plan
<1>4. InStore(log, Len(stored))
  BY <1>2 DEF InStore, Ascending
<1>. QED BY <1>2, <1>3, <1>4, EmptyRight DEF Init, Held

\* A run that begins on events of the store.
LEMMA HeldBegin ==
  ASSUME Held, NEW events, InStore(events, Len(stored')), Begin(events),
         Positions(stored'), Len(stored) <= Len(stored'), UNCHANGED setting
  PROVE  Held'
<1>1. events \in Seq(Event) /\ log' = events /\ cache' = EmptyCache
  BY DEF InStore, Begin
<1>2. Right(cache') /\ IsPrefix(cache'.seen, log')
  BY <1>1, EmptyRight
<1>3. TypeOK'
  <2>1. <<[kind |-> "user", calls |-> {}]>> \in Seq(Plan)
    BY DEF Plan
  <2>2. Len(stored) \in Nat /\ Len(stored') \in Nat
        /\ DOMAIN stored = 1..Len(stored) /\ DOMAIN stored' = 1..Len(stored')
    BY DEF Held, TypeOK, Positions
  <2>3. DOMAIN saw' \subseteq DOMAIN stored'
    BY <2>2 DEF Held, TypeOK, Begin
  <2>. QED BY <1>1, <2>1, <2>3 DEF Held, TypeOK, Begin, Positions
<1>. QED BY <1>1, <1>2, <1>3 DEF Held

LEMMA HeldLoad == Held /\ Load /\ UNCHANGED setting => Held'
<1>. SUFFICES ASSUME Held, Load, UNCHANGED setting PROVE Held'
  OBVIOUS
<1>. DEFINE n == Len(stored)
            kept == Repair(stored)
<1>1. Positions(stored) /\ stored \in Seq(Event) /\ n \in Nat /\ DOMAIN stored = 1..n
  BY DEF Held, TypeOK, Positions
<1>2. Ascending(stored)
  BY <1>1 DEF Ascending, Positions
<1>3. InStore(kept, n)
  <2>1. /\ kept \in Seq(Event) /\ Ascending(kept)
        /\ \A i \in DOMAIN kept : \E j \in DOMAIN stored : kept[i].id = stored[j].id
    BY <1>1, <1>2, RepairKeeps
  <2>2. \A j \in DOMAIN stored : stored[j].id <= n
    BY <1>1 DEF Positions
  <2>. HIDE DEF n, kept
  <2>. QED BY <2>1, <2>2 DEF InStore
<1>4. CASE Orphans(stored) = {}
  <2>1. stored' = stored \o <<>> /\ Begin(kept \o <<>>)
    BY <1>4 DEF Load
  <2>2. kept \o <<>> = kept /\ stored \o <<>> = stored
    BY <1>1, <1>3 DEF InStore
  <2>. HIDE DEF n, kept
  <2>. QED BY <1>1, <1>3, <2>1, <2>2, HeldBegin DEF n
<1>5. CASE Orphans(stored) # {}
  <2>1. Note \in Event /\ Note.id = n + 1
    BY <1>1, NewIsEvent DEF Note
  <2>2. stored' = stored \o <<Note>> /\ Begin(kept \o <<Note>>)
    BY <1>5 DEF Load
  <2>3. kept \o <<Note>> = Append(kept, Note) /\ stored \o <<Note>> = Append(stored, Note)
    BY <1>1, <1>3, <2>1 DEF InStore
  <2>4. Positions(Append(stored, Note)) /\ Len(Append(stored, Note)) = n + 1
    BY <1>1, <2>1, StoreGrows
  <2>5. InStore(Append(kept, Note), n + 1)
    <3>. HIDE DEF n, kept
    <3>. QED BY <1>1, <1>3, <2>1, InStoreOn
  <2>6. Len(stored) <= Len(stored') /\ Len(stored') = n + 1
    BY <1>1, <2>2, <2>3, <2>4
  <2>. HIDE DEF n, kept
  <2>. QED BY <2>2, <2>3, <2>4, <2>5, <2>6, HeldBegin
<1>. QED BY <1>4, <1>5

LEMMA HeldRewind == Held /\ Rewind /\ UNCHANGED setting => Held'
<1>. SUFFICES ASSUME Held, Rewind, UNCHANGED setting PROVE Held'
  OBVIOUS
<1>. DEFINE n == Len(stored)
<1>1. Positions(stored) /\ stored \in Seq(Event) /\ n \in Nat /\ DOMAIN stored = 1..n
  BY DEF Held, TypeOK, Positions
<1>2. Ascending(stored)
  BY <1>1 DEF Ascending, Positions
<1>3. PICK i \in 1..n : Begin(SubSeq(stored, 1, i - 1))
  BY <1>1 DEF Rewind, Rewound
<1>4. i - 1 \in 0..n
  BY <1>1
<1>5. InStore(SubSeq(stored, 1, i - 1), n)
  <2>1. /\ SubSeq(stored, 1, i - 1) \in Seq(Event) /\ Ascending(SubSeq(stored, 1, i - 1))
        /\ DOMAIN SubSeq(stored, 1, i - 1) = 1..(i - 1)
        /\ \A j \in 1..(i - 1) : SubSeq(stored, 1, i - 1)[j] = stored[j]
    BY <1>1, <1>2, <1>4, AscendingCut
  <2>2. \A j \in 1..(i - 1) : stored[j].id <= n
    BY <1>1 DEF Positions
  <2>. QED BY <2>1, <2>2 DEF InStore
<1>6. stored' = stored
  BY DEF Rewind
<1>. HIDE DEF n
<1>. QED BY <1>1, <1>3, <1>5, <1>6, HeldBegin DEF n

\* The store and the run both get a new event.
LEMMA HeldKeep ==
  ASSUME Held, NEW e \in Event, e.id = Len(stored) + 1, Keep(e), UNCHANGED <<setting, saw>>,
         Right(cache'), IsPrefix(cache'.seen, log), phase' \in {"idle", "emit", "check", "ask"},
         todo' \in Seq(Plan), phase' = "emit" => todo' # <<>>, next' \in {"idle", "check"}
  PROVE  Held'
<1>1. Positions(stored) /\ log \in Seq(Event) /\ Len(stored) \in Nat
  BY DEF Held, TypeOK, Positions
<1>2. stored' = Append(stored, e) /\ log' = Append(log, e)
  BY DEF Keep
<1>3. Positions(stored') /\ Len(stored') = Len(stored) + 1
  BY <1>1, <1>2, StoreGrows
<1>4. InStore(log', Len(stored'))
  BY <1>1, <1>2, <1>3, InStoreOn DEF Held
<1>5. IsPrefix(cache'.seen, log')
  <2>1. cache'.seen \in Seq(Event)
    BY DEF Right, Cache
  <2>. QED BY <1>1, <1>2, <2>1, PrefixOn
<1>6. TypeOK'
  <2>1. DOMAIN stored \subseteq DOMAIN stored'
    BY <1>1, <1>3 DEF Positions
  <2>. QED BY <1>3, <1>4, <2>1 DEF Held, TypeOK, Positions, InStore
<1>. QED BY <1>4, <1>5, <1>6 DEF Held

LEMMA HeldEmit == Held /\ Emit /\ UNCHANGED setting => Held'
<1>. SUFFICES ASSUME Held, Emit, UNCHANGED setting PROVE Held'
  OBVIOUS
<1>1. /\ Positions(stored) /\ todo \in Seq(Plan) /\ todo # <<>>
      /\ phase \in {"idle", "emit", "check", "ask"} /\ next \in {"idle", "check"}
  BY DEF Held, TypeOK, Emit, Positions
<1>2. Head(todo) \in Plan /\ Tail(todo) \in Seq(Plan) /\ (Len(todo) # 1 => Tail(todo) # <<>>)
  <2>. DEFINE s == todo
  <2>1. s \in Seq(Plan) /\ Len(s) \in Nat /\ Len(s) # 0
    BY <1>1
  <2>. HIDE DEF s
  <2>2. Head(s) \in Plan /\ Tail(s) \in Seq(Plan)
    BY <2>1
  <2>3. Len(Tail(s)) = Len(s) - 1
    BY <2>1
  <2>4. Len(s) # 1 => Tail(s) # <<>>
    BY <2>1, <2>3
  <2>. QED BY <2>2, <2>4 DEF s
<1>3. /\ Head(todo).kind \in MessageKinds \cup {"compaction", "note"}
      /\ Head(todo).calls \in SUBSET CallIds /\ Head(todo).kind # "compaction"
  BY <1>2 DEF Plan, MessageKinds
<1>. DEFINE e == New(Head(todo).kind, Head(todo).calls, 0, {})
<1>4. e \in Event /\ e.id = Len(stored) + 1
  BY <1>1, <1>3, NewIsEvent
<1>5. Keep(e) /\ UNCHANGED <<setting, saw>>
  BY DEF Emit
<1>6. /\ phase' \in {"idle", "emit", "check", "ask"} /\ todo' \in Seq(Plan)
      /\ (phase' = "emit" => todo' # <<>>) /\ next' \in {"idle", "check"}
  BY <1>1, <1>2 DEF Emit
<1>7. Right(cache') /\ IsPrefix(cache'.seen, log)
  BY DEF Emit, Held
<1>. HIDE DEF e
<1>. QED BY <1>4, <1>5, <1>6, <1>7, HeldKeep

LEMMA HeldProceed == Held /\ Proceed /\ UNCHANGED setting => Held'
<1>. SUFFICES ASSUME Held, Proceed, UNCHANGED setting PROVE Held'
  OBVIOUS
<1>1. Right(cache') /\ cache'.seen = log
  BY HeldSynced DEF Proceed
<1>2. IsPrefix(log, log)
  BY PrefixSelf DEF Held, InStore
<1>. QED BY <1>1, <1>2 DEF Proceed, Held, TypeOK

\* What a compaction folds away is of the store.
LEMMA CompactedRange ==
  ASSUME Held
  PROVE  Compacted(log) \in SUBSET (1..Len(stored))
<1>1. log \in Seq(Event) /\ \A i \in DOMAIN log : log[i].id \in Nat \ {0} /\ log[i].id <= Len(stored)
  BY DEF Held, InStore, Event
<1>2. Boundary(log) \in 0..Len(log) /\ Len(stored) \in Nat
  BY <1>1, BoundaryIsCut DEF Held, TypeOK
<1>3. \A i \in 1..Boundary(log) : i \in DOMAIN log
  BY <1>1, <1>2
<1>. QED BY <1>1, <1>2, <1>3 DEF Compacted

LEMMA HeldCompact == Held /\ Compact /\ UNCHANGED setting => Held'
<1>. SUFFICES ASSUME Held, Compact, UNCHANGED setting PROVE Held'
  OBVIOUS
<1>. DEFINE e == New("compaction", {}, 0, Compacted(log))
<1>1. Positions(stored)
  BY DEF Held, TypeOK, Positions
<1>2. e \in Event /\ e.id = Len(stored) + 1
  BY <1>1, CompactedRange, NewIsEvent
<1>3. Right(cache') /\ cache'.seen = log
  BY HeldSynced DEF Compact
<1>4. IsPrefix(cache'.seen, log)
  BY <1>3, PrefixSelf DEF Held, InStore
<1>5. /\ phase' \in {"idle", "emit", "check", "ask"} /\ todo' \in Seq(Plan)
      /\ (phase' = "emit" => todo' # <<>>) /\ next' \in {"idle", "check"}
  BY DEF Compact, Held, TypeOK
<1>6. Keep(e) /\ UNCHANGED <<setting, saw>>
  BY DEF Compact
<1>. HIDE DEF e
<1>. QED BY <1>2, <1>3, <1>4, <1>5, <1>6, HeldKeep

\* A response is stored, after a delta or not, and kept.
LEMMA HeldRespond ==
  ASSUME Held, NEW calls, ToSet(calls) \in SUBSET CallIds, Respond(calls), UNCHANGED setting,
         phase' \in {"idle", "emit", "check", "ask"},
         todo' \in Seq(Plan), phase' = "emit" => todo' # <<>>, next' \in {"idle", "check"}
  PROVE  Held'
<1>. DEFINE n == Len(stored)
<1>1. /\ Positions(stored) /\ log \in Seq(Event) /\ n \in Nat /\ DOMAIN stored = 1..n
      /\ DOMAIN saw \subseteq 1..n /\ InStore(log, n) /\ stored \in Seq(Event)
  BY DEF Held, TypeOK, Positions
<1>2. Right(cache') /\ cache'.seen = log
  BY HeldSynced DEF Respond
<1>3. PICK tokens \in setting.usages, deltas \in {<<>>, <<Note>>} :
        LET e == [New("response", ToSet(calls), tokens, {}) EXCEPT !.id = @ + Len(deltas)]
        IN  /\ stored' = stored \o deltas \o <<e>> /\ log' = Append(log, e)
            /\ DOMAIN saw' = DOMAIN saw \cup {e.id}
  BY DEF Respond
<1>. DEFINE e0 == New("response", ToSet(calls), tokens, {})
            e == [e0 EXCEPT !.id = @ + Len(deltas)]
<1>4. e0 \in Event /\ e0.id = n + 1
  <2>1. tokens \in Nat
    BY LogAssumption DEF Held, TypeOK
  <2>. QED BY <1>1, <2>1, NewIsEvent DEF MessageKinds
<1>5. Len(deltas) \in {0, 1} /\ e \in Event /\ e.id = n + 1 + Len(deltas)
  <2>1. Len(deltas) \in {0, 1}
    BY <1>3
  <2>2. e.id = n + 1 + Len(deltas) /\ e.gone = {}
    BY <1>1, <1>4, <2>1 DEF New
  <2>3. /\ e \in [id : Nat \ {0}, kind : MessageKinds \cup {"compaction", "note"},
                calls : SUBSET CallIds, tokens : Nat, gone : SUBSET Nat]
    <3>1. e0 \in [id : Nat \ {0}, kind : MessageKinds \cup {"compaction", "note"},
                  calls : SUBSET CallIds, tokens : Nat, gone : SUBSET Nat]
      BY <1>4 DEF Event
    <3>2. e0.id + Len(deltas) \in Nat \ {0}
      BY <1>1, <1>4, <2>1
    <3>. HIDE DEF e0
    <3>. QED BY <3>1, <3>2
  <2>. HIDE DEF e
  <2>. QED BY <2>1, <2>2, <2>3 DEF Event
<1>6. log' = Append(log, e) /\ DOMAIN saw' = DOMAIN saw \cup {e.id} /\ stored' = stored \o deltas \o <<e>>
  BY <1>3
<1>. HIDE DEF e0, e
<1>7. Positions(stored') /\ Len(stored') = n + 1 + Len(deltas)
  <2>1. CASE deltas = <<>>
    <3>1. stored' = Append(stored, e) /\ Len(deltas) = 0
      BY <1>1, <1>5, <1>6, <2>1
    <3>. QED BY <1>1, <1>5, <3>1, StoreGrows
  <2>2. CASE deltas = <<Note>>
    <3>1. Note \in Event /\ Note.id = n + 1
      BY <1>1, NewIsEvent DEF Note
    <3>2. stored' = Append(Append(stored, Note), e) /\ Len(deltas) = 1
      BY <1>1, <1>5, <1>6, <2>2, <3>1
    <3>3. Positions(Append(stored, Note)) /\ Len(Append(stored, Note)) = n + 1
      BY <1>1, <3>1, StoreGrows
    <3>. HIDE DEF n
    <3>4. e.id = (n + 1) + 1
      BY <1>5, <3>2
    <3>5. Positions(stored') /\ Len(stored') = (n + 1) + 1
      BY <1>5, <3>2, <3>3, <3>4, StoreGrows
    <3>. QED BY <1>5, <3>2, <3>5
  <2>. QED BY <1>3, <2>1, <2>2
<1>8. InStore(log', Len(stored'))
  <2>. HIDE DEF n
  <2>1. n + 1 + Len(deltas) \in Nat /\ n + 1 + Len(deltas) > n
    BY <1>1, <1>5
  <2>2. InStore(Append(log, e), n + 1 + Len(deltas))
    BY <1>1, <1>5, <2>1, InStoreOn
  <2>. QED BY <1>6, <1>7, <2>2
<1>9. IsPrefix(cache'.seen, log')
  BY <1>1, <1>2, <1>5, <1>6, PrefixSelf, PrefixOn
<1>10. DOMAIN saw' \subseteq DOMAIN stored'
  BY <1>1, <1>5, <1>6, <1>7 DEF Positions
<1>11. TypeOK'
  BY <1>7, <1>8, <1>10 DEF TypeOK, Held, Positions, InStore
<1>. QED BY <1>2, <1>8, <1>9, <1>11 DEF Held

LEMMA HeldFinalAnswer == Held /\ FinalAnswer /\ UNCHANGED setting => Held'
<1>. SUFFICES ASSUME Held, FinalAnswer, UNCHANGED setting PROVE Held'
  OBVIOUS
<1>1. ToSet(<<>>) \in SUBSET CallIds
  BY DEF ToSet
<1>2. Stuck \in Seq(Plan) /\ Stuck # <<>>
  BY DEF Stuck, Plan
<1>3. /\ phase' \in {"idle", "emit", "check", "ask"} /\ todo' \in Seq(Plan)
      /\ (phase' = "emit" => todo' # <<>>) /\ next' \in {"idle", "check"}
  BY <1>2 DEF FinalAnswer, Held, TypeOK
<1>. QED BY <1>1, <1>3, HeldRespond DEF FinalAnswer

LEMMA HeldToolCalls == Held /\ ToolCalls /\ UNCHANGED setting => Held'
<1>. SUFFICES ASSUME Held, ToolCalls, UNCHANGED setting PROVE Held'
  OBVIOUS
<1>a. PICK ids \in SUBSET Usable :
        /\ Cardinality(ids) \in 1..MaxCalls
        /\ \E calls \in SetToSeqs(ids) :
             /\ Respond(calls)
             /\ \/ todo' \in Turns(calls) /\ next' = "check"
                \/ todo' = Stuck /\ next' = "idle"
  BY DEF ToolCalls
<1>1. PICK calls \in SetToSeqs(ids) :
        /\ Respond(calls)
        /\ \/ todo' \in Turns(calls) /\ next' = "check"
           \/ todo' = Stuck /\ next' = "idle"
  BY <1>a
<1>2. phase' = "emit"
  BY DEF ToolCalls
<1>3. calls \in Seq(CallIds) /\ calls # <<>>
  <2>. DEFINE k == Cardinality(ids)
  <2>1. k \in Nat /\ k >= 1
    BY <1>a
  <2>2. calls \in [1..k -> ids]
    BY DEF SetToSeqs
  <2>3. ids \subseteq CallIds
    BY DEF Usable
  <2>. HIDE DEF k
  <2>. QED BY <2>1, <2>2, <2>3
<1>4. ToSet(calls) \in SUBSET CallIds
  BY <1>3 DEF ToSet
<1>5. Stuck \in Seq(Plan) /\ Stuck # <<>>
  BY DEF Stuck, Plan
<1>6. \A t \in Turns(calls) : t \in Seq(Plan) /\ t # <<>>
  <2>. SUFFICES ASSUME NEW t \in Turns(calls) PROVE t \in Seq(Plan) /\ t # <<>>
    OBVIOUS
  <2>1. t \in Seq(PlanOf(ToSet(calls))) /\ t # <<>>
    BY <1>3, TurnsType
  <2>2. PlanOf(ToSet(calls)) \subseteq Plan
    BY DEF PlanOf
  <2>. QED BY <2>1, <2>2
<1>7. todo' \in Seq(Plan) /\ todo' # <<>> /\ next' \in {"idle", "check"}
  BY <1>1, <1>5, <1>6
<1>. QED BY <1>1, <1>2, <1>4, <1>7, HeldRespond

LEMMA HeldFail == Held /\ Fail /\ UNCHANGED setting => Held'
<1>. SUFFICES ASSUME Held, Fail, UNCHANGED setting PROVE Held'
  OBVIOUS
<1>1. Positions(stored) /\ Len(stored) \in Nat
  BY DEF Held, TypeOK, Positions
<1>2. Note \in Event /\ Note.id = Len(stored) + 1
  BY <1>1, NewIsEvent DEF Note
<1>3. Positions(stored') /\ Len(stored') = Len(stored) + 1
  BY <1>1, <1>2, StoreGrows DEF Fail
<1>4. DOMAIN stored \subseteq DOMAIN stored'
  BY <1>1, <1>3 DEF Positions
<1>5. InStore(log, Len(stored'))
  <2>1. InStore(log, Len(stored)) /\ \A i \in DOMAIN log : log[i].id \in Nat
    BY DEF Held, InStore, Event
  <2>. QED BY <1>1, <1>3, <2>1 DEF InStore
<1>6. TypeOK'
  BY <1>3, <1>4 DEF Fail, Held, TypeOK, Positions
<1>. QED BY <1>5, <1>6 DEF Held, Fail

LEMMA HeldStop == Held /\ Stop /\ UNCHANGED setting => Held'
<1>. SUFFICES ASSUME Held, Stop, UNCHANGED setting PROVE Held'
  OBVIOUS
<1>1. TypeOK'
  BY DEF Stop, Held, TypeOK
<1>. QED BY <1>1 DEF Stop, Held

LEMMA HeldInductive == Spec => []Held
<1>1. Held /\ [Next]_vars => Held'
  <2>. SUFFICES ASSUME Held, [Next]_vars PROVE Held'
    OBVIOUS
  <2>1. CASE UNCHANGED vars
    BY <2>1 DEF vars, Held, TypeOK
  <2>2. CASE Next
    BY <2>2, HeldLoad, HeldRewind, HeldEmit, HeldProceed, HeldCompact, HeldFinalAnswer,
       HeldToolCalls, HeldFail, HeldStop DEF Next
  <2>. QED BY <2>1, <2>2
<1>. QED BY <1>1, HeldStart, PTL DEF Spec

\* Every variable of a session has its type, and the id of a stored event is
\* its position.
THEOREM SessionTyped == Spec => []TypeOK
<1>1. Held => TypeOK
  BY DEF Held
<1>. QED BY <1>1, HeldInductive, PTL

\* However a session compacts, repairs, rewinds and resumes, the fold that a
\* run updates event by event equals the fold of its events from nothing.
THEOREM FoldsAgree == Spec => []FoldAgrees
<1>1. Held => FoldAgrees
  BY DEF Held, Right, FoldAgrees, Fold
<1>. QED BY <1>1, HeldInductive, PTL

-----------------------------------------------------------------------------
(* Whole turns *)

\* Every result answers the last response before it, and no later response
\* asks for its call again.
Turned(s) ==
  \A i \in DOMAIN s : s[i].kind = "result" =>
    /\ s[i].calls # {}
    /\ Origin(s, s[i].calls) \in 1..(i - 1)
    /\ \A j \in (Origin(s, s[i].calls) + 1)..i : s[j].kind # "response"

\* What is folded away is what comes before one place of the log, some notes
\* excepted: a cut that leaves the last few events.
FoldedUpTo(s, b) ==
  /\ b \in 0..Len(s) /\ (b = 0 \/ b + RecentKeep <= Len(s))
  /\ \A i \in 1..b : s[i].kind # "note" => s[i].id \in Gone(s)
  /\ \A i \in (b + 1)..Len(s) : s[i].id \notin Gone(s)
  /\ Cut(s, b)
  /\ \A g \in Gone(s) : \E i \in DOMAIN s : s[i].id = g

\* The origin of some calls is the newest event, or what it was before.
LEMMA OriginOn ==
  ASSUME NEW s \in Seq(Event), NEW e \in Event, NEW calls
  PROVE  Origin(Append(s, e), calls) = IF e.kind = "response" /\ calls \subseteq e.calls
                                         THEN Len(s) + 1 ELSE Origin(s, calls)
<1>. DEFINE t == Append(s, e)
            n == Len(s)
            o == Origin(t, calls)
            p == Origin(s, calls)
<1>1. /\ t \in Seq(Event) /\ n \in Nat /\ Len(t) = n + 1 /\ t[n + 1] = e
      /\ \A i \in 1..n : t[i] = s[i]
  OBVIOUS
<1>2. /\ o \in 0..(n + 1)
      /\ o # 0 => t[o].kind = "response" /\ calls \subseteq t[o].calls
      /\ \A i \in 1..(n + 1) : t[i].kind = "response" /\ calls \subseteq t[i].calls => i <= o
  <2>. HIDE DEF t
  <2>. QED BY <1>1, OriginRange
<1>3. /\ p \in 0..n
      /\ p # 0 => s[p].kind = "response" /\ calls \subseteq s[p].calls
      /\ \A i \in 1..n : s[i].kind = "response" /\ calls \subseteq s[i].calls => i <= p
  BY OriginRange
<1>. HIDE DEF t, n, o, p
<1>4. CASE e.kind = "response" /\ calls \subseteq e.calls
  <2>1. n + 1 <= o
    BY <1>1, <1>2, <1>4
  <2>. QED BY <1>1, <1>2, <1>4, <2>1 DEF o, t, n
<1>5. CASE ~(e.kind = "response" /\ calls \subseteq e.calls)
  <2>1. o # n + 1
    BY <1>1, <1>2, <1>5
  <2>2. o \in 0..n
    BY <1>1, <1>2, <2>1
  <2>3. p <= o
    <3>1. CASE p = 0
      BY <2>2, <3>1
    <3>2. CASE p # 0
      <4>1. p \in 1..n /\ p \in 1..(n + 1)
        BY <1>1, <1>3, <3>2
      <4>. QED BY <1>1, <1>2, <1>3, <3>2, <4>1
    <3>. QED BY <3>1, <3>2
  <2>4. o <= p
    <3>1. CASE o = 0
      BY <1>3, <3>1
    <3>2. CASE o # 0
      <4>1. o \in 1..n
        BY <2>2, <3>2
      <4>. QED BY <1>1, <1>2, <1>3, <3>2, <4>1
    <3>. QED BY <3>1, <3>2
  <2>5. o = p
    BY <1>3, <2>2, <2>3, <2>4
  <2>. QED BY <1>5, <2>5 DEF o, p, t
<1>. QED BY <1>4, <1>5

\* What is folded away comes before the events that follow.
LEMMA GoneBefore ==
  ASSUME NEW s \in Seq(Event), NEW b, FoldedUpTo(s, b), NEW e \in Event,
         \A i \in DOMAIN s : s[i].id < e.id
  PROVE  e.id \notin Gone(s)
<1>. SUFFICES ASSUME e.id \in Gone(s) PROVE FALSE
  OBVIOUS
<1>1. PICK i \in DOMAIN s : s[i].id = e.id
  BY DEF FoldedUpTo
<1>2. e.id \in Nat
  BY DEF Event
<1>. QED BY <1>1, <1>2

\* One more event leaves what is folded away as it is, if it is not a
\* compaction, nor a result whose call is folded away.
LEMMA FoldedOn ==
  ASSUME NEW s \in Seq(Event), NEW b, FoldedUpTo(s, b), NEW e \in Event, e.gone = {},
         \A i \in DOMAIN s : s[i].id < e.id,
         e.kind = "result" => Origin(s, e.calls) \notin 1..b
  PROVE  FoldedUpTo(Append(s, e), b) /\ Gone(Append(s, e)) = Gone(s)
<1>. DEFINE t == Append(s, e)
            n == Len(s)
<1>1. /\ t \in Seq(Event) /\ n \in Nat /\ Len(t) = n + 1 /\ t[n + 1] = e
      /\ \A i \in 1..n : t[i] = s[i]
      /\ DOMAIN s = 1..n /\ DOMAIN t = 1..(n + 1)
  OBVIOUS
<1>2. Gone(t) = Gone(s)
  BY GoneOn
<1>3. b \in 0..n /\ (b = 0 \/ b + RecentKeep <= n) /\ RecentKeep \in Nat
  BY KeepAssumption DEF FoldedUpTo
<1>4. \A calls : Origin(t, calls) = IF e.kind = "response" /\ calls \subseteq e.calls
                                     THEN n + 1 ELSE Origin(s, calls)
  BY OriginOn
<1>5. e.id \notin Gone(s)
  BY GoneBefore
<1>. HIDE DEF t, n
<1>6. \A i \in 1..b : t[i].kind # "note" => t[i].id \in Gone(t)
  BY <1>1, <1>2, <1>3 DEF FoldedUpTo
<1>7. \A i \in (b + 1)..(n + 1) : t[i].id \notin Gone(t)
  <2>. SUFFICES ASSUME NEW i \in (b + 1)..(n + 1) PROVE t[i].id \notin Gone(t)
    OBVIOUS
  <2>1. CASE i = n + 1
    BY <1>1, <1>2, <1>5, <2>1
  <2>2. CASE i # n + 1
    <3>1. i \in (b + 1)..n /\ i \in 1..n
      BY <1>1, <1>3, <2>2
    <3>. QED BY <1>1, <1>2, <3>1 DEF FoldedUpTo, n
  <2>. QED BY <2>1, <2>2
<1>8. Cut(t, b)
  <2>. SUFFICES ASSUME NEW i \in (b + 1)..(n + 1), t[i].kind = "result"
                PROVE  Origin(t, t[i].calls) \notin 1..b
    BY <1>1 DEF Cut
  <2>1. n + 1 \notin 1..b
    BY <1>1, <1>3
  <2>2. CASE i = n + 1
    BY <1>1, <1>4, <2>1, <2>2
  <2>3. CASE i # n + 1
    <3>1. i \in (b + 1)..n /\ i \in 1..n
      BY <1>1, <1>3, <2>3
    <3>2. Origin(s, s[i].calls) \notin 1..b
      BY <1>1, <3>1 DEF FoldedUpTo, Cut, n
    <3>. QED BY <1>1, <1>4, <2>1, <3>1, <3>2
  <2>. QED BY <2>2, <2>3
<1>9. \A g \in Gone(t) : \E i \in 1..(n + 1) : t[i].id = g
  <2>. SUFFICES ASSUME NEW g \in Gone(s) PROVE \E i \in 1..(n + 1) : t[i].id = g
    BY <1>2
  <2>1. PICK i \in 1..n : s[i].id = g
    BY <1>1 DEF FoldedUpTo
  <2>. QED BY <1>1, <2>1
<1>10. b \in 0..(n + 1) /\ (b = 0 \/ b + RecentKeep <= n + 1)
  BY <1>1, <1>3
<1>11. FoldedUpTo(t, b)
  BY <1>1, <1>6, <1>7, <1>8, <1>9, <1>10 DEF FoldedUpTo
<1>. QED BY <1>2, <1>11 DEF t

\* A compaction folds away what the earlier ones did, and more.
LEMMA FoldedCompact ==
  ASSUME NEW s \in Seq(Event), Ascending(s), NEW b, FoldedUpTo(s, b), NEW e \in Event,
         \A i \in DOMAIN s : s[i].id < e.id, e.kind = "compaction", e.gone = Compacted(s)
  PROVE  FoldedUpTo(Append(s, e), Boundary(s)) /\ Gone(Append(s, e)) = e.gone
<1>. DEFINE t == Append(s, e)
            n == Len(s)
            c == Boundary(s)
<1>1. /\ t \in Seq(Event) /\ n \in Nat /\ Len(t) = n + 1 /\ t[n + 1] = e
      /\ \A i \in 1..n : t[i] = s[i]
      /\ DOMAIN s = 1..n /\ DOMAIN t = 1..(n + 1)
  OBVIOUS
<1>2. Gone(t) = Gone(s) \cup e.gone
  BY GoneOn
<1>3. /\ b \in 0..n /\ (b = 0 \/ b + RecentKeep <= n) /\ RecentKeep \in Nat
      /\ Cut(s, b)
  BY KeepAssumption DEF FoldedUpTo
<1>4. /\ c \in 0..n /\ Cut(s, c) /\ (c > 0 => c <= n - RecentKeep)
      /\ \A k \in 0..(n - RecentKeep) : Cut(s, k) => k <= c
  BY BoundaryIsCut
<1>5. \A calls : Origin(t, calls) = Origin(s, calls)
  BY OriginOn
<1>6. e.gone = {s[i].id : i \in 1..c}
  BY DEF Compacted
<1>. HIDE DEF t, n, c
<1>7. b <= c
  <2>1. CASE b = 0
    BY <1>1, <1>4, <2>1
  <2>2. CASE b # 0
    <3>1. b \in 0..(n - RecentKeep)
      BY <1>1, <1>3, <2>2
    <3>. QED BY <1>3, <1>4, <3>1
  <2>. QED BY <2>1, <2>2
<1>8. Gone(s) \subseteq e.gone
  <2>. SUFFICES ASSUME NEW g \in Gone(s) PROVE g \in e.gone
    OBVIOUS
  <2>1. PICK i \in 1..n : s[i].id = g
    BY <1>1 DEF FoldedUpTo
  <2>2. i \notin (b + 1)..n
    BY <2>1 DEF FoldedUpTo, n
  <2>3. i \in 1..c
    BY <1>1, <1>3, <1>4, <1>7, <2>1, <2>2
  <2>. QED BY <1>6, <2>1, <2>3
<1>9. Gone(t) = e.gone
  BY <1>2, <1>8
<1>10. \A i \in 1..c : t[i].kind # "note" => t[i].id \in Gone(t)
  BY <1>1, <1>4, <1>6, <1>9
<1>11. \A i \in (c + 1)..(n + 1) : t[i].id \notin Gone(t)
  <2>. SUFFICES ASSUME NEW i \in (c + 1)..(n + 1), NEW j \in 1..c, t[i].id = s[j].id PROVE FALSE
    BY <1>6, <1>9
  <2>1. j \in 1..n /\ s[j] \in Event /\ s[j].id \in Nat
    <3>1. j \in 1..n
      BY <1>1, <1>4
    <3>2. s[j] \in Event
      BY <1>1, <3>1
    <3>. QED BY <3>1, <3>2 DEF Event
  <2>2. CASE i = n + 1
    BY <1>1, <2>1, <2>2
  <2>3. CASE i # n + 1
    <3>1. i \in 1..n /\ j < i
      BY <1>1, <1>4, <2>3
    <3>2. s[j].id < s[i].id
      BY <1>1, <2>1, <3>1 DEF Ascending
    <3>. QED BY <1>1, <2>1, <3>1, <3>2
  <2>. QED BY <2>2, <2>3
<1>12. Cut(t, c)
  <2>. SUFFICES ASSUME NEW i \in (c + 1)..(n + 1), t[i].kind = "result"
                PROVE  Origin(s, t[i].calls) \notin 1..c
    BY <1>1, <1>5 DEF Cut
  <2>1. i # n + 1
    BY <1>1
  <2>2. i \in (c + 1)..n /\ i \in 1..n
    BY <1>1, <1>4, <2>1
  <2>. QED BY <1>1, <1>4, <2>2 DEF Cut, n
<1>13. \A g \in Gone(t) : \E i \in 1..(n + 1) : t[i].id = g
  <2>. SUFFICES ASSUME NEW j \in 1..c PROVE \E i \in 1..(n + 1) : t[i].id = s[j].id
    BY <1>6, <1>9
  <2>1. j \in 1..n /\ j \in 1..(n + 1)
    BY <1>1, <1>4
  <2>. QED BY <1>1, <2>1
<1>14. c \in 0..(n + 1) /\ (c = 0 \/ c + RecentKeep <= n + 1)
  BY <1>1, <1>3, <1>4
<1>15. FoldedUpTo(t, c)
  BY <1>1, <1>10, <1>11, <1>12, <1>13, <1>14 DEF FoldedUpTo
<1>. QED BY <1>9, <1>15 DEF t, c

\* A new event leaves the turns whole.
LEMMA TurnedOn ==
  ASSUME NEW s \in Seq(Event), Turned(s), NEW e \in Event,
         e.kind = "result" =>
           /\ e.calls # {}
           /\ \E o \in DOMAIN s :
                /\ s[o].kind = "response" /\ e.calls \subseteq s[o].calls
                /\ \A j \in (o + 1)..Len(s) : s[j].kind # "response",
         e.kind = "response" =>
           \A i \in DOMAIN s : s[i].kind = "result" => s[i].calls \cap e.calls = {}
  PROVE  Turned(Append(s, e))
<1>. DEFINE t == Append(s, e)
            n == Len(s)
<1>1. /\ t \in Seq(Event) /\ n \in Nat /\ Len(t) = n + 1 /\ t[n + 1] = e
      /\ \A i \in 1..n : t[i] = s[i]
      /\ DOMAIN s = 1..n /\ DOMAIN t = 1..(n + 1)
  OBVIOUS
<1>2. \A calls : Origin(t, calls) = IF e.kind = "response" /\ calls \subseteq e.calls
                                     THEN n + 1 ELSE Origin(s, calls)
  BY OriginOn
<1>. HIDE DEF t
<1>. SUFFICES ASSUME NEW i \in 1..(n + 1), t[i].kind = "result"
              PROVE  /\ t[i].calls # {}
                     /\ Origin(t, t[i].calls) \in 1..(i - 1)
                     /\ \A j \in (Origin(t, t[i].calls) + 1)..i : t[j].kind # "response"
  BY <1>1 DEF Turned, t
<1>3. CASE i = n + 1
  <2>1. e.kind = "result" /\ t[i].calls = e.calls
    BY <1>1, <1>3
  <2>2. PICK o \in 1..n : /\ s[o].kind = "response" /\ e.calls \subseteq s[o].calls
                          /\ \A j \in (o + 1)..n : s[j].kind # "response"
    BY <1>1, <2>1
  <2>. DEFINE p == Origin(s, e.calls)
  <2>3. /\ p \in 0..n /\ (p # 0 => s[p].kind = "response")
        /\ \A k \in 1..n : s[k].kind = "response" /\ e.calls \subseteq s[k].calls => k <= p
    BY OriginRange
  <2>. HIDE DEF p, n
  <2>4. o <= p
    BY <2>2, <2>3
  <2>5. p = o
    <3>1. p \in 1..n
      BY <1>1, <2>2, <2>3, <2>4
    <3>2. p \notin (o + 1)..n
      BY <2>2, <2>3, <3>1
    <3>. QED BY <1>1, <2>2, <2>4, <3>1, <3>2
  <2>6. Origin(t, t[i].calls) = o
    BY <1>2, <2>1, <2>5 DEF p
  <2>7. ASSUME NEW j \in (o + 1)..i PROVE t[j].kind # "response"
    <3>1. CASE j = n + 1
      BY <1>1, <2>1, <3>1
    <3>2. CASE j # n + 1
      <4>1. j \in (o + 1)..n /\ j \in 1..n
        BY <1>1, <1>3, <2>2, <3>2
      <4>. QED BY <1>1, <2>2, <4>1
    <3>. QED BY <3>1, <3>2
  <2>. QED BY <1>1, <1>3, <2>1, <2>2, <2>6, <2>7
<1>4. CASE i # n + 1
  <2>1. i \in 1..n /\ t[i] = s[i]
    BY <1>1, <1>4
  <2>. DEFINE c == s[i].calls
              p == Origin(s, c)
  <2>2. /\ c # {} /\ p \in 1..(i - 1) /\ \A j \in (p + 1)..i : s[j].kind # "response"
    BY <1>1, <2>1 DEF Turned
  <2>3. ~(e.kind = "response" /\ c \subseteq e.calls)
    BY <1>1, <2>1, <2>2
  <2>4. Origin(t, c) = p
    BY <1>2, <2>3
  <2>. HIDE DEF p, n
  <2>5. ASSUME NEW j \in (p + 1)..i PROVE t[j].kind # "response"
    <3>1. j \in 1..n
      BY <1>1, <2>1, <2>2
    <3>. QED BY <1>1, <2>2, <3>1
  <2>. QED BY <2>1, <2>2, <2>4, <2>5
<1>. QED BY <1>3, <1>4

\* A result is folded away with the response it answers.
LEMMA TurnsWhole ==
  ASSUME NEW s \in Seq(Event), Turned(s), NEW b, FoldedUpTo(s, b),
         NEW i \in DOMAIN s, s[i].kind = "result"
  PROVE  LET o == Origin(s, s[i].calls) IN
         /\ o \in 1..(i - 1) /\ s[o].kind = "response" /\ s[i].calls \subseteq s[o].calls
         /\ s[i].id \in Gone(s) <=> s[o].id \in Gone(s)
<1>. DEFINE o == Origin(s, s[i].calls)
            n == Len(s)
<1>1. n \in Nat /\ i \in 1..n
  OBVIOUS
<1>2. o \in 1..(i - 1) /\ s[o].kind = "response" /\ s[i].calls \subseteq s[o].calls
  <2>1. o \in 1..(i - 1)
    BY DEF Turned
  <2>. QED BY <2>1, OriginRange
<1>3. /\ b \in 0..n
      /\ \A k \in 1..b : s[k].kind # "note" => s[k].id \in Gone(s)
      /\ \A k \in (b + 1)..n : s[k].id \notin Gone(s)
      /\ \A k \in (b + 1)..n : s[k].kind = "result" => Origin(s, s[k].calls) \notin 1..b
  BY DEF FoldedUpTo, Cut
<1>4. CASE i \in 1..b
  <2>1. o \in 1..b
    BY <1>1, <1>2, <1>3, <1>4
  <2>. QED BY <1>2, <1>3, <1>4, <2>1
<1>5. CASE i \notin 1..b
  <2>1. i \in (b + 1)..n
    BY <1>1, <1>3, <1>5
  <2>2. o \notin 1..b
    BY <1>3, <2>1
  <2>. HIDE DEF o
  <2>3. o \in (b + 1)..n
    BY <1>1, <1>2, <1>3, <2>2
  <2>. QED BY <1>2, <1>3, <2>1, <2>3 DEF o
<1>. QED BY <1>4, <1>5

\* No result of whole turns is orphaned, so nothing is repaired.
LEMMA WholeNotOrphaned ==
  ASSUME NEW s \in Seq(Event), Turned(s), NEW b, FoldedUpTo(s, b)
  PROVE  Orphans(s) = {}
<1>. SUFFICES ASSUME NEW i \in DOMAIN s, Orphaned(s, i) PROVE FALSE
  BY DEF Orphans
<1>1. s[i].kind = "result" /\ s[i].id \notin Gone(s)
  BY DEF Orphaned
<1>. DEFINE o == Origin(s, s[i].calls)
<1>2. o \in 1..(i - 1) /\ s[o].id \notin Gone(s)
  BY <1>1, TurnsWhole
<1>. QED BY <1>2 DEF Orphaned

\* A log without orphans is not changed by its repair.
LEMMA NothingRepaired ==
  ASSUME NEW s \in Seq(Event)
  PROVE  Orphans(s) = {} => Repair(s) = s
<1>. DEFINE n == Len(s)
            dropped == Dropped(s)
            restored == Restored(s)
<1>. HIDE DEF dropped, restored
<1>a. PICK g \in [0..n -> Seq(Event)] :
        /\ g[0] = <<>> /\ g[n] = Copied(s, dropped, restored)
        /\ \A k \in 1..n : g[k] = Repaired(g[k - 1], s[k], dropped, restored)
  <2>1. Copyings(s, dropped, restored) # {}
    BY RepairFold
  <2>. QED BY <2>1 DEF Copyings
<1>. SUFFICES ASSUME Orphans(s) = {} PROVE Repair(s) = s
  OBVIOUS
<1>1. dropped = {} /\ restored = {}
  BY DEF Dropped, Restored, dropped, restored
<1>2. /\ g[0] = <<>> /\ g[n] = Repair(s)
      /\ \A k \in 1..n : g[k] = Repaired(g[k - 1], s[k], {}, {})
  BY <1>a, <1>1 DEF Repair, dropped, restored
<1>3. n \in Nat /\ DOMAIN s = 1..n /\ \A k \in 1..n : s[k] \in Event
  OBVIOUS
<1>. DEFINE S == {k \in 0..n : g[k] = SubSeq(s, 1, k)}
<1>4. 0..n \subseteq S
  <2>1. 0 \in S
    <3>1. SubSeq(s, 1, 0) = <<>>
      OBVIOUS
    <3>. QED BY <1>2, <1>3, <3>1
  <2>2. ASSUME NEW k \in 0..(n - 1), k \in S PROVE k + 1 \in S
    <3>1. k + 1 \in 1..n /\ (k + 1) - 1 = k
      BY <1>3
    <3>. DEFINE e == s[k + 1]
    <3>2. e \in Event /\ [e EXCEPT !.gone = @ \ {}] = e
      <4>1. e \in Event
        BY <1>3, <3>1
      <4>. QED BY <4>1 DEF Event
    <3>3. g[k + 1] = Append(g[k], e)
      BY <1>2, <3>1, <3>2 DEF Repaired
    <3>4. g[k] = SubSeq(s, 1, k)
      BY <2>2
    <3>5. Append(SubSeq(s, 1, k), s[k + 1]) = SubSeq(s, 1, k + 1)
      BY <1>3, <3>1
    <3>6. g[k + 1] = SubSeq(s, 1, k + 1)
      BY <3>3, <3>4, <3>5
    <3>7. k + 1 \in 0..n
      BY <1>3, <3>1
    <3>. QED BY <3>6, <3>7
  <2>. HIDE DEF S, n
  <2>. QED BY <1>3, <2>1, <2>2, Reaches
<1>5. g[n] = SubSeq(s, 1, n) /\ SubSeq(s, 1, n) = s
  BY <1>3, <1>4
<1>. QED BY <1>2, <1>5

-----------------------------------------------------------------------------
(* What a run keeps of the store *)

\* The events of the store, some notes excepted.
Thin(s, t) ==
  /\ s \in Seq(Event) /\ Ascending(s) /\ Positions(t)
  /\ \A i \in DOMAIN s : s[i].id \in DOMAIN t /\ s[i] = t[s[i].id]
  /\ \A k \in DOMAIN t : t[k].kind # "note" => \E i \in DOMAIN s : s[i].id = k

LEMMA ThinSelf ==
  ASSUME NEW t, Positions(t)
  PROVE  Thin(t, t)
<1>1. t \in Seq(Event) /\ \A i \in DOMAIN t : t[i].id = i
  BY DEF Positions
<1>2. Ascending(t)
  BY <1>1 DEF Ascending
<1>. QED BY <1>1, <1>2 DEF Thin

\* Both get the new event.
LEMMA ThinOn ==
  ASSUME NEW s, NEW t, Thin(s, t), NEW e \in Event, e.id = Len(t) + 1
  PROVE  Thin(Append(s, e), Append(t, e))
<1>. DEFINE a == Append(s, e)
            b == Append(t, e)
            m == Len(s)
            n == Len(t)
<1>0. s \in Seq(Event) /\ t \in Seq(Event) /\ Positions(t) /\ Ascending(s)
  BY DEF Thin, Positions
<1>1. /\ m \in Nat /\ n \in Nat /\ DOMAIN s = 1..m /\ DOMAIN t = 1..n
      /\ DOMAIN a = 1..(m + 1) /\ DOMAIN b = 1..(n + 1)
      /\ a[m + 1] = e /\ b[n + 1] = e
      /\ (\A i \in 1..m : a[i] = s[i]) /\ (\A i \in 1..n : b[i] = t[i])
  BY <1>0
<1>2. \A i \in 1..m : s[i].id \in 1..n /\ s[i] = t[s[i].id]
  BY <1>1 DEF Thin
<1>3. Positions(b)
  BY <1>0, StoreGrows
<1>4. a \in Seq(Event) /\ Ascending(a)
  <2>1. \A i \in DOMAIN s : s[i].id < e.id
    BY <1>1, <1>2
  <2>. QED BY <1>0, <2>1, AscendingOn
<1>. HIDE DEF a, b, m, n
<1>5. \A i \in 1..(m + 1) : a[i].id \in 1..(n + 1) /\ a[i] = b[a[i].id]
  <2>. SUFFICES ASSUME NEW i \in 1..(m + 1)
                PROVE  a[i].id \in 1..(n + 1) /\ a[i] = b[a[i].id]
    OBVIOUS
  <2>1. CASE i = m + 1
    <3>1. e.id = n + 1
      BY DEF n
    <3>. QED BY <1>1, <2>1, <3>1
  <2>2. CASE i # m + 1
    <3>1. i \in 1..m
      BY <1>1, <2>2
    <3>. QED BY <1>1, <1>2, <3>1
  <2>. QED BY <2>1, <2>2
<1>6. \A k \in 1..(n + 1) : b[k].kind # "note" => \E i \in 1..(m + 1) : a[i].id = k
  <2>. SUFFICES ASSUME NEW k \in 1..(n + 1), b[k].kind # "note"
                PROVE  \E i \in 1..(m + 1) : a[i].id = k
    OBVIOUS
  <2>1. CASE k = n + 1
    <3>1. e.id = n + 1
      BY DEF n
    <3>. QED BY <1>1, <2>1, <3>1
  <2>2. CASE k # n + 1
    <3>1. k \in 1..n /\ t[k].kind # "note"
      BY <1>1, <2>2
    <3>2. PICK i \in 1..m : s[i].id = k
      BY <1>1, <3>1 DEF Thin
    <3>. QED BY <1>1, <3>2
  <2>. QED BY <2>1, <2>2
<1>7. Thin(a, b)
  BY <1>1, <1>3, <1>4, <1>5, <1>6 DEF Thin
<1>. QED BY <1>7 DEF a, b

\* The store gets a note that the run does not keep.
LEMMA ThinNote ==
  ASSUME NEW s, NEW t, Thin(s, t), NEW e \in Event, e.id = Len(t) + 1, e.kind = "note"
  PROVE  Thin(s, Append(t, e))
<1>. DEFINE b == Append(t, e)
            n == Len(t)
<1>0. s \in Seq(Event) /\ t \in Seq(Event) /\ Positions(t) /\ Ascending(s)
  BY DEF Thin, Positions
<1>1. /\ n \in Nat /\ DOMAIN t = 1..n /\ DOMAIN b = 1..(n + 1)
      /\ b[n + 1] = e /\ (\A i \in 1..n : b[i] = t[i])
  BY <1>0
<1>2. \A i \in DOMAIN s : s[i].id \in 1..n /\ s[i] = t[s[i].id]
  BY <1>1 DEF Thin
<1>3. Positions(b)
  BY <1>0, StoreGrows
<1>. HIDE DEF b, n
<1>5. \A i \in DOMAIN s : s[i].id \in 1..(n + 1) /\ s[i] = b[s[i].id]
  BY <1>1, <1>2
<1>6. \A k \in 1..(n + 1) : b[k].kind # "note" => \E i \in DOMAIN s : s[i].id = k
  <2>. SUFFICES ASSUME NEW k \in 1..(n + 1), b[k].kind # "note"
                PROVE  \E i \in DOMAIN s : s[i].id = k
    OBVIOUS
  <2>1. k \in 1..n
    BY <1>1
  <2>. QED BY <1>1, <2>1 DEF Thin
<1>7. Thin(s, b)
  BY <1>0, <1>1, <1>3, <1>5, <1>6 DEF Thin
<1>. QED BY <1>7 DEF b

\* The same events are folded away.
LEMMA ThinGone ==
  ASSUME NEW s, NEW t, Thin(s, t)
  PROVE  Gone(s) = Gone(t)
<1>1. s \in Seq(Event) /\ t \in Seq(Event) /\ \A i \in DOMAIN t : t[i].id = i
  BY DEF Thin, Positions
<1>2. \A i \in DOMAIN s : s[i].id \in DOMAIN t /\ s[i] = t[s[i].id]
  BY DEF Thin
<1>3. ASSUME NEW k \in DOMAIN t PROVE t[k].gone = {} \/ \E i \in DOMAIN s : s[i] = t[k]
  <2>1. CASE t[k].kind = "note"
    <3>1. t[k] \in Event
      BY <1>1
    <3>. QED BY <2>1, <3>1 DEF Event
  <2>2. CASE t[k].kind # "note"
    <3>1. PICK i \in DOMAIN s : s[i].id = k
      BY <2>2 DEF Thin
    <3>. QED BY <1>2, <3>1
  <2>. QED BY <2>1, <2>2
<1>4. Gone(s) \subseteq Gone(t)
  BY <1>2 DEF Gone, ToSet
<1>5. Gone(t) \subseteq Gone(s)
  BY <1>3 DEF Gone, ToSet
<1>. QED BY <1>4, <1>5

\* The same response asks for a call.
LEMMA ThinOrigin ==
  ASSUME NEW s, NEW t, Thin(s, t), NEW c, NEW o, o = Origin(s, c)
  PROVE  Origin(t, c) = IF o = 0 THEN 0 ELSE s[o].id
<1>. DEFINE p == Origin(t, c)
            m == Len(s)
            n == Len(t)
<1>1. /\ s \in Seq(Event) /\ t \in Seq(Event) /\ Ascending(s)
      /\ m \in Nat /\ n \in Nat /\ DOMAIN s = 1..m /\ DOMAIN t = 1..n
  BY DEF Thin, Positions
<1>2. /\ o \in 0..m
      /\ o # 0 => s[o].kind = "response" /\ c \subseteq s[o].calls
      /\ \A i \in 1..m : s[i].kind = "response" /\ c \subseteq s[i].calls => i <= o
  BY <1>1, OriginRange
<1>3. /\ p \in 0..n
      /\ p # 0 => t[p].kind = "response" /\ c \subseteq t[p].calls
      /\ \A i \in 1..n : t[i].kind = "response" /\ c \subseteq t[i].calls => i <= p
  BY <1>1, OriginRange
<1>4. \A i \in 1..m : s[i].id \in 1..n /\ s[i] = t[s[i].id]
  BY <1>1 DEF Thin
<1>5. \A k \in 1..n : t[k].kind = "response" => \E i \in 1..m : s[i].id = k
  BY <1>1 DEF Thin
<1>. HIDE DEF p, m, n
<1>6. CASE o = 0
  <2>1. ASSUME p # 0 PROVE FALSE
    <3>1. p \in 1..n
      BY <1>1, <1>3, <2>1
    <3>2. PICK i \in 1..m : s[i].id = p
      BY <1>3, <1>5, <2>1, <3>1
    <3>3. s[i].kind = "response" /\ c \subseteq s[i].calls
      BY <1>3, <1>4, <2>1, <3>2
    <3>. QED BY <1>1, <1>2, <1>6, <3>2, <3>3
  <2>. QED BY <1>6, <2>1 DEF p
<1>7. CASE o # 0
  <2>1. o \in 1..m
    BY <1>1, <1>2, <1>7
  <2>. DEFINE q == s[o].id
  <2>2. q \in 1..n /\ t[q].kind = "response" /\ c \subseteq t[q].calls
    BY <1>2, <1>4, <1>7, <2>1
  <2>3. q <= p
    BY <1>3, <2>2
  <2>4. p # 0 /\ p \in 1..n
    BY <1>1, <1>3, <2>2, <2>3
  <2>5. PICK i \in 1..m : s[i].id = p
    BY <1>3, <1>5, <2>4
  <2>6. s[i].kind = "response" /\ c \subseteq s[i].calls
    BY <1>3, <1>4, <2>4, <2>5
  <2>7. i <= o
    BY <1>2, <2>5, <2>6
  <2>8. p <= q
    <3>1. CASE i = o
      BY <2>2, <2>5, <3>1
    <3>2. CASE i # o
      <4>1. i < o
        BY <1>1, <2>1, <2>5, <2>7, <3>2
      <4>2. s[i].id < s[o].id
        BY <1>1, <2>1, <2>5, <4>1 DEF Ascending
      <4>. HIDE DEF q
      <4>3. p < q /\ p \in Nat /\ q \in Nat
        BY <1>1, <2>2, <2>4, <2>5, <4>2 DEF q
      <4>. QED BY <4>3
    <3>. QED BY <3>1, <3>2
  <2>. HIDE DEF q
  <2>9. p = q
    BY <1>1, <2>2, <2>3, <2>4, <2>8
  <2>. QED BY <1>7, <2>9 DEF p, q
<1>. QED BY <1>6, <1>7

\* Turns that a run keeps whole are whole in the store.
LEMMA ThinTurned ==
  ASSUME NEW s, NEW t, Thin(s, t), Turned(s)
  PROVE  Turned(t)
<1>. DEFINE m == Len(s)
            n == Len(t)
<1>1. /\ s \in Seq(Event) /\ t \in Seq(Event) /\ Ascending(s)
      /\ m \in Nat /\ n \in Nat /\ DOMAIN s = 1..m /\ DOMAIN t = 1..n
  BY DEF Thin, Positions
<1>2. \A i \in 1..m : s[i].id \in 1..n /\ s[i] = t[s[i].id]
  BY <1>1 DEF Thin
<1>3. \A k \in 1..n : t[k].kind # "note" => \E i \in 1..m : s[i].id = k
  BY <1>1 DEF Thin
<1>. SUFFICES ASSUME NEW k \in 1..n, t[k].kind = "result"
              PROVE  /\ t[k].calls # {}
                     /\ Origin(t, t[k].calls) \in 1..(k - 1)
                     /\ \A j \in (Origin(t, t[k].calls) + 1)..k : t[j].kind # "response"
  BY <1>1 DEF Turned
<1>. HIDE DEF m, n
<1>4. PICK i \in 1..m : s[i].id = k
  BY <1>3
<1>5. s[i] = t[k]
  BY <1>2, <1>4
<1>. DEFINE c == t[k].calls
            o == Origin(s, c)
<1>6. /\ c # {} /\ o \in 1..(i - 1) /\ \A j \in (o + 1)..i : s[j].kind # "response"
  BY <1>1, <1>4, <1>5 DEF Turned
<1>. HIDE DEF o, c
<1>7. o \in 1..m /\ o < i
  BY <1>1, <1>4, <1>6
<1>8. Origin(t, c) = s[o].id
  BY <1>7, ThinOrigin DEF o
<1>9. s[o].id < k /\ s[o].id \in 1..n
  BY <1>1, <1>2, <1>4, <1>7 DEF Ascending
<1>10. ASSUME NEW j \in (s[o].id + 1)..k, t[j].kind = "response" PROVE FALSE
  <2>1. j \in 1..n
    BY <1>1, <1>9
  <2>2. PICK p \in 1..m : s[p].id = j
    BY <1>3, <1>10, <2>1
  <2>3. s[p].kind = "response"
    BY <1>2, <1>10, <2>2
  <2>4. p > o
    <3>. SUFFICES ASSUME p <= o PROVE FALSE
      BY <1>1, <1>7, <2>2
    <3>1. s[p].id <= s[o].id
      <4>1. p < o => s[p].id < s[o].id
        BY <1>1, <1>7, <2>2 DEF Ascending
      <4>2. p = o \/ p < o
        BY <1>1, <1>7, <2>2
      <4>3. s[p].id \in Nat /\ s[o].id \in Nat
        BY <1>1, <1>2, <1>7, <2>2
      <4>. QED BY <4>1, <4>2, <4>3
    <3>. QED BY <1>1, <1>9, <2>1, <2>2, <3>1
  <2>5. p <= i
    <3>. SUFFICES ASSUME i < p PROVE FALSE
      BY <1>1, <1>4, <2>2
    <3>1. s[i].id < s[p].id
      BY <1>1, <1>4, <2>2 DEF Ascending
    <3>. QED BY <1>1, <1>4, <2>1, <2>2, <3>1
  <2>6. p \in (o + 1)..i
    BY <1>1, <1>4, <1>7, <2>2, <2>4, <2>5
  <2>. QED BY <1>6, <2>3, <2>6
<1>11. s[o].id \in 1..(k - 1)
  BY <1>1, <1>9
<1>. QED BY <1>6, <1>8, <1>10, <1>11 DEF c

\* The ids of ascending events are at least as far apart as their places.
LEMMA Spread ==
  ASSUME NEW s \in Seq(Event), Ascending(s), NEW b \in DOMAIN s
  PROVE  s[Len(s)].id >= s[b].id + (Len(s) - b)
<1>. DEFINE m == Len(s)
<1>1. m \in Nat /\ b \in 1..m /\ DOMAIN s = 1..m
  OBVIOUS
<1>2. \A i \in 1..m : s[i].id \in Nat
  BY <1>1 DEF Event
<1>3. \A i, j \in 1..m : i < j => s[i].id < s[j].id
  BY <1>1 DEF Ascending
<1>. HIDE DEF m
<1>. DEFINE S == {k \in 0..(m - b) : s[b + k].id >= s[b].id + k}
<1>4. 0..(m - b) \subseteq S
  <2>1. 0 \in S
    <3>1. b + 0 = b /\ 0 \in 0..(m - b)
      BY <1>1
    <3>. QED BY <1>1, <1>2, <3>1
  <2>2. ASSUME NEW k \in 0..((m - b) - 1), k \in S PROVE k + 1 \in S
    <3>1. b + k \in 1..m /\ b + (k + 1) \in 1..m /\ b + k < b + (k + 1)
          /\ k + 1 \in 0..(m - b) /\ k \in Nat
      BY <1>1
    <3>. DEFINE x == s[b + k].id  y == s[b + (k + 1)].id  z == s[b].id
    <3>2. x \in Nat /\ y \in Nat /\ z \in Nat /\ x < y /\ x >= z + k
      BY <1>1, <1>2, <1>3, <2>2, <3>1
    <3>. HIDE DEF x, y, z
    <3>3. y >= z + (k + 1)
      BY <3>1, <3>2
    <3>. QED BY <3>1, <3>3 DEF y, z
  <2>. HIDE DEF S
  <2>3. m - b \in Nat
    BY <1>1
  <2>. QED BY <2>1, <2>2, <2>3, Reaches
<1>5. m - b \in S
  BY <1>1, <1>4
<1>6. b + (m - b) = m
  BY <1>1
<1>. QED BY <1>5, <1>6 DEF m

\* What is folded away of the events of a run is, of those of the store.
LEMMA ThinFolded ==
  ASSUME NEW s, NEW t, Thin(s, t), NEW b, FoldedUpTo(s, b)
  PROVE  FoldedUpTo(t, IF b = 0 THEN 0 ELSE s[b].id)
<1>. DEFINE m == Len(s)
            n == Len(t)
            c == IF b = 0 THEN 0 ELSE s[b].id
<1>1. /\ s \in Seq(Event) /\ t \in Seq(Event) /\ Ascending(s)
      /\ m \in Nat /\ n \in Nat /\ DOMAIN s = 1..m /\ DOMAIN t = 1..n
      /\ \A k \in 1..n : t[k].id = k
  BY DEF Thin, Positions
<1>2. \A i \in 1..m : s[i].id \in 1..n /\ s[i] = t[s[i].id]
  BY <1>1 DEF Thin
<1>3. \A k \in 1..n : t[k].kind # "note" => \E i \in 1..m : s[i].id = k
  BY <1>1 DEF Thin
<1>4. Gone(t) = Gone(s)
  BY ThinGone
<1>5. /\ b \in 0..m /\ (b = 0 \/ b + RecentKeep <= m) /\ RecentKeep \in Nat
      /\ \A i \in 1..b : s[i].kind # "note" => s[i].id \in Gone(s)
      /\ \A i \in (b + 1)..m : s[i].id \notin Gone(s)
      /\ \A i \in (b + 1)..m : s[i].kind = "result" => Origin(s, s[i].calls) \notin 1..b
      /\ \A g \in Gone(s) : \E i \in 1..m : s[i].id = g
  BY <1>1, KeepAssumption DEF FoldedUpTo, Cut
<1>6. b # 0 => c \in 1..n /\ c + RecentKeep <= n
  <2>. SUFFICES ASSUME b # 0 PROVE c \in 1..n /\ c + RecentKeep <= n
    OBVIOUS
  <2>1. b \in 1..m
    BY <1>1, <1>5
  <2>2. c = s[b].id
    OBVIOUS
  <2>3. m \in 1..m
    BY <1>1, <2>1
  <2>4. s[m].id >= s[b].id + (m - b)
    BY <1>1, <2>1, Spread
  <2>. HIDE DEF m, n, c
  <2>5. s[m].id \in 1..n /\ c \in 1..n
    BY <1>2, <2>1, <2>2, <2>3
  <2>. DEFINE x == s[m].id
  <2>6. x \in 1..n /\ x >= c + (m - b)
    BY <2>2, <2>4, <2>5
  <2>. HIDE DEF x
  <2>. QED BY <1>1, <1>5, <2>1, <2>5, <2>6
<1>7. c \in 0..n
  BY <1>1, <1>6
\* Which side of c an event of s is on.
<1>8. ASSUME NEW i \in 1..m PROVE i <= b <=> s[i].id <= c
  <2>1. CASE b = 0
    BY <1>1, <1>2, <1>8, <2>1
  <2>2. CASE b # 0
    <3>1. b \in 1..m /\ c = s[b].id
      BY <1>1, <1>5, <2>2
    <3>. HIDE DEF m, n, c
    <3>2. s[i].id \in Nat /\ s[b].id \in Nat /\ i \in Nat /\ b \in Nat
      BY <1>2, <1>1, <1>8, <3>1
    <3>3. i < b => s[i].id < s[b].id
      BY <1>1, <1>8, <3>1 DEF Ascending
    <3>4. b < i => s[b].id < s[i].id
      BY <1>1, <1>8, <3>1 DEF Ascending
    <3>. QED BY <3>1, <3>2, <3>3, <3>4
  <2>. QED BY <2>1, <2>2
<1>. HIDE DEF m, n, c
<1>9. ASSUME NEW k \in 1..c, t[k].kind # "note" PROVE t[k].id \in Gone(t)
  <2>1. k \in 1..n
    BY <1>1, <1>7
  <2>2. PICK i \in 1..m : s[i].id = k
    BY <1>3, <1>9, <2>1
  <2>3. i <= b /\ i \in 1..b
    BY <1>1, <1>5, <1>7, <1>8, <2>2
  <2>4. s[i] = t[k]
    BY <1>2, <2>2
  <2>. QED BY <1>4, <1>5, <1>9, <2>3, <2>4
<1>10. ASSUME NEW k \in (c + 1)..n, t[k].id \in Gone(t) PROVE FALSE
  <2>1. k \in 1..n /\ t[k].id = k
    BY <1>1, <1>7
  <2>2. PICK i \in 1..m : s[i].id = k
    BY <1>4, <1>5, <1>10, <2>1
  <2>3. i \notin (b + 1)..m
    BY <1>4, <1>5, <1>10, <2>1, <2>2
  <2>4. i <= b
    BY <1>1, <1>5, <2>2, <2>3
  <2>. QED BY <1>1, <1>7, <1>8, <1>10, <2>2, <2>4
<1>11. ASSUME NEW k \in (c + 1)..n, t[k].kind = "result", Origin(t, t[k].calls) \in 1..c PROVE FALSE
  <2>1. k \in 1..n
    BY <1>1, <1>7
  <2>2. PICK i \in 1..m : s[i].id = k
    BY <1>3, <1>11, <2>1
  <2>3. s[i] = t[k]
    BY <1>2, <2>2
  <2>. DEFINE o == Origin(s, s[i].calls)
  <2>4. Origin(t, t[k].calls) = IF o = 0 THEN 0 ELSE s[o].id
    BY <2>3, ThinOrigin
  <2>5. o \in 0..m
    BY <1>1, OriginRange DEF m
  <2>. HIDE DEF o
  <2>6. o # 0 /\ o \in 1..m /\ s[o].id <= c
    BY <1>1, <1>7, <1>11, <2>4, <2>5
  <2>7. o \in 1..b
    BY <1>1, <1>5, <1>8, <2>6
  <2>8. i \in (b + 1)..m
    BY <1>1, <1>5, <1>7, <1>8, <1>11, <2>2
  <2>. QED BY <1>5, <1>11, <2>3, <2>7, <2>8 DEF o
<1>12. \A g \in Gone(t) : \E k \in 1..n : t[k].id = g
  <2>. SUFFICES ASSUME NEW g \in Gone(t) PROVE \E k \in 1..n : t[k].id = g
    OBVIOUS
  <2>1. PICK i \in 1..m : s[i].id = g
    BY <1>4, <1>5
  <2>. QED BY <1>1, <1>2, <2>1
<1>13. c = 0 \/ c + RecentKeep <= n
  BY <1>6 DEF c
<1>14. FoldedUpTo(t, c)
  BY <1>1, <1>7, <1>9, <1>10, <1>11, <1>12, <1>13 DEF FoldedUpTo, Cut, n
<1>. QED BY <1>14 DEF c

-----------------------------------------------------------------------------
(* What the events mean *)

\* Two logs of the same conversation, whatever is folded away.
Same(s, t) == \A gone : Folded(s, gone) = Folded(t, gone)

LEMMA SameOn ==
  ASSUME NEW s \in Seq(Event), NEW t \in Seq(Event), Same(s, t), NEW e \in Event
  PROVE  Same(Append(s, e), Append(t, e))
<1>. SUFFICES ASSUME NEW gone PROVE Folded(Append(s, e), gone) = Folded(Append(t, e), gone)
  BY DEF Same
<1>1. Folded(s, gone) = Folded(t, gone)
  BY DEF Same
<1>2. Folded(Append(s, e), gone) = ReadEvent(Folded(s, gone), e, gone)
  BY ReadOn
<1>3. Folded(Append(t, e), gone) = ReadEvent(Folded(t, gone), e, gone)
  BY ReadOn
<1>. QED BY <1>1, <1>2, <1>3

\* A note changes nothing.
LEMMA NoteUnread ==
  ASSUME NEW t \in Seq(Event), NEW e \in Event, e.kind = "note", NEW gone
  PROVE  Folded(Append(t, e), gone) = Folded(t, gone)
<1>. DEFINE c == Folded(t, gone)
<1>1. Folded(Append(t, e), gone) = ReadEvent(c, e, gone) /\ c \in Conv
  BY ReadOn
<1>. HIDE DEF c
<1>2. [c EXCEPT !.summary = Summarize(@, e)] = c
  BY <1>1 DEF Summarize, Conv
<1>3. Measure(c.tokens, e) = c.tokens
  BY DEF Measure
<1>4. e.kind \notin MessageKinds
  BY DEF MessageKinds
<1>5. Shown(c, e) = c
  BY <1>1, <1>3, <1>4 DEF Shown, Conv
<1>6. ReadEvent(c, e, gone) = c
  BY <1>2, <1>5 DEF ReadEvent
<1>. QED BY <1>1, <1>6 DEF c

LEMMA SameNote ==
  ASSUME NEW s \in Seq(Event), NEW t \in Seq(Event), Same(s, t), NEW e \in Event, e.kind = "note"
  PROVE  Same(s, Append(t, e))
<1>. SUFFICES ASSUME NEW gone PROVE Folded(s, gone) = Folded(Append(t, e), gone)
  BY DEF Same
<1>1. Folded(s, gone) = Folded(t, gone)
  BY DEF Same
<1>. QED BY <1>1, NoteUnread

\* The head of the messages is the summary of the last compaction.
LEMMA SummaryOn ==
  ASSUME NEW s \in Seq(Event), NEW e \in Event, NEW gone
  PROVE  Folded(Append(s, e), gone).summary =
           IF e.kind = "compaction" THEN e.id ELSE Folded(s, gone).summary
<1>. DEFINE c == Folded(s, gone)
<1>1. Folded(Append(s, e), gone) = ReadEvent(c, e, gone) /\ c \in Conv
  BY ReadOn
<1>. HIDE DEF c
<1>. DEFINE h == [c EXCEPT !.summary = Summarize(@, e)]
<1>2. h.summary = (IF e.kind = "compaction" THEN e.id ELSE c.summary) /\ h \in Conv
  <2>1. Summarize(c.summary, e) \in Nat
    BY <1>1 DEF Summarize, Conv, Event
  <2>. QED BY <1>1, <2>1 DEF Summarize, Conv
<1>3. ReadEvent(c, e, gone).summary = h.summary
  <2>1. ReadEvent(c, e, gone) = IF e.id \in gone THEN h ELSE Shown(h, e)
    BY DEF ReadEvent
  <2>. HIDE DEF h
  <2>2. Shown(h, e).summary = h.summary
    BY <1>2 DEF Shown, Conv
  <2>. QED BY <2>1, <2>2
<1>. QED BY <1>1, <1>2, <1>3 DEF c

\* The last compaction has folded away all that is.
Covered(s, t) ==
  \A gone : LET m == Folded(s, gone).summary IN
    IF m = 0 THEN Gone(s) = {} ELSE m \in DOMAIN t /\ Gone(s) = t[m].gone

\* A result that is still to come answers the last response, and nothing has
\* been folded away since.
Results ==
  phase = "emit" =>
    \A i \in DOMAIN todo : todo[i].kind = "result" =>
      /\ todo[i].calls # {}
      /\ \E o \in DOMAIN log :
           /\ log[o].kind = "response" /\ todo[i].calls \subseteq log[o].calls
           /\ \A j \in (o + 1)..Len(log) : log[j].kind \notin {"response", "compaction"}

\* A rewound log folds to what its response was asked with.
Restorable == \A i \in DOMAIN saw : Fold(Rewound(stored, i)) = saw[i]

\* What a session of this build keeps when no call id is given twice.
Whole ==
  /\ Thin(log, stored) /\ Same(log, stored)
  /\ Turned(log)
  /\ \E b \in 0..Len(log) : FoldedUpTo(log, b)
  /\ Covered(log, stored)
  /\ Results
  /\ Restorable

\* An event of t is where it was.
Longer(t, u) ==
  /\ t \in Seq(Event) /\ u \in Seq(Event) /\ Len(t) <= Len(u)
  /\ \A k \in DOMAIN t : u[k] = t[k]

LEMMA LongerOn ==
  ASSUME NEW t \in Seq(Event), NEW u, Longer(t, u), NEW e \in Event
  PROVE  Longer(t, Append(u, e))
<1>1. u \in Seq(Event) /\ Len(t) <= Len(u) /\ \A k \in DOMAIN t : u[k] = t[k]
  BY DEF Longer
<1>2. /\ Append(u, e) \in Seq(Event) /\ Len(t) <= Len(Append(u, e))
      /\ \A k \in 1..Len(u) : Append(u, e)[k] = u[k]
  BY <1>1
<1>3. \A k \in DOMAIN t : k \in 1..Len(u)
  BY <1>1
<1>. QED BY <1>1, <1>2, <1>3 DEF Longer

LEMMA LongerSelf ==
  ASSUME NEW t \in Seq(Event)
  PROVE  Longer(t, t)
<1>. QED BY DEF Longer

LEMMA CoveredStore ==
  ASSUME NEW s, NEW t, Covered(s, t), NEW u, Longer(t, u)
  PROVE  Covered(s, u)
<1>1. \A k \in DOMAIN t : k \in DOMAIN u /\ u[k] = t[k]
  BY DEF Longer
<1>. QED BY <1>1 DEF Covered

LEMMA CoveredOn ==
  ASSUME NEW s \in Seq(Event), NEW t, Covered(s, t), NEW e \in Event, e.kind # "compaction"
  PROVE  Covered(Append(s, e), t)
<1>1. e.gone = {}
  BY DEF Event
<1>2. Gone(Append(s, e)) = Gone(s)
  BY <1>1, GoneOn
<1>3. \A gone : Folded(Append(s, e), gone).summary = Folded(s, gone).summary
  BY SummaryOn
<1>. QED BY <1>2, <1>3 DEF Covered

LEMMA CoveredCompact ==
  ASSUME NEW s \in Seq(Event), NEW t, NEW e \in Event, e.kind = "compaction",
         e.id \in DOMAIN t, t[e.id] = e, Gone(Append(s, e)) = e.gone
  PROVE  Covered(Append(s, e), t)
<1>1. \A gone : Folded(Append(s, e), gone).summary = e.id
  BY SummaryOn
<1>2. e.id # 0
  BY DEF Event
<1>. QED BY <1>1, <1>2 DEF Covered

LEMMA CoveredSame ==
  ASSUME NEW s, NEW t, Thin(s, t), Same(s, t), Covered(s, t)
  PROVE  Covered(t, t)
<1>1. Gone(t) = Gone(s)
  BY ThinGone
<1>. QED BY <1>1 DEF Covered, Same

\* What was restored before is restored from a longer store.
LEMMA RestorableOn ==
  ASSUME Held, Restorable, Longer(stored, stored'), NEW i \in DOMAIN saw
  PROVE  Fold(Rewound(stored', i)) = saw[i]
<1>1. stored \in Seq(Event) /\ i \in 1..Len(stored) /\ Len(stored) \in Nat
  BY DEF Held, TypeOK
<1>. DEFINE n == Len(stored)
            a == SubSeq(stored, 1, i - 1)
            b == SubSeq(stored', 1, i - 1)
<1>2. /\ stored' \in Seq(Event) /\ n <= Len(stored') /\ Len(stored') \in Nat
      /\ \A k \in 1..n : stored'[k] = stored[k]
  BY <1>1 DEF Longer
<1>3. i - 1 \in 0..n /\ i - 1 \in 0..Len(stored')
  BY <1>1, <1>2
<1>4. /\ a \in Seq(Event) /\ Len(a) = i - 1 /\ b \in Seq(Event) /\ Len(b) = i - 1
      /\ \A k \in 1..(i - 1) : a[k] = stored[k] /\ b[k] = stored'[k]
  BY <1>1, <1>2, <1>3
<1>5. \A k \in 1..(i - 1) : a[k] = b[k]
  BY <1>1, <1>2, <1>3, <1>4
<1>. HIDE DEF a, b
<1>6. a = b
  BY <1>3, <1>4, <1>5
<1>. QED BY <1>6 DEF Restorable, Rewound, a, b

LEMMA WholeStart == Init /\ Own => Whole
<1>. SUFFICES ASSUME Init, Own PROVE Whole
  OBVIOUS
<1>1. stored = <<>> /\ log = <<>> /\ saw = <<>> /\ phase = "idle"
  BY DEF Init, Own
<1>2. Positions(<<>>) /\ <<>> \in Seq(Event) /\ Gone(<<>>) = {}
  BY DEF Positions, Gone, ToSet
<1>3. \A gone : Folded(<<>>, gone) = Nothing
  <2>1. [id |-> 1, kind |-> "note", calls |-> {}, tokens |-> 0, gone |-> {}] \in Event
    BY DEF Event
  <2>. QED BY <1>2, <2>1, ReadOn
<1>4. Thin(log, stored) /\ Same(log, stored)
  BY <1>1, <1>2, ThinSelf DEF Same
<1>5. Turned(log)
  BY <1>1 DEF Turned
<1>6. FoldedUpTo(log, 0) /\ 0 \in 0..Len(log)
  BY <1>1, <1>2, KeepAssumption DEF FoldedUpTo, Cut
<1>7. Covered(log, stored)
  BY <1>1, <1>2, <1>3 DEF Covered, Nothing
<1>8. Results /\ Restorable
  BY <1>1 DEF Results, Restorable
<1>. QED BY <1>4, <1>5, <1>6, <1>7, <1>8 DEF Whole

\* The store and the run both get a new event.
LEMMA WholeKeep ==
  ASSUME Held, Whole, NEW e \in Event, e.id = Len(stored) + 1, Keep(e), UNCHANGED saw
  PROVE  /\ Thin(log', stored') /\ Same(log', stored') /\ Restorable'
         /\ Longer(stored, stored') /\ \A i \in DOMAIN log : log[i].id < e.id
         /\ log \in Seq(Event) /\ log' = Append(log, e) /\ Ascending(log)
         /\ stored \in Seq(Event) /\ e.id \in DOMAIN stored' /\ stored'[e.id] = e
<1>1. /\ log \in Seq(Event) /\ stored \in Seq(Event) /\ Positions(stored) /\ Ascending(log)
      /\ log' = Append(log, e) /\ stored' = Append(stored, e) /\ Len(stored) \in Nat
  BY DEF Held, TypeOK, Positions, Keep, InStore
<1>2. Thin(log', stored')
  BY <1>1, ThinOn DEF Whole
<1>3. Same(log', stored')
  BY <1>1, SameOn DEF Whole
<1>4. Longer(stored, stored')
  BY <1>1, LongerSelf, LongerOn
<1>5. Restorable'
  BY <1>4, RestorableOn DEF Whole, Restorable
<1>6. \A i \in DOMAIN log : log[i].id < e.id
  <2>. SUFFICES ASSUME NEW i \in DOMAIN log PROVE log[i].id < e.id
    OBVIOUS
  <2>1. log[i] \in Event /\ log[i].id <= Len(stored)
    BY <1>1 DEF Held, InStore
  <2>2. log[i].id \in Nat
    BY <2>1 DEF Event
  <2>. QED BY <1>1, <2>1, <2>2
<1>7. e.id \in DOMAIN stored' /\ stored'[e.id] = e
  BY <1>1
<1>. QED BY <1>1, <1>2, <1>3, <1>4, <1>5, <1>6, <1>7

LEMMA WholeLoad == Held /\ Whole /\ Load => Whole'
<1>. SUFFICES ASSUME Held, Whole, Load PROVE Whole'
  OBVIOUS
<1>1. Positions(stored) /\ stored \in Seq(Event) /\ Thin(log, stored)
  BY DEF Held, TypeOK, Positions, Whole
<1>2. PICK b \in 0..Len(log) : FoldedUpTo(log, b)
  BY DEF Whole
<1>. DEFINE c == IF b = 0 THEN 0 ELSE log[b].id
<1>3. Turned(stored) /\ FoldedUpTo(stored, c)
  BY <1>1, <1>2, ThinTurned, ThinFolded DEF Whole
<1>. HIDE DEF c
<1>4. Orphans(stored) = {}
  BY <1>1, <1>3, WholeNotOrphaned
<1>5. Repair(stored) = stored
  BY <1>1, <1>4, NothingRepaired
<1>6. stored' = stored \o <<>> /\ Begin(stored \o <<>>)
  BY <1>4, <1>5 DEF Load
<1>7. stored' = stored /\ log' = stored /\ UNCHANGED saw
      /\ todo' = <<[kind |-> "user", calls |-> {}]>>
  <2>1. stored \o <<>> = stored
    BY <1>1
  <2>. QED BY <1>6, <2>1 DEF Begin
<1>8. Thin(log', stored') /\ Same(log', stored')
  BY <1>1, <1>7, ThinSelf DEF Same
<1>9. \E k \in 0..Len(log') : FoldedUpTo(log', k)
  <2>1. c \in 0..Len(stored)
    BY <1>3 DEF FoldedUpTo
  <2>. QED BY <1>3, <1>7, <2>1
<1>10. Covered(log', stored')
  BY <1>1, <1>7, CoveredSame DEF Whole
<1>11. Results'
  BY <1>7 DEF Results
<1>12. Restorable'
  BY <1>7 DEF Whole, Restorable
<1>. QED BY <1>3, <1>7, <1>8, <1>9, <1>10, <1>11, <1>12 DEF Whole

\* An event that is no compaction is folded away by none that is in the log.
LEMMA WholeOn ==
  ASSUME Held, Whole, NEW e \in Event, e.kind # "compaction", \A i \in DOMAIN log : log[i].id < e.id,
         e.kind = "result" => \A b \in 0..Len(log) : FoldedUpTo(log, b) => Origin(log, e.calls) \notin 1..b
  PROVE  \E b \in 0..Len(Append(log, e)) : FoldedUpTo(Append(log, e), b)
<1>1. PICK b \in 0..Len(log) : FoldedUpTo(log, b)
  BY DEF Whole
<1>2. log \in Seq(Event) /\ e.gone = {}
  BY DEF Held, TypeOK, Event
<1>3. FoldedUpTo(Append(log, e), b)
  BY <1>1, <1>2, FoldedOn
<1>4. b \in 0..Len(Append(log, e))
  BY <1>3 DEF FoldedUpTo
<1>. QED BY <1>3, <1>4

\* The response that a result of the turn answers is not folded away.
LEMMA AnswerKept ==
  ASSUME Held, NEW calls, calls # {}, NEW o \in DOMAIN log, log[o].kind = "response",
         calls \subseteq log[o].calls,
         \A j \in (o + 1)..Len(log) : log[j].kind \notin {"response", "compaction"},
         NEW b \in 0..Len(log), FoldedUpTo(log, b)
  PROVE  Origin(log, calls) \notin 1..b
<1>1. /\ log \in Seq(Event) /\ Ascending(log) /\ Len(log) \in Nat /\ DOMAIN log = 1..Len(log)
  BY DEF Held, InStore
<1>2. log[o].id \notin Gone(log)
  <2>. SUFFICES ASSUME NEW j \in DOMAIN log, log[o].id \in log[j].gone PROVE FALSE
    BY DEF Gone, ToSet
  <2>1. log[j] \in Event /\ log[o] \in Event
    BY <1>1
  <2>2. /\ log[j].kind = "compaction" /\ log[o].id < log[j].id
        /\ log[j].id \in Nat /\ log[o].id \in Nat
    BY <2>1 DEF Event
  <2>3. j <= o
    BY <1>1, <2>2
  <2>4. j # o
    BY <2>2
  <2>5. log[j].id < log[o].id
    BY <1>1, <2>3, <2>4 DEF Ascending
  <2>. QED BY <2>2, <2>5
<1>3. o \notin 1..b
  BY <1>2 DEF FoldedUpTo
<1>4. o <= Origin(log, calls) /\ Origin(log, calls) \in 0..Len(log)
  BY <1>1, OriginRange
<1>. QED BY <1>1, <1>3, <1>4

LEMMA WholeEmit == Held /\ Whole /\ Emit => Whole'
<1>. SUFFICES ASSUME Held, Whole, Emit PROVE Whole'
  OBVIOUS
<1>1. /\ Positions(stored) /\ todo \in Seq(Plan) /\ todo # <<>> /\ phase = "emit"
  BY DEF Held, TypeOK, Emit, Positions
<1>2. Head(todo) \in Plan /\ Head(todo) = todo[1] /\ 1 \in DOMAIN todo /\ Len(todo) \in Nat
      /\ DOMAIN todo = 1..Len(todo)
  BY <1>1
<1>3. /\ Head(todo).kind \in {"user", "result", "note"}
      /\ Head(todo).calls \in SUBSET CallIds
  BY <1>2 DEF Plan
<1>. DEFINE e == New(Head(todo).kind, Head(todo).calls, 0, {})
<1>4. e \in Event /\ e.id = Len(stored) + 1
  BY <1>1, <1>3, NewIsEvent DEF MessageKinds
<1>5. e.kind = Head(todo).kind /\ e.calls = Head(todo).calls
  BY DEF New
<1>6. Keep(e) /\ UNCHANGED saw /\ todo' = Tail(todo)
  BY DEF Emit
<1>. HIDE DEF e
<1>7. /\ Thin(log', stored') /\ Same(log', stored') /\ Restorable'
      /\ Longer(stored, stored') /\ (\A i \in DOMAIN log : log[i].id < e.id)
      /\ log \in Seq(Event) /\ log' = Append(log, e) /\ Ascending(log)
  BY <1>4, <1>6, WholeKeep
<1>8. e.kind = "result" =>
        /\ e.calls # {}
        /\ \E o \in DOMAIN log :
             /\ log[o].kind = "response" /\ e.calls \subseteq log[o].calls
             /\ \A j \in (o + 1)..Len(log) : log[j].kind \notin {"response", "compaction"}
  BY <1>1, <1>2, <1>5 DEF Whole, Results
<1>9. Turned(log')
  BY <1>3, <1>4, <1>5, <1>7, <1>8, TurnedOn DEF Whole
<1>10. \E b \in 0..Len(log') : FoldedUpTo(log', b)
  <2>1. e.kind = "result" => \A b \in 0..Len(log) : FoldedUpTo(log, b) => Origin(log, e.calls) \notin 1..b
    BY <1>8, AnswerKept
  <2>2. e.kind # "compaction"
    BY <1>3, <1>5
  <2>. QED BY <1>4, <1>7, <2>1, <2>2, WholeOn
<1>11. Covered(log', stored')
  BY <1>3, <1>4, <1>5, <1>7, CoveredStore, CoveredOn DEF Whole
<1>12. Results'
  <2>. SUFFICES ASSUME NEW i \in DOMAIN todo', todo'[i].kind = "result"
                PROVE  /\ todo'[i].calls # {}
                       /\ \E o \in DOMAIN log' :
                            /\ log'[o].kind = "response" /\ todo'[i].calls \subseteq log'[o].calls
                            /\ \A j \in (o + 1)..Len(log') : log'[j].kind \notin {"response", "compaction"}
    BY DEF Results
  <2>1. i + 1 \in DOMAIN todo /\ todo'[i] = todo[i + 1]
    BY <1>1, <1>2, <1>6
  <2>. DEFINE calls == todo'[i].calls
  <2>2. PICK o \in DOMAIN log :
          /\ log[o].kind = "response" /\ calls \subseteq log[o].calls
          /\ \A j \in (o + 1)..Len(log) : log[j].kind \notin {"response", "compaction"}
    BY <1>1, <2>1 DEF Whole, Results
  <2>3. calls # {}
    BY <1>1, <2>1 DEF Whole, Results
  <2>4. /\ DOMAIN log = 1..Len(log) /\ DOMAIN log' = 1..(Len(log) + 1) /\ Len(log') = Len(log) + 1
        /\ log'[Len(log) + 1] = e /\ Len(log) \in Nat
        /\ \A k \in 1..Len(log) : log'[k] = log[k]
    BY <1>4, <1>7
  <2>. HIDE DEF calls
  <2>5. \A j \in (o + 1)..(Len(log) + 1) : log'[j].kind \notin {"response", "compaction"}
    <3>. SUFFICES ASSUME NEW j \in (o + 1)..(Len(log) + 1)
                  PROVE  log'[j].kind \notin {"response", "compaction"}
      OBVIOUS
    <3>1. CASE j = Len(log) + 1
      BY <1>3, <1>5, <2>4, <3>1
    <3>2. CASE j # Len(log) + 1
      <4>1. j \in (o + 1)..Len(log) /\ j \in 1..Len(log)
        BY <2>2, <2>4, <3>2
      <4>. QED BY <2>2, <2>4, <4>1
    <3>. QED BY <3>1, <3>2
  <2>. QED BY <2>2, <2>3, <2>4, <2>5 DEF calls
<1>. QED BY <1>7, <1>9, <1>10, <1>11, <1>12 DEF Whole

LEMMA WholeProceed == Held /\ Whole /\ Proceed => Whole'
<1>. SUFFICES ASSUME Held, Whole, Proceed PROVE Whole'
  OBVIOUS
<1>. QED BY DEF Proceed, Whole, Results, Restorable

LEMMA WholeCompact == Held /\ Whole /\ Compact => Whole'
<1>. SUFFICES ASSUME Held, Whole, Compact PROVE Whole'
  OBVIOUS
<1>. DEFINE e == New("compaction", {}, 0, Compacted(log))
<1>1. Positions(stored)
  BY DEF Held, TypeOK, Positions
<1>2. e \in Event /\ e.id = Len(stored) + 1 /\ e.kind = "compaction" /\ e.gone = Compacted(log)
  <2>1. e \in Event /\ e.id = Len(stored) + 1
    BY <1>1, CompactedRange, NewIsEvent
  <2>. QED BY <2>1 DEF New
<1>3. Keep(e) /\ UNCHANGED saw /\ phase' = "ask"
  BY DEF Compact
<1>. HIDE DEF e
<1>4. /\ Thin(log', stored') /\ Same(log', stored') /\ Restorable'
      /\ Longer(stored, stored') /\ (\A i \in DOMAIN log : log[i].id < e.id)
      /\ log \in Seq(Event) /\ log' = Append(log, e) /\ Ascending(log)
      /\ e.id \in DOMAIN stored' /\ stored'[e.id] = e
  BY <1>2, <1>3, WholeKeep
<1>5. Turned(log')
  BY <1>2, <1>4, TurnedOn DEF Whole
<1>6. PICK b \in 0..Len(log) : FoldedUpTo(log, b)
  BY DEF Whole
<1>7. FoldedUpTo(log', Boundary(log)) /\ Gone(log') = e.gone
  BY <1>2, <1>4, <1>6, FoldedCompact
<1>8. \E k \in 0..Len(log') : FoldedUpTo(log', k)
  <2>1. Boundary(log) \in 0..Len(log')
    BY <1>7 DEF FoldedUpTo
  <2>. QED BY <1>7, <2>1
<1>9. Covered(log', stored')
  BY <1>2, <1>4, <1>7, CoveredCompact
<1>10. Results'
  BY <1>3 DEF Results
<1>. QED BY <1>4, <1>5, <1>8, <1>9, <1>10 DEF Whole

\* The store gets a note that the run does not keep.
LEMMA NoteStored ==
  ASSUME Held, NEW s, Thin(s, stored), Same(s, stored)
  PROVE  LET t == Append(stored, Note) IN
         /\ Positions(t) /\ Len(t) = Len(stored) + 1 /\ Longer(stored, t)
         /\ Thin(s, t) /\ Same(s, t)
<1>1. Positions(stored) /\ stored \in Seq(Event) /\ s \in Seq(Event)
  BY DEF Held, TypeOK, Positions, Thin
<1>2. Note \in Event /\ Note.id = Len(stored) + 1
  BY <1>1, NewIsEvent DEF Note
<1>3. Note.kind = "note"
  BY DEF Note, New
<1>4. Longer(stored, Append(stored, Note))
  BY <1>1, <1>2, LongerSelf, LongerOn
<1>. QED BY <1>1, <1>2, <1>3, <1>4, StoreGrows, ThinNote, SameNote

LEMMA WholeRespond ==
  ASSUME Held, Whole, NEW calls, ToSet(calls) \in SUBSET CallIds, Respond(calls),
         \A k \in DOMAIN stored : stored[k].calls \cap ToSet(calls) = {}
  PROVE  /\ Thin(log', stored') /\ Same(log', stored') /\ Turned(log') /\ Restorable'
         /\ Covered(log', stored') /\ \E b \in 0..Len(log') : FoldedUpTo(log', b)
         /\ log' \in Seq(Event) /\ Len(log') = Len(log) + 1 /\ Len(log) \in Nat
         /\ log'[Len(log')].kind = "response" /\ log'[Len(log')].calls = ToSet(calls)
<1>. DEFINE n == Len(stored)
<1>1. /\ Positions(stored) /\ stored \in Seq(Event) /\ n \in Nat /\ log \in Seq(Event)
      /\ Thin(log, stored) /\ Same(log, stored) /\ DOMAIN stored = 1..n /\ Len(log) \in Nat
  BY DEF Held, TypeOK, Positions, Whole
<1>2. cache'.seen = log
  BY HeldSynced DEF Respond
<1>3. PICK tokens \in setting.usages, deltas \in {<<>>, <<Note>>} :
        LET e == [New("response", ToSet(calls), tokens, {}) EXCEPT !.id = @ + Len(deltas)]
        IN  /\ stored' = stored \o deltas \o <<e>> /\ log' = Append(log, e)
            /\ saw' = [i \in DOMAIN saw \cup {e.id} |->
                         IF i = e.id THEN Fold(cache'.seen) ELSE saw[i]]
  BY DEF Respond
<1>. DEFINE e0 == New("response", ToSet(calls), tokens, {})
            e == [e0 EXCEPT !.id = @ + Len(deltas)]
            t == stored \o deltas
<1>4. e0 \in Event /\ e0.id = n + 1
  <2>1. tokens \in Nat
    BY LogAssumption DEF Held, TypeOK
  <2>. QED BY <1>1, <2>1, NewIsEvent DEF MessageKinds
<1>5. /\ Len(deltas) \in {0, 1} /\ e \in Event /\ e.id = n + 1 + Len(deltas)
      /\ e.kind = "response" /\ e.calls = ToSet(calls)
  <2>1. Len(deltas) \in {0, 1}
    BY <1>3
  <2>2. e.id = n + 1 + Len(deltas) /\ e.gone = {} /\ e.kind = "response" /\ e.calls = ToSet(calls)
    BY <1>1, <1>4, <2>1 DEF New
  <2>3. /\ e \in [id : Nat \ {0}, kind : MessageKinds \cup {"compaction", "note"},
                calls : SUBSET CallIds, tokens : Nat, gone : SUBSET Nat]
    <3>1. e0 \in [id : Nat \ {0}, kind : MessageKinds \cup {"compaction", "note"},
                  calls : SUBSET CallIds, tokens : Nat, gone : SUBSET Nat]
      BY <1>4 DEF Event
    <3>2. e0.id + Len(deltas) \in Nat \ {0}
      BY <1>1, <1>4, <2>1
    <3>. HIDE DEF e0
    <3>. QED BY <3>1, <3>2
  <2>. HIDE DEF e
  <2>. QED BY <2>1, <2>2, <2>3 DEF Event
<1>6. /\ stored' = t \o <<e>> /\ log' = Append(log, e)
      /\ saw' = [i \in DOMAIN saw \cup {e.id} |-> IF i = e.id THEN Fold(log) ELSE saw[i]]
  BY <1>2, <1>3
<1>. HIDE DEF e0, e
<1>7. /\ Positions(t) /\ Len(t) = n + Len(deltas) /\ Longer(stored, t)
      /\ Thin(log, t) /\ Same(log, t)
  <2>1. CASE deltas = <<>>
    <3>1. t = stored /\ Len(deltas) = 0
      BY <1>1, <2>1
    <3>. HIDE DEF t
    <3>2. Longer(stored, stored)
      BY <1>1, LongerSelf
    <3>. QED BY <1>1, <3>1, <3>2
  <2>2. CASE deltas = <<Note>>
    <3>1. Note \in Event
      BY <1>1, NewIsEvent DEF Note
    <3>2. t = Append(stored, Note) /\ Len(deltas) = 1
      BY <1>1, <2>2, <3>1
    <3>. HIDE DEF t
    <3>. QED BY <1>1, <3>2, NoteStored
  <2>. QED BY <1>3, <2>1, <2>2
<1>. HIDE DEF t
<1>8. t \in Seq(Event) /\ stored' = Append(t, e) /\ e.id = Len(t) + 1 /\ Len(t) \in Nat
  BY <1>1, <1>5, <1>6, <1>7 DEF Positions
<1>9. Thin(log', stored') /\ Same(log', stored')
  <2>1. Thin(Append(log, e), Append(t, e))
    BY <1>5, <1>7, <1>8, ThinOn
  <2>2. Same(Append(log, e), Append(t, e))
    BY <1>1, <1>5, <1>7, <1>8, SameOn
  <2>. QED BY <1>6, <1>8, <2>1, <2>2
<1>10. Longer(stored, stored')
  BY <1>1, <1>5, <1>7, <1>8, LongerOn
<1>11. Turned(log')
  <2>1. \A i \in DOMAIN log : log[i].calls \cap e.calls = {}
    BY <1>1, <1>5 DEF Thin
  <2>. QED BY <1>1, <1>5, <1>6, <2>1, TurnedOn DEF Whole
<1>12. \E b \in 0..Len(log') : FoldedUpTo(log', b)
  <2>1. \A i \in DOMAIN log : log[i].id < e.id
    <3>. SUFFICES ASSUME NEW i \in DOMAIN log PROVE log[i].id < e.id
      OBVIOUS
    <3>1. log[i].id \in 1..n
      BY <1>1 DEF Thin
    <3>. QED BY <1>1, <1>5, <3>1
  <2>. QED BY <1>5, <1>6, <2>1, WholeOn
<1>13. Covered(log', stored')
  <2>1. Covered(log', stored)
    BY <1>1, <1>5, <1>6, CoveredOn DEF Whole
  <2>. QED BY <1>10, <2>1, CoveredStore
<1>14. Fold(log) = Fold(t)
  <2>1. Gone(log) = Gone(t)
    BY <1>7, ThinGone
  <2>. QED BY <1>7, <2>1 DEF Same, Fold
<1>15. Rewound(stored', e.id) = t
  <2>1. SubSeq(Append(t, e), 1, Len(t)) = t
    BY <1>8
  <2>2. e.id - 1 = Len(t)
    BY <1>8
  <2>. QED BY <1>8, <2>1, <2>2 DEF Rewound
<1>16. Restorable'
  <2>. SUFFICES ASSUME NEW i \in DOMAIN saw' PROVE Fold(Rewound(stored', i)) = saw'[i]
    BY DEF Restorable
  <2>1. CASE i = e.id
    BY <1>6, <1>14, <1>15, <2>1
  <2>2. CASE i # e.id
    <3>1. i \in DOMAIN saw /\ saw'[i] = saw[i]
      BY <1>6, <2>2
    <3>. QED BY <1>10, <3>1, RestorableOn DEF Whole
  <2>. QED BY <2>1, <2>2
<1>17. /\ log' \in Seq(Event) /\ Len(log') = Len(log) + 1
       /\ log'[Len(log')] = e
  BY <1>1, <1>5, <1>6
<1>. QED BY <1>1, <1>5, <1>9, <1>11, <1>12, <1>13, <1>16, <1>17

LEMMA WholeFinalAnswer == Held /\ Whole /\ FinalAnswer => Whole'
<1>. SUFFICES ASSUME Held, Whole, FinalAnswer PROVE Whole'
  OBVIOUS
<1>1. ToSet(<<>>) = {}
  BY DEF ToSet
<1>2. Respond(<<>>)
  BY DEF FinalAnswer
<1>3. Results'
  <2>1. phase' = "idle" \/ todo' = Stuck
    BY DEF FinalAnswer
  <2>. QED BY <2>1 DEF Results, Stuck
<1>. QED BY <1>1, <1>2, <1>3, WholeRespond DEF Whole

LEMMA WholeToolCalls == Held /\ Whole /\ ~setting.repeats /\ ToolCalls => Whole'
<1>. SUFFICES ASSUME Held, Whole, ~setting.repeats, ToolCalls PROVE Whole'
  OBVIOUS
<1>a. PICK ids \in SUBSET Usable :
        /\ Cardinality(ids) \in 1..MaxCalls
        /\ \E calls \in SetToSeqs(ids) :
             /\ Respond(calls)
             /\ \/ todo' \in Turns(calls) /\ next' = "check"
                \/ todo' = Stuck /\ next' = "idle"
  BY DEF ToolCalls
<1>1. PICK calls \in SetToSeqs(ids) :
        /\ Respond(calls)
        /\ todo' \in Turns(calls) \/ todo' = Stuck
  BY <1>a
<1>2. calls \in Seq(CallIds) /\ calls # <<>> /\ ToSet(calls) \subseteq ids
  <2>. DEFINE k == Cardinality(ids)
  <2>1. k \in Nat /\ k >= 1
    BY <1>a
  <2>2. calls \in [1..k -> ids]
    BY DEF SetToSeqs
  <2>3. ids \subseteq CallIds
    BY DEF Usable
  <2>. HIDE DEF k
  <2>. QED BY <2>1, <2>2, <2>3 DEF ToSet
<1>3. ToSet(calls) \in SUBSET CallIds
  BY <1>2 DEF Usable
<1>4. \A k \in DOMAIN stored : stored[k].calls \cap ToSet(calls) = {}
  BY <1>2 DEF Usable, ToSet
<1>5. /\ Thin(log', stored') /\ Same(log', stored') /\ Turned(log') /\ Restorable'
      /\ Covered(log', stored') /\ \E b \in 0..Len(log') : FoldedUpTo(log', b)
      /\ log' \in Seq(Event) /\ Len(log') = Len(log) + 1 /\ Len(log) \in Nat
      /\ log'[Len(log')].kind = "response" /\ log'[Len(log')].calls = ToSet(calls)
  BY <1>1, <1>3, <1>4, WholeRespond
<1>6. Results'
  <2>1. CASE todo' = Stuck
    BY <2>1 DEF Results, Stuck
  <2>2. CASE todo' \in Turns(calls)
    <3>1. todo' \in Seq(PlanOf(ToSet(calls)))
      BY <1>2, <2>2, TurnsType
    <3>. SUFFICES ASSUME NEW i \in DOMAIN todo', todo'[i].kind = "result"
                  PROVE  /\ todo'[i].calls # {}
                         /\ \E o \in DOMAIN log' :
                              /\ log'[o].kind = "response" /\ todo'[i].calls \subseteq log'[o].calls
                              /\ \A j \in (o + 1)..Len(log') : log'[j].kind \notin {"response", "compaction"}
      BY DEF Results
    <3>2. todo'[i] \in PlanOf(ToSet(calls))
      BY <3>1
    <3>3. PICK c \in ToSet(calls) : todo'[i].calls = {c}
      BY <3>2 DEF PlanOf
    <3>. DEFINE o == Len(log')
    <3>4. o \in DOMAIN log' /\ log'[o].kind = "response" /\ todo'[i].calls \subseteq log'[o].calls
      BY <1>5, <3>3
    <3>5. \A j \in (o + 1)..Len(log') : log'[j].kind \notin {"response", "compaction"}
      BY <1>5
    <3>. QED BY <3>3, <3>4, <3>5
  <2>. QED BY <1>1, <2>1, <2>2
<1>. QED BY <1>5, <1>6 DEF Whole

LEMMA WholeFail == Held /\ Whole /\ Fail => Whole'
<1>. SUFFICES ASSUME Held, Whole, Fail PROVE Whole'
  OBVIOUS
<1>1. stored' = Append(stored, Note) /\ phase' = "idle" /\ UNCHANGED <<log, saw>>
  BY DEF Fail
<1>2. Longer(stored, stored') /\ Thin(log', stored') /\ Same(log', stored')
  BY <1>1, NoteStored DEF Whole
<1>3. Covered(log', stored')
  BY <1>1, <1>2, CoveredStore DEF Whole
<1>4. Restorable'
  BY <1>1, <1>2, RestorableOn DEF Whole, Restorable
<1>5. Results'
  BY <1>1 DEF Results
<1>. QED BY <1>1, <1>2, <1>3, <1>4, <1>5 DEF Whole

LEMMA WholeStop == Whole /\ Stop => Whole'
<1>. QED BY DEF Stop, Whole, Results, Restorable

\* A session of this build in which no call id is given twice.
Plain == Own /\ ~setting.repeats

LEMMA WholeInductive == Spec => [](Plain => Whole)
<1>1. Init => (Plain => Whole)
  BY WholeStart DEF Plain
<1>2. Held /\ (Plain => Whole) /\ [Next]_vars => (Plain => Whole)'
  <2>. SUFFICES ASSUME Held, Plain => Whole, [Next]_vars, Plain' PROVE Whole'
    OBVIOUS
  <2>1. setting' = setting
    BY DEF Next, vars
  <2>2. Plain /\ Whole
    BY <2>1 DEF Plain, Own
  <2>3. CASE UNCHANGED vars
    BY <2>2, <2>3 DEF vars, Whole, Results, Restorable
  <2>4. ~Rewind
    BY <2>2 DEF Rewind, Plain, Own
  <2>5. CASE Next
    BY <2>2, <2>4, <2>5, WholeLoad, WholeEmit, WholeProceed, WholeCompact, WholeFinalAnswer,
       WholeToolCalls, WholeFail, WholeStop DEF Next, Plain
  <2>. QED BY <2>3, <2>5
<1>. QED BY <1>1, <1>2, HeldInductive, PTL DEF Spec

\* The response that a result answers is the last one before it.
LEMMA ResponseIsOrigin ==
  ASSUME log \in Seq(Event), Turned(log), NEW i \in DOMAIN log, log[i].kind = "result"
  PROVE  ResponseOf(i) = Origin(log, log[i].calls)
<1>. DEFINE o == Origin(log, log[i].calls)
            I == {k \in 1..i : log[k].kind = "response"}
<1>1. i \in 1..Len(log) /\ Len(log) \in Nat
  BY DEF Turned
<1>2. o \in 1..(i - 1) /\ \A j \in (o + 1)..i : log[j].kind # "response"
  BY DEF Turned
<1>3. log[o].kind = "response"
  BY <1>2, OriginRange
<1>4. ResponseOf(i) = IF I # {} THEN Max(I) ELSE 0
  BY DEF ResponseOf, SelectLastInSubSeq
<1>. HIDE DEF o
<1>5. o \in I
  BY <1>1, <1>2, <1>3
<1>6. \A k \in I : k <= o
  BY <1>1, <1>2
<1>. HIDE DEF I
<1>7. Max(I) = o
  <2>1. I \subseteq 0..Len(log)
    BY <1>1 DEF I
  <2>2. Max(I) \in I /\ o <= Max(I)
    BY <1>1, <1>5, <2>1, Greatest
  <2>3. Max(I) <= o
    BY <1>6, <2>2
  <2>4. Max(I) \in 0..Len(log)
    BY <2>1, <2>2
  <2>5. o \in Int
    BY <1>2
  <2>. DEFINE x == Max(I)
  <2>6. x <= o /\ o <= x /\ x \in Int
    BY <2>2, <2>3, <2>4
  <2>. HIDE DEF x
  <2>7. x = o
    BY <2>5, <2>6
  <2>. QED BY <2>7 DEF x
<1>. QED BY <1>4, <1>5, <1>7 DEF o

\* Compaction loses nothing of a session of this build: turns are folded away
\* whole, what is folded away is summarised, and a rewind restores what the
\* model was shown.  No provider gives a call id twice.
THEOREM NothingIsLost == Spec => [](~setting.repeats => CompactionLaw)
<1>1. Held /\ (Plain => Whole) => (~setting.repeats => CompactionLaw)
  <2>. SUFFICES ASSUME Held, Plain => Whole, ~setting.repeats
                PROVE  WholeTurns /\ SummaryCovers /\ RewindRestores
    BY DEF CompactionLaw
  <2>1. WholeTurns
    <3>. SUFFICES ASSUME Own, NEW i \in DOMAIN log, log[i].kind = "result"
                  PROVE  log[i].id \in Gone(log) <=> log[ResponseOf(i)].id \in Gone(log)
      BY DEF WholeTurns
    <3>1. log \in Seq(Event) /\ Turned(log)
      BY DEF Held, TypeOK, Whole, Plain
    <3>2. PICK b \in 0..Len(log) : FoldedUpTo(log, b)
      BY DEF Whole, Plain
    <3>3. ResponseOf(i) = Origin(log, log[i].calls)
      BY <3>1, ResponseIsOrigin
    <3>. QED BY <3>1, <3>2, <3>3, TurnsWhole
  <2>2. SummaryCovers
    BY DEF SummaryCovers, Whole, Covered, Plain, Fold
  <2>3. RewindRestores
    BY DEF RewindRestores, Whole, Restorable, Plain
  <2>. QED BY <2>1, <2>2, <2>3
<1>. QED BY <1>1, HeldInductive, WholeInductive, PTL

\* An event is a message of the conversation, if it is not folded away.
LEMMA ReadMessages ==
  ASSUME NEW c \in Conv, NEW e \in Event, NEW gone
  PROVE  ReadEvent(c, e, gone).messages =
           IF e.id \notin gone /\ e.kind \in MessageKinds THEN Append(c.messages, e) ELSE c.messages
<1>. DEFINE h == [c EXCEPT !.summary = Summarize(@, e)]
<1>1. h.messages = c.messages /\ h \in [messages : Seq(Event), summary : {h.summary}, tokens : Nat]
  BY DEF Conv
<1>2. ReadEvent(c, e, gone) = IF e.id \in gone THEN h ELSE Shown(h, e)
  BY DEF ReadEvent
<1>. HIDE DEF h
<1>3. Shown(h, e).messages = IF e.kind \in MessageKinds THEN Append(h.messages, e) ELSE h.messages
  BY <1>1 DEF Shown
<1>. QED BY <1>1, <1>2, <1>3

\* The messages are the events that are not folded away, in their order.
LEMMA InOrder ==
  ASSUME NEW s \in Seq(Event), NEW gone
  PROVE  LET m == Folded(s, gone).messages IN
         /\ m \in Seq(Event)
         /\ \A i \in DOMAIN m : \E p \in DOMAIN s :
              /\ m[i] = s[p] /\ s[p].id \notin gone
              /\ \A q \in 1..(p - 1) : s[q].kind \in MessageKinds /\ s[q].id \notin gone =>
                   \E j \in 1..(i - 1) : m[j] = s[q]
<1>. DEFINE n == Len(s)
<1>1. n \in Nat /\ DOMAIN s = 1..n /\ \A k \in 1..n : s[k] \in Event
  OBVIOUS
<1>2. PICK g \in [0..n -> Conv] :
        /\ g[0] = Nothing /\ g[n] = Folded(s, gone)
        /\ \A k \in 1..n : g[k] = ReadEvent(g[k - 1], s[k], gone)
  BY ReadFold
<1>. HIDE DEF n
<1>. DEFINE Visible(q) == s[q].kind \in MessageKinds /\ s[q].id \notin gone
            M(k) == g[k].messages
            All(k) == \A q \in 1..k : Visible(q) => \E j \in DOMAIN M(k) : M(k)[j] = s[q]
            Ordered(k) == \A i \in DOMAIN M(k) : \E p \in 1..k :
                            /\ M(k)[i] = s[p] /\ s[p].id \notin gone
                            /\ \A q \in 1..(p - 1) : Visible(q) => \E j \in 1..(i - 1) : M(k)[j] = s[q]
            S == {k \in 0..n : All(k) /\ Ordered(k)}
<1>3. 0..n \subseteq S
  <2>1. 0 \in S
    <3>1. M(0) = <<>>
      BY <1>2 DEF Nothing
    <3>. QED BY <1>1, <3>1
  <2>2. ASSUME NEW k \in 0..(n - 1), k \in S PROVE k + 1 \in S
    <3>1. k + 1 \in 1..n /\ (k + 1) - 1 = k /\ k \in 0..n /\ k + 1 \in 0..n /\ k \in Nat
      BY <1>1
    <3>. DEFINE e == s[k + 1]
                old == M(k)
                new == M(k + 1)
    <3>2. e \in Event /\ g[k] \in Conv /\ old \in Seq(Event)
      BY <1>1, <1>2, <3>1 DEF Conv
    <3>3. new = IF Visible(k + 1) THEN Append(old, e) ELSE old
      <4>1. g[k + 1] = ReadEvent(g[k], e, gone)
        BY <1>2, <3>1
      <4>. QED BY <3>2, <4>1, ReadMessages
    <3>4. All(k) /\ Ordered(k)
      BY <2>2
    <3>5. \A q \in 1..k : Visible(q) => \E j \in DOMAIN old : old[j] = s[q]
      BY <3>4
    <3>6. \A i \in DOMAIN old : \E p \in 1..k :
            /\ old[i] = s[p] /\ s[p].id \notin gone
            /\ \A q \in 1..(p - 1) : Visible(q) => \E j \in 1..(i - 1) : old[j] = s[q]
      BY <3>4
    <3>7. Visible(k + 1) <=> e.kind \in MessageKinds /\ e.id \notin gone
      OBVIOUS
    <3>. HIDE DEF old, new, Visible
    <3>8. CASE ~Visible(k + 1)
      <4>1. new = old
        BY <3>3, <3>8
      <4>2. \A q \in 1..(k + 1) : Visible(q) => \E j \in DOMAIN new : new[j] = s[q]
        BY <3>1, <3>5, <3>8, <4>1
      <4>3. \A i \in DOMAIN new : \E p \in 1..(k + 1) :
              /\ new[i] = s[p] /\ s[p].id \notin gone
              /\ \A q \in 1..(p - 1) : Visible(q) => \E j \in 1..(i - 1) : new[j] = s[q]
        BY <3>1, <3>6, <4>1
      <4>. QED BY <3>1, <4>2, <4>3 DEF new
    <3>9. CASE Visible(k + 1)
      <4>1. /\ DOMAIN new = 1..(Len(old) + 1) /\ DOMAIN old = 1..Len(old) /\ Len(old) \in Nat
            /\ new[Len(old) + 1] = e /\ \A i \in 1..Len(old) : new[i] = old[i]
        BY <3>2, <3>3, <3>9
      <4>2. \A q \in 1..(k + 1) : Visible(q) => \E j \in DOMAIN new : new[j] = s[q]
        <5>. SUFFICES ASSUME NEW q \in 1..(k + 1), Visible(q)
                      PROVE  \E j \in 1..(Len(old) + 1) : new[j] = s[q]
          BY <4>1
        <5>1. CASE q = k + 1
          BY <4>1, <5>1
        <5>2. CASE q # k + 1
          <6>1. q \in 1..k
            BY <3>1, <5>2
          <6>2. PICK j \in 1..Len(old) : old[j] = s[q]
            BY <3>5, <4>1, <6>1
          <6>. QED BY <4>1, <6>2
        <5>. QED BY <5>1, <5>2
      <4>3. \A i \in DOMAIN new : \E p \in 1..(k + 1) :
              /\ new[i] = s[p] /\ s[p].id \notin gone
              /\ \A q \in 1..(p - 1) : Visible(q) => \E j \in 1..(i - 1) : new[j] = s[q]
        <5>. SUFFICES ASSUME NEW i \in 1..(Len(old) + 1)
                      PROVE  \E p \in 1..(k + 1) :
                               /\ new[i] = s[p] /\ s[p].id \notin gone
                               /\ \A q \in 1..(p - 1) : Visible(q) => \E j \in 1..(i - 1) : new[j] = s[q]
          BY <4>1
        <5>1. CASE i = Len(old) + 1
          <6>1. new[i] = s[k + 1] /\ s[k + 1].id \notin gone
            BY <3>7, <3>9, <4>1, <5>1
          <6>2. ASSUME NEW q \in 1..k, Visible(q) PROVE \E j \in 1..(i - 1) : new[j] = s[q]
            <7>1. PICK j \in 1..Len(old) : old[j] = s[q]
              BY <3>5, <4>1, <6>2
            <7>. QED BY <4>1, <5>1, <7>1
          <6>. QED BY <3>1, <6>1, <6>2
        <5>2. CASE i # Len(old) + 1
          <6>1. i \in 1..Len(old) /\ new[i] = old[i]
            BY <4>1, <5>2
          <6>2. PICK p \in 1..k :
                  /\ old[i] = s[p] /\ s[p].id \notin gone
                  /\ \A q \in 1..(p - 1) : Visible(q) => \E j \in 1..(i - 1) : old[j] = s[q]
            BY <3>6, <4>1, <6>1
          <6>3. \A j \in 1..(i - 1) : new[j] = old[j]
            BY <4>1, <6>1
          <6>4. p \in 1..(k + 1)
            BY <3>1
          <6>. QED BY <6>1, <6>2, <6>3, <6>4
        <5>. QED BY <5>1, <5>2
      <4>. QED BY <3>1, <4>2, <4>3 DEF new
    <3>. QED BY <3>8, <3>9
  <2>. HIDE DEF S
  <2>. QED BY <1>1, <2>1, <2>2, Reaches
<1>4. n \in 0..n
  BY <1>1
<1>5. Ordered(n) /\ g[n] \in Conv
  BY <1>2, <1>3, <1>4
<1>. DEFINE m == Folded(s, gone).messages
<1>6. M(n) = m /\ M(n) \in Seq(Event)
  BY <1>2, <1>5 DEF Conv
<1>7. Ordered(n)
  BY <1>5
<1>. HIDE DEF M, m, Visible
<1>8. \A i \in DOMAIN m : \E p \in 1..n :
        /\ m[i] = s[p] /\ s[p].id \notin gone
        /\ \A q \in 1..(p - 1) : Visible(q) => \E j \in 1..(i - 1) : m[j] = s[q]
  BY <1>6, <1>7
<1>. QED BY <1>1, <1>6, <1>8 DEF m, Visible

\* What the model is asked with pairs every tool message with its request, in
\* a session of this build.  No provider gives a call id twice.
THEOREM ToolMessagesPaired == Spec => [](Own /\ ~setting.repeats => Paired)
<1>1. Held /\ (Plain => Whole) => (Own /\ ~setting.repeats => Paired)
  <2>. SUFFICES ASSUME Held, Whole PROVE Paired
    BY DEF Plain
  <2>. DEFINE gone == Gone(log)
              m == Folded(log, gone).messages
  <2>1. log \in Seq(Event) /\ Turned(log)
    BY DEF Held, TypeOK, Whole
  <2>2. PICK b \in 0..Len(log) : FoldedUpTo(log, b)
    BY DEF Whole
  <2>. SUFFICES ASSUME NEW i \in DOMAIN m, m[i].kind = "result"
                PROVE  \E j \in 1..(i - 1) : m[j].kind = "response" /\ m[i].calls \subseteq m[j].calls
    BY DEF Paired, Fold
  <2>3. PICK p \in DOMAIN log :
          /\ m[i] = log[p] /\ log[p].id \notin gone
          /\ \A q \in 1..(p - 1) : log[q].kind \in MessageKinds /\ log[q].id \notin gone =>
               \E j \in 1..(i - 1) : m[j] = log[q]
    BY <2>1, InOrder
  <2>. DEFINE o == Origin(log, log[p].calls)
  <2>4. /\ o \in 1..(p - 1) /\ log[o].kind = "response" /\ log[p].calls \subseteq log[o].calls
        /\ log[o].id \notin gone
    BY <2>1, <2>2, <2>3, TurnsWhole
  <2>5. PICK j \in 1..(i - 1) : m[j] = log[o]
    BY <2>3, <2>4 DEF MessageKinds
  <2>. QED BY <2>3, <2>4, <2>5
<1>. QED BY <1>1, HeldInductive, WholeInductive, PTL

-----------------------------------------------------------------------------
(* Repair *)

\* An event of a repaired log.
Stripped(e, restored) == [e EXCEPT !.gone = @ \ restored]

LEMMA StrippedIs ==
  ASSUME NEW e \in Event, NEW restored
  PROVE  LET d == Stripped(e, restored) IN
         /\ d \in Event /\ d.id = e.id /\ d.kind = e.kind /\ d.calls = e.calls
         /\ d.gone = e.gone \ restored
<1>1. Stripped(e, restored) \in Event
  BY DEF Stripped, Event
<1>. QED BY <1>1 DEF Stripped, Event

\* r has every event of s but the dropped ones, stripped.
CopyOf(r, s, dropped, restored) ==
  /\ r \in Seq(Event)
  /\ \A i \in DOMAIN r : \E j \in DOMAIN s :
       s[j].id \notin dropped /\ r[i] = Stripped(s[j], restored)
  /\ \A j \in DOMAIN s : s[j].id \notin dropped =>
       \E i \in DOMAIN r : r[i] = Stripped(s[j], restored)

LEMMA RepairCopies ==
  ASSUME NEW s \in Seq(Event), NEW dropped, NEW restored
  PROVE  CopyOf(Copied(s, dropped, restored), s, dropped, restored)
<1>. DEFINE n == Len(s)
<1>1. n \in Nat /\ DOMAIN s = 1..n /\ \A k \in 1..n : s[k] \in Event
  OBVIOUS
<1>2. PICK g \in [0..n -> Seq(Event)] :
        /\ g[0] = <<>> /\ g[n] = Copied(s, dropped, restored)
        /\ \A k \in 1..n : g[k] = Repaired(g[k - 1], s[k], dropped, restored)
  <2>1. Copyings(s, dropped, restored) # {}
    BY RepairFold
  <2>. QED BY <2>1 DEF Copyings
<1>. HIDE DEF n
<1>. DEFINE From(k) == \A i \in DOMAIN g[k] : \E j \in 1..k :
                         s[j].id \notin dropped /\ g[k][i] = Stripped(s[j], restored)
            To(k) == \A j \in 1..k : s[j].id \notin dropped =>
                       \E i \in DOMAIN g[k] : g[k][i] = Stripped(s[j], restored)
            S == {k \in 0..n : From(k) /\ To(k)}
<1>3. 0..n \subseteq S
  <2>1. 0 \in S
    BY <1>1, <1>2
  <2>2. ASSUME NEW k \in 0..(n - 1), k \in S PROVE k + 1 \in S
    <3>1. k + 1 \in 1..n /\ (k + 1) - 1 = k /\ k \in 0..n /\ k + 1 \in 0..n /\ k \in Nat
      BY <1>1
    <3>. DEFINE e == s[k + 1]
                d == Stripped(e, restored)
                old == g[k]
                new == g[k + 1]
    <3>2. old \in Seq(Event) /\ e \in Event /\ d \in Event
      BY <1>1, <1>2, <3>1, StrippedIs
    <3>3. new = IF e.id \in dropped THEN old ELSE Append(old, d)
      BY <1>2, <3>1 DEF Repaired, Stripped
    <3>4. \A i \in DOMAIN old : \E j \in 1..k :
            s[j].id \notin dropped /\ old[i] = Stripped(s[j], restored)
      BY <2>2
    <3>5. \A j \in 1..k : s[j].id \notin dropped =>
            \E i \in DOMAIN old : old[i] = Stripped(s[j], restored)
      BY <2>2
    <3>. HIDE DEF old, new, d
    <3>6. CASE e.id \in dropped
      <4>1. new = old
        BY <3>3, <3>6
      <4>2. From(k + 1)
        BY <3>1, <3>4, <4>1 DEF new
      <4>3. To(k + 1)
        <5>. SUFFICES ASSUME NEW j \in 1..(k + 1), s[j].id \notin dropped
                      PROVE  \E i \in DOMAIN new : new[i] = Stripped(s[j], restored)
          BY DEF new
        <5>1. j \in 1..k
          BY <3>1, <3>6
        <5>. QED BY <3>5, <4>1, <5>1
      <4>. QED BY <3>1, <4>2, <4>3
    <3>7. CASE e.id \notin dropped
      <4>1. /\ DOMAIN new = 1..(Len(old) + 1) /\ DOMAIN old = 1..Len(old) /\ Len(old) \in Nat
            /\ new[Len(old) + 1] = d /\ \A i \in 1..Len(old) : new[i] = old[i]
        BY <3>2, <3>3, <3>7
      <4>2. From(k + 1)
        <5>. SUFFICES ASSUME NEW i \in 1..(Len(old) + 1)
                      PROVE  \E j \in 1..(k + 1) :
                               s[j].id \notin dropped /\ new[i] = Stripped(s[j], restored)
          BY <4>1 DEF new
        <5>1. CASE i = Len(old) + 1
          BY <3>1, <3>7, <4>1, <5>1 DEF d
        <5>2. CASE i # Len(old) + 1
          <6>1. i \in 1..Len(old)
            BY <4>1, <5>2
          <6>2. PICK j \in 1..k : s[j].id \notin dropped /\ old[i] = Stripped(s[j], restored)
            BY <3>4, <4>1, <6>1
          <6>. QED BY <3>1, <4>1, <6>1, <6>2
        <5>. QED BY <5>1, <5>2
      <4>3. To(k + 1)
        <5>. SUFFICES ASSUME NEW j \in 1..(k + 1), s[j].id \notin dropped
                      PROVE  \E i \in 1..(Len(old) + 1) : new[i] = Stripped(s[j], restored)
          BY <4>1 DEF new
        <5>1. CASE j = k + 1
          BY <4>1, <5>1 DEF d
        <5>2. CASE j # k + 1
          <6>1. j \in 1..k
            BY <3>1, <5>2
          <6>2. PICK i \in 1..Len(old) : old[i] = Stripped(s[j], restored)
            BY <3>5, <4>1, <6>1
          <6>. QED BY <4>1, <6>2
        <5>. QED BY <5>1, <5>2
      <4>. QED BY <3>1, <4>2, <4>3
    <3>. QED BY <3>6, <3>7
  <2>. HIDE DEF S
  <2>. QED BY <1>1, <2>1, <2>2, Reaches
<1>4. n \in 0..n
  BY <1>1
<1>5. From(n) /\ To(n) /\ g[n] \in Seq(Event)
  BY <1>2, <1>3, <1>4
<1>. DEFINE r == Copied(s, dropped, restored)
<1>6. g[n] = r
  BY <1>2
<1>. HIDE DEF r
<1>7. /\ \A i \in DOMAIN r : \E j \in 1..n :
            s[j].id \notin dropped /\ r[i] = Stripped(s[j], restored)
      /\ \A j \in 1..n : s[j].id \notin dropped =>
            \E i \in DOMAIN r : r[i] = Stripped(s[j], restored)
  BY <1>5, <1>6
<1>. QED BY <1>1, <1>5, <1>6, <1>7 DEF r, CopyOf

\* A repaired log has no orphaned result: the provider refuses none of its
\* requests, and a second repair changes nothing.
THEOREM RepairIsComplete ==
  ASSUME NEW s \in Seq(Event), Ascending(s)
  PROVE  Orphans(Repair(s)) = {} /\ Repair(Repair(s)) = Repair(s)
<1>. DEFINE dropped == Dropped(s)
            restored == Restored(s)
            r == Repair(s)
            n == Len(s)
<1>1. n \in Nat /\ DOMAIN s = 1..n /\ \A k \in 1..n : s[k] \in Event
  OBVIOUS
<1>2. \A j, k \in 1..n : s[j].id = s[k].id => j = k
  <2>. SUFFICES ASSUME NEW j \in 1..n, NEW k \in 1..n, s[j].id = s[k].id, j # k PROVE FALSE
    OBVIOUS
  <2>1. s[j].id \in Nat /\ s[k].id \in Nat /\ (j < k \/ k < j)
    <3>1. s[j] \in Event /\ s[k] \in Event
      BY <1>1
    <3>. QED BY <3>1 DEF Event
  <2>. QED BY <1>1, <2>1 DEF Ascending
<1>3. ASSUME NEW k \in 1..n, s[k].id \in dropped PROVE s[k].kind = "result"
  <2>1. PICK i \in Orphans(s) : s[i].id = s[k].id
    BY <1>3 DEF Dropped
  <2>2. i \in 1..n /\ s[i].kind = "result"
    BY <1>1, <2>1 DEF Orphans, Orphaned
  <2>3. i = k
    BY <1>2, <2>1, <2>2
  <2>. QED BY <2>2, <2>3
<1>4. ASSUME NEW k \in 1..n, s[k].id \in restored PROVE s[k].kind = "response"
  <2>1. PICK i \in Orphans(s) : Origin(s, s[i].calls) # 0 /\ s[Origin(s, s[i].calls)].id = s[k].id
    BY <1>4 DEF Restored
  <2>. DEFINE o == Origin(s, s[i].calls)
  <2>2. o \in 0..n /\ o # 0 /\ s[o].kind = "response"
    BY <2>1, OriginRange
  <2>. HIDE DEF o
  <2>3. o \in 1..n
    BY <1>1, <2>2
  <2>4. o = k
    BY <1>2, <2>1, <2>3 DEF o
  <2>. QED BY <2>2, <2>4
<1>5. r = Copied(s, dropped, restored)
  BY DEF Repair
<1>. HIDE DEF dropped, restored, r, n
<1>6. /\ r \in Seq(Event)
      /\ \A i \in DOMAIN r : \E j \in 1..n :
           s[j].id \notin dropped /\ r[i] = Stripped(s[j], restored)
      /\ \A j \in 1..n : s[j].id \notin dropped =>
           \E i \in DOMAIN r : r[i] = Stripped(s[j], restored)
  <2>. DEFINE q == Copied(s, dropped, restored)
  <2>1. CopyOf(q, s, dropped, restored)
    BY RepairCopies
  <2>2. q = r
    BY <1>5
  <2>. HIDE DEF q
  <2>. QED BY <1>1, <2>1, <2>2 DEF CopyOf
<1>7. Ascending(r)
  BY RepairKeeps DEF r
<1>8. \A j \in 1..n : LET d == Stripped(s[j], restored) IN
        /\ d.id = s[j].id /\ d.kind = s[j].kind /\ d.calls = s[j].calls
        /\ d.gone = s[j].gone \ restored
  BY <1>1, StrippedIs
<1>9. Gone(r) = Gone(s) \ restored
  <2>1. ASSUME NEW x \in Gone(r) PROVE x \in Gone(s) \ restored
    <3>1. PICK i \in DOMAIN r : x \in r[i].gone
      BY <2>1 DEF Gone, ToSet
    <3>2. PICK j \in 1..n : r[i] = Stripped(s[j], restored)
      BY <1>6
    <3>3. x \in s[j].gone /\ x \notin restored
      BY <1>8, <3>1, <3>2
    <3>. QED BY <1>1, <3>3 DEF Gone, ToSet
  <2>2. ASSUME NEW x \in Gone(s), x \notin restored PROVE x \in Gone(r)
    <3>1. PICK j \in 1..n : x \in s[j].gone
      BY <1>1, <2>2 DEF Gone, ToSet
    <3>2. s[j].kind = "compaction"
      <4>1. s[j] \in Event
        BY <1>1
      <4>. QED BY <3>1, <4>1 DEF Event
    <3>3. s[j].id \notin dropped
      BY <1>3, <3>2
    <3>4. PICK i \in DOMAIN r : r[i] = Stripped(s[j], restored)
      BY <1>6, <3>3
    <3>5. x \in r[i].gone
      BY <1>8, <2>2, <3>1, <3>4
    <3>. QED BY <3>5 DEF Gone, ToSet
  <2>. QED BY <2>1, <2>2
<1>10. ASSUME NEW i \in DOMAIN r, Orphaned(r, i) PROVE FALSE
  <2>1. r[i].kind = "result" /\ r[i].id \notin Gone(r)
    BY <1>10 DEF Orphaned
  <2>2. PICK p \in 1..n : s[p].id \notin dropped /\ r[i] = Stripped(s[p], restored)
    BY <1>6
  <2>. DEFINE c == s[p].calls
              o == Origin(s, c)
              q == Origin(r, c)
  <2>3. s[p].kind = "result" /\ r[i].calls = c /\ r[i].id = s[p].id
    BY <1>8, <2>1, <2>2
  <2>4. s[p].id \notin Gone(s)
    BY <1>4, <1>9, <2>1, <2>3
  <2>5. /\ o \in 0..n
        /\ o # 0 => s[o].kind = "response" /\ c \subseteq s[o].calls
        /\ \A k \in 1..n : s[k].kind = "response" /\ c \subseteq s[k].calls => k <= o
    BY OriginRange DEF n
  <2>6. /\ q \in 0..Len(r)
        /\ q # 0 => r[q].kind = "response" /\ c \subseteq r[q].calls
        /\ \A k \in 1..Len(r) : r[k].kind = "response" /\ c \subseteq r[k].calls => k <= q
    BY <1>6, OriginRange
  <2>7. q = 0 \/ r[q].id \in Gone(r)
    BY <1>10, <2>3 DEF Orphaned
  <2>. HIDE DEF o, q, c
  <2>8. ASSUME o # 0, s[o].id \notin Gone(r) PROVE FALSE
    <3>1. o \in 1..n /\ s[o].kind = "response" /\ c \subseteq s[o].calls
      BY <1>1, <2>5, <2>8
    <3>2. s[o].id \notin dropped
      BY <1>3, <3>1
    <3>3. PICK k \in DOMAIN r : r[k] = Stripped(s[o], restored)
      BY <1>6, <3>1, <3>2
    <3>4. r[k].kind = "response" /\ c \subseteq r[k].calls /\ r[k].id = s[o].id
      BY <1>8, <3>1, <3>3
    <3>a. Len(r) \in Nat /\ DOMAIN r = 1..Len(r)
      BY <1>6
    <3>5. k \in 1..Len(r) /\ k <= q /\ Len(r) \in Nat /\ DOMAIN r = 1..Len(r)
      BY <2>6, <3>4, <3>a
    <3>6. q \in 1..Len(r)
      BY <2>6, <3>5
    <3>7. PICK j \in 1..n : r[q] = Stripped(s[j], restored)
      BY <1>6, <3>5, <3>6
    <3>8. s[j].kind = "response" /\ c \subseteq s[j].calls /\ r[q].id = s[j].id
      BY <1>8, <2>6, <3>6, <3>7
    <3>9. j <= o
      BY <2>5, <3>8
    <3>10. q = k
      <4>. SUFFICES ASSUME k < q PROVE FALSE
        BY <3>5, <3>6
      <4>1. r[k].id < r[q].id
        BY <1>7, <3>5, <3>6 DEF Ascending
      <4>2. s[o].id < s[j].id
        BY <3>4, <3>8, <4>1
      <4>3. s[j].id \in Nat /\ s[o].id \in Nat
        <5>1. s[j] \in Event /\ s[o] \in Event
          BY <1>1, <3>1
        <5>. QED BY <5>1 DEF Event
      <4>4. j = o \/ s[j].id < s[o].id
        BY <1>1, <3>1, <3>9 DEF Ascending
      <4>. QED BY <4>2, <4>3, <4>4
    <3>. QED BY <2>7, <2>8, <3>4, <3>6, <3>10
  <2>9. CASE Orphaned(s, p)
    <3>1. p \in Orphans(s)
      BY <1>1, <2>9 DEF Orphans
    <3>2. o # 0
      BY <2>2, <3>1 DEF Dropped, dropped, o, c
    <3>3. s[o].id \in restored
      BY <3>1, <3>2 DEF Restored, restored, o, c
    <3>. QED BY <1>9, <2>8, <3>2, <3>3
  <2>10. CASE ~Orphaned(s, p)
    <3>1. \/ o # 0 /\ s[o].id \notin Gone(s)
          \/ \E j \in 1..(p - 1) : /\ s[j].kind = "response" /\ c \subseteq s[j].calls
                                    /\ s[j].id \notin Gone(s)
      BY <2>3, <2>4, <2>10 DEF Orphaned, o, c
    <3>2. CASE o # 0 /\ s[o].id \notin Gone(s)
      BY <1>9, <2>8, <3>2
    <3>3. ASSUME NEW j \in 1..(p - 1), s[j].kind = "response", c \subseteq s[j].calls,
                 s[j].id \notin Gone(s)
          PROVE  FALSE
      <4>1. j \in 1..n /\ j < p
        BY <1>1
      <4>2. s[j].id \notin dropped
        BY <1>3, <3>3, <4>1
      <4>3. PICK k \in DOMAIN r : r[k] = Stripped(s[j], restored)
        BY <1>6, <4>1, <4>2
      <4>4. r[k].kind = "response" /\ c \subseteq r[k].calls /\ r[k].id = s[j].id
        BY <1>8, <3>3, <4>1, <4>3
      <4>5. r[k].id < r[i].id
        BY <1>1, <2>3, <4>1, <4>4 DEF Ascending
      <4>6. k \in 1..(i - 1)
        <5>1. k \in 1..Len(r) /\ i \in 1..Len(r) /\ Len(r) \in Nat /\ DOMAIN r = 1..Len(r)
          BY <1>6
        <5>2. r[k].id \in Nat /\ r[i].id \in Nat
          <6>1. r[k] \in Event /\ r[i] \in Event
            BY <1>6
          <6>. QED BY <6>1 DEF Event
        <5>3. ~(i <= k)
          <6>. SUFFICES ASSUME i <= k PROVE FALSE
            OBVIOUS
          <6>1. i = k \/ r[i].id < r[k].id
            BY <1>7, <5>1 DEF Ascending
          <6>. QED BY <4>5, <5>2, <6>1
        <5>. QED BY <5>1, <5>3
      <4>7. r[k].id \in Gone(r)
        BY <1>10, <2>3, <4>4, <4>6 DEF Orphaned
      <4>. QED BY <1>9, <3>3, <4>4, <4>7
    <3>. QED BY <3>1, <3>2, <3>3
  <2>. QED BY <2>9, <2>10
<1>11. Orphans(r) = {}
  BY <1>10 DEF Orphans
<1>. QED BY <1>6, <1>11, NothingRepaired DEF r
=============================================================================

---------------------------- MODULE CuckooFilter ----------------------------
(***************************************************************************)
(* The filter that tells, before a search, that a key was never indexed.   *)
(* Keys of all tenants have fingerprints and buckets given by hashes, here *)
(* constants.  An insertion is one call; its evictions are steps, between  *)
(* which nothing else happens.                                             *)
(***************************************************************************)
EXTENDS Integers, Sequences, FiniteSets, SequencesExt

CONSTANTS
  Keys,        \* pairs of a tenant and a key
  Capacity,    \* the expected number of keys
  BucketSize,
  MaxKicks,
  Fingerprint, \* the fingerprint of each key, which is never 0
  Hash,        \* the hash that gives the bucket of each key
  HashOf,      \* the hash of each fingerprint
  MaxCopies,   \* bound: how often a key is inserted
  MaxMisuses   \* bound: insertions that give up, removals of what is not in

ASSUME FilterAssumption ==
  /\ {Capacity, BucketSize, MaxKicks} \subseteq Nat \ {0}
  /\ \A k \in Keys : /\ Fingerprint[k] \in Nat \ {0} /\ Hash[k] \in Nat
                     /\ HashOf[Fingerprint[k]] \in Nat
  /\ IsFiniteSet(Keys) /\ {MaxCopies, MaxMisuses} \subseteq Nat

VARIABLES
  buckets, \* the fingerprints in each bucket
  count,   \* what len() returns
  moving,  \* the fingerprint that an insertion still has to place, where, and
           \* for which key; <<>> if none
  kicks,   \* its evictions so far
  added,   \* history: how often each key is in by its answers
  misuses  \* history: insertions that gave up, removals of what was not in

cvars == <<buckets, count, moving, kicks, added, misuses>>

CeilDiv(a, b) == (a + b - 1) \div b

\* Mutant of NumBuckets: it is not rounded up.
NumBucketsExact == CeilDiv(Capacity, BucketSize)

\* The next power of two.
NextPower[n \in Nat] == IF n <= 1 THEN 1 ELSE 2 * NextPower[CeilDiv(n, 2)]

NumBuckets == NextPower[CeilDiv(Capacity, BucketSize)]

\* The bitwise exclusive or of two numbers.
ExclusiveOr[a \in Nat] ==
  [b \in Nat |-> IF a = 0 \/ b = 0 THEN a + b
                ELSE ((a + b) % 2) + 2 * ExclusiveOr[a \div 2][b \div 2]]

Index(k) == Hash[k] % NumBuckets
Partner(i, f) == ExclusiveOr[i][HashOf[f]] % NumBuckets
Home(k) == {Index(k), Partner(Index(k), Fingerprint[k])}

Has(i, f) == f \in ToSet(buckets[i])
HasRoom(i) == Len(buckets[i]) < BucketSize

MightContain(k) == \E i \in Home(k) : Has(i, Fingerprint[k])

FilterInit ==
  /\ buckets = [i \in 0..(NumBuckets - 1) |-> <<>>]
  /\ count = 0
  /\ moving = <<>> /\ kicks = 0
  /\ added = [k \in Keys |-> 0]
  /\ misuses = 0

Place(i, f) ==
  /\ buckets' = [buckets EXCEPT ![i] = Append(@, f)]
  /\ count' = count + 1

\* add, when one of the two buckets has room.
AddKey(k) ==
  /\ moving = <<>> /\ added[k] < MaxCopies
  /\ LET first == Index(k)
         second == Partner(first, Fingerprint[k])
     IN  \/ HasRoom(first) /\ Place(first, Fingerprint[k])
         \/ ~HasRoom(first) /\ HasRoom(second) /\ Place(second, Fingerprint[k])
  /\ added' = [added EXCEPT ![k] = @ + 1]
  /\ UNCHANGED <<moving, kicks, misuses>>

\* add, when neither has: it begins with one of them.
CrowdKey(k) ==
  /\ moving = <<>> /\ added[k] < MaxCopies /\ misuses < MaxMisuses
  /\ \A i \in Home(k) : ~HasRoom(i)
  /\ \E i \in Home(k) :
       moving' = <<[key |-> k, print |-> Fingerprint[k], bucket |-> i]>>
  /\ kicks' = 0
  /\ UNCHANGED <<buckets, count, added, misuses>>

\* Mutant of NextBucket: the displaced fingerprint is tried where it would be
\* with the fingerprint that displaced it.
NextBucketOld(i, f, displaced) == Partner(i, f)

NextBucket(i, f, displaced) == Partner(i, displaced)

\* A fingerprint takes the place of another, which goes to its other bucket, if
\* that has room.
Kick ==
  /\ moving # <<>> /\ kicks < MaxKicks
  /\ \E slot \in 1..Len(buckets[moving[1].bucket]) :
       LET i == moving[1].bucket
           displaced == buckets[i][slot]
           next == NextBucket(i, moving[1].print, displaced)
           swapped == [buckets EXCEPT ![i][slot] = moving[1].print]
       IN  IF Len(swapped[next]) < BucketSize
             THEN /\ buckets' = [swapped EXCEPT ![next] = Append(@, displaced)]
                  /\ count' = count + 1
                  /\ added' = [added EXCEPT ![moving[1].key] = @ + 1]
                  /\ moving' = <<>>
             ELSE /\ buckets' = swapped
                  /\ moving' = <<[moving[1] EXCEPT !.print = displaced, !.bucket = next]>>
                  /\ UNCHANGED <<count, added>>
  /\ kicks' = kicks + 1
  /\ UNCHANGED misuses

\* add gives up, with a fingerprint in hand.
GiveUp ==
  /\ moving # <<>> /\ kicks = MaxKicks
  /\ moving' = <<>>
  /\ misuses' = misuses + 1
  /\ UNCHANGED <<buckets, count, kicks, added>>

\* The buckets from which a removal may take the fingerprint of k.
Holder(k) ==
  IF Has(Index(k), Fingerprint[k]) THEN {Index(k)}
  ELSE {i \in Home(k) : Has(i, Fingerprint[k])}

\* remove: the first copy in the first bucket that has one; if there is none it
\* returns False.
RemoveKey(k) ==
  /\ moving = <<>>
  /\ added[k] > 0 \/ misuses < MaxMisuses
  /\ misuses' = IF added[k] > 0 THEN misuses ELSE misuses + 1
  /\ added' = [added EXCEPT ![k] = IF @ > 0 THEN @ - 1 ELSE @]
  /\ IF Holder(k) = {} THEN UNCHANGED <<buckets, count>>
     ELSE \E i \in Holder(k) :
            /\ buckets' = [buckets EXCEPT ![i] =
                             RemoveAt(@, SelectInSeq(@, LAMBDA f : f = Fingerprint[k]))]
            /\ count' = count - 1
  /\ UNCHANGED <<moving, kicks>>

FilterNext == (\E k \in Keys : AddKey(k) \/ CrowdKey(k) \/ RemoveKey(k)) \/ Kick \/ GiveUp

-----------------------------------------------------------------------------
(* Properties *)

FilterTypeOK ==
  /\ buckets \in [0..(NumBuckets - 1) -> Seq({Fingerprint[k] : k \in Keys})]
  /\ count \in Nat /\ kicks \in 0..MaxKicks /\ Len(moving) \in 0..1
  /\ added \in [Keys -> 0..MaxCopies] /\ misuses \in 0..MaxMisuses

\* The places of the buckets that are in use.
Slots == UNION {{<<i, n>> : n \in DOMAIN buckets[i]} : i \in DOMAIN buckets}

\* The keys that the filter cannot tell from k, how often they are in by the
\* answers, and where their fingerprint is.
Alike(k) == {l \in Keys : Fingerprint[l] = Fingerprint[k] /\ Home(l) = Home(k)}
Additions(k) == UNION {{<<l, n>> : n \in 1..added[l]} : l \in Alike(k)}
Copies(k) == {p \in Slots : p[1] \in Home(k) /\ buckets[p[1]][p[2]] = Fingerprint[k]}

\* One for each copy that is missing.
Missing(k) ==
  {<<Alike(k), n>> : n \in 1..(Cardinality(Additions(k)) - Cardinality(Copies(k)))}

\* However insertions push each other about, the copies of fingerprints that are
\* missing are no more than the insertions that gave up and the removals of what
\* was not in: without those a key that is in is never reported as absent, and
\* every removal leaves the others in.
NoneLost ==
  moving = <<>> => Cardinality(UNION {Missing(k) : k \in Keys}) <= misuses

\* In particular.
NoFalseNegative ==
  moving = <<>> /\ misuses = 0 => \A k \in Keys : added[k] > 0 => MightContain(k)

\* The count is that of the stored fingerprints, and buckets keep their size.
CountsStored ==
  /\ moving = <<>> => count = Cardinality(Slots)
  /\ \A i \in DOMAIN buckets : Len(buckets[i]) <= BucketSize

FilterLaw == NoneLost /\ NoFalseNegative /\ CountsStored
=============================================================================

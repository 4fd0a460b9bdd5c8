--------------------------- MODULE KeyRotationProofs --------------------------
(***************************************************************************)
(* Proofs about KeyRotation, for any number of generations kept, any       *)
(* seconds in any order and any number of processes.                       *)
(***************************************************************************)
EXTENDS KeyRotation, InductionLemmas, FiniteSetTheorems, SequenceTheorems

-----------------------------------------------------------------------------
(* The inductive invariant.                                                *)

RegistryRecord == [keys : SUBSET Stamp, active : Stamp]
EnvRecord == [whole : BOOLEAN, ring : Seq(Stamp), active : Stamp]
Process == [state : {"down", "sourced", "up"}, verifier : Stamp, agents : Stamp]

(* How many of S are newer than v, and that v is in S with at most n newer.*)
Newer(S, v) == Cardinality({u \in S : u > v})
Ranked(S, v, n) == v \in S /\ Newer(S, v) <= n

WellFormed(r) == r \in RegistryRecord /\ r.keys \subseteq keyDir /\ r.active \in r.keys

(* Where the rotation is, the files agree with what it has done.           *)
FilesInv ==
  /\ \A t \in keyDir : t <= latest
  /\ stamp <= latest
  /\ registry = Emptied \/ WellFormed(registry)
  /\ env = Emptied \/ (env \in EnvRecord /\ Len(env.ring) <= Keep)
  /\ pc \in {"load", "register", "configure", "update"} => stamp \in keyDir
  /\ pc = "register" =>
       /\ registry = Emptied /\ WellFormed(draft)
       /\ InOrder => draft.active = stamp
  /\ pc \in {"configure", "update"} =>
       /\ registry # Emptied
       /\ InOrder => registry.active = stamp
  /\ pc = "update" => /\ env = Emptied /\ draft \in EnvRecord
                      /\ Len(draft.ring) <= Keep /\ draft.active = stamp
  /\ pc = "prune" => registry # Emptied

(* A key since which n generations were registered, n < Keep, is on hand;  *)
(* and unless a dead rotation has left the registry empty, it is registered *)
(* with no more than n newer ones. While the registry is being written this *)
(* holds of what is about to be in it.                                     *)
Kept(v, n) ==
  n < Keep =>
    /\ v \in keyDir
    /\ pc # "register" /\ registry # Emptied => Ranked(registry.keys, v, n)
    /\ pc = "register" /\ n + 1 < Keep => Ranked(draft.keys, v, n + 1)

(* And the registry's active key is its newest.                            *)
Lead(n) == n < Keep /\ registry # Emptied => Newer(registry.keys, registry.active) = 0

(* What is so of the environment file and of the processes, except where a *)
(* rotation has made an emptied registry anew since the file was written.  *)
Written == env # Emptied /\ ~lost => Kept(env.active, behind) /\ Lead(behind)

Held(h) ==
  ~bereft[h] =>
    /\ host[h].state # "down" => Kept(host[h].verifier, age[h])
    /\ host[h].state = "sourced" => Lead(age[h])
    /\ host[h].state = "up" => Kept(host[h].agents, age[h])

KeysInv == Written /\ \A h \in Host : Held(h)

(* The entries of the ring that the rotations in a row have written are the *)
(* newest in the registry, in their order; once the registry is ahead of   *)
(* the ring by the generation under way, all but the oldest of Keep are.   *)
RingInv ==
  /\ env # Emptied =>
       \A i \in DOMAIN env.ring : i <= clean =>
         /\ env.ring[i] \in keyDir
         /\ pc \in {"idle", "generate", "load", "prune"} =>
              registry # Emptied /\ Ranked(registry.keys, env.ring[i], i - 1)
         /\ pc = "register" /\ InOrder /\ i < Keep => Ranked(draft.keys, env.ring[i], i)
         /\ pc = "configure" /\ InOrder /\ i < Keep => Ranked(registry.keys, env.ring[i], i)
         /\ pc \in {"generate", "load", "register", "configure"} => env.ring[i] # stamp
  /\ pc = "update" /\ InOrder =>
       \A i \in DOMAIN draft.ring : i <= clean + 1 => Ranked(registry.keys, draft.ring[i], i - 1)

IInv == TypeOK /\ FilesInv /\ KeysInv /\ RingInv
-----------------------------------------------------------------------------
(* prepend_ring.                                                           *)

(* A ring without a stamp keeps the entries before the first one for it.   *)
LEMMA WithoutFacts ==
  ASSUME NEW ring \in Seq(Stamp), NEW t \in Stamp, NEW c \in Nat,
         \A i \in DOMAIN ring : i <= c => ring[i] # t
  PROVE  LET w == Without(ring, t)
         IN  /\ w \in Seq(Stamp)
             /\ \A j \in DOMAIN w : j <= c => j \in DOMAIN ring /\ w[j] = ring[j]
  <1> DEFINE n == Len(ring)
             h == [i \in 1 .. n |-> [x \in Seq(Stamp) |->
                     IF ring[i] = t THEN x ELSE Append(x, ring[i])]]
             Def(f) == f = [i \in 0 .. n |->
                         IF i = 0 THEN <<>>
                         ELSE IF ring[i] = t THEN f[i - 1] ELSE Append(f[i - 1], ring[i])]
             f == CHOOSE g : Def(g)
  <1>1. /\ n \in Nat /\ DOMAIN ring = 1 .. n
        /\ \A i \in 1 .. n : ring[i] \in Stamp
    OBVIOUS
  <1>2. \E g : Def(g) /\ g \in [0 .. n -> Seq(Stamp)]
    <2>1. h \in [1 .. n -> [Seq(Stamp) -> Seq(Stamp)]]
      BY <1>1
    <2>2. <<>> \in Seq(Stamp)
      OBVIOUS
    <2>3. PICK g \in [0 .. n -> Seq(Stamp)] :
            g[0] = <<>> /\ \A i \in 1 .. n : g[i] = h[i][g[i - 1]]
      <3> DEFINE S == Seq(Stamp)
                 a == <<>>
      <3>1. n \in Nat /\ a \in S /\ h \in [1 .. n -> [S -> S]]
        BY <1>1, <2>1, <2>2
      <3> HIDE DEF h, n, S, a
      <3>2. \E g \in [0 .. n -> S] : Iterates(g, n, a, h)
        BY <3>1, RecursionOnInterval
      <3>3. QED BY <3>2 DEF S, a, Iterates
    <2>4. ASSUME NEW i \in 0 .. n
          PROVE  g[i] = IF i = 0 THEN <<>>
                        ELSE IF ring[i] = t THEN g[i - 1] ELSE Append(g[i - 1], ring[i])
      <3>1. CASE i = 0
        BY <2>3, <3>1
      <3>2. CASE i \in 1 .. n
        <4>1. g[i - 1] \in Seq(Stamp)
          BY <1>1, <2>3, <3>2
        <4>2. g[i] = h[i][g[i - 1]]
          BY <2>3, <3>2
        <4>3. QED BY <3>2, <4>1, <4>2
      <3>3. QED BY <3>1, <3>2
    <2>5. Def(g)
      BY <2>3, <2>4
    <2>6. QED BY <2>3, <2>5
  <1>3. Def(f)
    <2> HIDE DEF Def
    <2>1. QED BY <1>2
  <1>4. \A i \in 0 .. n : f[i] = IF i = 0 THEN <<>>
                                 ELSE IF ring[i] = t THEN f[i - 1] ELSE Append(f[i - 1], ring[i])
    <2> HIDE DEF f
    <2>1. QED BY <1>3
  <1>5. Without(ring, t) = f[n]
    BY DEF Without
  <1> HIDE DEF f, Def, h
  <1> DEFINE Good(i) == /\ f[i] \in Seq(Stamp)
                        /\ Len(f[i]) <= i
                        /\ i <= c => Len(f[i]) = i
                        /\ i > c => Len(f[i]) >= c
                        /\ \A j \in 1 .. Len(f[i]) : j <= c => f[i][j] = ring[j]
             G == {i \in 0 .. n : Good(i)}
  <1>6. 0 \in G
    <2>1. f[0] = <<>> /\ 0 \in 0 .. n
      BY <1>1, <1>4
    <2>2. <<>> \in Seq(Stamp) /\ Len(<<>>) = 0 /\ ~(0 > c)
      OBVIOUS
    <2>3. Good(0)
      BY <2>1, <2>2
    <2> HIDE DEF Good
    <2>4. QED BY <2>1, <2>3
  <1>7. ASSUME NEW i \in 0 .. n, i < n, i \in G
        PROVE  i + 1 \in G
    <2>1. /\ i + 1 \in 1 .. n /\ i + 1 \in 0 .. n /\ ring[i + 1] \in Stamp /\ Good(i)
      BY <1>1, <1>7
    <2>2. f[i + 1] = IF ring[i + 1] = t THEN f[i] ELSE Append(f[i], ring[i + 1])
      BY <1>4, <2>1
    <2>3. CASE ring[i + 1] = t
      <3>1. i + 1 > c
        BY <1>1, <2>1, <2>3
      <3>2. QED BY <2>1, <2>2, <2>3, <3>1
    <2>4. CASE ring[i + 1] # t
      <3>1. /\ f[i + 1] \in Seq(Stamp) /\ Len(f[i + 1]) = Len(f[i]) + 1
            /\ \A j \in 1 .. Len(f[i]) : f[i + 1][j] = f[i][j]
            /\ f[i + 1][Len(f[i]) + 1] = ring[i + 1]
        BY <2>1, <2>2, <2>4, AppendProperties
      <3>2. ASSUME NEW j \in 1 .. Len(f[i + 1]), j <= c PROVE f[i + 1][j] = ring[j]
        <4>1. CASE j \in 1 .. Len(f[i])
          BY <2>1, <3>1, <3>2, <4>1
        <4>2. CASE j = Len(f[i]) + 1
          <5>1. i <= c
            BY <2>1, <3>2, <4>2
          <5>2. j = i + 1
            BY <2>1, <4>2, <5>1
          <5>3. QED BY <3>1, <4>2, <5>2
        <4>3. QED BY <2>1, <3>1, <4>1, <4>2
      <3>3. QED BY <2>1, <3>1, <3>2
    <2>5. QED BY <2>3, <2>4
  <1>8. n \in G
    <2> HIDE DEF G
    <2>1. 0 .. n \subseteq G
      BY <1>1, <1>6, <1>7, IntervalInduction
    <2>2. QED BY <1>1, <2>1
  <1>9. QED BY <1>1, <1>5, <1>8

LEMMA PrependFacts ==
  ASSUME NEW ring \in Seq(Stamp), stamp \in Stamp, NEW c \in Nat,
         \A i \in DOMAIN ring : i <= c => ring[i] # stamp
  PROVE  LET new == PrependRing(ring)
         IN  /\ new \in Seq(Stamp) /\ Len(new) <= Keep
             /\ 1 \in DOMAIN new => new[1] = stamp
             /\ \A j \in DOMAIN new : j > 1 /\ j <= c + 1 =>
                  j - 1 \in DOMAIN ring /\ new[j] = ring[j - 1]
  <1> DEFINE w == Without(ring, stamp)
             merged == <<stamp>> \o w
             m == IF Len(merged) < Keep THEN Len(merged) ELSE Keep
             new == SubSeq(merged, 1, m)
  <1>1. /\ w \in Seq(Stamp)
        /\ \A j \in DOMAIN w : j <= c => j \in DOMAIN ring /\ w[j] = ring[j]
    BY WithoutFacts
  <1>2. PrependRing(ring) = new
    BY DEF PrependRing
  <1> HIDE DEF w
  <1>3. /\ merged \in Seq(Stamp) /\ Len(merged) = 1 + Len(w)
        /\ \A j \in 1 .. Len(merged) : merged[j] = IF j = 1 THEN stamp ELSE w[j - 1]
    <2>1. <<stamp>> \in Seq(Stamp) /\ Len(<<stamp>>) = 1 /\ <<stamp>>[1] = stamp
      OBVIOUS
    <2>2. QED BY <1>1, <2>1, ConcatProperties
  <1> HIDE DEF merged
  <1>4. Keep \in Nat /\ Keep > 0
    BY RotationAssumption
  <1>5. /\ m \in Nat /\ m <= Keep /\ m <= Len(merged) /\ Len(merged) \in Nat
    BY <1>3, <1>4
  <1>6. /\ new \in Seq(Stamp) /\ Len(new) = m
        /\ \A j \in 1 .. m : new[j] = merged[j]
    <2>1. \A j \in 1 .. m : merged[j] \in Stamp
      BY <1>3, <1>5
    <2> HIDE DEF m
    <2>2. QED BY <1>5, <2>1, SubSeqProperties
  <1>7. \A j \in DOMAIN new : new[j] = IF j = 1 THEN stamp ELSE w[j - 1]
    BY <1>3, <1>5, <1>6
  <1>8. ASSUME NEW j \in DOMAIN new, j > 1, j <= c + 1
        PROVE  j - 1 \in DOMAIN ring /\ new[j] = ring[j - 1]
    <2>1. j \in 1 .. m /\ DOMAIN w = 1 .. Len(w) /\ Len(w) \in Nat
      BY <1>1, <1>6, <1>8
    <2>2. j - 1 \in DOMAIN w /\ j - 1 <= c /\ j # 1
      BY <1>3, <1>5, <1>8, <2>1
    <2>3. new[j] = w[j - 1]
      BY <1>7, <1>8, <2>2
    <2>4. QED BY <1>1, <2>2, <2>3
  <1>9. QED BY <1>2, <1>5, <1>6, <1>7, <1>8
-----------------------------------------------------------------------------
(* Counting generations.                                                   *)

LEMMA NewerFacts ==
  ASSUME NEW S, IsFiniteSet(S), NEW T \in SUBSET S, NEW v, NEW x
  PROVE  /\ Newer(T, v) \in Nat /\ Newer(S, v) \in Nat
         /\ Newer(T, v) <= Newer(S, v)
         /\ Newer({x} \cup S, v) \in Nat
         /\ Newer({x} \cup S, v) <= Newer(S, v) + 1
  <1> DEFINE A == {u \in S : u > v}
             B == {u \in T : u > v}
             C == {u \in {x} \cup S : u > v}
  <1>1. /\ A \subseteq S /\ B \subseteq A /\ C \subseteq A \cup {x}
    OBVIOUS
  <1>2. /\ IsFiniteSet(A) /\ Cardinality(A) \in Nat
    BY <1>1, FS_Subset, FS_CardinalityType
  <1>3. /\ IsFiniteSet(B) /\ Cardinality(B) \in Nat /\ Cardinality(B) <= Cardinality(A)
    BY <1>1, <1>2, FS_Subset, FS_CardinalityType
  <1>4. /\ IsFiniteSet(A \cup {x}) /\ Cardinality(A \cup {x}) \in Nat
        /\ Cardinality(A \cup {x}) <= Cardinality(A) + 1
    <2>1. /\ IsFiniteSet(A \cup {x})
          /\ Cardinality(A \cup {x}) =
               IF x \in A THEN Cardinality(A) ELSE Cardinality(A) + 1
      BY <1>2, FS_AddElement
    <2> HIDE DEF A
    <2>2. QED BY <1>2, <2>1
  <1>5. /\ Cardinality(C) \in Nat /\ Cardinality(C) <= Cardinality(A \cup {x})
    BY <1>1, <1>4, FS_Subset, FS_CardinalityType
  <1>6. Newer(S, v) = Cardinality(A) /\ Newer(T, v) = Cardinality(B)
        /\ Newer({x} \cup S, v) = Cardinality(C)
    BY DEF Newer
  <1> HIDE DEF A, B, C
  <1>7. QED BY <1>2, <1>3, <1>4, <1>5, <1>6

LEMMA NoneNewer ==
  ASSUME NEW S \in SUBSET Nat, NEW v \in Nat, \A t \in S : t <= v
  PROVE  Newer(S, v) = 0
  <1>1. ASSUME NEW u \in S, u > v PROVE FALSE
    <2>1. u \in Nat /\ u <= v
      OBVIOUS
    <2>2. QED BY <1>1, <2>1
  <1>2. QED BY <1>1, FS_EmptySet DEF Newer

LEMMA NewestFacts ==
  ASSUME NEW S, NEW v
  PROVE  /\ Newest(S) \subseteq S
         /\ v \in S /\ Newer(S, v) < Keep => v \in Newest(S)
  BY DEF Newest, Newer

LEMMA StampFacts ==
  ASSUME TypeOK
  PROVE  /\ Stamp \subseteq Nat /\ Keep \in Nat /\ Keep > 0
         /\ latest \in Nat /\ stamp \in Nat /\ stamp \in Stamp
         /\ keyDir \subseteq Nat /\ keyDir \subseteq Stamp
         /\ \A r : WellFormed(r) => r.keys \subseteq Nat
  <1>1. /\ Stamp \subseteq Nat /\ Keep \in Nat /\ Keep > 0
    BY RotationAssumption
  <1>2. keyDir \subseteq Stamp /\ latest \in Stamp /\ stamp \in Stamp
    BY DEF TypeOK
  <1>3. \A r : WellFormed(r) => r.keys \subseteq keyDir
    BY DEF WellFormed
  <1>4. QED BY <1>1, <1>2, <1>3

LEMMA KeysAreFinite ==
  ASSUME TypeOK, FilesInv, NEW S \in SUBSET keyDir
  PROVE  IsFiniteSet(S)
  BY FS_BoundedSetOfNaturals, StampFacts DEF FilesInv

(* add_agent_key and trim_agent_keys make a registry of keys on hand whose *)
(* active key is among them; a rotation in the order of the clock makes    *)
(* its own key active; and a key loses one place at most.                  *)
LEMMA ExtendedFacts ==
  ASSUME TypeOK, FilesInv, pc = "load"
  PROVE  LET r == Extended(registry)
         IN  /\ r \in RegistryRecord /\ WellFormed(r)
             /\ InOrder => r.active = stamp
             /\ \A v : \A n \in Nat :
                  registry # Emptied /\ Ranked(registry.keys, v, n) /\ n + 1 < Keep
                    => Ranked(r.keys, v, n + 1)
  <1> DEFINE old == IF registry = Emptied THEN {} ELSE registry.keys
             S == {stamp} \cup old
             kept == Newest(S)
             r == Extended(registry)
  <1>1. /\ stamp \in keyDir /\ old \subseteq keyDir /\ S \subseteq keyDir
    BY DEF FilesInv, WellFormed
  <1>2. IsFiniteSet(old) /\ IsFiniteSet(S) /\ S \subseteq Nat /\ \A t \in S : t <= latest
    BY <1>1, KeysAreFinite, StampFacts DEF FilesInv
  <1>3. r = [keys |-> kept,
             active |-> IF stamp \in kept THEN stamp
                        ELSE CHOOSE t \in kept : \A u \in kept : t >= u]
    BY DEF Extended
  <1> HIDE DEF old
  <1>4. kept \subseteq S
    BY NewestFacts
  <1>5. \E t \in kept : \A u \in kept : t >= u
    <2>1. S \in SUBSET (0 .. latest) /\ S # {}
      BY <1>2, StampFacts
    <2>2. PICK t \in S : \A u \in S : t >= u
      <3> HIDE DEF S
      <3>1. QED BY <2>1, GreatestBelow, StampFacts
    <2>3. Newer(S, t) = 0
      BY <1>2, <2>2, NoneNewer
    <2>4. t \in kept
      BY <2>2, <2>3, NewestFacts, StampFacts
    <2>5. QED BY <1>4, <2>2, <2>4
  <1>6. InOrder => stamp \in kept
    <2> SUFFICES ASSUME InOrder PROVE stamp \in kept
      OBVIOUS
    <2>1. Newer(S, stamp) = 0
      BY <1>2, NoneNewer, StampFacts DEF InOrder
    <2>2. QED BY <2>1, NewestFacts, StampFacts
  <1>7. r.keys = kept /\ r.active \in kept
    BY <1>3, <1>5
  <1>8. r \in RegistryRecord /\ WellFormed(r)
    <2>1. kept \subseteq keyDir /\ kept \subseteq Stamp
      BY <1>1, <1>4, StampFacts
    <2>2. QED BY <1>3, <1>7, <2>1 DEF RegistryRecord, WellFormed
  <1>9. ASSUME NEW v, NEW n \in Nat, registry # Emptied, Ranked(registry.keys, v, n), n + 1 < Keep
        PROVE  Ranked(r.keys, v, n + 1)
    <2>1. old = registry.keys /\ v \in S
      BY <1>9 DEF old, Ranked
    <2>2. Newer(S, v) \in Nat /\ Newer(S, v) <= Newer(old, v) + 1 /\ Newer(old, v) \in Nat
      BY <1>2, NewerFacts
    <2>3. Newer(S, v) <= n + 1
      BY <1>9, <2>1, <2>2 DEF Ranked
    <2>4. v \in kept
      BY <1>9, <2>1, <2>2, <2>3, NewestFacts, StampFacts
    <2>5. Newer(kept, v) <= Newer(S, v) /\ Newer(kept, v) \in Nat
      BY <1>2, <1>4, NewerFacts
    <2>6. QED BY <1>7, <2>2, <2>3, <2>4, <2>5 DEF Ranked
  <1>10. QED BY <1>3, <1>6, <1>7, <1>8, <1>9
-----------------------------------------------------------------------------
(* The steps of the rotation.                                              *)

LEMMA InitHolds == Init => IInv
  <1> SUFFICES ASSUME Init PROVE IInv
    OBVIOUS
  <1>1. Stamp \subseteq Nat /\ First \in Stamp /\ First \in Nat /\ Keep \in Nat /\ Keep > 0
    BY RotationAssumption
  <1>2. /\ registry \in RegistryRecord /\ env \in EnvRecord /\ env.ring = <<First>>
        /\ registry.keys = {First} /\ registry.active = First /\ env.active = First
        /\ registry # Emptied /\ env # Emptied
    <2>1. /\ registry = [keys |-> {First}, active |-> First]
          /\ env = [whole |-> TRUE, ring |-> <<First>>, active |-> First]
      BY DEF Init
    <2>2. <<First>> \in Seq(Stamp) /\ {First} \in SUBSET Stamp
      BY <1>1
    <2>3. registry \in RegistryRecord /\ env \in EnvRecord
      BY <1>1, <2>1, <2>2 DEF RegistryRecord, EnvRecord
    <2>4. registry # Emptied /\ env # Emptied
      BY <2>3, RotationAssumption DEF RegistryRecord, EnvRecord
    <2>5. QED BY <2>1, <2>3, <2>4
  <1>3. TypeOK
    <2>1. /\ host \in [Host -> Process]
          /\ age \in [Host -> 0 .. Keep] /\ bereft \in [Host -> BOOLEAN] /\ lost \in BOOLEAN
      <3>1. Down \in Process
        BY <1>1 DEF Down, Process
      <3>2. 0 \in 0 .. Keep /\ Keep \in 0 .. Keep
        BY <1>1
      <3>3. QED BY <3>1, <3>2 DEF Init
    <2>2. behind \in 0 .. Keep /\ clean \in 0 .. Keep
      BY <1>1 DEF Init
    <2>3. QED BY <1>1, <1>2, <2>1, <2>2 DEF Init, TypeOK, RegistryRecord, EnvRecord, Process
  <1>4. FilesInv
    BY <1>1, <1>2 DEF Init, FilesInv, WellFormed
  <1>5. Newer({First}, First) = 0
    BY <1>1, NoneNewer
  <1>6. Kept(First, 0)
    BY <1>1, <1>2, <1>5 DEF Init, Kept, Ranked
  <1>7. KeysInv
    BY <1>2, <1>5, <1>6 DEF Init, KeysInv, Written, Held, Lead, Down
  <1>8. RingInv
    BY <1>1, <1>2, <1>5 DEF Init, RingInv, Ranked
  <1>9. QED BY <1>3, <1>4, <1>7, <1>8 DEF IInv

LEMMA StartStep ==
  ASSUME IInv, NEW t \in Stamp, Start(t)
  PROVE  IInv'
  <1> USE DEF IInv
  <1>1. latest' \in Stamp /\ latest' >= latest /\ t <= latest'
    <2>1. t \in Nat /\ latest \in Nat /\ latest \in Stamp
      BY StampFacts DEF TypeOK
    <2>2. QED BY <2>1 DEF Start
  <1>2. TypeOK'
    BY <1>1 DEF Start, TypeOK, losses
  <1>3. FilesInv'
    <2>1. \A u \in keyDir : u <= latest'
      BY <1>1, StampFacts DEF FilesInv
    <2>2. QED BY <1>1, <2>1 DEF Start, FilesInv, WellFormed
  <1>4. \A v, n : (Kept(v, n) => Kept(v, n)') /\ (Lead(n) => Lead(n)')
    BY DEF Start, Kept, Lead
  <1>5. KeysInv'
    BY <1>4 DEF Start, KeysInv, Written, Held, losses
  <1>6. RingInv'
    BY DEF Start, RingInv
  <1>7. QED BY <1>2, <1>3, <1>5, <1>6

LEMMA GenerateStep ==
  ASSUME IInv, Generate
  PROVE  IInv'
  <1> USE DEF IInv
  <1>1. TypeOK'
    BY DEF Generate, TypeOK, history, losses
  <1>2. FilesInv'
    BY DEF Generate, FilesInv, WellFormed, history
  <1>3. \A v, n : (Kept(v, n) => Kept(v, n)') /\ (Lead(n) => Lead(n)')
    BY DEF Generate, Kept, Lead, history
  <1>4. KeysInv'
    BY <1>3 DEF Generate, KeysInv, Written, Held, history, losses
  <1>5. RingInv'
    BY DEF Generate, RingInv, history
  <1>6. QED BY <1>1, <1>2, <1>4, <1>5

LEMMA OpenRegistryStep ==
  ASSUME IInv, OpenRegistry
  PROVE  IInv'
  <1> USE DEF IInv
  <1>1. /\ pc = "load" /\ pc' = "register" /\ draft' = Extended(registry)
        /\ registry' = Emptied
        /\ lost' = (lost \/ registry = Emptied)
        /\ bereft' = [h \in Host |-> bereft[h] \/ registry = Emptied]
        /\ UNCHANGED <<keyDir, env, stamp, host, latest, behind, age, clean>>
    BY DEF OpenRegistry
  <1>2. /\ draft' \in RegistryRecord /\ WellFormed(draft')
        /\ InOrder => draft'.active = stamp
        /\ \A v : \A n \in Nat :
             registry # Emptied /\ Ranked(registry.keys, v, n) /\ n + 1 < Keep
               => Ranked(draft'.keys, v, n + 1)
    BY <1>1, ExtendedFacts
  <1>3. TypeOK'
    <2>1. lost' \in BOOLEAN /\ bereft' \in [Host -> BOOLEAN]
      BY <1>1 DEF TypeOK
    <2>2. QED BY <1>1, <1>2, <2>1 DEF TypeOK, RegistryRecord
  <1>4. FilesInv'
    BY <1>1, <1>2 DEF FilesInv, WellFormed, InOrder
  <1>5. ASSUME registry # Emptied, NEW v, NEW n \in Nat, Kept(v, n) PROVE Kept(v, n)'
    BY <1>1, <1>2, <1>5 DEF Kept
  <1>6. KeysInv'
    <2>1. behind \in Nat /\ \A h \in Host : age[h] \in Nat
      BY StampFacts DEF TypeOK
    <2>2. \A n : Lead(n)'
      BY <1>1 DEF Lead
    <2>3. CASE registry = Emptied
      BY <1>1, <2>3 DEF KeysInv, Written, Held
    <2>4. CASE registry # Emptied
      <3>1. Written'
        BY <1>1, <1>5, <2>1, <2>2, <2>4 DEF KeysInv, Written
      <3>2. ASSUME NEW h \in Host PROVE Held(h)'
        BY <1>1, <1>5, <2>1, <2>2, <2>4 DEF KeysInv, Held
      <3>3. QED BY <3>1, <3>2 DEF KeysInv
    <2>5. QED BY <2>3, <2>4
  <1>7. RingInv'
    <2> SUFFICES ASSUME env # Emptied, NEW i \in DOMAIN env.ring, i <= clean
                 PROVE  /\ env.ring[i] \in keyDir /\ env.ring[i] # stamp
                        /\ InOrder /\ i < Keep => Ranked(draft'.keys, env.ring[i], i)
      BY <1>1 DEF RingInv, InOrder
    <2>1. /\ env.ring[i] \in keyDir /\ env.ring[i] # stamp
          /\ registry # Emptied /\ Ranked(registry.keys, env.ring[i], i - 1)
      BY <1>1 DEF RingInv
    <2>2. i - 1 \in Nat /\ (i - 1) + 1 = i
      BY DEF FilesInv, EnvRecord
    <2>3. QED BY <1>2, <2>1, <2>2
  <1>8. QED BY <1>3, <1>4, <1>6, <1>7

LEMMA WriteRegistryStep ==
  ASSUME IInv, WriteRegistry
  PROVE  IInv'
  <1> USE DEF IInv
  <1>1. /\ pc = "register" /\ pc' = "configure" /\ registry' = draft /\ draft' = Emptied
        /\ behind' = IF InOrder THEN OneMore(behind) ELSE Keep
        /\ age' = [h \in Host |-> IF InOrder \/ host[h].state = "up" THEN OneMore(age[h])
                                                                    ELSE Keep]
        /\ UNCHANGED <<keyDir, env, stamp, host, latest, clean, lost, bereft>>
    BY DEF WriteRegistry, losses
  <1>2. /\ WellFormed(draft) /\ draft # Emptied
        /\ InOrder => draft.active = stamp
    BY <1>1, RotationAssumption DEF FilesInv, WellFormed, RegistryRecord
  <1>3. TypeOK'
    <2>1. \A n \in 0 .. Keep : OneMore(n) \in 0 .. Keep
      BY StampFacts DEF OneMore
    <2>2. Keep \in 0 .. Keep
      BY StampFacts
    <2>3. behind' \in 0 .. Keep
      BY <1>1, <2>1, <2>2 DEF TypeOK
    <2>4. age' \in [Host -> 0 .. Keep]
      BY <1>1, <2>1, <2>2 DEF TypeOK
    <2>5. QED BY <1>1, <1>2, <2>3, <2>4 DEF TypeOK, WellFormed, RegistryRecord
  <1>4. FilesInv'
    BY <1>1, <1>2 DEF FilesInv, WellFormed, InOrder
  <1>5. InOrder => Newer(draft.keys, draft.active) = 0
    <2> SUFFICES ASSUME InOrder PROVE Newer(draft.keys, draft.active) = 0
      OBVIOUS
    <2>1. \A t \in draft.keys : t <= draft.active
      BY <1>2 DEF InOrder, FilesInv, WellFormed
    <2>2. draft.keys \subseteq Nat /\ draft.active \in Nat
      BY <1>2, StampFacts DEF WellFormed
    <2>3. QED BY <2>1, <2>2, NoneNewer
  <1>6. ASSUME NEW v, NEW n \in 0 .. Keep, Kept(v, n)
        PROVE  Kept(v, OneMore(n))'
    <2> SUFFICES ASSUME OneMore(n) < Keep
                 PROVE  v \in keyDir /\ Ranked(draft.keys, v, OneMore(n))
      BY <1>1 DEF Kept, OneMore
    <2>1. n < Keep
      BY StampFacts DEF OneMore
    <2>2. OneMore(n) = n + 1
      BY <2>1 DEF OneMore
    <2>3. QED BY <1>1, <1>6, <2>1, <2>2 DEF Kept
  <1>7. \A v : Kept(v, Keep)' /\ Lead(Keep)'
    BY <1>1, StampFacts DEF Kept, Lead
  <1>8. InOrder => \A n : Lead(n)'
    BY <1>1, <1>5 DEF Lead
  <1>9. KeysInv'
    <2>1. /\ behind \in 0 .. Keep /\ \A h \in Host : age[h] \in 0 .. Keep
      BY DEF TypeOK
    <2>2. Written'
      <3>1. CASE InOrder
        BY <1>1, <1>6, <1>8, <2>1, <3>1 DEF KeysInv, Written
      <3>2. CASE ~InOrder
        BY <1>1, <1>7, <3>2 DEF Written
      <3>3. QED BY <3>1, <3>2
    <2>3. ASSUME NEW h \in Host PROVE Held(h)'
      <3>1. CASE InOrder \/ host[h].state = "up"
        <4>1. age'[h] = OneMore(age[h])
          BY <1>1, <3>1
        <4>2. host[h].state = "sourced" => Lead(age[h])'
          BY <1>1, <1>8, <3>1
        <4>3. host'[h] = host[h] /\ bereft'[h] = bereft[h]
          BY <1>1
        <4>4. \A v : Kept(v, age[h]) => Kept(v, age[h])'
          BY <1>6, <2>1, <4>1
        <4>5. Held(h)
          BY DEF KeysInv
        <4>6. QED BY <4>1, <4>2, <4>3, <4>4, <4>5 DEF Held
      <3>2. CASE ~InOrder /\ host[h].state # "up"
        <4>1. age'[h] = Keep
          BY <1>1, <3>2
        <4>2. QED BY <1>1, <1>7, <3>2, <4>1 DEF Held
      <3>3. QED BY <3>1, <3>2
    <2>4. QED BY <2>2, <2>3 DEF KeysInv
  <1>10. RingInv'
    BY <1>1 DEF RingInv, InOrder
  <1>11. QED BY <1>3, <1>4, <1>9, <1>10

LEMMA OpenEnvStep ==
  ASSUME IInv, OpenEnv
  PROVE  IInv'
  <1> USE DEF IInv
  <1> DEFINE old == IF env = Emptied THEN <<>> ELSE env.ring
  <1>1. /\ pc = "configure" /\ pc' = "update" /\ env' = Emptied
        /\ draft' = [whole |-> env # Emptied /\ env.whole, ring |-> PrependRing(old),
                     active |-> stamp]
        /\ UNCHANGED <<keyDir, registry, stamp, host, latest, behind, age, losses, clean>>
    BY DEF OpenEnv, history
  <1>2. /\ old \in Seq(Stamp) /\ clean \in Nat
        /\ \A i \in DOMAIN old : i <= clean => old[i] # stamp
    <2>1. clean \in Nat /\ <<>> \in Seq(Stamp) /\ DOMAIN <<>> = {}
      BY StampFacts DEF TypeOK
    <2>2. CASE env = Emptied
      BY <2>1, <2>2
    <2>3. CASE env # Emptied
      <3>1. env.ring \in Seq(Stamp)
        BY <2>3 DEF FilesInv, EnvRecord
      <3>2. \A i \in DOMAIN env.ring : i <= clean => env.ring[i] # stamp
        BY <1>1, <2>3 DEF RingInv
      <3>3. QED BY <2>1, <2>3, <3>1, <3>2
    <2>4. QED BY <2>2, <2>3
  <1> HIDE DEF old
  <1>3. /\ draft'.ring = PrependRing(old) /\ draft'.active = stamp
        /\ draft'.ring \in Seq(Stamp) /\ Len(draft'.ring) <= Keep
        /\ 1 \in DOMAIN draft'.ring => draft'.ring[1] = stamp
        /\ \A j \in DOMAIN draft'.ring : j > 1 /\ j <= clean + 1 =>
             j - 1 \in DOMAIN old /\ draft'.ring[j] = old[j - 1]
    BY <1>1, <1>2, PrependFacts, StampFacts
  <1>4. draft' \in EnvRecord
    <2>1. (env # Emptied /\ env.whole) \in BOOLEAN
      OBVIOUS
    <2>2. QED BY <1>1, <1>3, <2>1, StampFacts DEF EnvRecord
  <1>5. TypeOK'
    BY <1>1, <1>4 DEF TypeOK, EnvRecord, losses
  <1>6. FilesInv'
    BY <1>1, <1>3, <1>4 DEF FilesInv, WellFormed, InOrder
  <1>7. \A v, n : (Kept(v, n) => Kept(v, n)') /\ (Lead(n) => Lead(n)')
    BY <1>1 DEF Kept, Lead
  <1>8. KeysInv'
    BY <1>1, <1>7 DEF KeysInv, Written, Held, losses
  <1>9. RingInv'
    <2> SUFFICES ASSUME InOrder, NEW i \in DOMAIN draft'.ring, i <= clean + 1
                 PROVE  Ranked(registry.keys, draft'.ring[i], i - 1)
      BY <1>1 DEF RingInv, InOrder
    <2>1. i \in 1 .. Keep /\ i \in Nat /\ i >= 1 /\ clean \in Nat
      BY <1>3, StampFacts DEF TypeOK
    <2>2. CASE i = 1
      <3>1. WellFormed(registry) /\ registry.active = stamp
        BY <1>1 DEF FilesInv
      <3>2. \A t \in registry.keys : t <= stamp
        BY <3>1 DEF InOrder, FilesInv, WellFormed
      <3>3. Newer(registry.keys, stamp) = 0
        BY <3>1, <3>2, NoneNewer, StampFacts
      <3>4. stamp \in registry.keys /\ draft'.ring[i] = stamp
        BY <1>3, <2>2, <3>1 DEF WellFormed
      <3>5. QED BY <2>2, <3>3, <3>4 DEF Ranked
    <2>3. CASE i > 1
      <3>1. CASE env = Emptied
        <4>1. i - 1 \in DOMAIN old
          BY <1>3, <2>3
        <4>2. DOMAIN old = {}
          BY <3>1 DEF old
        <4>3. QED BY <4>1, <4>2
      <3>2. CASE env # Emptied
        <4>1. old = env.ring
          BY <3>2 DEF old
        <4>2. i - 1 \in DOMAIN env.ring /\ draft'.ring[i] = env.ring[i - 1]
          BY <1>3, <2>3, <4>1
        <4>3. i - 1 <= clean /\ i - 1 < Keep
          BY <2>1, StampFacts
        <4>4. QED BY <1>1, <3>2, <4>2, <4>3 DEF RingInv
      <3>3. QED BY <3>1, <3>2
    <2>4. QED BY <2>1, <2>2, <2>3
  <1>10. QED BY <1>5, <1>6, <1>8, <1>9

LEMMA WriteEnvStep ==
  ASSUME IInv, WriteEnv
  PROVE  IInv'
  <1> USE DEF IInv
  <1>1. /\ pc = "update" /\ pc' = "prune" /\ env' = draft /\ draft' = Emptied
        /\ behind' = IF InOrder THEN 0 ELSE Keep
        /\ clean' = IF InOrder THEN OneMore(clean) ELSE 0
        /\ lost' = FALSE
        /\ UNCHANGED <<keyDir, registry, stamp, host, latest, age, bereft>>
    BY DEF WriteEnv
  <1>2. /\ draft \in EnvRecord /\ draft # Emptied
        /\ Len(draft.ring) <= Keep /\ draft.active = stamp
    BY <1>1, RotationAssumption DEF FilesInv, EnvRecord
  <1>3. /\ WellFormed(registry) /\ registry # Emptied
        /\ InOrder => registry.active = stamp
    BY <1>1 DEF FilesInv
  <1>4. TypeOK'
    <2>1. \A n \in 0 .. Keep : OneMore(n) \in 0 .. Keep
      BY StampFacts DEF OneMore
    <2>2. behind' \in 0 .. Keep /\ clean' \in 0 .. Keep
      <3>1. Keep \in 0 .. Keep /\ 0 \in 0 .. Keep /\ clean \in 0 .. Keep
        BY StampFacts DEF TypeOK
      <3>2. QED BY <1>1, <2>1, <3>1
    <2>3. QED BY <1>1, <1>2, <2>2 DEF TypeOK, EnvRecord
  <1>5. FilesInv'
    BY <1>1, <1>2, <1>3 DEF FilesInv, WellFormed
  <1>6. \A v, n : (Kept(v, n) => Kept(v, n)') /\ (Lead(n) => Lead(n)')
    BY <1>1 DEF Kept, Lead
  <1>7. ASSUME InOrder PROVE Kept(stamp, 0)' /\ Lead(0)'
    <2>1. stamp \in registry.keys /\ stamp \in keyDir
      BY <1>3, <1>7 DEF WellFormed
    <2>2. \A t \in registry.keys : t <= stamp
      BY <1>3, <1>7 DEF InOrder, FilesInv, WellFormed
    <2>3. Newer(registry.keys, stamp) = 0
      BY <1>3, <2>2, NoneNewer, StampFacts
    <2>4. QED BY <1>1, <1>3, <1>7, <2>1, <2>3 DEF Kept, Lead, Ranked
  <1>8. KeysInv'
    <2>1. Written'
      <3>1. CASE InOrder
        BY <1>1, <1>2, <1>7, <3>1 DEF Written
      <3>2. CASE ~InOrder
        BY <1>1, <3>2, StampFacts DEF Written, Kept, Lead
      <3>3. QED BY <3>1, <3>2
    <2>2. QED BY <1>1, <1>6, <2>1 DEF KeysInv, Held
  <1>9. RingInv'
    <2> SUFFICES ASSUME NEW i \in DOMAIN draft.ring, i <= clean'
                 PROVE  draft.ring[i] \in keyDir /\ Ranked(registry.keys, draft.ring[i], i - 1)
      BY <1>1, <1>3 DEF RingInv
    <2>1. i \in Nat /\ i >= 1 /\ clean \in 0 .. Keep
      BY <1>2 DEF EnvRecord, TypeOK
    <2>2. InOrder
      BY <1>1, <2>1
    <2>3. clean' = clean + 1 \/ clean = Keep
      <3>1. clean' = OneMore(clean)
        BY <1>1, <2>2
      <3>2. clean < Keep => OneMore(clean) = clean + 1
        BY <2>2 DEF OneMore
      <3>3. clean < Keep \/ clean = Keep
        BY <2>1, StampFacts
      <3>4. QED BY <3>1, <3>2, <3>3
    <2>4. i <= Keep
      BY <1>2, <2>1, StampFacts DEF EnvRecord
    <2>5. i <= clean + 1
      BY <2>1, <2>3, <2>4, StampFacts
    <2>6. Ranked(registry.keys, draft.ring[i], i - 1)
      BY <1>1, <2>2, <2>5 DEF RingInv
    <2>7. QED BY <1>3, <2>6 DEF Ranked, WellFormed
  <1>10. QED BY <1>4, <1>5, <1>8, <1>9

(* What is deleted is registered no more: no key with a rank is.           *)
LEMMA PruneStep ==
  ASSUME IInv, NEW t, Prune(t)
  PROVE  IInv'
  <1> USE DEF IInv
  <1>1. /\ pc = "prune" /\ t \in keyDir /\ t \notin registry.keys
        /\ keyDir' = keyDir \ {t}
        /\ UNCHANGED <<registry, env, pc, draft, stamp, host, latest, behind, age, losses,
                       clean>>
    BY DEF Prune, history
  <1>2. TypeOK'
    BY <1>1 DEF TypeOK, losses
  <1>3. FilesInv'
    BY <1>1 DEF FilesInv, WellFormed
  <1>4. \A v, n : (Kept(v, n) => Kept(v, n)') /\ (Lead(n) => Lead(n)')
    BY <1>1 DEF FilesInv, Kept, Lead, Ranked
  <1>5. KeysInv'
    BY <1>1, <1>4 DEF KeysInv, Written, Held, losses
  <1>6. RingInv'
    BY <1>1 DEF RingInv, Ranked
  <1>7. QED BY <1>2, <1>3, <1>5, <1>6

LEMMA EndStep ==
  ASSUME IInv, End
  PROVE  IInv'
  <1> USE DEF IInv
  <1>1. TypeOK'
    BY DEF End, TypeOK, history, losses
  <1>2. FilesInv'
    BY DEF End, FilesInv, WellFormed, history
  <1>3. \A v, n : (Kept(v, n) => Kept(v, n)') /\ (Lead(n) => Lead(n)')
    BY DEF End, Kept, Lead, history
  <1>4. KeysInv'
    BY <1>3 DEF End, KeysInv, Written, Held, history, losses
  <1>5. RingInv'
    BY DEF End, RingInv, history
  <1>6. QED BY <1>1, <1>2, <1>4, <1>5

(* A rotation that dies deletes nothing, and leaves what it was writing     *)
(* empty: nothing is claimed of that file.                                 *)
LEMMA CrashStep ==
  ASSUME IInv, Crash
  PROVE  IInv'
  <1> USE DEF IInv
  <1>1. /\ pc # "idle" /\ pc' = "idle" /\ draft' = Emptied
        /\ clean' = IF pc \in {"register", "configure", "update"} THEN 0 ELSE clean
        /\ UNCHANGED <<keyDir, registry, env, stamp, host, latest, behind, age, losses>>
    BY DEF Crash
  <1>2. TypeOK'
    BY <1>1, StampFacts DEF TypeOK, losses
  <1>3. FilesInv'
    BY <1>1 DEF FilesInv, WellFormed
  <1>4. pc = "register" => registry = Emptied
    BY DEF FilesInv
  <1>5. \A v, n : (Kept(v, n) => Kept(v, n)') /\ (Lead(n) => Lead(n)')
    BY <1>1, <1>4 DEF Kept, Lead
  <1>6. KeysInv'
    BY <1>1, <1>5 DEF KeysInv, Written, Held, losses
  <1>7. RingInv'
    <2>1. CASE clean' = 0
      <3>1. env # Emptied => \A i \in DOMAIN env.ring : ~(i <= 0)
        BY DEF FilesInv, EnvRecord
      <3>2. QED BY <1>1, <2>1, <3>1 DEF RingInv
    <2>2. CASE pc \notin {"register", "configure", "update"}
      <3>1. pc \in {"generate", "load", "prune"} /\ clean' = clean
        BY <1>1, <2>2 DEF TypeOK
      <3>2. QED BY <1>1, <3>1 DEF RingInv
    <2>3. QED BY <1>1, <2>1, <2>2
  <1>8. QED BY <1>2, <1>3, <1>6, <1>7
-----------------------------------------------------------------------------
(* The processes.                                                          *)

LEMMA SourceStep ==
  ASSUME IInv, NEW h \in Host, Source(h)
  PROVE  IInv'
  <1> USE DEF IInv
  <1>1. /\ host[h].state = "down" /\ env # Emptied
        /\ host' = [host EXCEPT ![h].state = "sourced", ![h].verifier = env.active]
        /\ age' = [age EXCEPT ![h] = behind]
        /\ bereft' = [bereft EXCEPT ![h] = lost]
        /\ UNCHANGED <<keyDir, registry, env, pc, draft, stamp, latest, behind, lost, clean>>
    BY DEF Source
  <1>2. /\ host'[h].state = "sourced" /\ host'[h].verifier = env.active
        /\ age'[h] = behind /\ bereft'[h] = lost
        /\ \A g \in Host : g # h =>
             host'[g] = host[g] /\ age'[g] = age[g] /\ bereft'[g] = bereft[g]
    BY <1>1 DEF TypeOK
  <1>3. TypeOK'
    <2>1. env.active \in Stamp
      BY <1>1 DEF FilesInv, EnvRecord
    <2>2. host' \in [Host -> Process]
      <3>1. host[h] \in Process /\ host \in [Host -> Process]
        BY DEF TypeOK, Process
      <3>2. host'[h] \in Process
        BY <1>1, <2>1, <3>1 DEF Process
      <3>3. QED BY <1>1, <3>1, <3>2
    <2>3. age' \in [Host -> 0 .. Keep] /\ bereft' \in [Host -> BOOLEAN]
      BY <1>1 DEF TypeOK
    <2>4. QED BY <1>1, <2>2, <2>3 DEF TypeOK, Process
  <1>4. FilesInv'
    BY <1>1 DEF FilesInv, WellFormed, InOrder
  <1>5. \A v, n : (Kept(v, n) => Kept(v, n)') /\ (Lead(n) => Lead(n)')
    BY <1>1 DEF Kept, Lead
  <1>6. KeysInv'
    <2>1. ASSUME NEW g \in Host PROVE Held(g)'
      <3>1. CASE g = h
        BY <1>1, <1>2, <1>5, <3>1 DEF KeysInv, Written, Held
      <3>2. CASE g # h
        BY <1>2, <1>5, <3>2 DEF KeysInv, Held
      <3>3. QED BY <3>1, <3>2
    <2>2. QED BY <1>1, <1>5, <2>1 DEF KeysInv, Written
  <1>7. RingInv'
    BY <1>1 DEF RingInv, InOrder
  <1>8. QED BY <1>3, <1>4, <1>6, <1>7

LEMMA LeaveStep ==
  ASSUME IInv, NEW h \in Host, Leave(h),
         UNCHANGED <<keyDir, registry, env, pc, draft, stamp, latest, behind, lost, clean>>
  PROVE  IInv'
  <1> USE DEF IInv
  <1>1. /\ host' = [host EXCEPT ![h] = Down] /\ age' = [age EXCEPT ![h] = Keep]
        /\ bereft' = [bereft EXCEPT ![h] = FALSE]
    BY DEF Leave
  <1>2. /\ host'[h].state = "down"
        /\ \A g \in Host : g # h =>
             host'[g] = host[g] /\ age'[g] = age[g] /\ bereft'[g] = bereft[g]
    BY <1>1 DEF TypeOK, Down
  <1>3. TypeOK'
    BY <1>1, RotationAssumption, StampFacts DEF TypeOK, Down
  <1>4. FilesInv'
    BY DEF FilesInv, WellFormed, InOrder
  <1>5. \A v, n : (Kept(v, n) => Kept(v, n)') /\ (Lead(n) => Lead(n)')
    BY DEF Kept, Lead
  <1>6. KeysInv'
    <2>1. ASSUME NEW g \in Host PROVE Held(g)'
      <3>1. CASE g = h
        BY <1>2, <3>1 DEF Held
      <3>2. CASE g # h
        BY <1>2, <1>5, <3>2 DEF KeysInv, Held
      <3>3. QED BY <3>1, <3>2
    <2>2. QED BY <1>5, <2>1 DEF KeysInv, Written
  <1>7. RingInv'
    BY DEF RingInv, InOrder
  <1>8. QED BY <1>3, <1>4, <1>6, <1>7

(* A process that comes up takes the newest of the registry's keys, so that *)
(* this one is kept at least as long as the verifier's.                    *)
LEMMA ImportStep ==
  ASSUME IInv, NEW h \in Host, Import(h)
  PROVE  IInv'
  <1> USE DEF IInv
  <1>1. CASE Leave(h)
    BY <1>1, LeaveStep DEF Import
  <1>2. CASE ~Leave(h)
    <2>1. /\ host[h].state = "sourced"
          /\ registry # Emptied /\ registry.active \in keyDir
          /\ host' = [host EXCEPT ![h].state = "up", ![h].agents = registry.active]
          /\ UNCHANGED <<keyDir, registry, env, pc, draft, stamp, latest, behind, age,
                         losses, clean>>
      BY <1>2 DEF Import, losses
    <2>2. /\ host'[h].state = "up" /\ host'[h].verifier = host[h].verifier
          /\ host'[h].agents = registry.active
          /\ \A g \in Host : g # h => host'[g] = host[g]
      BY <2>1 DEF TypeOK
    <2>3. WellFormed(registry)
      BY <2>1 DEF FilesInv
    <2>4. TypeOK'
      <3>1. registry.active \in Stamp
        BY <2>1, StampFacts
      <3>2. host' \in [Host -> Process]
        <4>1. host[h] \in Process /\ host \in [Host -> Process]
          BY DEF TypeOK, Process
        <4>2. host'[h] \in Process
          BY <2>1, <3>1, <4>1 DEF Process
        <4>3. QED BY <2>1, <4>1, <4>2
      <3>3. QED BY <2>1, <3>2 DEF TypeOK, Process, losses
    <2>5. FilesInv'
      BY <2>1 DEF FilesInv, WellFormed, InOrder
    <2>6. \A v, n : (Kept(v, n) => Kept(v, n)') /\ (Lead(n) => Lead(n)')
      BY <2>1 DEF Kept, Lead
    <2>7. ~bereft[h] => Kept(registry.active, age[h])
      <3> SUFFICES ASSUME ~bereft[h], age[h] < Keep PROVE Kept(registry.active, age[h])
        BY DEF Kept
      <3>1. Lead(age[h]) /\ age[h] \in 0 .. Keep
        BY <2>1 DEF KeysInv, Held, TypeOK
      <3>2. pc # "register"
        BY <2>1 DEF FilesInv
      <3>3. Newer(registry.keys, registry.active) = 0
        BY <2>1, <3>1 DEF Lead
      <3>4. Ranked(registry.keys, registry.active, age[h])
        BY <2>3, <3>1, <3>3 DEF Ranked, WellFormed
      <3>5. QED BY <2>1, <3>2, <3>4 DEF Kept
    <2>8. KeysInv'
      <3>1. ASSUME NEW g \in Host PROVE Held(g)'
        <4>1. CASE g = h
          BY <2>1, <2>2, <2>6, <2>7, <4>1 DEF KeysInv, Held, losses
        <4>2. CASE g # h
          BY <2>1, <2>2, <2>6, <4>2 DEF KeysInv, Held, losses
        <4>3. QED BY <4>1, <4>2
      <3>2. QED BY <2>1, <2>6, <3>1 DEF KeysInv, Written, losses
    <2>9. RingInv'
      BY <2>1 DEF RingInv, InOrder
    <2>10. QED BY <2>4, <2>5, <2>8, <2>9
  <1>3. QED BY <1>1, <1>2
-----------------------------------------------------------------------------
LEMMA StepHolds == IInv /\ [Next]_vars => IInv'
  <1> SUFFICES ASSUME IInv, [Next]_vars PROVE IInv'
    OBVIOUS
  <1>1. CASE \E t \in Stamp : Start(t) \/ Prune(t)
    BY <1>1, StartStep, PruneStep
  <1>2. CASE Generate \/ OpenRegistry \/ WriteRegistry
    BY <1>2, GenerateStep, OpenRegistryStep, WriteRegistryStep
  <1>3. CASE OpenEnv \/ WriteEnv \/ End \/ Crash
    BY <1>3, OpenEnvStep, WriteEnvStep, EndStep, CrashStep
  <1>4. CASE \E h \in Host : Source(h) \/ Import(h) \/ Stop(h)
    BY <1>4, SourceStep, ImportStep, LeaveStep DEF Stop
  <1>5. CASE UNCHANGED vars
    <2>1. TypeOK'
      BY <1>5 DEF IInv, TypeOK, vars, history, losses
    <2>2. FilesInv'
      BY <1>5 DEF IInv, FilesInv, WellFormed, InOrder, vars, history
    <2>3. \A v, n : (Kept(v, n) => Kept(v, n)') /\ (Lead(n) => Lead(n)')
      BY <1>5 DEF Kept, Lead, vars, history
    <2>4. KeysInv'
      BY <1>5, <2>3 DEF IInv, KeysInv, Written, Held, vars, history, losses
    <2>5. RingInv'
      BY <1>5 DEF IInv, RingInv, InOrder, vars, history
    <2>6. QED BY <2>1, <2>2, <2>4, <2>5 DEF IInv
  <1>6. QED BY <1>1, <1>2, <1>3, <1>4, <1>5 DEF Next

(* In every reachable state the files agree with what the rotations have   *)
(* done, the keys in use that are young enough are registered, and the ring *)
(* entries of the rotations in a row are the newest ones of the registry.  *)
THEOREM Invariance == Spec => []IInv
  <1>1. Init => IInv
    BY InitHolds
  <1>2. IInv /\ [Next]_vars => IInv'
    BY StepHolds
  <1>3. QED BY <1>1, <1>2, PTL DEF Spec

(* The state has its type.                                                 *)
THEOREM TypeCorrect == Spec => []TypeOK
  <1>1. IInv => TypeOK
    BY DEF IInv
  <1>2. QED BY <1>1, Invariance, PTL

(* After Keep rotations in a row that wrote both files in the order of the *)
(* clock, every key file that the verifier ring of the environment file    *)
(* names is on hand, so that run_secure_demo.sh's check of the ring finds  *)
(* no key missing, whatever crashes and clocks did before. Other settings  *)
(* that an emptied environment file has lost are not brought back by this. *)
THEOREM RingIsOnHand == Spec => []StartsWhenClean
  <1>1. IInv => StartsWhenClean
    <2> SUFFICES ASSUME IInv, clean = Keep, env # Emptied, NEW i \in DOMAIN env.ring
                 PROVE  env.ring[i] \in keyDir
      BY DEF StartsWhenClean, RingOnHand
    <2>1. i <= Keep
      BY StampFacts DEF IInv, FilesInv, EnvRecord
    <2>2. QED BY <2>1 DEF IInv, RingInv
  <1>2. QED BY <1>1, Invariance, PTL

(* A running process keeps the files of the keys it signs with until Keep  *)
(* generations were registered since its environment file was written,     *)
(* wherever the rotations died that delete key files beside it, unless one *)
(* of them found the registry empty and made it anew: then its keys are    *)
(* kept up to that rotation only.                                          *)
THEOREM HostsCanSign == Spec => []HostSigns
  <1>1. IInv => HostSigns
    <2> SUFFICES ASSUME IInv, NEW h \in Host,
                        host[h].state = "up", age[h] < Keep, ~bereft[h]
                 PROVE  {host[h].verifier, host[h].agents} \subseteq keyDir
      BY DEF HostSigns
    <2>1. Kept(host[h].verifier, age[h]) /\ Kept(host[h].agents, age[h])
      BY DEF IInv, KeysInv, Held
    <2>2. QED BY <2>1 DEF Kept
  <1>2. QED BY <1>1, Invariance, PTL
===============================================================================

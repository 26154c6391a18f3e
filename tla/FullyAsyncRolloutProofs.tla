------------------------ MODULE FullyAsyncRolloutProofs ----------------------
(***************************************************************************)
(* Proofs about fully asynchronous training, for groups, batches, buffers, *)
(* intervals and staleness of any size and any numbers of rollouts, faults *)
(* and crashes.  The inductive invariant says of the groups that each is   *)
(* in one place (Spread) and no place holds one twice (NoRepeats), from    *)
(* which the counts of OnePlace follow; of the account that it is the      *)
(* number of unfinished samples; and of the driver, for each of its        *)
(* phases, which drain is under way, with which version, and how the last  *)
(* checkpoints of the trainer and of the data source stand to each other.  *)
(***************************************************************************)
EXTENDS FullyAsyncRollout, FiniteSetTheorems, FunctionTheorems, SequenceTheorems,
        WellFoundedInduction, TLAPS

-----------------------------------------------------------------------------
(* Numbers *)

LEMMA MaxOfTwo ==
  ASSUME NEW a \in Int, NEW b \in Int
  PROVE  Max({a, b}) = IF a >= b THEN a ELSE b
<1> DEFINE m == IF a >= b THEN a ELSE b
<1>1. m \in {a, b} /\ \A y \in {a, b} : m >= y  OBVIOUS
<1>2. \A x \in {a, b} : (\A y \in {a, b} : x >= y) => x = m  OBVIOUS
<1> QED  BY <1>1, <1>2 DEF Max

LEMMA MinOfTwo ==
  ASSUME NEW a \in Int, NEW b \in Int
  PROVE  Min({a, b}) = IF a <= b THEN a ELSE b
<1> DEFINE m == IF a <= b THEN a ELSE b
<1>1. m \in {a, b} /\ \A y \in {a, b} : m <= y  OBVIOUS
<1>2. \A x \in {a, b} : (\A y \in {a, b} : x <= y) => x = m  OBVIOUS
<1> QED  BY <1>1, <1>2 DEF Min

\* A set of natural numbers that has a member has a least one.
LEMMA LeastNatural ==
  ASSUME NEW S \in SUBSET Nat, S # {}
  PROVE  Min(S) \in S /\ \A k \in S : Min(S) <= k
<1>1. PICK m \in S : \A k \in S : <<k, m>> \notin OpToRel(<, Nat)
  BY NatLessThanWellFounded, WFMin
<1>2. \A k \in S : ~(k < m)  BY <1>1 DEF OpToRel
<1>3. \A k \in S : m <= k /\ k \in Nat  BY <1>2
<1> QED  BY <1>3 DEF Min

LEMMA DivMod ==
  ASSUME NEW d \in Nat \ {0}, NEW n \in Nat
  PROVE  /\ (n \div d) \in Nat /\ (n % d) \in 0 .. (d - 1)
         /\ n = d * (n \div d) + (n % d)
<1>1. (n \div d) \in Nat  BY SMT
<1>2. (n % d) \in 0 .. (d - 1)  BY SMT
<1>3. n = d * (n \div d) + (n % d)  BY SMT
<1> QED  BY <1>1, <1>2, <1>3

\* The position in an interval moves on by one, or starts over.
LEMMA NextRemainder ==
  ASSUME NEW d \in Nat \ {0}, NEW n \in Nat, (n + 1) % d # 0
  PROVE  (n + 1) % d = (n % d) + 1
<1> DEFINE q == n \div d  r == n % d  p == (n + 1) \div d  s == (n + 1) % d
<1>1. q \in Nat /\ r \in 0 .. (d - 1) /\ n = d * q + r  BY DivMod
<1>2. p \in Nat /\ s \in 0 .. (d - 1) /\ n + 1 = d * p + s
  <2>1. n + 1 \in Nat  OBVIOUS
  <2> QED  BY <2>1, DivMod
<1>3. s # 0  OBVIOUS
<1> HIDE DEF q, r, p, s
<1>4. d * p - d * q = d * (p - q)  BY <1>1, <1>2, SMT
<1>5. d * p \in Int /\ d * q \in Int  BY <1>1, <1>2, SMT
<1>6. d * (p - q) = r + 1 - s  BY <1>1, <1>2, <1>4, <1>5
<1>7. ~(p - q >= 1)
  <2> SUFFICES ASSUME p - q >= 1 PROVE FALSE  OBVIOUS
  <2>1. d * (p - q) >= d  BY <1>1, <1>2, SMT
  <2> QED  BY <1>1, <1>2, <1>3, <1>6, <2>1
<1>8. ~(p - q <= -1)
  <2> SUFFICES ASSUME p - q <= -1 PROVE FALSE  OBVIOUS
  <2>1. d * (p - q) <= -d  BY <1>1, <1>2, SMT
  <2> QED  BY <1>1, <1>2, <1>6, <2>1
<1>9. p - q = 0  BY <1>1, <1>2, <1>7, <1>8
<1>10. s = r + 1  BY <1>1, <1>2, <1>6, <1>9
<1> QED  BY <1>10 DEF r, s

-----------------------------------------------------------------------------
(* Counting *)

\* What a sequence holds without repetition is as much as it is long.
LEMMA LengthIsCount ==
  ASSUME NEW n \in Nat, NEW f, \A i, j \in 1 .. n : f[i] = f[j] => i = j,
         NEW T, \A x : x \in T <=> \E i \in 1 .. n : x = f[i]
  PROVE  IsFiniteSet(T) /\ Cardinality(T) = n
<1> DEFINE h == [i \in 1 .. n |-> f[i]]
<1>1. h \in [1 .. n -> T]  OBVIOUS
<1>2. h \in Injection(1 .. n, T)  BY <1>1 DEF Injection, IsInjective
<1>3. h \in Surjection(1 .. n, T)  BY <1>1 DEF Surjection
<1>4. ExistsBijection(1 .. n, T)
  <2> HIDE DEF h
  <2> QED  BY <1>2, <1>3 DEF ExistsBijection, Bijection
<1> QED  BY <1>4, FS_CountingElements, FS_NatBijection

\* Cutting a sequence without repetitions in two parts its range.
LEMMA CutInTwo ==
  ASSUME NEW s \in Seq(Nat), IsInjective(s), NEW m \in 0 .. Len(s)
  PROVE  LET a == SubSeq(s, 1, m)
             b == SubSeq(s, m + 1, Len(s))
         IN  /\ Len(a) = m /\ b \in Seq(Nat) /\ IsInjective(b)
             /\ Range(b) = Range(s) \ Range(a) /\ Range(a) \subseteq Range(s)
             /\ IsFiniteSet(Range(a)) /\ Cardinality(Range(a)) = m
<1> DEFINE a == SubSeq(s, 1, m)  b == SubSeq(s, m + 1, Len(s))
<1>1. DOMAIN s = 1 .. Len(s) /\ Len(s) \in Nat /\ \A i \in 1 .. Len(s) : s[i] \in Nat
  OBVIOUS
<1>10. m \in Nat /\ m <= Len(s) /\ Len(s) - m \in Nat  BY <1>1
<1>2. a \in Seq(Nat) /\ Len(a) = m /\ \A i \in 1 .. m : a[i] = s[i]
  <2>1. \A i \in 1 .. m : s[i] \in Nat  BY <1>1
  <2> QED  BY <1>1, <2>1, SubSeqProperties
<1>3. /\ b \in Seq(Nat) /\ Len(b) = Len(s) - m
      /\ \A i \in 1 .. Len(s) - m : b[i] = s[m + i]
  <2>1. \A i \in m + 1 .. Len(s) : s[i] \in Nat  BY <1>1
  <2>2. /\ b \in Seq(Nat)
        /\ Len(b) = IF m + 1 <= Len(s) THEN Len(s) - (m + 1) + 1 ELSE 0
        /\ \A i \in 1 .. Len(s) - (m + 1) + 1 : b[i] = s[m + 1 + i - 1]
    BY <1>1, <2>1, SubSeqProperties
  <2> HIDE DEF b
  <2>3. Len(s) - (m + 1) + 1 = Len(s) - m /\ \A i \in 1 .. Len(s) - m : m + 1 + i - 1 = m + i
    BY <1>1
  <2>4. Len(b) = Len(s) - m
    <3>1. Len(b) = IF m + 1 <= Len(s) THEN Len(s) - (m + 1) + 1 ELSE 0  BY <2>2
    <3>2. CASE m + 1 <= Len(s)  BY <1>1, <1>10, <3>1, <3>2
    <3>3. CASE m = Len(s)  BY <1>1, <1>10, <3>1, <3>3
    <3>4. m + 1 <= Len(s) \/ m = Len(s)
      <4>1. \A x, y \in Nat : x <= y => x + 1 <= y \/ x = y  OBVIOUS
      <4> QED  BY <1>1, <1>10, <4>1
    <3> QED  BY <3>2, <3>3, <3>4
  <2> QED  BY <2>2, <2>3, <2>4
<1> HIDE DEF a, b
<1>0. DOMAIN a = 1 .. m /\ DOMAIN b = 1 .. Len(s) - m
  <2>1. DOMAIN a = 1 .. Len(a) /\ DOMAIN b = 1 .. Len(b)  BY <1>2, <1>3
  <2> QED  BY <1>2, <1>3, <2>1
<1>4. /\ Range(s) = {s[i] : i \in 1 .. Len(s)}
      /\ Range(a) = {s[i] : i \in 1 .. m}
      /\ Range(b) = {s[i] : i \in m + 1 .. Len(s)}
  <2>1. Range(s) = {s[i] : i \in 1 .. Len(s)}  BY <1>1 DEF Range
  <2>2. Range(a) = {s[i] : i \in 1 .. m}  BY <1>0, <1>2 DEF Range
  <2>3. Range(b) = {b[i] : i \in 1 .. Len(s) - m}  BY <1>0 DEF Range
  <2>4. \A i \in m + 1 .. Len(s) : i - m \in 1 .. Len(s) - m /\ m + (i - m) = i
    BY <1>1
  <2>5. \A i \in 1 .. Len(s) - m : m + i \in m + 1 .. Len(s)  BY <1>1
  <2>6. \A i \in m + 1 .. Len(s) : s[i] = b[i - m]  BY <1>3, <2>4
  <2>7. Range(b) = {s[i] : i \in m + 1 .. Len(s)}
    <3>1. \A x : x \in Range(b) => \E i \in m + 1 .. Len(s) : x = s[i]  BY <1>3, <2>3, <2>5
    <3>2. \A i \in m + 1 .. Len(s) : s[i] \in Range(b)  BY <2>3, <2>4, <2>6
    <3> QED  BY <3>1, <3>2
  <2> QED  BY <2>1, <2>2, <2>7
<1>5. \A i, j \in 1 .. Len(s) : s[i] = s[j] => i = j  BY <1>1 DEF IsInjective
<1>6. Range(a) \subseteq Range(s)  BY <1>1, <1>4
<1>7. Range(b) = Range(s) \ Range(a)
  <2>1. ASSUME NEW x \in Range(b) PROVE x \in Range(s) \ Range(a)
    <3>1. PICK i \in m + 1 .. Len(s) : x = s[i]  BY <1>4
    <3>2. i \in 1 .. Len(s)  BY <1>1, <3>1
    <3>3. \A j \in 1 .. m : j \in 1 .. Len(s) /\ j # i  BY <1>1, <3>1
    <3> QED  BY <1>4, <1>5, <3>1, <3>2, <3>3
  <2>2. ASSUME NEW x \in Range(s) \ Range(a) PROVE x \in Range(b)
    <3>1. PICK i \in 1 .. Len(s) : x = s[i]  BY <1>4
    <3>2. i \notin 1 .. m  BY <1>4, <3>1
    <3>3. i \in m + 1 .. Len(s)  BY <1>1, <3>1, <3>2
    <3> QED  BY <1>4, <3>1, <3>3
  <2> QED  BY <2>1, <2>2
<1>8. IsInjective(b)
  <2>1. \A i \in DOMAIN b : i \in 1 .. Len(s) - m /\ m + i \in 1 .. Len(s)  BY <1>0, <1>1, <1>10
  <2>2. \A i, j \in DOMAIN b : b[i] = b[j] => m + i = m + j  BY <1>3, <1>5, <2>1
  <2> QED  BY <1>0, <1>1, <2>2 DEF IsInjective
<1>9. IsFiniteSet(Range(a)) /\ Cardinality(Range(a)) = m
  <2>1. Range(a) = {a[i] : i \in 1 .. m}  BY <1>0 DEF Range
  <2>2. \A i, j \in 1 .. m : a[i] = a[j] => i = j
    <3>1. \A i \in 1 .. m : i \in 1 .. Len(s)  BY <1>1, <1>10
    <3> QED  BY <1>2, <1>5, <3>1
  <2>3. \A x : x \in Range(a) <=> \E i \in 1 .. m : x = a[i]  BY <2>1
  <2> QED  BY <1>10, <2>2, <2>3, LengthIsCount
<1> QED  BY <1>2, <1>3, <1>6, <1>7, <1>8, <1>9 DEF a, b

-----------------------------------------------------------------------------
(* The inductive invariant *)

\* The groups of S are in the places P, each in one of them.
Spread(P, S) ==
  /\ \A g : g \in S <=> \E p \in 1 .. 8 : g \in P[p]
  /\ \A p, q \in 1 .. 8 : p # q => P[p] \cap P[q] = {}

\* No place holds a group twice.
NoTwins(entries) == \A e, f \in entries : e.group = f.group => e = f
NoRepeats ==
  /\ IsInjective(recycled)
  /\ \A i, j \in 1 .. Len(buffer) : buffer[i].group = buffer[j].group => i = j
  /\ NoTwins(held) /\ NoTwins(drain.got) /\ NoTwins(batch)

\* Where the groups are; what is in flight; where the driver stands.
Data   == Spread(Places, base .. next - 1) /\ NoRepeats
Work   == AccountIsExact /\ WorkerFits
Course == DriverFits /\ ServedSincePublish /\ CheckpointsFit /\ FreshEnough

RolloutInv == TypeOK /\ Data /\ Work /\ Course

\* Entries without twins are as many as their groups.
LEMMA EntriesAreCounted ==
  ASSUME NEW S \in SUBSET Entry, NoTwins(S), IsFiniteSet(Groups(S))
  PROVE  IsFiniteSet(S) /\ Cardinality(S) = Cardinality(Groups(S))
<1> DEFINE f == [e \in S |-> e.group]
<1>1. f \in [S -> Groups(S)]  BY DEF Groups
<1>2. f \in Injection(S, Groups(S))  BY <1>1 DEF Injection, IsInjective, NoTwins
<1>3. f \in Surjection(S, Groups(S))  BY <1>1 DEF Surjection, Groups
<1> QED  BY <1>2, <1>3, FS_Injection

\* The places by their numbers.
LEMMA PlaceNumbers ==
  /\ Len(Places) = 8
  /\ Places[1] = Range(recycled) /\ Places[2] = DOMAIN active
  /\ Places[3] = Groups(held) /\ Places[4] = Groups(Range(buffer))
  /\ Places[5] = Groups(drain.got) /\ Places[6] = Groups(batch)
  /\ Places[7] = trained /\ Places[8] = unused
BY DEF Places

LEMMA PlaceNumbersNext ==
  /\ Places'[1] = Range(recycled') /\ Places'[2] = DOMAIN active'
  /\ Places'[3] = Groups(held') /\ Places'[4] = Groups(Range(buffer'))
  /\ Places'[5] = Groups(drain'.got) /\ Places'[6] = Groups(batch')
  /\ Places'[7] = trained' /\ Places'[8] = unused'
BY DEF Places, Groups

\* Groups that move from one place to another, with others that are new, are
\* still in one place each.
LEMMA Moved ==
  ASSUME NEW P, NEW Q, NEW S, NEW p \in 1 .. 8, NEW q \in 1 .. 8, p # q,
         NEW G, NEW N, G \subseteq P[p], N \cap S = {}, Spread(P, S),
         Q[p] = P[p] \ G, Q[q] = P[q] \cup G \cup N,
         \A i \in 1 .. 8 : i # p /\ i # q => Q[i] = P[i]
  PROVE  Spread(Q, S \cup N)
<1>1. ASSUME NEW g, g \in S \cup N PROVE \E i \in 1 .. 8 : g \in Q[i]
  <2>1. CASE g \in G \cup N  BY <2>1
  <2>2. CASE g \notin G \cup N
    <3>1. PICK i \in 1 .. 8 : g \in P[i]  BY <1>1, <2>2 DEF Spread
    <3> QED  BY <2>2, <3>1
  <2> QED  BY <2>1, <2>2
<1>2. ASSUME NEW g, NEW i \in 1 .. 8, g \in Q[i] PROVE g \in S \cup N
  <2>1. g \in P[i] \/ g \in G \cup N  BY <1>2
  <2> QED  BY <2>1 DEF Spread
<1>3. ASSUME NEW i \in 1 .. 8, NEW j \in 1 .. 8, i # j, NEW g, g \in Q[i], g \in Q[j]
      PROVE  FALSE
  <2>1. \A k \in 1 .. 8 : g \in P[k] => g \in S /\ g \notin N  BY DEF Spread
  <2>2. \A k, l \in 1 .. 8 : g \in P[k] /\ g \in P[l] => k = l  BY DEF Spread
  <2>3. \A k \in 1 .. 8 : k # q => (g \in Q[k] <=> g \in P[k] /\ (k = p => g \notin G))  OBVIOUS
  <2>4. g \in Q[q] <=> g \in P[q] \/ g \in G \/ g \in N  OBVIOUS
  <2>5. CASE i = q  BY <1>3, <2>1, <2>2, <2>3, <2>4, <2>5
  <2>6. CASE j = q  BY <1>3, <2>1, <2>2, <2>3, <2>4, <2>6
  <2>7. CASE i # q /\ j # q  BY <1>3, <2>2, <2>3, <2>7
  <2> QED  BY <2>5, <2>6, <2>7
<1>4. \A i, j \in 1 .. 8 : i # j => Q[i] \cap Q[j] = {}  BY <1>3
<1>5. \A g : g \in S \cup N <=> \E i \in 1 .. 8 : g \in Q[i]  BY <1>1, <1>2
<1> QED  BY <1>4, <1>5 DEF Spread

\* What stays where it is stays spread.
LEMMA Unmoved ==
  ASSUME Spread(Places, base .. next - 1), UNCHANGED <<base, next>>,
         \A i \in 1 .. 8 : Places'[i] = Places[i]
  PROVE  Spread(Places, base .. next - 1)'
<1>1. /\ \A g : g \in base' .. next' - 1 <=> \E p \in 1 .. 8 : g \in Places'[p]
      /\ \A p, q \in 1 .. 8 : p # q => Places'[p] \cap Places'[q] = {}
  BY DEF Spread
<1> QED  BY <1>1 DEF Spread

\* The common case: some groups go from one place to another.  (The steps
\* that use it name the places p and q and then hide their numbers.)
LEMMA GroupsMove ==
  ASSUME Spread(Places, base .. next - 1), UNCHANGED <<base, next>>,
         NEW p \in 1 .. 8, NEW q \in 1 .. 8, p # q, NEW G, G \subseteq Places[p],
         Places'[p] = Places[p] \ G, Places'[q] = Places[q] \cup G,
         \A i \in 1 .. 8 : i # p /\ i # q => Places'[i] = Places[i]
  PROVE  Spread(Places, base .. next - 1)'
<1>1. Spread(Places', (base .. next - 1) \cup {})
  <2>1. Places'[q] = Places[q] \cup G \cup {} /\ {} \cap (base .. next - 1) = {}  OBVIOUS
  <2> QED  BY <2>1, Moved
<1>2. (base .. next - 1) \cup {} = base' .. next' - 1  OBVIOUS
<1> QED  BY <1>1, <1>2

\* All places are finite.
LEMMA PlacesAreFinite ==
  ASSUME TypeOK, Spread(Places, base .. next - 1), NEW p \in 1 .. 8
  PROVE  IsFiniteSet(Places[p])
<1>1. Places[p] \subseteq base .. next - 1  BY DEF Spread
<1>2. base \in Int /\ next - 1 \in Int  BY DEF TypeOK
<1>3. IsFiniteSet(base .. next - 1)  BY <1>2, FS_Interval
<1> QED  BY <1>1, <1>3, FS_Subset

\* A union of two sets that are apart is as large as both.
LEMMA SumOfTwo ==
  ASSUME NEW S, NEW T, IsFiniteSet(S), IsFiniteSet(T), S \cap T = {}
  PROVE  IsFiniteSet(S \cup T) /\ Cardinality(S \cup T) = Cardinality(S) + Cardinality(T)
<1>1. Cardinality(S) \in Nat /\ Cardinality(T) \in Nat  BY FS_CardinalityType
<1>2. Cardinality(S \cap T) = 0  BY FS_EmptySet
<1>3. /\ IsFiniteSet(S \cup T)
      /\ Cardinality(S \cup T) = Cardinality(S) + Cardinality(T) - Cardinality(S \cap T)
  BY FS_Union
<1> QED  BY <1>1, <1>2, <1>3

\* Places that share nothing are together as large as their sum.
LEMMA SumOfPlaces ==
  ASSUME NEW P, NEW S, Spread(P, S), \A p \in 1 .. 8 : IsFiniteSet(P[p])
  PROVE  /\ \A p \in 1 .. 8 : Cardinality(P[p]) \in Nat
         /\ Cardinality(S) = Cardinality(P[1]) + Cardinality(P[2]) + Cardinality(P[3])
                               + Cardinality(P[4]) + Cardinality(P[5]) + Cardinality(P[6])
                               + Cardinality(P[7]) + Cardinality(P[8])
<1>1. \A p \in 1 .. 8 : Cardinality(P[p]) \in Nat  BY FS_CardinalityType
<1> DEFINE Upto(k) == {g \in S : \E p \in 1 .. k : g \in P[p]}
<1>2. Upto(1) = P[1]  BY DEF Spread
<1>3. ASSUME NEW k \in 1 .. 7, IsFiniteSet(Upto(k))
      PROVE  IsFiniteSet(Upto(k + 1)) /\ Cardinality(Upto(k + 1)) = Cardinality(Upto(k)) + Cardinality(P[k + 1])
  <2>1. k + 1 \in 1 .. 8 /\ 1 .. k + 1 = (1 .. k) \cup {k + 1} /\ k + 1 \notin 1 .. k
        /\ 1 .. k \subseteq 1 .. 8
    OBVIOUS
  <2>2. P[k + 1] \subseteq S  BY <2>1 DEF Spread
  <2>3. Upto(k + 1) = Upto(k) \cup P[k + 1]  BY <2>1, <2>2
  <2>4. Upto(k) \cap P[k + 1] = {}
    <3>1. \A p \in 1 .. k : p \in 1 .. 8 /\ p # k + 1  BY <2>1
    <3>2. \A p \in 1 .. k : P[p] \cap P[k + 1] = {}  BY <2>1, <3>1 DEF Spread
    <3> QED  BY <3>2
  <2> HIDE DEF Upto
  <2> QED  BY <1>3, <2>1, <2>3, <2>4, SumOfTwo
<1>4. Upto(8) = S  BY DEF Spread
<1> HIDE DEF Upto
<1>5. IsFiniteSet(Upto(1)) /\ Cardinality(Upto(1)) = Cardinality(P[1])  BY <1>2
<1>6. /\ IsFiniteSet(Upto(2))
      /\ Cardinality(Upto(2)) = Cardinality(P[1]) + Cardinality(P[2])
  <2>1. IsFiniteSet(Upto(1 + 1)) /\ Cardinality(Upto(1 + 1)) = Cardinality(Upto(1)) + Cardinality(P[1 + 1])
    BY <1>3, <1>5
  <2> QED  BY <1>5, <2>1
<1>7. /\ IsFiniteSet(Upto(3))
      /\ Cardinality(Upto(3)) = Cardinality(Upto(2)) + Cardinality(P[3])
  <2>1. IsFiniteSet(Upto(2 + 1)) /\ Cardinality(Upto(2 + 1)) = Cardinality(Upto(2)) + Cardinality(P[2 + 1])
    BY <1>3, <1>6
  <2> QED  BY <2>1
<1>8. /\ IsFiniteSet(Upto(4))
      /\ Cardinality(Upto(4)) = Cardinality(Upto(3)) + Cardinality(P[4])
  <2>1. IsFiniteSet(Upto(3 + 1)) /\ Cardinality(Upto(3 + 1)) = Cardinality(Upto(3)) + Cardinality(P[3 + 1])
    BY <1>3, <1>7
  <2> QED  BY <2>1
<1>9. /\ IsFiniteSet(Upto(5))
      /\ Cardinality(Upto(5)) = Cardinality(Upto(4)) + Cardinality(P[5])
  <2>1. IsFiniteSet(Upto(4 + 1)) /\ Cardinality(Upto(4 + 1)) = Cardinality(Upto(4)) + Cardinality(P[4 + 1])
    BY <1>3, <1>8
  <2> QED  BY <2>1
<1>10. /\ IsFiniteSet(Upto(6))
       /\ Cardinality(Upto(6)) = Cardinality(Upto(5)) + Cardinality(P[6])
  <2>1. IsFiniteSet(Upto(5 + 1)) /\ Cardinality(Upto(5 + 1)) = Cardinality(Upto(5)) + Cardinality(P[5 + 1])
    BY <1>3, <1>9
  <2> QED  BY <2>1
<1>11. /\ IsFiniteSet(Upto(7))
       /\ Cardinality(Upto(7)) = Cardinality(Upto(6)) + Cardinality(P[7])
  <2>1. IsFiniteSet(Upto(6 + 1)) /\ Cardinality(Upto(6 + 1)) = Cardinality(Upto(6)) + Cardinality(P[6 + 1])
    BY <1>3, <1>10
  <2> QED  BY <2>1
<1>12. Cardinality(Upto(8)) = Cardinality(Upto(7)) + Cardinality(P[8])
  <2>1. Cardinality(Upto(7 + 1)) = Cardinality(Upto(7)) + Cardinality(P[7 + 1])
    BY <1>3, <1>11
  <2> QED  BY <2>1
<1> QED  BY <1>1, <1>4, <1>6, <1>7, <1>8, <1>9, <1>10, <1>11, <1>12

\* The counts of OnePlace follow.
LEMMA CountsFollow ==
  ASSUME TypeOK, Data, base <= next
  PROVE  OnePlace
<1>1. Spread(Places, base .. next - 1) /\ NoRepeats  BY DEF Data
<1>2. \A p \in 1 .. 8 : IsFiniteSet(Places[p])  BY <1>1, PlacesAreFinite
<1>3. /\ \A p \in 1 .. 8 : Cardinality(Places[p]) \in Nat
      /\ Cardinality(base .. next - 1)
           = Cardinality(Places[1]) + Cardinality(Places[2]) + Cardinality(Places[3])
               + Cardinality(Places[4]) + Cardinality(Places[5]) + Cardinality(Places[6])
               + Cardinality(Places[7]) + Cardinality(Places[8])
  BY <1>1, <1>2, SumOfPlaces
<1>4. Cardinality(base .. next - 1) = next - base
  <2>1. base \in Nat /\ next \in Nat  BY DEF TypeOK
  <2>2. Cardinality(base .. next - 1) = IF base > next - 1 THEN 0 ELSE (next - 1) - base + 1
    BY <2>1, FS_Interval
  <2> QED  BY <2>1, <2>2
<1>5. Cardinality(Places[1]) = Len(recycled)
  <2>1. DOMAIN recycled = 1 .. Len(recycled) /\ Len(recycled) \in Nat  BY DEF TypeOK
  <2>2. \A i, j \in 1 .. Len(recycled) : recycled[i] = recycled[j] => i = j
    BY <1>1, <2>1 DEF NoRepeats, IsInjective
  <2>3. \A x : x \in Range(recycled) <=> \E i \in 1 .. Len(recycled) : x = recycled[i]
    BY <2>1 DEF Range
  <2>4. Cardinality(Range(recycled)) = Len(recycled)  BY <2>1, <2>2, <2>3, LengthIsCount
  <2> QED  BY <2>4, PlaceNumbers
<1>6. Cardinality(Places[4]) = Len(buffer)
  <2> DEFINE f == [i \in 1 .. Len(buffer) |-> buffer[i].group]
  <2>1. DOMAIN buffer = 1 .. Len(buffer) /\ Len(buffer) \in Nat  BY DEF TypeOK
  <2>2. \A i, j \in 1 .. Len(buffer) : f[i] = f[j] => i = j
    BY <1>1 DEF NoRepeats
  <2>3. \A x : x \in Groups(Range(buffer)) <=> \E i \in 1 .. Len(buffer) : x = f[i]
    BY <2>1 DEF Range, Groups
  <2> HIDE DEF f
  <2>4. Cardinality(Groups(Range(buffer))) = Len(buffer)  BY <2>1, <2>2, <2>3, LengthIsCount
  <2> QED  BY <2>4, PlaceNumbers
<1>7. /\ Cardinality(Places[3]) = Cardinality(held)
      /\ Cardinality(Places[5]) = Cardinality(drain.got)
      /\ Cardinality(Places[6]) = Cardinality(batch)
  <2>1. held \in SUBSET Entry /\ drain.got \in SUBSET Entry /\ batch \in SUBSET Entry
    BY DEF TypeOK
  <2>2. NoTwins(held) /\ NoTwins(drain.got) /\ NoTwins(batch)  BY <1>1 DEF NoRepeats
  <2>3. /\ IsFiniteSet(Groups(held)) /\ IsFiniteSet(Groups(drain.got)) /\ IsFiniteSet(Groups(batch))
    BY <1>2, PlaceNumbers
  <2>4. /\ Cardinality(held) = Cardinality(Groups(held))
        /\ Cardinality(drain.got) = Cardinality(Groups(drain.got))
        /\ Cardinality(batch) = Cardinality(Groups(batch))
    BY <2>1, <2>2, <2>3, EntriesAreCounted
  <2> QED  BY <2>4, PlaceNumbers
<1>8. Len(recycled) + Cardinality(DOMAIN active) + Cardinality(held) + Len(buffer)
         + Cardinality(drain.got) + Cardinality(batch) + Cardinality(trained)
         + Cardinality(unused)
         = next - base
  BY <1>3, <1>4, <1>5, <1>6, <1>7, PlaceNumbers
<1>9. UNION Range(Places) = base .. next - 1
  <2>1. DOMAIN Places = 1 .. 8  BY DEF Places
  <2>2. \A g : g \in UNION Range(Places) <=> \E p \in 1 .. 8 : g \in Places[p]
    <3>1. \A T : T \in Range(Places) <=> \E p \in 1 .. 8 : T = Places[p]  BY <2>1 DEF Range
    <3> QED  BY <3>1
  <2> QED  BY <1>1, <2>2 DEF Spread
<1> QED  BY <1>8, <1>9 DEF OnePlace

\* No publication is so old that the assertion of the executor fires.
LEMMA PublicationFollows ==
  ASSUME TypeOK, ServedSincePublish
  PROVE  VersionIsPublished
<1>1. UpdateInterval \in Nat /\ unpublished \in Nat /\ unpublished <= UpdateInterval
  BY RolloutAssumption DEF TypeOK, ServedSincePublish
<1>2. Max({3, UpdateInterval + 1}) = IF 3 >= UpdateInterval + 1 THEN 3 ELSE UpdateInterval + 1
  <2>1. 3 \in Int /\ UpdateInterval + 1 \in Int  BY <1>1
  <2> QED  BY <2>1, MaxOfTwo
<1> QED  BY <1>1, <1>2 DEF VersionIsPublished

\* GroupsInv is a consequence.
LEMMA InvariantFollows == RolloutInv => GroupsInv
<1> SUFFICES ASSUME RolloutInv PROVE GroupsInv  OBVIOUS
<1>1. TypeOK /\ Data /\ AccountIsExact /\ WorkerFits /\ DriverFits
      /\ ServedSincePublish /\ CheckpointsFit
  BY DEF RolloutInv, Work, Course
<1>2. OnePlace  BY <1>1, CountsFollow DEF CheckpointsFit
<1>3. VersionIsPublished  BY <1>1, PublicationFollows
<1> QED  BY <1>1, <1>2, <1>3 DEF GroupsInv

-----------------------------------------------------------------------------
(* Steps that leave a part alone *)

\* The worker, a drain and samples leave the driver alone.
LEMMA CourseGoesOn ==
  ASSUME Course, TypeOK, phase # "start", worker' # "none", next <= next', next' \in Nat,
         UNCHANGED <<weights, drain, driver, life>>
  PROVE  Course'
<1>1. UNCHANGED <<engine, published, unpublished, drain, phase, rollout, batch, trained,
                  saved, dataset, base, before, reread>>
  BY DEF weights, driver, life
<1>2. DriverFits'
  <2>1. Draining' = Draining /\ HasNext' = HasNext /\ Due(UpdateInterval)' = Due(UpdateInterval)
    BY <1>1 DEF Draining, HasNext, Due
  <2> QED  BY <1>1, <2>1 DEF Course, DriverFits
<1>3. ServedSincePublish'  BY <1>1 DEF Course, ServedSincePublish, HasNext, Due
<1>4. CheckpointsFit'  BY <1>1 DEF Course, CheckpointsFit, TypeOK
<1>5. FreshEnough'  BY <1>1 DEF Course, FreshEnough
<1> QED  BY <1>2, <1>3, <1>4, <1>5 DEF Course

\* The driver leaves the worker alone, and never takes weights back.
LEMMA WorkGoesOn ==
  ASSUME Work, TypeOK, engine' \in Nat, engine <= engine', worker' = worker \/ (worker = "none" /\ worker' = "top"),
         UNCHANGED <<active, inFlight, done, held, buffer>>
  PROVE  Work'
<1>1. AccountIsExact'
  BY DEF Work, AccountIsExact, Unfinished
<1>2. WorkerFits'
  <2>1. ASSUME NEW g \in DOMAIN active
        PROVE  active[g].versions \subseteq active[g].born .. engine'
    <3>1. active[g] \in Generation  BY DEF TypeOK
    <3>2. active[g].versions \subseteq active[g].born .. engine  BY DEF Work, WorkerFits
    <3>3. active[g].born \in Nat /\ engine \in Nat  BY <3>1 DEF Generation, TypeOK
    <3>4. active[g].born .. engine \subseteq active[g].born .. engine'  BY <3>3
    <3> QED  BY <3>2, <3>4
  <2>2. Over' = Over  BY DEF Over
  <2> QED  BY <2>1, <2>2 DEF Work, WorkerFits
<1> QED  BY <1>1, <1>2 DEF Work

\* No group moves.
LEMMA DataStays ==
  ASSUME Data, UNCHANGED <<base, next, recycled, held, buffer, batch, trained, unused>>,
         DOMAIN active' = DOMAIN active, drain'.got = drain.got
  PROVE  Data'
<1>1. NoRepeats'  BY DEF Data, NoRepeats
<1>2. \A i \in 1 .. 8 : Places'[i] = Places[i]
  BY PlaceNumbers, PlaceNumbersNext
<1> QED  BY <1>1, <1>2, Unmoved DEF Data


-----------------------------------------------------------------------------
(* A new life of the run *)

\* A life begins with no group anywhere, and with nothing served.
NewLife ==
  /\ next = base /\ recycled = <<>> /\ active = [g \in {} |-> 0] /\ inFlight = 0
  /\ sampleDone = FALSE /\ worker = "none" /\ done = {} /\ held = {} /\ buffer = <<>>
  /\ resumed = TRUE /\ engine = 0 /\ published = 0 /\ unpublished = 0
  /\ drain = NoDrain /\ phase = "start" /\ batch = {} /\ trained = {} /\ unused = {}

LEMMA NewLifeIsEmpty ==
  ASSUME NewLife, base \in Nat
  PROVE  Data /\ Work
<1>1. Range(recycled) = {} /\ Range(buffer) = {} /\ Len(buffer) = 0 /\ DOMAIN active = {}
  BY DEF NewLife, Range
<1>2. \A p \in 1 .. 8 : Places[p] = {}
  BY <1>1, PlaceNumbers DEF NewLife, Groups, NoDrain
<1>3. base .. next - 1 = {}  BY DEF NewLife
<1>4. Spread(Places, base .. next - 1)  BY <1>2, <1>3 DEF Spread
<1>5. NoRepeats  BY <1>1 DEF NewLife, NoRepeats, NoTwins, NoDrain, IsInjective
<1>6. AccountIsExact
  <2>1. Unfinished = {}  BY <1>1 DEF Unfinished
  <2>2. Cardinality(Unfinished) = 0  BY <2>1, FS_EmptySet
  <2>3. GroupBudget \in Nat /\ GroupSize \in Nat /\ Capacity \in Nat  BY RolloutAssumption
  <2>4. 0 <= GroupBudget * GroupSize  BY <2>3, SMT
  <2> QED  BY <1>1, <2>2, <2>3, <2>4 DEF AccountIsExact, NewLife
<1>7. WorkerFits  BY <1>1 DEF WorkerFits, NewLife
<1> QED  BY <1>4, <1>5, <1>6, <1>7 DEF Data, Work

LEMMA NewLifeBegins ==
  ASSUME NewLife, base \in Nat, rollout \in Nat
  PROVE  DriverFits /\ ServedSincePublish /\ FreshEnough
<1>1. UpdateInterval \in Nat \ {0} /\ BatchSize \in Nat \ {0}  BY RolloutAssumption
<1>2. DriverFits  BY <1>1 DEF DriverFits, NewLife, NoDrain
<1>3. ServedSincePublish  BY <1>1 DEF ServedSincePublish, NewLife
<1>4. FreshEnough  BY DEF FreshEnough, NewLife
<1> QED  BY <1>2, <1>3, <1>4

LEMMA NewLifeHasTypes ==
  ASSUME NewLife, base \in Nat, rollout \in Nat, reread \in BOOLEAN, before \subseteq Nat,
         saved \in [rollout : Nat \cup {-1}, groups : SUBSET Nat],
         dataset \in [rollout : Nat \cup {-1}, index : Nat]
  PROVE  TypeOK
<1>1. recycled \in Seq(Nat) /\ buffer \in Seq(Entry)  BY DEF NewLife
<1>2. active \in [DOMAIN active -> Generation]  BY DEF NewLife
<1>3. drain \in [state : {"off", "on", "ready", "failed"}, version : Nat, got : SUBSET Entry]
  BY DEF NewLife, NoDrain
<1>4. {base, next, inFlight, engine, published, unpublished, rollout} \subseteq Nat
  BY DEF NewLife
<1>5. /\ sampleDone \in BOOLEAN /\ resumed \in BOOLEAN
      /\ held = {} /\ batch = {} /\ trained = {} /\ unused = {}
      /\ worker = "none" /\ phase = "start"
  BY DEF NewLife
<1> QED  BY <1>1, <1>2, <1>3, <1>4, <1>5 DEF TypeOK

LEMMA InitHolds == Init => RolloutInv
<1> SUFFICES ASSUME Init PROVE RolloutInv  OBVIOUS
<1>1. NewLife /\ base \in Nat /\ rollout \in Nat  BY DEF Init, NewLife
<1>2. TypeOK  BY <1>1, NewLifeHasTypes DEF Init
<1>3. CheckpointsFit  BY DEF Init, CheckpointsFit
<1> QED  BY <1>1, <1>2, <1>3, NewLifeIsEmpty, NewLifeBegins DEF RolloutInv, Course

LEMMA NewLifeTypesNext ==
  /\ NewLife' /\ (base \in Nat)' /\ (rollout \in Nat)' /\ (reread \in BOOLEAN)'
  /\ (before \subseteq Nat)'
  /\ (saved \in [rollout : Nat \cup {-1}, groups : SUBSET Nat])'
  /\ (dataset \in [rollout : Nat \cup {-1}, index : Nat])'
  => TypeOK'
<1>1. /\ NewLife /\ base \in Nat /\ rollout \in Nat /\ reread \in BOOLEAN
      /\ before \subseteq Nat
      /\ saved \in [rollout : Nat \cup {-1}, groups : SUBSET Nat]
      /\ dataset \in [rollout : Nat \cup {-1}, index : Nat]
      => TypeOK
  BY NewLifeHasTypes
<1> QED  BY <1>1, PTL

LEMMA NewLifeNext ==
  NewLife' /\ (base \in Nat)' /\ (rollout \in Nat)' =>
     (Data /\ Work /\ DriverFits /\ ServedSincePublish /\ FreshEnough)'
<1>1. NewLife /\ base \in Nat /\ rollout \in Nat => Data /\ Work  BY NewLifeIsEmpty
<1>2. NewLife /\ base \in Nat /\ rollout \in Nat => DriverFits /\ ServedSincePublish /\ FreshEnough
  BY NewLifeBegins
<1> QED  BY <1>1, <1>2, PTL

\* A restart begins a life where the checkpoints of the last one stand.
LEMMA CrashHolds ==
  ASSUME RolloutInv, CrashAndRestart
  PROVE  RolloutInv'
<1>1. NewLife'  BY DEF CrashAndRestart, NewLife, NoDrain
<1>2. /\ dataset \in [rollout : Nat \cup {-1}, index : Nat]
      /\ saved \in [rollout : Nat \cup {-1}, groups : SUBSET Nat]
      /\ reread \in BOOLEAN
  BY DEF RolloutInv, TypeOK
<1>3. base' \in Nat /\ rollout' \in Nat /\ reread' \in BOOLEAN /\ before' \subseteq Nat
      /\ saved' = saved /\ dataset' = dataset
  BY <1>2 DEF CrashAndRestart, LoadIndex, HasIndex
<1>4. TypeOK'  BY <1>1, <1>2, <1>3, NewLifeTypesNext
<1>5. CheckpointsFit'
  <2>1. dataset.rollout <= saved.rollout /\ CheckpointsFit
    BY DEF RolloutInv, Course, CheckpointsFit
  <2>2. base' = next' /\ phase' = "start" /\ rollout' = saved.rollout + 1
        /\ before' = saved.groups /\ base' = LoadIndex /\ reread' = (reread \/ ~ HasIndex)
    BY DEF CrashAndRestart
  <2>3. reread \/ ~ HasIndex \/ saved.groups \subseteq 0 .. base' - 1
    BY <2>1, <2>2 DEF CheckpointsFit, HasIndex, LoadIndex
  <2>4. reread' \/ ~ HasIndex \/ saved.groups \subseteq 0 .. dataset.index - 1
    BY <2>1, <2>2 DEF CheckpointsFit, HasIndex
  <2>5. saved.rollout \in Nat \cup {-1} /\ base' \in Nat  BY <1>2, <1>3
  <2>6. base' <= next' /\ saved.rollout < rollout' /\ saved.rollout <= rollout'
    BY <2>2, <2>5
  <2>7. reread' \/ before' \subseteq 0 .. base' - 1
    BY <2>2, <2>3
  <2> QED  BY <1>3, <2>1, <2>2, <2>4, <2>6, <2>7 DEF CheckpointsFit, HasIndex
<1> QED  BY <1>1, <1>3, <1>4, <1>5, NewLifeNext DEF RolloutInv, Course

-----------------------------------------------------------------------------
(* The driver's steps *)

\* Where the rollout stands in the update interval.
LEMMA Remainders ==
  ASSUME TypeOK
  PROVE  /\ UpdateInterval \in Nat \ {0} /\ BatchSize \in Nat \ {0} /\ MaxStaleness \in Nat
         /\ (rollout % UpdateInterval) \in 0 .. UpdateInterval - 1
         /\ ((rollout + 1) % UpdateInterval) \in 0 .. UpdateInterval - 1
         /\ ~ Due(UpdateInterval) =>
               (rollout + 1) % UpdateInterval = (rollout % UpdateInterval) + 1
<1>1. UpdateInterval \in Nat \ {0} /\ BatchSize \in Nat \ {0} /\ MaxStaleness \in Nat
  BY RolloutAssumption
<1>2. rollout \in Nat /\ rollout + 1 \in Nat  BY DEF TypeOK
<1> QED  BY <1>1, <1>2, DivMod, NextRemainder DEF Due

\* The driver touches no group but those of its batch and of the drain.
LEMMA DriverKeepsWork ==
  ASSUME RolloutInv, engine' \in {engine, engine + 1},
         worker' = worker \/ (worker = "none" /\ worker' = "top"),
         UNCHANGED <<active, inFlight, done, held, buffer>>
  PROVE  Work'
<1>1. TypeOK /\ Work /\ engine \in Nat  BY DEF RolloutInv, TypeOK
<1> QED  BY <1>1, WorkGoesOn

\* A drain that starts with the published version.
LEMMA DrainBegins ==
  ASSUME TypeOK, drain' = [state |-> "on", version |-> published', got |-> {}],
         published' \in Nat
  PROVE  /\ drain' \in [state : {"off", "on", "ready", "failed"}, version : Nat, got : SUBSET Entry]
         /\ drain'.state = "on" /\ Draining' /\ drain'.got = {}
         /\ Cardinality(drain'.got) < BatchSize
<1>1. drain'.state = "on" /\ drain'.version = published' /\ drain'.got = {}  OBVIOUS
<1>2. Cardinality({}) = 0  BY FS_EmptySet
<1> QED  BY <1>1, <1>2, Remainders DEF Draining

LEMMA NoDrainFacts ==
  /\ NoDrain \in [state : {"off", "on", "ready", "failed"}, version : Nat, got : SUBSET Entry]
  /\ NoDrain.state = "off" /\ NoDrain.got = {}
BY DEF NoDrain

\* The first update of the weights, and the first drain.
LEMMA StartHolds ==
  ASSUME RolloutInv, Start
  PROVE  RolloutInv'
<1>1. /\ TypeOK /\ Data /\ DriverFits /\ ServedSincePublish /\ CheckpointsFit
      /\ phase = "start" /\ engine = 0 /\ worker = "none" /\ drain = NoDrain /\ batch = {}
  BY DEF RolloutInv, Course, DriverFits, Start
<1>2. /\ engine' = 1 /\ published' = 1 /\ unpublished' = 1 /\ worker' = "top"
      /\ phase' \in {"await", "ended"} /\ drain' = [state |-> "on", version |-> 1, got |-> {}]
      /\ UNCHANGED <<next, recycled, active, inFlight, sampleDone, done, held, buffer,
                     resumed, rollout, batch, trained, saved, dataset, unused, faults,
                     base, before, reread>>
  BY DEF Start, NewDrain, life
<1>3. /\ drain' \in [state : {"off", "on", "ready", "failed"}, version : Nat, got : SUBSET Entry]
      /\ drain'.state = "on" /\ Draining' /\ drain'.got = {}
      /\ Cardinality(drain'.got) < BatchSize
  BY <1>1, <1>2, DrainBegins
<1>4. TypeOK'  BY <1>1, <1>2, <1>3 DEF TypeOK
<1>5. Data'  BY <1>1, <1>2, <1>3, DataStays, NoDrainFacts DEF Data
<1>6. Work'  BY <1>1, <1>2, DriverKeepsWork
<1>7. DriverFits'  BY <1>1, <1>2, <1>3 DEF DriverFits
<1>8. ServedSincePublish'
  <2>1. UpdateInterval \in Nat \ {0} /\ (rollout % UpdateInterval) \in Nat
    BY <1>1, Remainders
  <2> QED  BY <1>2, <2>1 DEF ServedSincePublish
<1>9. CheckpointsFit'  BY <1>1, <1>2 DEF CheckpointsFit
<1>10. FreshEnough'  BY <1>2 DEF FreshEnough
<1> QED  BY <1>4, <1>5, <1>6, <1>7, <1>8, <1>9, <1>10 DEF RolloutInv, Course

\* A batch passes from its drain to the driver, with what the drain promised.
LEMMA ReceiveHolds ==
  ASSUME RolloutInv, Receive
  PROVE  RolloutInv'
<1>1. /\ TypeOK /\ Data /\ Course /\ DriverFits /\ ServedSincePublish /\ CheckpointsFit
      /\ phase = "await" /\ drain.state = "ready" /\ Draining /\ batch = {}
      /\ worker # "none" /\ engine = published
  BY DEF RolloutInv, Course, DriverFits, Receive
<1>2. /\ batch' = drain.got /\ phase' = "train"
      /\ UNCHANGED <<next, recycled, active, inFlight, sampleDone, done, held, buffer,
                     resumed, engine, published, rollout, trained, saved, dataset, unused,
                     base, before, reread, worker>>
  BY <1>1 DEF Receive, life, StartDrain, NoNewDrain
<1>3. IF HasNext /\ ~ Due(UpdateInterval)
      THEN unpublished' = unpublished + 1 /\ drain' = NewDrain
      ELSE unpublished' = unpublished /\ drain' = NoDrain
  BY DEF Receive, StartDrain, NoNewDrain, Defer
<1>4. published \in Nat /\ unpublished \in Nat /\ drain.got \subseteq Entry  BY <1>1 DEF TypeOK
<1>5. /\ drain' \in [state : {"off", "on", "ready", "failed"}, version : Nat, got : SUBSET Entry]
      /\ drain'.state \in {"off", "on"} /\ drain'.got = {}
      /\ drain'.state = "on" => Cardinality(drain'.got) < BatchSize
      /\ IF HasNext /\ ~ Due(UpdateInterval) THEN Draining' ELSE drain' = NoDrain
  <2>1. CASE HasNext /\ ~ Due(UpdateInterval)
    <3>1. drain' = [state |-> "on", version |-> published', got |-> {}]
      BY <1>2, <1>3, <2>1 DEF NewDrain
    <3> QED  BY <1>1, <1>2, <1>4, <2>1, <3>1, DrainBegins
  <2>2. CASE ~(HasNext /\ ~ Due(UpdateInterval))  BY <1>3, <2>2, NoDrainFacts
  <2> QED  BY <2>1, <2>2
<1>6. TypeOK'
  <2>1. unpublished' \in Nat  BY <1>3, <1>4
  <2> QED  BY <1>1, <1>2, <1>4, <1>5, <2>1 DEF TypeOK
<1>7. Data'
  <2>1. NoRepeats'  BY <1>1, <1>2, <1>5 DEF Data, NoRepeats, NoTwins
  <2>2. Places'[5] = Places[5] \ Places[5]  BY <1>5, PlaceNumbersNext DEF Groups
  <2>3. Places'[6] = Places[6] \cup Places[5]
    BY <1>1, <1>2, PlaceNumbers, PlaceNumbersNext DEF Groups
  <2>4. \A i \in 1 .. 8 : i # 5 /\ i # 6 => Places'[i] = Places[i]
    BY <1>2, PlaceNumbers, PlaceNumbersNext
  <2>5. Spread(Places, base .. next - 1) /\ UNCHANGED <<base, next>>  BY <1>1, <1>2 DEF Data
  <2> DEFINE p == 5  q == 6  G == Places[5]
  <2>6. /\ p \in 1 .. 8 /\ q \in 1 .. 8 /\ p # q /\ G \subseteq Places[p]
        /\ Places'[p] = Places[p] \ G /\ Places'[q] = Places[q] \cup G
        /\ \A i \in 1 .. 8 : i # p /\ i # q => Places'[i] = Places[i]
    BY <2>2, <2>3, <2>4
  <2> HIDE DEF p, q, G
  <2>7. Spread(Places, base .. next - 1)'  BY <2>5, <2>6, GroupsMove
  <2> QED  BY <2>1, <2>7 DEF Data
<1>8. Work'  BY <1>2, DriverKeepsWork
<1>9. DriverFits'
  <2>1. HasNext' = HasNext /\ Due(UpdateInterval)' = Due(UpdateInterval)
    BY <1>2 DEF HasNext, Due
  <2>2. Cardinality(batch') = BatchSize  BY <1>1, <1>2 DEF DriverFits
  <2> QED  BY <1>1, <1>2, <1>5, <2>1, <2>2 DEF DriverFits
<1>10. ServedSincePublish'
  <2>1. HasNext' = HasNext /\ Due(UpdateInterval)' = Due(UpdateInterval)
    BY <1>2 DEF HasNext, Due
  <2>2. unpublished <= (rollout % UpdateInterval) + 1 /\ unpublished <= UpdateInterval
    BY <1>1 DEF ServedSincePublish
  <2>3. unpublished' <= (rollout % UpdateInterval)
                          + (IF HasNext /\ ~ Due(UpdateInterval) THEN 2 ELSE 1)
        /\ unpublished' <= UpdateInterval
    <3>1. CASE HasNext /\ ~ Due(UpdateInterval)
      <4>1. /\ (rollout % UpdateInterval) \in 0 .. UpdateInterval - 1
            /\ (rollout % UpdateInterval) + 1 \in 0 .. UpdateInterval - 1
            /\ UpdateInterval \in Nat
        BY <1>1, <3>1, Remainders
      <4>2. \A r \in Int, u \in Nat : u <= r + 1 => u + 1 <= r + 2  OBVIOUS
      <4>3. \A r \in Int, u, n \in Nat : u <= r + 1 /\ r + 1 \in 0 .. n - 1 => u + 1 <= n
        OBVIOUS
      <4> QED  BY <1>3, <1>4, <2>2, <3>1, <4>1, <4>2, <4>3
    <3>2. CASE ~(HasNext /\ ~ Due(UpdateInterval))  BY <1>3, <2>2, <3>2
    <3> QED  BY <3>1, <3>2
  <2> QED  BY <1>2, <2>1, <2>3 DEF ServedSincePublish
<1>11. CheckpointsFit'  BY <1>1, <1>2 DEF CheckpointsFit
<1>12. FreshEnough'
  <2>1. drain.version = published  BY <1>1 DEF Draining
  <2>2. \A e \in drain.got : drain.version - e.oldest <= MaxStaleness  BY <1>1 DEF DriverFits
  <2> QED  BY <1>2, <2>1, <2>2 DEF FreshEnough
<1> QED  BY <1>6, <1>7, <1>8, <1>9, <1>10, <1>11, <1>12 DEF RolloutInv, Course

\* Most steps of the driver move no group.
LEMMA DriverMovesNothing ==
  ASSUME RolloutInv, UNCHANGED <<next, producer, buffer, batch, trained, unused, life>>,
         drain'.got = drain.got, engine' \in {engine, engine + 1}
  PROVE  Data' /\ Work'
<1>1. UNCHANGED <<base, next, recycled, held, buffer, batch, trained, unused, active,
                  inFlight, done, worker>>
  BY DEF producer, life
<1>2. Data'  BY <1>1, DataStays DEF RolloutInv
<1>3. Work'  BY <1>1, DriverKeepsWork
<1> QED  BY <1>2, <1>3

\* Each step of the driver keeps the invariant.
LEMMA FailHolds ==
  ASSUME RolloutInv, Fail
  PROVE  RolloutInv'
<1>1. /\ TypeOK /\ DriverFits /\ ServedSincePublish /\ CheckpointsFit /\ phase = "await"
  BY DEF RolloutInv, Course, Fail
<1>2. /\ phase' = "failed"
      /\ UNCHANGED <<next, producer, buffer, resumed, weights, drain, rollout, batch,
                     trained, saved, dataset, unused, faults, life>>
  BY DEF Fail
<1>3. Data' /\ Work'  BY <1>2, DriverMovesNothing DEF weights
<1>4. TypeOK'  BY <1>1, <1>2 DEF TypeOK, producer, weights, life
<1>5. DriverFits'  BY <1>1, <1>2 DEF DriverFits, producer, weights
<1>6. ServedSincePublish'  BY <1>1, <1>2 DEF ServedSincePublish, weights
<1>7. CheckpointsFit'  BY <1>1, <1>2 DEF CheckpointsFit, life
<1>8. FreshEnough'  BY <1>2 DEF FreshEnough
<1> QED  BY <1>3, <1>4, <1>5, <1>6, <1>7, <1>8 DEF RolloutInv, Course

LEMMA TrainHolds ==
  ASSUME RolloutInv, Train
  PROVE  RolloutInv'
<1>1. /\ TypeOK /\ Data /\ DriverFits /\ ServedSincePublish /\ CheckpointsFit
      /\ phase = "train"
  BY DEF RolloutInv, Course, Train
<1>2. /\ trained' = trained \cup Groups(batch) /\ batch' = {} /\ phase' \in {"save", "update"}
      /\ UNCHANGED <<next, recycled, active, inFlight, sampleDone, worker, done, held, buffer,
                     resumed, engine, published, unpublished, drain, rollout, saved, dataset,
                     unused, base, before, reread>>
  BY DEF Train, producer, weights, life
<1>3. Groups(batch) \subseteq Nat  BY <1>1 DEF TypeOK, Groups, Entry
<1>4. TypeOK'  BY <1>1, <1>2, <1>3 DEF TypeOK
<1>5. Data'
  <2>1. NoRepeats'  BY <1>1, <1>2 DEF Data, NoRepeats, NoTwins
  <2> DEFINE p == 6  q == 7  G == Groups(batch)
  <2>2. Spread(Places, base .. next - 1) /\ UNCHANGED <<base, next>>  BY <1>1, <1>2 DEF Data
  <2>3. /\ p \in 1 .. 8 /\ q \in 1 .. 8 /\ p # q /\ G \subseteq Places[p]
        /\ Places'[p] = Places[p] \ G /\ Places'[q] = Places[q] \cup G
        /\ \A i \in 1 .. 8 : i # p /\ i # q => Places'[i] = Places[i]
    <3>1. Groups(batch') = {}  BY <1>2 DEF Groups
    <3> QED  BY <1>2, <3>1, PlaceNumbers, PlaceNumbersNext
  <2> HIDE DEF p, q, G
  <2>4. Spread(Places, base .. next - 1)'  BY <2>2, <2>3, GroupsMove
  <2> QED  BY <2>1, <2>4 DEF Data
<1>6. Work'  BY <1>2, DriverKeepsWork
<1>0. HasNext' = HasNext /\ Due(UpdateInterval)' = Due(UpdateInterval) /\ Draining' = Draining
  BY <1>2 DEF HasNext, Due, Draining
<1>7. DriverFits'  BY <1>1, <1>2, <1>0 DEF DriverFits
<1>8. ServedSincePublish'  BY <1>1, <1>2, <1>0 DEF ServedSincePublish
<1>9. CheckpointsFit'  BY <1>1, <1>2 DEF CheckpointsFit
<1>10. FreshEnough'  BY <1>2 DEF FreshEnough
<1> QED  BY <1>4, <1>5, <1>6, <1>7, <1>8, <1>9, <1>10 DEF RolloutInv, Course

LEMMA SaveModelHolds ==
  ASSUME RolloutInv, SaveModel
  PROVE  RolloutInv'
<1>1. /\ TypeOK /\ DriverFits /\ ServedSincePublish /\ CheckpointsFit /\ phase = "save"
  BY DEF RolloutInv, Course, SaveModel
<1>2. /\ saved' = [rollout |-> rollout, groups |-> before \cup trained]
      /\ phase' = "saveData"
      /\ UNCHANGED <<next, producer, buffer, resumed, weights, drain, rollout, batch, trained,
                     dataset, unused, faults, life>>
  BY DEF SaveModel
<1>3. UNCHANGED <<engine, published, unpublished, base, before, reread, worker, active,
                  inFlight, done, held, recycled, sampleDone>>
  BY <1>2 DEF producer, weights, life
<1>4. Data' /\ Work'  BY <1>2, <1>3, DriverMovesNothing
<1>5. TypeOK'  BY <1>1, <1>2, <1>3 DEF TypeOK
<1>0. HasNext' = HasNext /\ Due(UpdateInterval)' = Due(UpdateInterval) /\ Draining' = Draining
  BY <1>2, <1>3 DEF HasNext, Due, Draining
<1>6. DriverFits'  BY <1>1, <1>2, <1>3, <1>0 DEF DriverFits
<1>7. ServedSincePublish'  BY <1>1, <1>2, <1>3, <1>0 DEF ServedSincePublish
<1>8. CheckpointsFit'
  <2>1. /\ dataset.rollout \in Int /\ saved.rollout \in Int /\ rollout \in Int
        /\ saved'.rollout = rollout /\ saved'.groups = before \cup trained
    BY <1>1, <1>2 DEF TypeOK
  <2>2. dataset.rollout <= saved.rollout /\ saved.rollout < rollout
    BY <1>1 DEF CheckpointsFit
  <2>3. dataset.rollout < saved'.rollout /\ saved'.rollout <= rollout  BY <2>1, <2>2
  <2>4. dataset.rollout # saved'.rollout /\ dataset.rollout <= saved'.rollout  BY <2>1, <2>3
  <2> QED  BY <1>1, <1>2, <1>3, <2>1, <2>3, <2>4 DEF CheckpointsFit
<1>9. FreshEnough'  BY <1>2 DEF FreshEnough
<1> QED  BY <1>4, <1>5, <1>6, <1>7, <1>8, <1>9 DEF RolloutInv, Course

\* The index of the data source covers what the trainer has just saved.
LEMMA SaveDataHolds ==
  ASSUME RolloutInv, SaveData
  PROVE  RolloutInv'
<1>1. /\ TypeOK /\ Data /\ DriverFits /\ ServedSincePublish /\ CheckpointsFit
      /\ phase = "saveData"
  BY DEF RolloutInv, Course, SaveData
<1>2. /\ dataset' = [rollout |-> rollout, index |-> next] /\ phase' = "update"
      /\ UNCHANGED <<next, producer, buffer, resumed, weights, drain, rollout, batch, trained,
                     saved, unused, faults, life>>
  BY DEF SaveData, SavedIndex
<1>3. UNCHANGED <<engine, published, unpublished, base, before, reread, worker, active,
                  inFlight, done, held, recycled, sampleDone>>
  BY <1>2 DEF producer, weights, life
<1>4. Data' /\ Work'  BY <1>2, <1>3, DriverMovesNothing
<1>5. TypeOK'  BY <1>1, <1>2, <1>3 DEF TypeOK
<1>0. HasNext' = HasNext /\ Due(UpdateInterval)' = Due(UpdateInterval) /\ Draining' = Draining
  BY <1>2, <1>3 DEF HasNext, Due, Draining
<1>6. DriverFits'  BY <1>1, <1>2, <1>3, <1>0 DEF DriverFits
<1>7. ServedSincePublish'  BY <1>1, <1>2, <1>3, <1>0 DEF ServedSincePublish
<1>8. CheckpointsFit'
  <2>1. /\ base \in Nat /\ next \in Nat /\ rollout \in Int /\ base <= next
        /\ saved.rollout = rollout /\ saved.groups = before \cup trained
        /\ dataset'.rollout = rollout /\ dataset'.index = next
    BY <1>1, <1>2 DEF TypeOK, CheckpointsFit
  <2>2. trained \subseteq base .. next - 1
    <3>1. trained = Places[7] /\ 7 \in 1 .. 8  BY PlaceNumbers
    <3>2. \A p \in 1 .. 8 : Places[p] \subseteq base .. next - 1  BY <1>1 DEF Data, Spread
    <3> QED  BY <3>1, <3>2
  <2>3. reread \/ before \subseteq 0 .. base - 1  BY <1>1 DEF CheckpointsFit
  <2>4. 0 .. base - 1 \subseteq 0 .. next - 1 /\ base .. next - 1 \subseteq 0 .. next - 1
    BY <2>1
  <2>5. reread \/ saved.groups \subseteq 0 .. dataset'.index - 1  BY <2>1, <2>2, <2>3, <2>4
  <2> QED  BY <1>1, <1>2, <1>3, <2>1, <2>5 DEF CheckpointsFit
<1>9. FreshEnough'  BY <1>2 DEF FreshEnough
<1> QED  BY <1>4, <1>5, <1>6, <1>7, <1>8, <1>9 DEF RolloutInv, Course

\* New weights come only between a batch and the next drain's filter.
LEMMA UpdateEnginesHolds ==
  ASSUME RolloutInv, UpdateEngines
  PROVE  RolloutInv'
<1>1. /\ TypeOK /\ DriverFits /\ ServedSincePublish /\ CheckpointsFit /\ phase = "update"
  BY DEF RolloutInv, Course, UpdateEngines
<1>2. /\ IF Due(UpdateInterval) THEN engine' = engine + 1 /\ phase' = "publish"
                                ELSE engine' = engine /\ phase' = "eval"
      /\ UNCHANGED <<next, producer, buffer, resumed, published, unpublished, drain, rollout,
                     batch, trained, saved, dataset, unused, faults, life>>
  BY DEF UpdateEngines
<1>3. UNCHANGED <<base, before, reread, worker, active, inFlight, done, held, recycled,
                  sampleDone>>
  BY <1>2 DEF producer, life
<1>4. Data' /\ Work'  BY <1>2, DriverMovesNothing
<1>5. TypeOK'
  <2>1. engine' \in Nat /\ phase' \in {"publish", "eval"}  BY <1>1, <1>2 DEF TypeOK
  <2> QED  BY <1>1, <1>2, <1>3, <2>1 DEF TypeOK
<1>0. HasNext' = HasNext /\ Due(UpdateInterval)' = Due(UpdateInterval) /\ Draining' = Draining
  BY <1>2, <1>3 DEF HasNext, Due, Draining
<1>6. DriverFits'
  <2>1. CASE Due(UpdateInterval)  BY <1>1, <1>2, <1>3, <1>0, <2>1 DEF DriverFits
  <2>2. CASE ~ Due(UpdateInterval)  BY <1>1, <1>2, <1>3, <1>0, <2>2 DEF DriverFits
  <2> QED  BY <2>1, <2>2
<1>7. ServedSincePublish'
  <2> DEFINE r == rollout % UpdateInterval  s == (rollout + 1) % UpdateInterval
  <2>1. /\ r \in Nat /\ s \in Nat /\ unpublished \in Nat /\ unpublished <= UpdateInterval
        /\ unpublished <= r + (IF HasNext /\ ~ Due(UpdateInterval) THEN 2 ELSE 1)
        /\ ~ Due(UpdateInterval) => s = r + 1
    BY <1>1, Remainders DEF ServedSincePublish, TypeOK
  <2>2. ServedSincePublish' <=>
          /\ unpublished <= UpdateInterval
          /\ phase' = "publish" =>
               unpublished <= r + (IF HasNext /\ ~ Due(UpdateInterval) THEN 2 ELSE 1)
          /\ phase' = "eval" => unpublished <= s + 1
    BY <1>2, <1>0 DEF ServedSincePublish
  <2> HIDE DEF r, s
  <2>3. CASE Due(UpdateInterval)  BY <1>2, <2>1, <2>2, <2>3
  <2>4. CASE ~ Due(UpdateInterval)
    <3>1. unpublished <= s + 1  BY <2>1, <2>4
    <3> QED  BY <1>2, <2>1, <2>2, <2>4, <3>1
  <2> QED  BY <2>3, <2>4
<1>8. CheckpointsFit'  BY <1>1, <1>2, <1>3 DEF CheckpointsFit
<1>9. FreshEnough'  BY <1>2 DEF FreshEnough
<1> QED  BY <1>4, <1>5, <1>6, <1>7, <1>8, <1>9 DEF RolloutInv, Course

LEMMA PublishHolds ==
  ASSUME RolloutInv, Publish
  PROVE  RolloutInv'
<1>1. /\ TypeOK /\ DriverFits /\ ServedSincePublish /\ CheckpointsFit /\ phase = "publish"
      /\ Due(UpdateInterval) /\ drain = NoDrain
  BY DEF RolloutInv, Course, Publish, DriverFits
<1>2. /\ published' = engine /\ phase' = "eval"
      /\ IF HasNext THEN drain' = [state |-> "on", version |-> engine, got |-> {}]
                         /\ unpublished' = 1
                    ELSE drain' = drain /\ unpublished' = 0
      /\ UNCHANGED <<next, producer, buffer, resumed, engine, rollout, batch, trained, saved,
                     dataset, unused, faults, life>>
  BY <1>1 DEF Publish, Defer, NewDrain
<1>3. UNCHANGED <<base, before, reread, worker, active, inFlight, done, held, recycled,
                  sampleDone>>
  BY <1>2 DEF producer, life
<1>4. /\ drain' \in [state : {"off", "on", "ready", "failed"}, version : Nat, got : SUBSET Entry]
      /\ drain'.got = {} /\ drain'.state \in {"on", "off"}
      /\ drain'.state = "on" => Cardinality(drain'.got) < BatchSize
      /\ IF HasNext THEN Draining' ELSE drain' = NoDrain
  <2>1. CASE HasNext
    <3>1. engine \in Nat  BY <1>1 DEF TypeOK
    <3>2. drain' = [state |-> "on", version |-> published', got |-> {}] /\ published' \in Nat
      BY <1>2, <2>1, <3>1
    <3> QED  BY <1>1, <2>1, <3>2, DrainBegins
  <2>2. CASE ~ HasNext  BY <1>1, <1>2, <2>2, NoDrainFacts
  <2> QED  BY <2>1, <2>2
<1>5. Data' /\ Work'  BY <1>1, <1>2, <1>4, DriverMovesNothing, NoDrainFacts
<1>6. TypeOK'
  <2>1. published' \in Nat /\ unpublished' \in Nat  BY <1>1, <1>2 DEF TypeOK
  <2> QED  BY <1>1, <1>2, <1>3, <1>4, <2>1 DEF TypeOK
<1>0. HasNext' = HasNext  BY <1>2 DEF HasNext
<1>7. DriverFits'  BY <1>1, <1>2, <1>3, <1>4, <1>0 DEF DriverFits
<1>8. ServedSincePublish'
  <2>1. UpdateInterval \in Nat \ {0} /\ ((rollout + 1) % UpdateInterval) \in Nat
    BY <1>1, Remainders
  <2>2. unpublished' \in {0, 1}  BY <1>2
  <2>3. unpublished' <= UpdateInterval /\ unpublished' <= ((rollout + 1) % UpdateInterval) + 1
    BY <2>1, <2>2
  <2> QED  BY <1>2, <2>3 DEF ServedSincePublish
<1>9. CheckpointsFit'  BY <1>1, <1>2, <1>3 DEF CheckpointsFit
<1>10. FreshEnough'  BY <1>2 DEF FreshEnough
<1> QED  BY <1>5, <1>6, <1>7, <1>8, <1>9, <1>10 DEF RolloutInv, Course

\* The evaluation pauses and resumes the producer, and changes nothing else.
LEMMA EvaluationHolds ==
  ASSUME RolloutInv, PauseForEval \/ EvalEnds
  PROVE  RolloutInv'
<1>1. /\ TypeOK /\ DriverFits /\ ServedSincePublish /\ CheckpointsFit
      /\ phase \in {"eval", "evaluating"} /\ phase' \in {"evaluating", "next"}
      /\ resumed' \in BOOLEAN
      /\ UNCHANGED <<next, producer, buffer, weights, drain, rollout, batch, trained, saved,
                     dataset, unused, faults, life>>
  BY DEF RolloutInv, Course, PauseForEval, EvalEnds
<1>2. UNCHANGED <<engine, published, unpublished, base, before, reread, worker, active,
                  inFlight, done, held, recycled, sampleDone>>
  BY <1>1 DEF producer, weights, life
<1>3. Data' /\ Work'  BY <1>1, <1>2, DriverMovesNothing
<1>4. TypeOK'  BY <1>1, <1>2 DEF TypeOK
<1>0. HasNext' = HasNext /\ Draining' = Draining
  BY <1>1, <1>2 DEF HasNext, Draining
<1>5. DriverFits'  BY <1>1, <1>2, <1>0 DEF DriverFits
<1>6. ServedSincePublish'  BY <1>1, <1>2, <1>0 DEF ServedSincePublish
<1>7. CheckpointsFit'  BY <1>1, <1>2 DEF CheckpointsFit
<1>8. FreshEnough'  BY <1>1 DEF FreshEnough
<1> QED  BY <1>3, <1>4, <1>5, <1>6, <1>7, <1>8 DEF RolloutInv, Course

LEMMA NextRolloutHolds ==
  ASSUME RolloutInv, NextRollout
  PROVE  RolloutInv'
<1>1. /\ TypeOK /\ DriverFits /\ ServedSincePublish /\ CheckpointsFit
      /\ phase \in {"eval", "next"}
  BY DEF RolloutInv, Course, NextRollout
<1>2. /\ phase' = IF HasNext THEN "await" ELSE "ended"
      /\ rollout' = rollout + 1
      /\ UNCHANGED <<next, producer, buffer, resumed, weights, drain, batch, trained, saved,
                     dataset, unused, faults, life>>
  BY DEF NextRollout
<1>3. UNCHANGED <<engine, published, unpublished, base, before, reread, worker, active,
                  inFlight, done, held, recycled, sampleDone>>
  BY <1>2 DEF producer, weights, life
<1>4. Data' /\ Work'  BY <1>2, <1>3, DriverMovesNothing
<1>5. rollout \in Nat /\ rollout' \in Nat  BY <1>1, <1>2 DEF TypeOK
<1>6. TypeOK'  BY <1>1, <1>2, <1>3, <1>5 DEF TypeOK
<1>7. DriverFits'
  <2>1. Draining' = Draining  BY <1>2, <1>3 DEF Draining
  <2>2. phase' \in {"await", "ended"} /\ (phase' = "await" => HasNext)  BY <1>2
  <2> QED  BY <1>1, <1>2, <1>3, <2>1, <2>2 DEF DriverFits
<1>8. ServedSincePublish'
  <2>1. unpublished <= UpdateInterval /\ unpublished <= (rollout' % UpdateInterval) + 1
    BY <1>1, <1>2 DEF ServedSincePublish
  <2>2. phase' \in {"await", "ended"}  BY <1>2
  <2> QED  BY <1>3, <2>1, <2>2 DEF ServedSincePublish
<1>9. CheckpointsFit'
  <2>1. saved.rollout <= rollout /\ saved.rollout \in Int  BY <1>1 DEF CheckpointsFit, TypeOK
  <2>2. saved.rollout < rollout' /\ saved.rollout <= rollout'  BY <1>2, <1>5, <2>1
  <2>3. phase' \in {"await", "ended"}  BY <1>2
  <2> QED  BY <1>1, <1>2, <1>3, <2>2, <2>3 DEF CheckpointsFit
<1>10. FreshEnough'  BY <1>2 DEF FreshEnough
<1> QED  BY <1>4, <1>6, <1>7, <1>8, <1>9, <1>10 DEF RolloutInv, Course

-----------------------------------------------------------------------------
(* Generation *)

\* The unfinished samples are finitely many.
LEMMA UnfinishedIsFinite ==
  ASSUME TypeOK, Data
  PROVE  IsFiniteSet(Unfinished) /\ Cardinality(Unfinished) \in Nat
<1>1. IsFiniteSet(DOMAIN active)
  <2>1. Places[2] = DOMAIN active /\ 2 \in 1 .. 8  BY PlaceNumbers
  <2>2. \A p \in 1 .. 8 : IsFiniteSet(Places[p])  BY PlacesAreFinite DEF Data
  <2> QED  BY <2>1, <2>2
<1>2. IsFiniteSet(1 .. GroupSize)  BY RolloutAssumption, FS_Interval
<1>3. IsFiniteSet((DOMAIN active) \X (1 .. GroupSize))  BY <1>1, <1>2, FS_Product
<1>4. Unfinished \subseteq (DOMAIN active) \X (1 .. GroupSize)  BY DEF Unfinished
<1>5. IsFiniteSet(Unfinished)  BY <1>3, <1>4, FS_Subset
<1> QED  BY <1>5, FS_CardinalityType

\* The driver has passed its start when the worker exists or a group is in
\* generation.
LEMMA RunHasStarted ==
  ASSUME RolloutInv, worker # "none" \/ DOMAIN active # {}
  PROVE  phase # "start" /\ worker # "none"
BY DEF RolloutInv, Course, DriverFits

\* One sample less is unfinished, and one less is accounted for.
LEMMA SampleDoneHolds ==
  ASSUME RolloutInv, NEW g \in DOMAIN active, SampleDone(g)
  PROVE  RolloutInv'
<1>1. TypeOK /\ Data /\ Work /\ Course /\ AccountIsExact /\ WorkerFits
  BY DEF RolloutInv, Work
<1>0. PICK how \in Outcomes, v \in active[g].born .. engine :
       \E verdict \in Verdicts(active[g].outcome, how) :
         /\ active[g].left > 0
         /\ active' = [active EXCEPT ![g].left     = @ - 1,
                                     ![g].outcome  = verdict,
                                     ![g].versions = @ \cup {v}]
         /\ inFlight' = inFlight - 1 /\ sampleDone' = TRUE
         /\ UNCHANGED <<next, recycled, worker, done, held, buffer, resumed,
                        weights, drain, driver, unused, life>>
  BY DEF SampleDone
<1>2. PICK verdict \in Verdicts(active[g].outcome, how) :
         /\ active[g].left > 0
         /\ active' = [active EXCEPT ![g].left     = @ - 1,
                                     ![g].outcome  = verdict,
                                     ![g].versions = @ \cup {v}]
         /\ inFlight' = inFlight - 1 /\ sampleDone' = TRUE
         /\ UNCHANGED <<next, recycled, worker, done, held, buffer, resumed,
                        weights, drain, driver, unused, life>>
  BY <1>0
<1>3. /\ active \in [DOMAIN active -> Generation] /\ active[g] \in Generation
      /\ engine \in Nat /\ GroupSize \in Nat \ {0} /\ inFlight \in Nat
  BY <1>1, RolloutAssumption DEF TypeOK
<1>4. /\ active[g].left \in 1 .. GroupSize /\ active[g].born \in Nat /\ v \in Nat
      /\ active[g].versions \in SUBSET Nat /\ active[g].outcome \in Outcomes
  BY <1>2, <1>3 DEF Generation
<1>5. /\ DOMAIN active' = DOMAIN active
      /\ \A h \in DOMAIN active : h # g => active'[h] = active[h]
      /\ active'[g] = [left |-> active[g].left - 1, born |-> active[g].born,
                       versions |-> active[g].versions \cup {v},
                       outcome |-> verdict]
  BY <1>2, <1>3 DEF Generation
<1>6. active'[g] \in Generation
  <2>1. active[g].left - 1 \in 0 .. GroupSize  BY <1>3, <1>4
  <2>2. verdict \in Outcomes  BY <1>2, <1>4 DEF Verdicts
  <2>3. active[g].versions \cup {v} \in SUBSET Nat  BY <1>4
  <2> QED  BY <1>4, <1>5, <2>1, <2>2, <2>3 DEF Generation
<1>7. active' \in [DOMAIN active' -> Generation]
  <2>1. \A h \in DOMAIN active' : active'[h] \in Generation  BY <1>3, <1>5, <1>6
  <2>2. active' = [h \in DOMAIN active' |-> active'[h]]  BY <1>2
  <2> QED  BY <2>1, <2>2
<1>8. UNCHANGED <<next, recycled, worker, done, held, buffer, resumed, engine, published,
                  unpublished, drain, phase, rollout, batch, trained, saved, dataset, unused,
                  base, before, reread>>
  BY <1>2 DEF weights, driver, life
<1>9. AccountIsExact'
  <2> DEFINE t == <<g, active[g].left>>
  <2>1. t \in Unfinished  BY <1>4 DEF Unfinished
  <2>2. \A i \in 1 .. GroupSize :
           i <= active[g].left - 1 <=> i <= active[g].left /\ i # active[g].left
    BY <1>4
  <2>3. Unfinished' = Unfinished \ {t}
    <3>1. ASSUME NEW h \in DOMAIN active, NEW i \in 1 .. GroupSize
          PROVE  <<h, i>> \in Unfinished' <=> <<h, i>> \in Unfinished /\ <<h, i>> # t
      <4>1. <<h, i>> \in Unfinished' <=> i <= active'[h].left  BY <1>5 DEF Unfinished
      <4>2. <<h, i>> \in Unfinished <=> i <= active[h].left  BY DEF Unfinished
      <4>3. CASE h = g  BY <1>5, <2>2, <4>1, <4>2, <4>3
      <4>4. CASE h # g  BY <1>5, <4>1, <4>2, <4>4
      <4> QED  BY <4>3, <4>4
    <3>2. Unfinished' \subseteq (DOMAIN active) \X (1 .. GroupSize)
          /\ Unfinished \subseteq (DOMAIN active) \X (1 .. GroupSize)
      BY <1>5 DEF Unfinished
    <3> HIDE DEF t
    <3> QED  BY <3>1, <3>2
  <2>4. IsFiniteSet(Unfinished) /\ Cardinality(Unfinished) \in Nat
    BY <1>1, UnfinishedIsFinite
  <2> HIDE DEF t
  <2>5. Cardinality(Unfinished \ {t}) = Cardinality(Unfinished) - 1
    BY <2>1, <2>4, FS_RemoveElement
  <2>6. inFlight' = Cardinality(Unfinished')  BY <1>1, <1>2, <2>3, <2>5 DEF AccountIsExact
  <2>7. inFlight <= GroupBudget * GroupSize /\ GroupBudget * GroupSize \in Int
    <3>1. GroupBudget \in Nat /\ GroupSize \in Nat  BY RolloutAssumption
    <3> QED  BY <1>1, <3>1, SMT DEF AccountIsExact
  <2>8. inFlight' <= GroupBudget * GroupSize
    <3> DEFINE b == GroupBudget * GroupSize
    <3>1. inFlight <= b /\ b \in Int  BY <2>7
    <3> HIDE DEF b
    <3>2. inFlight' <= b  BY <1>2, <1>3, <3>1
    <3> QED  BY <3>2 DEF b
  <2> QED  BY <1>1, <1>8, <2>6, <2>8 DEF AccountIsExact
<1>10. inFlight' \in Nat
  <2>1. <<g, active[g].left>> \in Unfinished  BY <1>4 DEF Unfinished
  <2>2. Unfinished # {} /\ IsFiniteSet(Unfinished)  BY <1>1, <2>1, UnfinishedIsFinite
  <2>3. Cardinality(Unfinished) # 0  BY <2>2, FS_EmptySet
  <2>4. inFlight # 0  BY <1>1, <2>3 DEF AccountIsExact
  <2> QED  BY <1>2, <1>3, <2>4
<1>11. TypeOK'  BY <1>1, <1>2, <1>7, <1>8, <1>10 DEF TypeOK
<1>12. Data'
  <2>1. drain'.got = drain.got  BY <1>8
  <2> QED  BY <1>1, <1>5, <1>8, <2>1, DataStays
<1>13. WorkerFits'
  <2>1. done \subseteq Over'
    <3>1. \A h \in done : h \in DOMAIN active /\ active[h].left = 0
      BY <1>1 DEF WorkerFits, Over
    <3>2. g \notin done  BY <1>4, <3>1
    <3> QED  BY <1>5, <3>1, <3>2 DEF Over
  <2>2. ASSUME NEW h \in DOMAIN active
        PROVE  /\ active'[h].versions \subseteq active'[h].born .. engine
               /\ active'[h].left < GroupSize => active'[h].versions # {}
    <3>1. CASE h = g
      <4>1. active[g].versions \subseteq active[g].born .. engine  BY <1>1 DEF WorkerFits
      <4>2. active'[g].versions = active[g].versions \cup {v} /\ active'[g].born = active[g].born
        BY <1>5
      <4> QED  BY <1>2, <3>1, <4>1, <4>2
    <3>2. CASE h # g  BY <1>1, <1>5, <3>2 DEF WorkerFits
    <3> QED  BY <3>1, <3>2
  <2> QED  BY <1>1, <1>5, <1>8, <2>1, <2>2 DEF WorkerFits
<1>14. Course'
  <2>1. phase # "start" /\ worker # "none"  BY RunHasStarted
  <2>2. next' \in Nat /\ next <= next'  BY <1>1, <1>8 DEF TypeOK
  <2> QED  BY <1>1, <1>2, <1>8, <2>1, <2>2, CourseGoesOn
<1> QED  BY <1>9, <1>11, <1>12, <1>13, <1>14 DEF RolloutInv, Work

-----------------------------------------------------------------------------
(* The worker *)

LEMMA ProgressHolds ==
  ASSUME RolloutInv, Progress
  PROVE  RolloutInv'
<1>1. TypeOK /\ Data /\ Work /\ Course /\ AccountIsExact /\ WorkerFits
  BY DEF RolloutInv, Work
<1>2. /\ worker = "wait" /\ done' = Over /\ worker' = IF Over = {} THEN "top" ELSE "put"
      /\ UNCHANGED <<next, recycled, active, inFlight, sampleDone, held, buffer,
                     resumed, weights, drain, driver, unused, faults, life>>
  BY DEF Progress
<1>3. UNCHANGED <<engine, published, unpublished, phase, rollout, batch, trained, saved,
                  dataset, base, before, reread>>
  BY <1>2 DEF weights, driver, life
<1>4. TypeOK'  BY <1>1, <1>2, <1>3 DEF TypeOK
<1>5. Data'  BY <1>1, <1>2, <1>3, DataStays
<1>6. AccountIsExact'  BY <1>1, <1>2 DEF AccountIsExact, Unfinished
<1>7. WorkerFits'
  <2>1. Over' = Over  BY <1>2 DEF Over
  <2> QED  BY <1>1, <1>2, <1>3, <2>1 DEF WorkerFits
<1>8. Course'
  <2>1. phase # "start"  BY <1>2, RunHasStarted
  <2>2. next' \in Nat /\ next <= next' /\ worker' # "none"  BY <1>1, <1>2 DEF TypeOK
  <2> QED  BY <1>1, <1>2, <2>1, <2>2, CourseGoesOn
<1> QED  BY <1>4, <1>5, <1>6, <1>7, <1>8 DEF RolloutInv, Work

\* What has_capacity lets the worker submit fits the budget.
LEMMA RoomFits ==
  ASSUME TypeOK, Data, AccountIsExact
  PROVE  /\ Accounted = Cardinality(Unfinished) /\ Accounted \in Nat
         /\ Room \in Nat /\ Room * GroupSize \in Nat
         /\ Accounted + Room * GroupSize <= GroupBudget * GroupSize
<1>1. GroupSize \in Nat \ {0} /\ GroupBudget \in Nat \ {0}  BY RolloutAssumption
<1> DEFINE b == GroupBudget * GroupSize
<1>2. b \in Nat  BY <1>1, SMT
<1>3. Cardinality(Unfinished) \in Nat  BY UnfinishedIsFinite
<1>4. Accounted = Cardinality(Unfinished)
  <2>1. CASE DOMAIN active = {}
    <3>1. Unfinished = {}  BY <2>1 DEF Unfinished
    <3> QED  BY <2>1, <3>1, FS_EmptySet DEF Accounted
  <2>2. CASE DOMAIN active # {}  BY <2>2 DEF Accounted, AccountIsExact
  <2> QED  BY <2>1, <2>2
<1>5. Accounted \in Nat /\ Accounted <= b  BY <1>3, <1>4 DEF AccountIsExact
<1> DEFINE n == b - Accounted
<1>6. n \in Nat
  <2> HIDE DEF b
  <2> QED  BY <1>2, <1>5
<1>7. Room = Max({0, n \div GroupSize})  BY DEF Room
<1> HIDE DEF n
<1>8. (n \div GroupSize) \in Nat /\ (n % GroupSize) \in 0 .. GroupSize - 1
      /\ n = GroupSize * (n \div GroupSize) + (n % GroupSize)
  BY <1>1, <1>6, DivMod
<1>9. Room = n \div GroupSize
  <2> DEFINE k == n \div GroupSize
  <2>1. k \in Nat /\ 0 \in Int /\ k \in Int  BY <1>8
  <2> HIDE DEF k
  <2>2. Max({0, k}) = IF 0 >= k THEN 0 ELSE k  BY <2>1, MaxOfTwo
  <2>3. Max({0, k}) = k  BY <2>1, <2>2
  <2> QED  BY <1>7, <2>3 DEF k
<1>10. Room \in Nat  BY <1>8, <1>9
<1>11. Room * GroupSize \in Nat /\ Room * GroupSize = GroupSize * Room  BY <1>1, <1>10, SMT
<1>12. Room * GroupSize <= n
  <2> DEFINE q == GroupSize * Room  r == n % GroupSize
  <2>1. q \in Nat /\ r \in Nat /\ n = q + r  BY <1>1, <1>8, <1>9, <1>11
  <2> HIDE DEF q, r
  <2>2. q <= n  BY <2>1
  <2> QED  BY <1>11, <2>2 DEF q
<1>13. Accounted + Room * GroupSize <= b
  <2> DEFINE k == Room * GroupSize
  <2>1. k \in Nat /\ k <= b - Accounted /\ b \in Nat /\ Accounted \in Nat
    BY <1>2, <1>5, <1>11, <1>12 DEF n
  <2> HIDE DEF k, b
  <2>2. Accounted + k <= b  BY <2>1
  <2> QED  BY <2>2 DEF k
<1> QED  BY <1>4, <1>5, <1>10, <1>11, <1>13

\* What get_samples takes: Room groups that are not in generation.
LEMMA WhatIsTaken ==
  ASSUME TypeOK, Data, AccountIsExact, base <= next
  PROVE  LET took  == Range(Taken(Room))
             fresh == Fresh(Room)
             rest  == SubSeq(recycled, Len(Taken(Room)) + 1, Len(recycled))
         IN  /\ rest \in Seq(Nat) /\ IsInjective(rest)
             /\ Range(rest) = Range(recycled) \ took /\ took \subseteq Range(recycled)
             /\ fresh \cap (base .. next - 1) = {} /\ Cardinality(fresh) \in Nat
             /\ base .. (next + Cardinality(fresh)) - 1 = (base .. next - 1) \cup fresh
             /\ IsFiniteSet(took \cup fresh) /\ Cardinality(took \cup fresh) = Room
             /\ (took \cup fresh) \cap DOMAIN active = {} /\ took \cup fresh \subseteq Nat
<1> DEFINE m     == Min({Room, Len(recycled)})
           took  == Range(Taken(Room))
           fresh == Fresh(Room)
           rest  == SubSeq(recycled, Len(Taken(Room)) + 1, Len(recycled))
<1>1. Room \in Nat /\ base \in Nat /\ next \in Nat /\ recycled \in Seq(Nat)
      /\ Len(recycled) \in Nat
  BY RoomFits DEF TypeOK
<1>2. m = IF Room <= Len(recycled) THEN Room ELSE Len(recycled)
  <2>1. Room \in Int /\ Len(recycled) \in Int  BY <1>1
  <2> QED  BY <2>1, MinOfTwo
<1> HIDE DEF m
<1>3. m \in 0 .. Len(recycled) /\ m \in Nat /\ Room - m \in Nat  BY <1>1, <1>2
<1>4. IsInjective(recycled)  BY DEF Data, NoRepeats
<1>5. Taken(Room) = SubSeq(recycled, 1, m)  BY DEF Taken, m
<1>6. /\ Len(Taken(Room)) = m /\ rest \in Seq(Nat) /\ IsInjective(rest)
      /\ Range(rest) = Range(recycled) \ took /\ took \subseteq Range(recycled)
      /\ IsFiniteSet(took) /\ Cardinality(took) = m
  BY <1>1, <1>3, <1>4, <1>5, CutInTwo
<1>7. fresh = next .. next + (Room - m) - 1
  <2>1. fresh = next .. next + Room - m - 1  BY <1>6 DEF Fresh
  <2>2. next + Room - m - 1 = next + (Room - m) - 1  BY <1>1, <1>3
  <2> QED  BY <2>1, <2>2
<1> HIDE DEF took, fresh, rest
<1> DEFINE k == Room - m
<1>8. k \in Nat /\ fresh = next .. next + k - 1 /\ Room = m + k  BY <1>1, <1>3, <1>7
<1> HIDE DEF k
<1>9. IsFiniteSet(fresh) /\ Cardinality(fresh) = k
  <2>1. next \in Int /\ next + k - 1 \in Int  BY <1>1, <1>8
  <2>2. /\ IsFiniteSet(fresh)
        /\ Cardinality(fresh) = IF next > next + k - 1 THEN 0 ELSE (next + k - 1) - next + 1
    BY <1>8, <2>1, FS_Interval
  <2> QED  BY <1>1, <1>8, <2>2
<1>10. fresh \cap (base .. next - 1) = {}  BY <1>1, <1>8
<1>11. base .. (next + k) - 1 = (base .. next - 1) \cup fresh  BY <1>1, <1>8
<1>12. /\ Range(recycled) \subseteq base .. next - 1 /\ DOMAIN active \subseteq base .. next - 1
       /\ Range(recycled) \cap DOMAIN active = {}
  <2>1. Places[1] \subseteq base .. next - 1 /\ Places[2] \subseteq base .. next - 1
    BY DEF Data, Spread
  <2>2. Places[1] \cap Places[2] = {}  BY DEF Data, Spread
  <2> QED  BY <2>1, <2>2, PlaceNumbers
<1>13. IsFiniteSet(took \cup fresh) /\ Cardinality(took \cup fresh) = Room
  <2>1. took \cap fresh = {}  BY <1>6, <1>10, <1>12
  <2>2. IsFiniteSet(took \cup fresh) /\ Cardinality(took \cup fresh) = m + k
    BY <1>6, <1>9, <2>1, SumOfTwo
  <2> QED  BY <1>8, <2>2
<1>14. took \cup fresh \subseteq Nat  BY <1>1, <1>6, <1>8, <1>12
<1>15. (took \cup fresh) \cap DOMAIN active = {}  BY <1>6, <1>10, <1>12
<1> QED  BY <1>6, <1>8, <1>9, <1>10, <1>11, <1>13, <1>14, <1>15 DEF took, fresh, rest

\* Room groups more are in generation, and their samples in the account.
LEMMA SubmitHolds ==
  ASSUME RolloutInv, Submit
  PROVE  RolloutInv'
<1>1. /\ TypeOK /\ Data /\ Work /\ Course /\ AccountIsExact /\ WorkerFits /\ base <= next
  BY DEF RolloutInv, Work, Course, CheckpointsFit
<1> DEFINE took  == Range(Taken(Room))
           fresh == Fresh(Room)
           new   == took \cup fresh
           rest  == SubSeq(recycled, Len(Taken(Room)) + 1, Len(recycled))
<1>2. /\ worker = "top" /\ worker' = "wait" /\ sampleDone' = FALSE
      /\ active' = [g \in DOMAIN active \cup new |-> IF g \in new THEN Started ELSE active[g]]
      /\ inFlight' = Accounted + Room * GroupSize
      /\ recycled' = rest
      /\ next' = next + Cardinality(fresh)
      /\ UNCHANGED <<done, held, buffer, resumed, weights, drain, driver, unused, faults, life>>
  BY DEF Submit
<1>3. /\ rest \in Seq(Nat) /\ IsInjective(rest)
      /\ Range(rest) = Range(recycled) \ took /\ took \subseteq Range(recycled)
      /\ fresh \cap (base .. next - 1) = {} /\ Cardinality(fresh) \in Nat
      /\ base .. (next + Cardinality(fresh)) - 1 = (base .. next - 1) \cup fresh
      /\ IsFiniteSet(new) /\ Cardinality(new) = Room
      /\ new \cap DOMAIN active = {} /\ new \subseteq Nat
  BY <1>1, WhatIsTaken
<1>4. /\ Accounted = Cardinality(Unfinished) /\ Accounted \in Nat
      /\ Room \in Nat /\ Room * GroupSize \in Nat
      /\ Accounted + Room * GroupSize <= GroupBudget * GroupSize
  BY <1>1, RoomFits
<1>5. new = took \cup fresh  OBVIOUS
<1> HIDE DEF took, fresh, new, rest
<1>6. UNCHANGED <<engine, published, unpublished, phase, rollout, batch, trained, saved,
                  dataset, base, before, reread>>
  BY <1>2 DEF weights, driver, life
<1>7. /\ active \in [DOMAIN active -> Generation] /\ engine \in Nat /\ next \in Nat
      /\ GroupSize \in Nat \ {0}
  BY <1>1, RolloutAssumption DEF TypeOK
<1>8. /\ DOMAIN active' = DOMAIN active \cup new
      /\ \A g \in new : active'[g] = Started
      /\ \A g \in DOMAIN active : active'[g] = active[g]
  BY <1>2, <1>3
<1>9. active' \in [DOMAIN active' -> Generation]
  <2>1. Started \in Generation  BY <1>7 DEF Started, Generation, Outcomes
  <2>2. \A g \in DOMAIN active' : active'[g] \in Generation  BY <1>7, <1>8, <2>1
  <2>3. active' = [g \in DOMAIN active' |-> active'[g]]  BY <1>2
  <2> QED  BY <2>2, <2>3
<1>10. next' \in Nat /\ next <= next'  BY <1>2, <1>3, <1>7
<1>11. inFlight' \in Nat  BY <1>2, <1>4
<1>12. TypeOK'
  <2>1. recycled' \in Seq(Nat) /\ sampleDone' \in BOOLEAN /\ worker' = "wait"
        /\ UNCHANGED <<held, buffer, resumed, drain, unused>>
    BY <1>2, <1>3
  <2> QED  BY <1>1, <1>6, <1>9, <1>10, <1>11, <2>1 DEF TypeOK
<1>13. Data'
  <2>1. NoRepeats'  BY <1>1, <1>2, <1>3, <1>6 DEF Data, NoRepeats
  <2> DEFINE p == 1  q == 2  S == base .. next - 1
  <2>2. /\ p \in 1 .. 8 /\ q \in 1 .. 8 /\ p # q /\ took \subseteq Places[p]
        /\ Places'[p] = Places[p] \ took /\ Places'[q] = Places[q] \cup took \cup fresh
        /\ \A i \in 1 .. 8 : i # p /\ i # q => Places'[i] = Places[i]
    BY <1>2, <1>3, <1>5, <1>6, <1>8, PlaceNumbers, PlaceNumbersNext
  <2>3. Spread(Places, S) /\ fresh \cap S = {}  BY <1>1, <1>3 DEF Data
  <2>4. S \cup fresh = base' .. next' - 1  BY <1>2, <1>3, <1>6
  <2> HIDE DEF p, q, S
  <2>5. Spread(Places', S \cup fresh)  BY <2>2, <2>3, Moved
  <2> QED  BY <2>1, <2>4, <2>5 DEF Data
<1>14. AccountIsExact'
  <2> DEFINE more == new \X (1 .. GroupSize)
  <2>1. Unfinished' = Unfinished \cup more
    <3>1. ASSUME NEW h \in DOMAIN active \cup new, NEW i \in 1 .. GroupSize
          PROVE  <<h, i>> \in Unfinished' <=> <<h, i>> \in Unfinished \/ <<h, i>> \in more
      <4>1. <<h, i>> \in Unfinished' <=> i <= active'[h].left  BY <1>8 DEF Unfinished
      <4>2. h \in DOMAIN active => (<<h, i>> \in Unfinished <=> i <= active[h].left)
        BY DEF Unfinished
      <4>3. CASE h \in new  BY <1>8, <4>1, <4>3 DEF Started
      <4>4. CASE h \in DOMAIN active
        <5>1. <<h, i>> \notin more  BY <1>3, <4>4
        <5> QED  BY <1>8, <4>1, <4>2, <4>4, <5>1
      <4> QED  BY <4>3, <4>4
    <3>2. /\ Unfinished' \subseteq (DOMAIN active \cup new) \X (1 .. GroupSize)
          /\ Unfinished \subseteq (DOMAIN active \cup new) \X (1 .. GroupSize)
          /\ more \subseteq (DOMAIN active \cup new) \X (1 .. GroupSize)
      BY <1>8 DEF Unfinished
    <3> HIDE DEF more
    <3> QED  BY <3>1, <3>2
  <2>2. Unfinished \cap more = {}  BY <1>3 DEF Unfinished
  <2>3. IsFiniteSet(more) /\ Cardinality(more) = Room * GroupSize
    <3>1. IsFiniteSet(1 .. GroupSize) /\ Cardinality(1 .. GroupSize) = GroupSize
      <4>1. 1 \in Int /\ GroupSize \in Int /\ GroupSize \in Nat /\ GroupSize # 0  BY <1>7
      <4>2. /\ IsFiniteSet(1 .. GroupSize)
            /\ Cardinality(1 .. GroupSize) = IF 1 > GroupSize THEN 0 ELSE GroupSize - 1 + 1
        BY <4>1, FS_Interval
      <4> QED  BY <4>1, <4>2
    <3>2. /\ IsFiniteSet(new \X (1 .. GroupSize))
          /\ Cardinality(new \X (1 .. GroupSize)) = Cardinality(new) * Cardinality(1 .. GroupSize)
      BY <1>3, <3>1, FS_Product
    <3> QED  BY <1>3, <3>1, <3>2
  <2>4. IsFiniteSet(Unfinished)  BY <1>1, UnfinishedIsFinite
  <2> HIDE DEF more
  <2>5. Cardinality(Unfinished \cup more) = Cardinality(Unfinished) + Cardinality(more)
    BY <2>2, <2>3, <2>4, SumOfTwo
  <2>6. inFlight' = Cardinality(Unfinished')  BY <1>2, <1>4, <2>1, <2>3, <2>5
  <2>7. inFlight' <= GroupBudget * GroupSize  BY <1>2, <1>4
  <2> QED  BY <1>1, <1>2, <2>6, <2>7 DEF AccountIsExact
<1>15. WorkerFits'
  <2>1. done = {} /\ held = {}  BY <1>1, <1>2 DEF WorkerFits
  <2>2. ASSUME NEW g \in DOMAIN active'
        PROVE  /\ active'[g].versions \subseteq active'[g].born .. engine'
               /\ active'[g].left < GroupSize => active'[g].versions # {}
    <3>1. CASE g \in new
      <4>1. active'[g].versions = {} /\ active'[g].left = GroupSize
        BY <1>8, <3>1 DEF Started
      <4> QED  BY <1>7, <4>1
    <3>2. CASE g \in DOMAIN active  BY <1>1, <1>6, <1>8, <3>2 DEF WorkerFits
    <3> QED  BY <1>8, <3>1, <3>2
  <2> QED  BY <1>2, <2>1, <2>2 DEF WorkerFits
<1>16. Course'
  <2>1. phase # "start" /\ worker' # "none"  BY <1>2, RunHasStarted
  <2> QED  BY <1>1, <1>2, <1>10, <2>1, CourseGoesOn
<1> QED  BY <1>12, <1>13, <1>14, <1>15, <1>16 DEF RolloutInv, Work

\* A sequence with one more at its end.
LEMMA Appended ==
  ASSUME NEW T, NEW s \in Seq(T), NEW x \in T
  PROVE  LET t == Append(s, x)
         IN  /\ t \in Seq(T) /\ Len(t) = Len(s) + 1 /\ Len(s) \in Nat
             /\ \A i \in 1 .. Len(s) : t[i] = s[i]
             /\ t[Len(s) + 1] = x /\ Range(t) = Range(s) \cup {x}
<1> DEFINE t == Append(s, x)
<1>1. /\ t \in Seq(T) /\ Len(t) = Len(s) + 1 /\ Len(s) \in Nat
      /\ \A i \in 1 .. Len(s) : t[i] = s[i]
      /\ t[Len(s) + 1] = x
      /\ DOMAIN s = 1 .. Len(s) /\ DOMAIN t = 1 .. Len(t)
  OBVIOUS
<1> HIDE DEF t
<1>2. DOMAIN t = (1 .. Len(s)) \cup {Len(s) + 1}  BY <1>1
<1>3. Range(t) = Range(s) \cup {x}  BY <1>1, <1>2 DEF Range
<1> QED  BY <1>1, <1>3 DEF t

\* A group that is recycled or given up leaves its place and stays single.
LEMMA UnusedIsHandled ==
  ASSUME TypeOK, Data, UNCHANGED <<base, next>>, NEW g, HandleUnused(g),
         NEW p \in 2 .. 7, g \in Places[p], Places'[p] = Places[p] \ {g},
         \A i \in 2 .. 7 : i # p => Places'[i] = Places[i]
  PROVE  /\ Spread(Places, base .. next - 1)' /\ IsInjective(recycled')
         /\ recycled' \in Seq(Nat) /\ unused' \subseteq Nat
<1>1. /\ recycled \in Seq(Nat) /\ unused \subseteq Nat /\ base \in Nat /\ next \in Nat
      /\ IsInjective(recycled) /\ Spread(Places, base .. next - 1)
  BY DEF TypeOK, Data, NoRepeats
<1>2. p \in 1 .. 8 /\ p # 1 /\ p # 8  OBVIOUS
<1>3. g \in base .. next - 1  BY <1>1, <1>2 DEF Spread
<1>4. g \in Nat  BY <1>1, <1>3
<1>5. g \notin Range(recycled)
  <2>1. Places[p] \cap Places[1] = {}  BY <1>1, <1>2 DEF Spread
  <2> QED  BY <2>1, PlaceNumbers
<1>6. /\ recycled' \in Seq(Nat) /\ IsInjective(recycled')
      /\ Range(recycled') = IF Retry THEN Range(recycled) \cup {g} ELSE Range(recycled)
  <2>1. CASE Retry
    <3>1. recycled' = Append(recycled, g)  BY <2>1 DEF HandleUnused
    <3>2. /\ recycled' \in Seq(Nat) /\ Len(recycled') = Len(recycled) + 1
          /\ Len(recycled) \in Nat
          /\ \A i \in 1 .. Len(recycled) : recycled'[i] = recycled[i]
          /\ recycled'[Len(recycled) + 1] = g
          /\ Range(recycled') = Range(recycled) \cup {g}
      BY <1>1, <1>4, <3>1, Appended
    <3>3. /\ DOMAIN recycled = 1 .. Len(recycled)
          /\ DOMAIN recycled' = (1 .. Len(recycled)) \cup {Len(recycled) + 1}
      <4>1. DOMAIN recycled = 1 .. Len(recycled) /\ DOMAIN recycled' = 1 .. Len(recycled')
        BY <1>1, <3>2
      <4> QED  BY <3>2, <4>1
    <3>4. \A i \in 1 .. Len(recycled) : recycled[i] # g  BY <1>5, <3>3 DEF Range
    <3>5. IsInjective(recycled')
      <4>1. \A i, j \in 1 .. Len(recycled) : recycled[i] = recycled[j] => i = j
        BY <1>1, <3>3 DEF IsInjective
      <4>2. \A i, j \in DOMAIN recycled' : recycled'[i] = recycled'[j] => i = j
        BY <3>2, <3>3, <3>4, <4>1
      <4> QED  BY <4>2 DEF IsInjective
    <3> QED  BY <2>1, <3>2, <3>5
  <2>2. CASE ~ Retry  BY <1>1, <2>2 DEF HandleUnused
  <2> QED  BY <2>1, <2>2
<1>7. unused' = IF Retry THEN unused ELSE unused \cup {g}  BY DEF HandleUnused
<1>8. Spread(Places, base .. next - 1)'
  <2> DEFINE q == IF Retry THEN 1 ELSE 8  G == {g}
  <2>1. /\ Places'[1] = IF Retry THEN Places[1] \cup {g} ELSE Places[1]
        /\ Places'[8] = IF Retry THEN Places[8] ELSE Places[8] \cup {g}
    BY <1>6, <1>7, PlaceNumbers, PlaceNumbersNext
  <2>2. /\ q \in {1, 8} /\ q \in 1 .. 8 /\ p # q /\ G \subseteq Places[p]
        /\ Places'[p] = Places[p] \ G
    BY <1>2
  <2>3. Places'[q] = Places[q] \cup G  BY <2>1
  <2>4. ASSUME NEW i \in 1 .. 8, i # p, i # q PROVE Places'[i] = Places[i]
    <3>1. CASE i \in 2 .. 7  BY <2>4, <3>1
    <3>2. CASE i \in {1, 8}
      <4>1. CASE Retry  BY <2>1, <2>4, <3>2, <4>1
      <4>2. CASE ~ Retry  BY <2>1, <2>4, <3>2, <4>2
      <4> QED  BY <4>1, <4>2
    <3> QED  BY <3>1, <3>2
  <2> HIDE DEF q, G
  <2> QED  BY <1>1, <1>2, <2>2, <2>3, <2>4, GroupsMove
<1> QED  BY <1>4, <1>6, <1>7, <1>8, <1>1

\* A finished group leaves generation, and the account does not notice.
LEMMA GenerationEnds ==
  ASSUME TypeOK, Work, NEW g \in Over, g \in done,
         active' = Restrict(active, DOMAIN active \ {g}), done' = done \ {g},
         UNCHANGED <<inFlight, buffer, engine>>
  PROVE  /\ DOMAIN active' = DOMAIN active \ {g} /\ active' \in [DOMAIN active' -> Generation]
         /\ AccountIsExact' /\ done' \subseteq Over'
         /\ \A h \in DOMAIN active' :
               /\ active'[h].versions \subseteq active'[h].born .. engine'
               /\ active'[h].left < GroupSize => active'[h].versions # {}
<1>1. /\ DOMAIN active' = DOMAIN active \ {g}
      /\ \A h \in DOMAIN active \ {g} : active'[h] = active[h]
      /\ active' = [h \in DOMAIN active \ {g} |-> active[h]]
  BY DEF Restrict
<1>2. active \in [DOMAIN active -> Generation] /\ g \in DOMAIN active /\ active[g].left = 0
  BY DEF TypeOK, Over
<1>3. active' \in [DOMAIN active' -> Generation]  BY <1>1, <1>2
<1>4. Unfinished' = Unfinished
  <2>1. ASSUME NEW h \in DOMAIN active, NEW i \in 1 .. GroupSize
        PROVE  <<h, i>> \in Unfinished' <=> <<h, i>> \in Unfinished
    <3>1. <<h, i>> \in Unfinished <=> i <= active[h].left  BY DEF Unfinished
    <3>2. CASE h = g
      <4>1. <<h, i>> \notin Unfinished'  BY <1>1, <3>2 DEF Unfinished
      <4>2. ~(i <= 0)  BY RolloutAssumption
      <4> QED  BY <1>2, <3>1, <3>2, <4>1, <4>2
    <3>3. CASE h # g
      <4>1. <<h, i>> \in Unfinished' <=> i <= active'[h].left  BY <1>1, <3>3 DEF Unfinished
      <4> QED  BY <1>1, <3>1, <3>3, <4>1
    <3> QED  BY <3>2, <3>3
  <2>2. /\ Unfinished' \subseteq (DOMAIN active) \X (1 .. GroupSize)
        /\ Unfinished \subseteq (DOMAIN active) \X (1 .. GroupSize)
    BY <1>1 DEF Unfinished
  <2> QED  BY <2>1, <2>2
<1>5. AccountIsExact'  BY <1>4 DEF Work, AccountIsExact
<1>6. done' \subseteq Over'
  <2>1. \A h \in done : h \in DOMAIN active /\ active[h].left = 0  BY DEF Work, WorkerFits, Over
  <2> QED  BY <1>1, <2>1 DEF Over
<1>7. \A h \in DOMAIN active' :
         /\ active'[h].versions \subseteq active'[h].born .. engine'
         /\ active'[h].left < GroupSize => active'[h].versions # {}
  BY <1>1 DEF Work, WorkerFits
<1> QED  BY <1>1, <1>3, <1>5, <1>6, <1>7

\* A finished group goes on to the buffer, back to the data source or out.
LEMMA CollectHolds ==
  ASSUME RolloutInv, NEW g \in done, Collect(g)
  PROVE  RolloutInv'
<1>1. TypeOK /\ Data /\ Work /\ Course /\ AccountIsExact /\ WorkerFits
  BY DEF RolloutInv, Work
<1>2. /\ worker = "put" /\ active' = Restrict(active, DOMAIN active \ {g})
      /\ done' = done \ {g}
      /\ UNCHANGED <<next, inFlight, sampleDone, buffer, resumed, weights, drain, driver,
                     faults, life>>
  BY DEF Collect
<1>3. UNCHANGED <<engine, published, unpublished, phase, rollout, batch, trained, saved,
                  dataset, base, before, reread>>
  BY <1>2 DEF weights, driver, life
<1>4. g \in Over /\ held = {} /\ g \in DOMAIN active  BY <1>1, <1>2 DEF WorkerFits, Over
<1>5. /\ DOMAIN active' = DOMAIN active \ {g} /\ active' \in [DOMAIN active' -> Generation]
      /\ AccountIsExact' /\ done' \subseteq Over'
      /\ \A h \in DOMAIN active' :
            /\ active'[h].versions \subseteq active'[h].born .. engine'
            /\ active'[h].left < GroupSize => active'[h].versions # {}
  BY <1>1, <1>2, <1>3, <1>4, GenerationEnds
<1>6. g \in Nat
  <2>1. Places[2] \subseteq base .. next - 1  BY <1>1 DEF Data, Spread
  <2>2. base \in Nat /\ next \in Nat  BY <1>1 DEF TypeOK
  <2> QED  BY <1>4, <2>1, <2>2, PlaceNumbers
<1>7. worker' \in {"top", "put", "full", "dead"} => Course'
  <2>1. phase # "start"  BY <1>2, RunHasStarted
  <2>2. next' \in Nat /\ next <= next'  BY <1>1, <1>2 DEF TypeOK
  <2> QED  BY <1>1, <1>2, <2>1, <2>2, CourseGoesOn
<1>8. CASE /\ held' = {} /\ worker' \in {"top", "put", "dead"}
           /\ done' # {} => worker' \in {"put", "dead"}
           /\ \/ HandleUnused(g)
              \/ recycled' = recycled /\ unused' = unused \cup {g}
  <2> DEFINE p == 2  q == 8  G == {g}
  <2>1. /\ Places'[p] = Places[p] \ G /\ G \subseteq Places[p]
        /\ \A i \in 2 .. 7 : i # p => Places'[i] = Places[i]
    BY <1>2, <1>3, <1>4, <1>5, <1>8, PlaceNumbers, PlaceNumbersNext
  <2>2. p \in 1 .. 8 /\ p \in 2 .. 7 /\ q \in 1 .. 8 /\ p # q /\ g \in G  OBVIOUS
  <2>3. Spread(Places, base .. next - 1)' /\ IsInjective(recycled')
        /\ recycled' \in Seq(Nat) /\ unused' \subseteq Nat
    <3>1. CASE HandleUnused(g)
      <4>1. g \in Places[p] /\ Places'[p] = Places[p] \ {g}  BY <2>1
      <4> HIDE DEF p, q, G
      <4> QED  BY <1>1, <1>2, <1>3, <2>1, <2>2, <3>1, <4>1, UnusedIsHandled
    <3>2. CASE recycled' = recycled /\ unused' = unused \cup {g}
      <4>1. recycled \in Seq(Nat) /\ unused \subseteq Nat  BY <1>1 DEF TypeOK
      <4>2. Places'[q] = Places[q] \cup G /\ Places'[1] = Places[1]
        BY <3>2, PlaceNumbers, PlaceNumbersNext
      <4>3. \A i \in 1 .. 8 : i # p /\ i # q => Places'[i] = Places[i]
        <5>1. \A i \in 1 .. 8 : i = 1 \/ i = 8 \/ i \in 2 .. 7  OBVIOUS
        <5> QED  BY <2>1, <4>2, <5>1
      <4>4. Spread(Places, base .. next - 1) /\ UNCHANGED <<base, next>> /\ IsInjective(recycled)
        BY <1>1, <1>2, <1>3 DEF Data, NoRepeats
      <4> HIDE DEF p, q, G
      <4>5. Spread(Places, base .. next - 1)'  BY <2>1, <2>2, <4>2, <4>3, <4>4, GroupsMove
      <4> QED  BY <1>6, <3>2, <4>1, <4>4, <4>5
    <3> QED  BY <1>8, <3>1, <3>2
  <2>4. NoRepeats'  BY <1>1, <1>2, <1>3, <1>8, <2>3 DEF Data, NoRepeats, NoTwins
  <2>5. TypeOK'
    <3>1. held' = {} /\ worker' \in {"none", "top", "wait", "put", "full", "dead"}
          /\ UNCHANGED <<next, inFlight, sampleDone, buffer, resumed, drain>>
      BY <1>2, <1>8
    <3> QED  BY <1>1, <1>3, <1>5, <2>3, <3>1 DEF TypeOK
  <2>6. WorkerFits'  BY <1>5, <1>8 DEF WorkerFits
  <2> QED  BY <1>5, <1>7, <1>8, <2>3, <2>4, <2>5, <2>6 DEF RolloutInv, Data, Work
<1>9. CASE /\ held' = {[group |-> g, oldest |-> Min(active[g].versions)]}
           /\ worker' = "full" /\ UNCHANGED <<recycled, unused>>
  <2> DEFINE e == [group |-> g, oldest |-> Min(active[g].versions)]
  <2>1. e \in Entry
    <3>1. active[g] \in Generation /\ active[g].left = 0  BY <1>1, <1>4 DEF TypeOK, Over
    <3>2. active[g].versions \in SUBSET Nat /\ active[g].versions # {}
      <4>1. 0 < GroupSize  BY RolloutAssumption
      <4> QED  BY <1>1, <1>4, <3>1, <4>1 DEF WorkerFits, Generation
    <3>3. Min(active[g].versions) \in Nat  BY <3>2, LeastNatural
    <3> QED  BY <1>6, <3>3 DEF Entry
  <2>2. e.group = g /\ held' = {e}  BY <1>9
  <2> HIDE DEF e
  <2>3. NoRepeats'  BY <1>1, <1>2, <1>3, <1>9, <2>2 DEF Data, NoRepeats, NoTwins
  <2> DEFINE p == 2  q == 3  G == {g}
  <2>4. /\ p \in 1 .. 8 /\ q \in 1 .. 8 /\ p # q /\ G \subseteq Places[p]
        /\ Places'[p] = Places[p] \ G /\ Places'[q] = Places[q] \cup G
        /\ \A i \in 1 .. 8 : i # p /\ i # q => Places'[i] = Places[i]
    <3>1. Groups(held') = {g} /\ Groups(held) = {}  BY <1>4, <2>2 DEF Groups
    <3> QED  BY <1>2, <1>3, <1>4, <1>5, <1>9, <3>1, PlaceNumbers, PlaceNumbersNext
  <2>5. Spread(Places, base .. next - 1) /\ UNCHANGED <<base, next>>
    BY <1>1, <1>2, <1>3 DEF Data
  <2> HIDE DEF p, q, G
  <2>6. Spread(Places, base .. next - 1)'  BY <2>4, <2>5, GroupsMove
  <2>7. TypeOK'  BY <1>1, <1>2, <1>3, <1>5, <1>9, <2>1, <2>2 DEF TypeOK
  <2>8. WorkerFits'  BY <1>5, <1>9, <2>2 DEF WorkerFits
  <2> QED  BY <1>5, <1>7, <1>9, <2>3, <2>6, <2>7, <2>8 DEF RolloutInv, Data, Work
<1> QED
  <2>1. done' # {} => AfterPut(done') = "put"  BY DEF AfterPut
  <2>2. AfterPut(done') \in {"top", "put"}  BY DEF AfterPut
  <2>3. CASE worker' = "dead" /\ unused' = unused \cup {g} /\ UNCHANGED <<recycled, held>>
    BY <1>4, <1>8, <2>3
  <2>4. CASE HandleUnused(g) /\ worker' = AfterPut(done') /\ UNCHANGED held
    BY <1>4, <1>8, <2>1, <2>2, <2>4
  <2>5. CASE unused' = unused \cup {g} /\ worker' = AfterPut(done') /\ UNCHANGED <<recycled, held>>
    BY <1>4, <1>8, <2>1, <2>2, <2>5
  <2> QED  BY <1>9, <2>3, <2>4, <2>5 DEF Collect

LEMMA PutHolds ==
  ASSUME RolloutInv, Put
  PROVE  RolloutInv'
<1>1. TypeOK /\ Data /\ Work /\ Course /\ AccountIsExact /\ WorkerFits
  BY DEF RolloutInv, Work
<1>2. PICK e \in held : buffer' = Append(buffer, e)  BY DEF Put
<1>3. /\ worker = "full" /\ Len(buffer) < Capacity /\ held' = {} /\ worker' = AfterPut(done)
      /\ UNCHANGED <<next, recycled, active, inFlight, sampleDone, done, resumed, weights,
                     drain, driver, unused, faults, life>>
  BY DEF Put
<1>4. UNCHANGED <<engine, published, unpublished, phase, rollout, batch, trained, saved,
                  dataset, base, before, reread>>
  BY <1>3 DEF weights, driver, life
<1>5. worker' \in {"top", "put"} /\ (done # {} => worker' = "put")  BY <1>3 DEF AfterPut
<1>6. held = {e} /\ e \in Entry  BY <1>1 DEF WorkerFits, TypeOK
<1>7. /\ buffer' \in Seq(Entry) /\ Len(buffer') = Len(buffer) + 1 /\ Len(buffer) \in Nat
      /\ \A i \in 1 .. Len(buffer) : buffer'[i] = buffer[i]
      /\ buffer'[Len(buffer) + 1] = e /\ Range(buffer') = Range(buffer) \cup {e}
  <2>1. buffer \in Seq(Entry)  BY <1>1 DEF TypeOK
  <2> QED  BY <1>2, <1>6, <2>1, Appended
<1>8. TypeOK'
  <2>1. held' = {} /\ worker' \in {"none", "top", "wait", "put", "full", "dead"}
        /\ UNCHANGED <<next, recycled, active, inFlight, sampleDone, resumed, drain, unused>>
    BY <1>3, <1>5
  <2> QED  BY <1>1, <1>4, <1>7, <2>1 DEF TypeOK
<1>9. NoRepeats'
  <2>1. \A i \in 1 .. Len(buffer) : buffer[i].group # e.group
    <3>1. Places[3] \cap Places[4] = {}  BY <1>1 DEF Data, Spread
    <3>2. e.group \in Groups(held)  BY <1>6 DEF Groups
    <3>3. DOMAIN buffer = 1 .. Len(buffer)  BY <1>1 DEF TypeOK
    <3>4. \A i \in 1 .. Len(buffer) : buffer[i].group \in Groups(Range(buffer))
      BY <3>3 DEF Groups, Range
    <3> QED  BY <3>1, <3>2, <3>4, PlaceNumbers
  <2>2. \A i \in 1 .. Len(buffer') : i \in 1 .. Len(buffer) \/ i = Len(buffer) + 1  BY <1>7
  <2>3. \A i, j \in 1 .. Len(buffer) : buffer[i].group = buffer[j].group => i = j
    BY <1>1 DEF Data, NoRepeats
  <2>4. \A i, j \in 1 .. Len(buffer') : buffer'[i].group = buffer'[j].group => i = j
    BY <1>7, <2>1, <2>2, <2>3
  <2> QED  BY <1>1, <1>3, <1>4, <2>4 DEF Data, NoRepeats, NoTwins
<1>10. Spread(Places, base .. next - 1)'
  <2> DEFINE p == 3  q == 4  G == {e.group}
  <2>1. /\ p \in 1 .. 8 /\ q \in 1 .. 8 /\ p # q /\ G \subseteq Places[p]
        /\ Places'[p] = Places[p] \ G /\ Places'[q] = Places[q] \cup G
        /\ \A i \in 1 .. 8 : i # p /\ i # q => Places'[i] = Places[i]
    <3>1. Groups(held) = {e.group} /\ Groups(held') = {}  BY <1>3, <1>6 DEF Groups
    <3>2. Groups(Range(buffer')) = Groups(Range(buffer)) \cup {e.group}  BY <1>7 DEF Groups
    <3> QED  BY <1>3, <1>4, <3>1, <3>2, PlaceNumbers, PlaceNumbersNext
  <2>2. Spread(Places, base .. next - 1) /\ UNCHANGED <<base, next>>
    BY <1>1, <1>3, <1>4 DEF Data
  <2> HIDE DEF p, q, G
  <2> QED  BY <2>1, <2>2, GroupsMove
<1>11. AccountIsExact'
  <2>1. Unfinished' = Unfinished  BY <1>3 DEF Unfinished
  <2>2. Capacity \in Nat  BY RolloutAssumption
  <2>3. Len(buffer') <= Capacity  BY <1>3, <1>7, <2>2
  <2> QED  BY <1>1, <1>3, <2>1, <2>3 DEF AccountIsExact
<1>12. WorkerFits'
  <2>1. Over' = Over  BY <1>3 DEF Over
  <2> QED  BY <1>1, <1>3, <1>4, <1>5, <2>1 DEF WorkerFits
<1>13. Course'
  <2>1. phase # "start"  BY <1>3, RunHasStarted
  <2>2. next' \in Nat /\ next <= next' /\ worker' # "none"  BY <1>1, <1>3, <1>5 DEF TypeOK
  <2> QED  BY <1>1, <1>3, <2>1, <2>2, CourseGoesOn
<1> QED  BY <1>8, <1>9, <1>10, <1>11, <1>12, <1>13 DEF RolloutInv, Data, Work

-----------------------------------------------------------------------------
(* A drain *)

\* What a drain has got so far is what the driver will train on.
LEMMA DrainGoesOn ==
  ASSUME RolloutInv, drain.state = "on", drain'.version = drain.version, drain'.state # "off",
         UNCHANGED <<next, worker, weights, driver, life>>,
         \A e \in drain'.got : drain.version - e.oldest <= MaxStaleness,
         drain'.state = "on" => Cardinality(drain'.got) < BatchSize,
         drain'.state = "ready" => Cardinality(drain'.got) = BatchSize
  PROVE  Course' /\ phase # "start"
<1>1. TypeOK /\ DriverFits /\ ServedSincePublish /\ CheckpointsFit /\ FreshEnough
  BY DEF RolloutInv, Course
<1>2. UNCHANGED <<engine, published, unpublished, phase, rollout, batch, trained, saved,
                  dataset, base, before, reread>>
  BY DEF weights, driver, life
<1>3. drain # NoDrain  BY NoDrainFacts
<1>4. phase # "start"  BY <1>1, <1>3 DEF DriverFits
<1>5. Draining => Draining'  BY <1>2 DEF Draining
<1>6. HasNext' = HasNext /\ Due(UpdateInterval)' = Due(UpdateInterval)
  BY <1>2 DEF HasNext, Due
<1>7. DriverFits'
  <2>1. phase # "publish"  BY <1>1, <1>3 DEF DriverFits
  <2>2. phase = "await" => Draining'  BY <1>1, <1>5 DEF DriverFits
  <2>3. phase \in {"train", "save", "saveData", "update"} =>
            HasNext /\ ~ Due(UpdateInterval) /\ Draining'
    BY <1>1, <1>3, <1>5 DEF DriverFits
  <2>4. phase \in {"eval", "evaluating", "next"} => HasNext /\ Draining'
    BY <1>1, <1>3, <1>5 DEF DriverFits
  <2>5. engine' = IF phase' = "publish" THEN published' + 1 ELSE published'
    BY <1>1, <1>2 DEF DriverFits
  <2>6. worker # "none"  BY <1>1, <1>4 DEF DriverFits
  <2>7. IF phase' = "train" THEN Cardinality(batch') = BatchSize ELSE batch' = {}
    BY <1>1, <1>2 DEF DriverFits
  <2> QED  BY <1>2, <1>4, <1>6, <2>1, <2>2, <2>3, <2>4, <2>5, <2>6, <2>7 DEF DriverFits
<1>8. ServedSincePublish'  BY <1>1, <1>2, <1>6 DEF ServedSincePublish
<1>9. CheckpointsFit'  BY <1>1, <1>2 DEF CheckpointsFit
<1>10. FreshEnough'  BY <1>1, <1>2 DEF FreshEnough
<1> QED  BY <1>4, <1>7, <1>8, <1>9, <1>10 DEF Course

LEMMA DrainFailsHolds ==
  ASSUME RolloutInv, DrainFails
  PROVE  RolloutInv'
<1>1. TypeOK /\ Data /\ Work /\ Course /\ DriverFits  BY DEF RolloutInv, Course
<1>2. /\ drain.state = "on" /\ drain' = [drain EXCEPT !.state = "failed"]
      /\ UNCHANGED <<next, producer, buffer, resumed, weights, driver, unused, faults, life>>
  BY DEF DrainFails
<1>3. UNCHANGED <<engine, published, unpublished, phase, rollout, batch, trained, saved,
                  dataset, base, before, reread, recycled, active, inFlight, sampleDone,
                  worker, done, held>>
  BY <1>2 DEF weights, driver, life, producer
<1>4. drain \in [state : {"off", "on", "ready", "failed"}, version : Nat, got : SUBSET Entry]
  BY <1>1 DEF TypeOK
<1>5. /\ drain'.state = "failed" /\ drain'.version = drain.version /\ drain'.got = drain.got
      /\ drain' \in [state : {"off", "on", "ready", "failed"}, version : Nat, got : SUBSET Entry]
  BY <1>2, <1>4
<1>6. TypeOK'  BY <1>1, <1>2, <1>3, <1>5 DEF TypeOK
<1>7. Data'  BY <1>1, <1>2, <1>3, <1>5, DataStays
<1>8. Work'
  <2>1. engine' \in {engine, engine + 1}  BY <1>3
  <2> QED  BY <1>2, <1>3, <2>1, DriverKeepsWork
<1>9. Course'
  <2>1. \A e \in drain'.got : drain.version - e.oldest <= MaxStaleness
    BY <1>1, <1>5 DEF DriverFits
  <2>2. drain'.state # "off" /\ drain'.state # "on" /\ drain'.state # "ready"  BY <1>5
  <2> QED  BY <1>2, <1>3, <1>5, <2>1, <2>2, DrainGoesOn
<1> QED  BY <1>6, <1>7, <1>8, <1>9 DEF RolloutInv

\* The oldest entry leaves the buffer, and its group with it.
LEMMA OldestLeaves ==
  ASSUME NEW s \in Seq(Entry), s # <<>>,
         \A i, j \in 1 .. Len(s) : s[i].group = s[j].group => i = j
  PROVE  /\ Head(s) \in Entry /\ Tail(s) \in Seq(Entry) /\ Len(Tail(s)) <= Len(s)
         /\ Head(s).group \in Groups(Range(s))
         /\ Groups(Range(Tail(s))) = Groups(Range(s)) \ {Head(s).group}
         /\ \A i, j \in 1 .. Len(Tail(s)) : Tail(s)[i].group = Tail(s)[j].group => i = j
<1> DEFINE t == Tail(s)
<1>1. /\ Len(s) \in Nat \ {0} /\ DOMAIN s = 1 .. Len(s) /\ Head(s) = s[1]
      /\ t \in Seq(Entry) /\ Len(t) = Len(s) - 1 /\ DOMAIN t = 1 .. Len(t)
      /\ \A i \in 1 .. Len(t) : t[i] = s[i + 1]
  BY HeadTailProperties
<1> HIDE DEF t
<1>2. \A i \in 1 .. Len(t) : i + 1 \in 1 .. Len(s) /\ i + 1 # 1  BY <1>1
<1>3. 1 \in 1 .. Len(s)  BY <1>1
<1>4. Head(s) \in Entry /\ Head(s).group \in Groups(Range(s))
  BY <1>1, <1>3 DEF Groups, Range
<1>5. \A i, j \in 1 .. Len(t) : t[i].group = t[j].group => i = j
  <2>1. \A i, j \in 1 .. Len(t) : t[i].group = t[j].group => i + 1 = j + 1  BY <1>1, <1>2
  <2>2. \A i, j \in 1 .. Len(t) : i + 1 = j + 1 => i = j  OBVIOUS
  <2> QED  BY <2>1, <2>2
<1>6. \A x : x \in Groups(Range(t)) <=> \E i \in 1 .. Len(t) : x = s[i + 1].group
  <2>1. \A f : f \in Range(t) <=> \E i \in 1 .. Len(t) : f = t[i]  BY <1>1 DEF Range
  <2>2. \A x : x \in Groups(Range(t)) <=> \E i \in 1 .. Len(t) : x = t[i].group
    BY <2>1 DEF Groups
  <2>3. \A i \in 1 .. Len(t) : t[i].group = s[i + 1].group  BY <1>1
  <2> QED  BY <2>2, <2>3
<1>7. \A x : x \in Groups(Range(s)) <=> \E i \in 1 .. Len(s) : x = s[i].group
  <2>1. \A f : f \in Range(s) <=> \E i \in 1 .. Len(s) : f = s[i]  BY <1>1 DEF Range
  <2> QED  BY <2>1 DEF Groups
<1>8. \A i \in 1 .. Len(s) : i # 1 => i - 1 \in 1 .. Len(t) /\ (i - 1) + 1 = i  BY <1>1
<1>9. ASSUME NEW x \in Groups(Range(t)) PROVE x \in Groups(Range(s)) /\ x # s[1].group
  <2>1. PICK i \in 1 .. Len(t) : x = s[i + 1].group  BY <1>6, <1>9
  <2>2. i + 1 \in 1 .. Len(s) /\ i + 1 # 1  BY <1>2
  <2> QED  BY <1>3, <1>7, <2>1, <2>2
<1>10. ASSUME NEW x \in Groups(Range(s)), x # s[1].group PROVE x \in Groups(Range(t))
  <2>1. PICK i \in 1 .. Len(s) : x = s[i].group  BY <1>7, <1>10
  <2>2. i - 1 \in 1 .. Len(t) /\ (i - 1) + 1 = i  BY <1>8, <1>10, <2>1
  <2> QED  BY <1>6, <2>1, <2>2
<1>11. Groups(Range(t)) = Groups(Range(s)) \ {s[1].group}  BY <1>9, <1>10
<1> QED  BY <1>1, <1>4, <1>5, <1>11 DEF t

\* An entry goes to the drain if it is fresh enough, else its group is unused.
LEMMA GetHolds ==
  ASSUME RolloutInv, Get
  PROVE  RolloutInv'
<1>1. TypeOK /\ Data /\ Work /\ Course /\ DriverFits /\ AccountIsExact /\ WorkerFits
  BY DEF RolloutInv, Course, Work
<1> DEFINE e == Head(buffer)
<1>2. /\ drain.state = "on" /\ buffer # <<>> /\ buffer' = Tail(buffer)
      /\ UNCHANGED <<next, active, inFlight, sampleDone, worker, done, held, resumed, weights,
                     driver, faults, life>>
  BY DEF Get
<1>3. \/ HandleUnused(e.group) /\ UNCHANGED drain
      \/ /\ drain.version - e.oldest <= MaxStaleness
         /\ drain' = [drain EXCEPT
                        !.got = drain.got \cup {e},
                        !.state = IF Cardinality(drain.got \cup {e}) = BatchSize
                                  THEN "ready" ELSE "on"]
         /\ UNCHANGED <<recycled, unused>>
  BY DEF Get
<1>4. UNCHANGED <<engine, published, unpublished, phase, rollout, batch, trained, saved,
                  dataset, base, before, reread>>
  BY <1>2 DEF weights, driver, life
<1>5. /\ e \in Entry /\ buffer' \in Seq(Entry) /\ Len(buffer') <= Len(buffer)
      /\ e.group \in Groups(Range(buffer))
      /\ Groups(Range(buffer')) = Groups(Range(buffer)) \ {e.group}
      /\ \A i, j \in 1 .. Len(buffer') : buffer'[i].group = buffer'[j].group => i = j
  <2>1. buffer \in Seq(Entry) /\ buffer # <<>>  BY <1>1, <1>2 DEF TypeOK
  <2>2. \A i, j \in 1 .. Len(buffer) : buffer[i].group = buffer[j].group => i = j
    BY <1>1 DEF Data, NoRepeats
  <2> QED  BY <1>2, <2>1, <2>2, OldestLeaves
<1> HIDE DEF e
<1>6. Work'
  <2>1. Unfinished' = Unfinished /\ Over' = Over  BY <1>2 DEF Unfinished, Over
  <2>2. Len(buffer') <= Capacity
    <3>1. Len(buffer) \in Nat  BY <1>1 DEF TypeOK
    <3>2. Len(buffer') \in Nat  BY <1>5
    <3>3. Capacity \in Nat  BY RolloutAssumption
    <3>4. Len(buffer) <= Capacity  BY <1>1 DEF AccountIsExact
    <3> QED  BY <1>5, <3>1, <3>2, <3>3, <3>4
  <2>3. AccountIsExact'  BY <1>1, <1>2, <2>1, <2>2 DEF AccountIsExact
  <2>4. WorkerFits'  BY <1>1, <1>2, <1>4, <2>1 DEF WorkerFits
  <2> QED  BY <2>3, <2>4 DEF Work
<1>7. /\ drain \in [state : {"off", "on", "ready", "failed"}, version : Nat, got : SUBSET Entry]
      /\ \A f \in drain.got : drain.version - f.oldest <= MaxStaleness
      /\ Cardinality(drain.got) < BatchSize
  BY <1>1, <1>2 DEF TypeOK, DriverFits
<1>8. CASE HandleUnused(e.group) /\ UNCHANGED drain
  <2> DEFINE p == 4  g == e.group
  <2>1. /\ p \in 2 .. 7 /\ g \in Places[p] /\ Places'[p] = Places[p] \ {g}
        /\ \A i \in 2 .. 7 : i # p => Places'[i] = Places[i]
    BY <1>2, <1>4, <1>5, <1>8, PlaceNumbers, PlaceNumbersNext
  <2>2. HandleUnused(g) /\ UNCHANGED <<base, next>>  BY <1>2, <1>4, <1>8
  <2> HIDE DEF p, g
  <2>3. /\ Spread(Places, base .. next - 1)' /\ IsInjective(recycled')
        /\ recycled' \in Seq(Nat) /\ unused' \subseteq Nat
    BY <1>1, <2>1, <2>2, UnusedIsHandled
  <2>4. NoRepeats'  BY <1>1, <1>2, <1>4, <1>5, <1>8, <2>3 DEF Data, NoRepeats, NoTwins
  <2>5. TypeOK'
    <3>1. UNCHANGED <<next, active, inFlight, sampleDone, worker, held, resumed, drain>>
      BY <1>2, <1>8
    <3> QED  BY <1>1, <1>4, <1>5, <2>3, <3>1 DEF TypeOK
  <2>6. Course'
    <3>1. drain'.version = drain.version /\ drain'.state = "on" /\ drain'.got = drain.got
      BY <1>2, <1>8
    <3> QED  BY <1>2, <1>7, <3>1, DrainGoesOn
  <2> QED  BY <1>6, <2>3, <2>4, <2>5, <2>6 DEF RolloutInv, Data
<1>9. CASE /\ drain.version - e.oldest <= MaxStaleness
           /\ drain' = [drain EXCEPT
                          !.got = drain.got \cup {e},
                          !.state = IF Cardinality(drain.got \cup {e}) = BatchSize
                                    THEN "ready" ELSE "on"]
           /\ UNCHANGED <<recycled, unused>>
  <2>1. /\ drain'.version = drain.version /\ drain'.got = drain.got \cup {e}
        /\ drain'.state = IF Cardinality(drain.got \cup {e}) = BatchSize THEN "ready" ELSE "on"
        /\ drain' \in [state : {"off", "on", "ready", "failed"}, version : Nat,
                       got : SUBSET Entry]
    BY <1>5, <1>7, <1>9
  <2>2. \A f \in drain.got : f.group # e.group
    <3>1. Places[4] \cap Places[5] = {}  BY <1>1 DEF Data, Spread
    <3>2. \A f \in drain.got : f.group \in Groups(drain.got)  BY DEF Groups
    <3> QED  BY <1>5, <3>1, <3>2, PlaceNumbers
  <2>3. IsFiniteSet(drain.got) /\ Cardinality(drain.got) \in Nat
    <3>1. \A i \in 1 .. 8 : IsFiniteSet(Places[i])  BY <1>1, PlacesAreFinite DEF Data
    <3>2. IsFiniteSet(Groups(drain.got))  BY <3>1, PlaceNumbers
    <3>3. drain.got \in SUBSET Entry /\ NoTwins(drain.got)
      BY <1>1, <1>7 DEF Data, NoRepeats
    <3>4. IsFiniteSet(drain.got)  BY <3>2, <3>3, EntriesAreCounted
    <3> QED  BY <3>4, FS_CardinalityType
  <2>4. Cardinality(drain'.got) = Cardinality(drain.got) + 1
    <3>1. e \notin drain.got  BY <2>2
    <3>2. Cardinality(drain.got \cup {e})
            = IF e \in drain.got THEN Cardinality(drain.got) ELSE Cardinality(drain.got) + 1
      BY <2>3, FS_AddElement
    <3> QED  BY <2>1, <3>1, <3>2
  <2>5. /\ drain'.state = "on" => Cardinality(drain'.got) < BatchSize
        /\ drain'.state = "ready" => Cardinality(drain'.got) = BatchSize
        /\ drain'.state # "off"
    <3>1. \A c, b \in Nat : c < b /\ c + 1 # b => c + 1 < b  OBVIOUS
    <3>2. BatchSize \in Nat  BY RolloutAssumption
    <3> QED  BY <1>7, <2>1, <2>3, <2>4, <3>1, <3>2
  <2>6. NoRepeats'
    <3>1. NoTwins(drain'.got)  BY <1>1, <2>1, <2>2 DEF Data, NoRepeats, NoTwins
    <3> QED  BY <1>1, <1>2, <1>4, <1>5, <1>9, <3>1 DEF Data, NoRepeats, NoTwins
  <2> DEFINE p == 4  q == 5  G == {e.group}
  <2>7. /\ p \in 1 .. 8 /\ q \in 1 .. 8 /\ p # q /\ G \subseteq Places[p]
        /\ Places'[p] = Places[p] \ G /\ Places'[q] = Places[q] \cup G
        /\ \A i \in 1 .. 8 : i # p /\ i # q => Places'[i] = Places[i]
    <3>1. Groups(drain'.got) = Groups(drain.got) \cup {e.group}  BY <2>1 DEF Groups
    <3> QED  BY <1>2, <1>4, <1>5, <1>9, <3>1, PlaceNumbers, PlaceNumbersNext
  <2>8. Spread(Places, base .. next - 1) /\ UNCHANGED <<base, next>>
    BY <1>1, <1>2, <1>4 DEF Data
  <2> HIDE DEF p, q, G
  <2>9. Spread(Places, base .. next - 1)'  BY <2>7, <2>8, GroupsMove
  <2>10. TypeOK'
    <3>1. UNCHANGED <<next, active, inFlight, sampleDone, worker, held, resumed, recycled, unused>>
      BY <1>2, <1>9
    <3> QED  BY <1>1, <1>4, <1>5, <2>1, <3>1 DEF TypeOK
  <2>11. Course'
    <3>1. \A f \in drain'.got : drain.version - f.oldest <= MaxStaleness  BY <1>7, <1>9, <2>1
    <3> QED  BY <1>2, <2>1, <2>5, <3>1, DrainGoesOn
  <2> QED  BY <1>6, <2>6, <2>9, <2>10, <2>11 DEF RolloutInv, Data
<1> QED  BY <1>3, <1>8, <1>9

-----------------------------------------------------------------------------
(* The theorems *)

LEMMA StepHolds == RolloutInv /\ [Next]_vars => RolloutInv'
<1> SUFFICES ASSUME RolloutInv, [Next]_vars PROVE RolloutInv'  OBVIOUS
<1>1. CASE Running /\ DriverStep
  <2>1. Start \/ Receive \/ Fail \/ Train \/ SaveModel \/ SaveData \/ UpdateEngines \/ Publish
        \/ PauseForEval \/ EvalEnds \/ NextRollout
    BY <1>1 DEF DriverStep
  <2> QED  BY <2>1, StartHolds, ReceiveHolds, FailHolds, TrainHolds, SaveModelHolds,
              SaveDataHolds, UpdateEnginesHolds, PublishHolds, EvaluationHolds, NextRolloutHolds
<1>2. CASE Running /\ WorkerStep
  <2>1. Submit \/ Progress \/ Put \/ \E g \in done : Collect(g)  BY <1>2 DEF WorkerStep
  <2> QED  BY <2>1, SubmitHolds, ProgressHolds, PutHolds, CollectHolds
<1>3. CASE Running /\ DrainStep
  BY <1>3, GetHolds, DrainFailsHolds DEF DrainStep
<1>4. CASE Running /\ SampleStep
  <2>1. PICK g \in DOMAIN active : SampleDone(g)  BY <1>4 DEF SampleStep
  <2> QED  BY <2>1, SampleDoneHolds
<1>5. CASE CrashAndRestart  BY <1>5, CrashHolds
<1>6. CASE UNCHANGED vars
  <2>1. UNCHANGED <<base, next, recycled, active, inFlight, sampleDone, worker, done, held,
                    buffer, resumed, engine, published, unpublished, drain, phase, rollout,
                    batch, trained, before, unused, saved, dataset, reread>>
    BY <1>6 DEF vars, producer, driver, weights, life
  <2>2. TypeOK /\ Data /\ Work /\ DriverFits /\ ServedSincePublish /\ CheckpointsFit
        /\ FreshEnough
    BY DEF RolloutInv, Course
  <2>3. TypeOK'  BY <2>1, <2>2 DEF TypeOK
  <2>4. Data'  BY <2>1, <2>2, DataStays
  <2>5. Work'
    <3>1. engine' \in {engine, engine + 1}  BY <2>1
    <3> QED  BY <2>1, <3>1, DriverKeepsWork
  <2>6. HasNext' = HasNext /\ Due(UpdateInterval)' = Due(UpdateInterval) /\ Draining' = Draining
    BY <2>1 DEF HasNext, Due, Draining
  <2>7. DriverFits'  BY <2>1, <2>2, <2>6 DEF DriverFits
  <2>8. ServedSincePublish'  BY <2>1, <2>2, <2>6 DEF ServedSincePublish
  <2>9. CheckpointsFit' /\ FreshEnough'  BY <2>1, <2>2 DEF CheckpointsFit, FreshEnough
  <2> QED  BY <2>3, <2>4, <2>5, <2>7, <2>8, <2>9 DEF RolloutInv, Course
<1> QED  BY <1>1, <1>2, <1>3, <1>4, <1>5, <1>6 DEF Next, Stopped

\* Recycling, filtering, blocking puts and drains, crashes and restarts
\* neither lose a group nor copy one; the submission scheduler's account is
\* the number of samples in flight (generate_and_rm_group: "in-flight
\* accounting is conserved"); a drain filters by the published version; and
\* assert_weight_version_is_published never fires: for groups, batches,
\* buffers and intervals of any size.
THEOREM GroupsAreKept == Spec => []GroupsInv
<1>1. Init => RolloutInv  BY InitHolds
<1>2. RolloutInv /\ [Next]_vars => RolloutInv'  BY StepHolds
<1>3. RolloutInv => GroupsInv  BY InvariantFollows
<1> QED  BY <1>1, <1>2, <1>3, PTL DEF Spec

\* A batch that passed the staleness filter of the drain still passes it
\* when train_async.py trains on it: no publication comes in between.
THEOREM BatchesAreFresh == Spec => []FreshEnough
<1>1. Init => RolloutInv  BY InitHolds
<1>2. RolloutInv /\ [Next]_vars => RolloutInv'  BY StepHolds
<1>3. RolloutInv => FreshEnough  BY DEF RolloutInv, Course
<1> QED  BY <1>1, <1>2, <1>3, PTL DEF Spec

\* No group a batch holds was trained on before, in this life of the run or
\* in the ones its checkpoint comes from: the data source's index is saved
\* after the trainer's checkpoint and so covers it, unless load() found no
\* index beside the checkpoint and started the dataset over.
THEOREM NothingIsTrainedTwice == Spec => []NothingTrainedTwice
<1>1. Init => RolloutInv  BY InitHolds
<1>2. RolloutInv /\ [Next]_vars => RolloutInv'  BY StepHolds
<1>3. RolloutInv => NothingTrainedTwice
  <2> SUFFICES ASSUME RolloutInv, ~ reread
               PROVE  Groups(batch) \cap (before \cup trained) = {}
    BY DEF NothingTrainedTwice
  <2>1. Spread(Places, base .. next - 1) /\ base \in Nat /\ next \in Nat
    BY DEF RolloutInv, Data, TypeOK
  <2>2. Places[6] \cap Places[7] = {} /\ Places[6] \subseteq base .. next - 1
    BY <2>1 DEF Spread
  <2>3. before \subseteq 0 .. base - 1  BY DEF RolloutInv, Course, CheckpointsFit
  <2>4. (base .. next - 1) \cap (0 .. base - 1) = {}  BY <2>1
  <2> QED  BY <2>2, <2>3, <2>4, PlaceNumbers
<1> QED  BY <1>1, <1>2, <1>3, PTL DEF Spec

============================================================================

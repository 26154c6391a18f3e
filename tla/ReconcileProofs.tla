-------------------------- MODULE ReconcileProofs ---------------------------
(***************************************************************************)
(* Proofs about the two loops that learn what cells there are: the         *)
(* reconcile loop over Kubernetes, and the registration of cells with the  *)
(* polling loop that reads it.                                             *)
(*                                                                         *)
(* The reconcile loop, for any objects, any finite set of parents and any  *)
(* numbers of changes and failures: LoopInv is inductive.  Nothing is      *)
(* forgotten because a step that moves an object enqueues the parent it    *)
(* left and the one it joined (MembersStay), and what a reconcile has read *)
(* stays true for as long as its parent is not queued again                *)
(* (ReadsAreFresh).                                                        *)
(*                                                                         *)
(* Registration, for any cells, any reporters and any numbers of changes,  *)
(* crashes and faults: HubInv is inductive, and the hub never takes a cell *)
(* back to an older info.  The latter follows from FreshIsNewer, which     *)
(* holds because an info is new with every change (WorldIsNewest) and a    *)
(* process numbers its snapshots in the order it makes them                *)
(* (LaterIsNewer).                                                         *)
(***************************************************************************)
EXTENDS ReconcileLoop, Registration, FiniteSetTheorems, SequenceTheorems,
        WellFoundedInduction, TLAPS

(***************************************************************************)
(* The reconcile loop                                                      *)
(***************************************************************************)

USE LoopAssumption DEF LoopInv

----------------------------------------------------------------------------
(* The last change of an object *)

\* A set of natural numbers below a bound that has a member has a greatest one.
LEMMA GreatestNatural ==
    ASSUME NEW n \in Nat, NEW S \in SUBSET (0 .. n), S # {}
    PROVE  Max(S) \in S /\ \A k \in S : Max(S) >= k
<1> DEFINE Bounds == {b \in 0 .. n : \A k \in S : k <= b}
<1>1. Bounds \in SUBSET Nat /\ n \in Bounds
  OBVIOUS
<1>2. \E b \in Bounds : \A c \in Bounds : ~(c < b)
  <2> HIDE DEF Bounds
  <2>1. PICK b \in Bounds : \A c \in Bounds : <<c, b>> \notin OpToRel(<, Nat)
    BY <1>1, NatLessThanWellFounded, WFMin
  <2> QED BY <1>1, <2>1 DEF OpToRel
<1>3. PICK b \in Bounds : \A c \in Bounds : ~(c < b)
  BY <1>2
<1>4. b \in 0 .. n /\ \A k \in S : k <= b /\ k \in 0 .. n
  BY <1>3
<1>5. b \in S
  <2> SUFFICES ASSUME b \notin S PROVE FALSE
    OBVIOUS
  <2>1. \A k \in S : k <= b - 1
    BY <1>4
  <2>2. b - 1 \in 0 .. n
    <3>1. PICK k \in S : TRUE
      OBVIOUS
    <3> QED BY <1>4, <2>1, <3>1
  <2>3. b - 1 \in Bounds
    BY <2>1, <2>2
  <2>4. ~(b - 1 < b)
    BY <1>3, <2>3
  <2> QED BY <1>4, <2>4
<1> QED BY <1>4, <1>5 DEF Max

\* Changes are numbered, and an object that changed has a last one.
LEMMA LastChangeIs ==
    ASSUME NEW n \in Nat, NEW o
    PROVE  LastChange(o, n) \in 0 .. n
<1> DEFINE S == {0} \cup {i \in 1 .. n : log[i].object = o}
<1>1. S \in SUBSET (0 .. n) /\ S # {}
  OBVIOUS
<1>2. Max(S) \in S
  <2> HIDE DEF S
  <2> QED BY <1>1, GreatestNatural
<1> QED BY <1>1, <1>2 DEF LastChange

\* A change of one object leaves the last change of the others.
LEMMA LastChangeStays ==
    ASSUME NEW n \in Nat, NEW o, log[n + 1].object # o
    PROVE  LastChange(o, n + 1) = LastChange(o, n)
<1>1. {i \in 1 .. n + 1 : log[i].object = o} = {i \in 1 .. n : log[i].object = o}
  OBVIOUS
<1> QED BY <1>1 DEF LastChange

\* A store that took in some changes holds numbers of them.
LEMMA MappedType ==
    ASSUME NEW n \in Nat
    PROVE  Mapped(n) \in [Objects -> 0 .. n]
BY LastChangeIs DEF Mapped

\* What the changes so far say stays so when the world changes again.
LEMMA LogGrows ==
    ASSUME LoopTypeOK, NEW c \in [object : Objects, parent : Parents \cup {Unmapped, Gone}],
           log' = Append(log, c)
    PROVE  /\ log' \in Seq([object : Objects, parent : Parents \cup {Unmapped, Gone}])
           /\ Len(log') = Len(log) + 1 /\ Len(log) \in Nat
           /\ \A i \in 0 .. Len(log) : ParentOf(i)' = ParentOf(i)
           /\ \A n \in 0 .. Len(log) : Mapped(n)' = Mapped(n)
<1>1. /\ log \in Seq([object : Objects, parent : Parents \cup {Unmapped, Gone}])
      /\ log' \in Seq([object : Objects, parent : Parents \cup {Unmapped, Gone}])
      /\ Len(log') = Len(log) + 1 /\ Len(log) \in Nat
      /\ \A i \in 1 .. Len(log) : log'[i] = log[i]
  BY DEF LoopTypeOK
<1>2. \A i \in 0 .. Len(log) : ParentOf(i)' = ParentOf(i)
  <2> SUFFICES ASSUME NEW i \in 0 .. Len(log) PROVE ParentOf(i)' = ParentOf(i)
    OBVIOUS
  <2>1. i # 0 => log'[i] = log[i]
    BY <1>1
  <2> QED BY <2>1 DEF ParentOf
<1>3. ASSUME NEW n \in 0 .. Len(log) PROVE Mapped(n)' = Mapped(n)
  <2>1. ASSUME NEW o PROVE LastChange(o, n)' = LastChange(o, n)
    <3>1. {i \in 1 .. n : log'[i].object = o} = {i \in 1 .. n : log[i].object = o}
      BY <1>1
    <3> QED BY <3>1 DEF LastChange
  <2>2. \A o : LastChange(o, n) \in 0 .. Len(log)
    BY <1>1, LastChangeIs
  <2> QED BY <1>2, <2>1, <2>2 DEF Mapped
<1> QED BY <1>1, <1>2, <1>3

----------------------------------------------------------------------------
(* The queue *)

\* Keys that are new to a queue, in an order that names each of them and is
\* as long as they are many, extend it without repeating a key.
LEMMA EnqueueExtends ==
    ASSUME LoopTypeOK, OnceQueued, NEW keys \in SUBSET Parents, Enqueue(keys)
    PROVE  /\ queue' \in Seq(Parents) /\ OnceQueued'
           /\ ToSet(queue') = ToSet(queue) \cup keys
<1> DEFINE new == keys \ ToSet(queue)
           size == Cardinality(new)
<1>1. PICK order \in [1 .. size -> new] : ToSet(order) = new /\ queue' = queue \o order
  BY DEF Enqueue
<1>2. size \in Nat
  BY FS_Subset, FS_CardinalityType
<1>3. /\ order \in Seq(Parents) /\ Len(order) = size /\ DOMAIN order = 1 .. size
      /\ \A t \in new : \E i \in 1 .. size : order[i] = t
      /\ \A i \in 1 .. size : order[i] \in new
  <2>1. DOMAIN order = 1 .. size /\ \A i \in 1 .. size : order[i] \in new
    BY <1>1
  <2>2. order \in [1 .. size -> Parents]
    BY <1>1
  <2>3. order \in Seq(Parents) /\ Len(order) = size
    <3> HIDE DEF size
    <3> QED BY <1>2, <2>1, <2>2
  <2> QED BY <1>1, <2>1, <2>3 DEF ToSet
<1>4. \A i, j \in 1 .. size : order[i] = order[j] => i = j
  <2>1. IsFiniteSet(1 .. size) /\ Cardinality(1 .. size) = size
    BY <1>2, FS_Interval
  <2>2. order \in Surjection(1 .. size, new)
    BY <1>1, <1>3 DEF Surjection
  <2>3. order \in Injection(1 .. size, new)
    BY <2>1, <2>2, FS_SurjSameCardinalityImpliesInj
  <2> QED BY <2>3 DEF Injection, IsInjective
<1>5. queue \in Seq(Parents) /\ Len(queue) \in Nat /\ DOMAIN queue = 1 .. Len(queue)
  BY DEF LoopTypeOK
<1>6. /\ queue' \in Seq(Parents)
      /\ Len(queue') = Len(queue) + size /\ DOMAIN queue' = 1 .. Len(queue')
      /\ \A i \in 1 .. Len(queue) : queue'[i] = queue[i]
      /\ \A i \in 1 .. size : queue'[Len(queue) + i] = order[i]
  <2> HIDE DEF size
  <2>1. queue' = queue \o order
    BY <1>1
  <2>2. Len(order) = size
    BY <1>3
  <2>3. queue' \in Seq(Parents) /\ Len(queue') = Len(queue) + size
    <3>1. queue \o order \in Seq(Parents) /\ Len(queue \o order) = Len(queue) + Len(order)
      BY <1>3, <1>5, ConcatProperties
    <3> QED BY <2>1, <2>2, <3>1
  <2>4. \A i \in 1 .. Len(queue) + size : queue'[i] = IF i <= Len(queue) THEN queue[i] ELSE order[i - Len(queue)]
    BY <1>3, <1>5, <2>1, <2>2, ConcatProperties
  <2> QED BY <1>2, <1>5, <2>3, <2>4
<1> HIDE DEF size
<1>7. \A i \in 1 .. Len(queue') :
         \/ i \in 1 .. Len(queue) /\ queue'[i] = queue[i]
         \/ i - Len(queue) \in 1 .. size /\ queue'[i] = order[i - Len(queue)]
  BY <1>2, <1>5, <1>6
<1>8. /\ \A i \in 1 .. Len(queue) : i \in 1 .. Len(queue')
      /\ \A i \in 1 .. size : Len(queue) + i \in 1 .. Len(queue')
  BY <1>2, <1>5, <1>6
<1>9. ToSet(queue') = ToSet(queue) \cup keys
  <2>1. ToSet(queue) = {queue[i] : i \in 1 .. Len(queue)} /\ ToSet(queue') = {queue'[i] : i \in 1 .. Len(queue')}
    BY <1>5, <1>6 DEF ToSet
  <2>2. ASSUME NEW k \in ToSet(queue') PROVE k \in ToSet(queue) \cup keys
    BY <1>3, <1>7, <2>1
  <2>3. ToSet(queue) \subseteq ToSet(queue')
    BY <1>6, <1>8, <2>1
  <2>4. new \subseteq ToSet(queue')
    BY <1>3, <1>6, <1>8, <2>1
  <2> QED BY <2>2, <2>3, <2>4
<1>10. OnceQueued'
  <2> SUFFICES ASSUME NEW i \in 1 .. Len(queue'), NEW j \in 1 .. Len(queue'), queue'[i] = queue'[j]
               PROVE  i = j
    BY DEF OnceQueued
  <2>1. \A n \in 1 .. Len(queue) : queue[n] \notin new
    BY <1>5 DEF ToSet
  <2>2. CASE i \in 1 .. Len(queue) /\ queue'[i] = queue[i]
    <3>1. j \in 1 .. Len(queue) /\ queue'[j] = queue[j]
      BY <1>3, <1>7, <2>1, <2>2
    <3> QED BY <2>2, <3>1 DEF OnceQueued
  <2>3. CASE i - Len(queue) \in 1 .. size /\ queue'[i] = order[i - Len(queue)]
    <3>1. j - Len(queue) \in 1 .. size /\ queue'[j] = order[j - Len(queue)]
      BY <1>3, <1>7, <2>1, <2>3
    <3>2. i - Len(queue) = j - Len(queue)
      BY <1>4, <2>3, <3>1
    <3> QED BY <1>5, <3>2
  <2> QED BY <1>7, <2>2, <2>3
<1> QED BY <1>6, <1>9, <1>10

\* The parent that is taken leaves the queue; the others stay.
LEMMA TakeLeaves ==
    ASSUME LoopTypeOK, OnceQueued, queue # <<>>, queue' = Tail(queue)
    PROVE  /\ Head(queue) \in Parents /\ queue' \in Seq(Parents) /\ OnceQueued'
           /\ ToSet(queue) \subseteq ToSet(queue') \cup {Head(queue)}
<1>1. /\ queue \in Seq(Parents) /\ queue' \in Seq(Parents) /\ Head(queue) \in Parents
      /\ Len(queue) \in Nat \ {0} /\ Len(queue') = Len(queue) - 1 /\ Head(queue) = queue[1]
      /\ \A i \in 1 .. Len(queue') : queue'[i] = queue[i + 1] /\ i + 1 \in 1 .. Len(queue)
      /\ DOMAIN queue = 1 .. Len(queue) /\ DOMAIN queue' = 1 .. Len(queue')
  BY DEF LoopTypeOK
<1>2. \A i \in 1 .. Len(queue) : i = 1 \/ (i - 1 \in 1 .. Len(queue') /\ queue'[i - 1] = queue[i])
  BY <1>1
<1>3. ToSet(queue) \subseteq ToSet(queue') \cup {Head(queue)}
  <2> SUFFICES ASSUME NEW i \in 1 .. Len(queue), i # 1 PROVE queue[i] \in ToSet(queue')
    BY <1>1 DEF ToSet
  <2>1. i - 1 \in 1 .. Len(queue') /\ queue'[i - 1] = queue[i]
    BY <1>2
  <2> QED BY <1>1, <2>1 DEF ToSet
<1>4. OnceQueued'
  BY <1>1 DEF OnceQueued
<1> QED BY <1>1, <1>3, <1>4

----------------------------------------------------------------------------
(* The members of a parent *)

\* A parent that no object leaves or joins keeps its members.
LEMMA MembersStay ==
    ASSUME NEW p \in Parents, log' = log,
           \A o \in Objects : store'[o] = store[o] \/ p \notin Touched(store, store', o)
    PROVE  Members(p)' = Members(p)
<1>1. \A i : ParentOf(i)' = ParentOf(i)
  BY DEF ParentOf
<1>2. \A o \in Objects : \/ store'[o] = store[o]
                         \/ ParentOf(store[o]) # p /\ ParentOf(store'[o]) # p
  BY DEF Touched
<1>3. Members(p)' = {store'[o] : o \in {x \in Objects : ParentOf(store'[x]) = p}}
  BY <1>1 DEF Members
<1>4. Members(p) = {store[o] : o \in {x \in Objects : ParentOf(store[x]) = p}}
  BY DEF Members
<1> QED BY <1>2, <1>3, <1>4

\* The members of a parent are changes.
LEMMA MembersType ==
    ASSUME LoopTypeOK, NEW p
    PROVE  Members(p) \in SUBSET Nat
BY DEF LoopTypeOK, Members

(***************************************************************************)
(* A step of the stream that enqueues every parent it takes an object from *)
(* or gives one to: whoever's members change is queued again, and the      *)
(* others are as they were.                                                *)
(***************************************************************************)
LEMMA StoreStep ==
    ASSUME LoopInv, NEW keys \in SUBSET Parents, Enqueue(keys),
           store' \in [Objects -> 0 .. Len(log)],
           \A o \in Objects : store'[o] = store[o] \/ Touched(store, store', o) \subseteq keys,
           UNCHANGED <<source, worker, retry, failures>>,
           {cursor, page}' \subseteq -1 .. Len(log), synced' \in BOOLEAN,
           StoreFollowsCursor'
    PROVE  LoopInv'
<1>1. queue' \in Seq(Parents) /\ OnceQueued' /\ ToSet(queue') = ToSet(queue) \cup keys
  BY EnqueueExtends
<1>2. log' = log /\ compacted' = compacted /\ current' = current /\ view' = view
      /\ applied' = applied /\ retry' = retry /\ failures' = failures
  BY DEF source, worker
<1>3. LoopTypeOK'
  BY <1>1, <1>2 DEF LoopTypeOK
<1>4. OneAtATime'
  BY <1>2 DEF OneAtATime
<1>5. \A p \in Parents : p \in keys \/ Members(p)' = Members(p)
  BY <1>2, MembersStay
<1>6. ReadsAreFresh'
  BY <1>1, <1>2, <1>5 DEF ReadsAreFresh, LoopTypeOK
<1>7. NothingIsForgotten'
  BY <1>1, <1>2, <1>5 DEF NothingIsForgotten
<1> QED BY <1>1, <1>3, <1>4, <1>6, <1>7

----------------------------------------------------------------------------
(* The world and the stream *)

\* A change of the world is not seen before it is streamed.
LEMMA ChangeInv ==
    ASSUME LoopInv, NEW o \in Objects, NEW q \in Parents \cup {Unmapped, Gone}, Change(o, q)
    PROVE  LoopInv'
<1> DEFINE c == [object |-> o, parent |-> q]
<1>1. log' = Append(log, c) /\ c \in [object : Objects, parent : Parents \cup {Unmapped, Gone}]
  BY DEF Change
<1>2. /\ cursor' = cursor /\ page' = page /\ store' = store /\ synced' = synced
      /\ queue' = queue /\ current' = current /\ view' = view /\ applied' = applied
      /\ compacted' = compacted /\ retry' = retry /\ failures' = failures
  BY DEF Change, stream, worker
<1> HIDE DEF c
<1>3. /\ log' \in Seq([object : Objects, parent : Parents \cup {Unmapped, Gone}])
      /\ Len(log') = Len(log) + 1 /\ Len(log) \in Nat
      /\ \A i \in 0 .. Len(log) : ParentOf(i)' = ParentOf(i)
      /\ \A n \in 0 .. Len(log) : Mapped(n)' = Mapped(n)
  BY <1>1, LogGrows
<1>4. LoopTypeOK'
  BY <1>2, <1>3 DEF LoopTypeOK
<1>5. StoreFollowsCursor'
  BY <1>2, <1>3 DEF StoreFollowsCursor, LoopTypeOK
<1>6. \A p : Members(p)' = Members(p)
  BY <1>2, <1>3 DEF Members, LoopTypeOK
<1>7. OnceQueued' /\ OneAtATime' /\ ReadsAreFresh' /\ NothingIsForgotten'
  BY <1>2, <1>6 DEF OnceQueued, OneAtATime, ReadsAreFresh, NothingIsForgotten
<1> QED BY <1>4, <1>5, <1>7

\* The steps that leave the store and the queue as they are.
LEMMA QuietInv ==
    ASSUME LoopInv, Compact \/ List \/ CursorRejected \/ StartOver
    PROVE  LoopInv'
<1>1. /\ log' = log /\ store' = store /\ synced' = synced /\ queue' = queue
      /\ current' = current /\ view' = view /\ applied' = applied /\ retry' = retry
  BY DEF Compact, List, CursorRejected, StartOver, source, stream, worker
<1>2. LoopTypeOK'
  <2>1. Len(log) \in Nat
    BY DEF LoopTypeOK
  <2> QED BY <1>1, <2>1 DEF LoopTypeOK, Compact, List, CursorRejected, StartOver, source, stream
<1>3. \A p : Members(p)' = Members(p)
  BY <1>1 DEF Members, ParentOf
<1>4. StoreFollowsCursor'
  <2>1. cursor' = cursor \/ cursor' = -1
    BY DEF Compact, List, CursorRejected, StartOver, stream
  <2>2. Mapped(cursor)' = Mapped(cursor')
    BY <1>1 DEF Mapped, LastChange, ParentOf
  <2> QED BY <1>1, <2>1, <2>2 DEF StoreFollowsCursor
<1>5. OnceQueued' /\ OneAtATime' /\ ReadsAreFresh' /\ NothingIsForgotten'
  BY <1>1, <1>3 DEF OnceQueued, OneAtATime, ReadsAreFresh, NothingIsForgotten
<1> QED BY <1>2, <1>4, <1>5

\* A page replaces the store and wakes every parent it had or has members of.
LEMMA ReplaceInv ==
    ASSUME LoopInv, Replace
    PROVE  LoopInv'
<1> DEFINE keys == UNION {Touched(store, store', o) : o \in Objects}
<1>1. Enqueue(keys) /\ keys \in SUBSET Parents
  BY DEF Replace, Touched
<1>2. \A o \in Objects : Touched(store, store', o) \subseteq keys
  OBVIOUS
<1>3. page \in 0 .. Len(log) /\ Len(log) \in Nat
  BY DEF Replace, LoopTypeOK
<1>4. store' \in [Objects -> 0 .. Len(log)]
  <2>1. Mapped(page) \in [Objects -> 0 .. page]
    BY <1>3, MappedType
  <2> QED BY <1>3, <2>1 DEF Replace
<1>5. UNCHANGED <<source, worker, retry, failures>> /\ log' = log
  BY DEF Replace, source
<1>6. {cursor, page}' \subseteq -1 .. Len(log) /\ synced' \in BOOLEAN
  BY <1>3 DEF Replace, ResumeFrom
<1>7. StoreFollowsCursor'
  <2>1. Mapped(cursor)' = Mapped(cursor')
    BY <1>5 DEF Mapped, LastChange, ParentOf
  <2> QED BY <2>1 DEF Replace, ResumeFrom, StoreFollowsCursor
<1> HIDE DEF keys
<1> QED BY <1>1, <1>2, <1>4, <1>5, <1>6, <1>7, StoreStep

\* A frame moves one object and wakes the parents it touches.
LEMMA FrameInv ==
    ASSUME LoopInv, Frame
    PROVE  LoopInv'
<1> DEFINE o == log[cursor + 1].object
           keys == Touched(store, store', o)
<1>1. /\ cursor \in 0 .. Len(log) - 1 /\ cursor' = cursor + 1 /\ Len(log) \in Nat
      /\ log[cursor + 1] \in [object : Objects, parent : Parents \cup {Unmapped, Gone}]
  <2>1. cursor \in -1 .. Len(log) /\ Len(log) \in Nat
    BY DEF LoopTypeOK
  <2>2. cursor \in 0 .. Len(log) - 1 /\ cursor' = cursor + 1
    BY <2>1 DEF Frame
  <2>3. cursor + 1 \in 1 .. Len(log)
    BY <2>1, <2>2
  <2>4. log \in Seq([object : Objects, parent : Parents \cup {Unmapped, Gone}])
    BY DEF LoopTypeOK
  <2>5. log[cursor + 1] \in [object : Objects, parent : Parents \cup {Unmapped, Gone}]
    BY <2>3, <2>4, ElementOfSeq
  <2> QED BY <2>1, <2>2, <2>5
<1>2. o \in Objects
  BY <1>1
<1>3. store' = [store EXCEPT ![o] = Mapped(cursor + 1)[o]] /\ Enqueue(keys)
  BY DEF Frame
<1>4. UNCHANGED <<source, worker, retry, failures>> /\ log' = log /\ page' = page /\ synced' = synced
  BY DEF Frame, source
<1>5. keys \in SUBSET Parents
  BY DEF Touched
<1>6. store' = Mapped(cursor + 1)
  <2>1. store = Mapped(cursor)
    BY <1>1 DEF StoreFollowsCursor
  <2>2. ASSUME NEW x \in Objects, x # o PROVE Mapped(cursor + 1)[x] = Mapped(cursor)[x]
    <3>1. LastChange(x, cursor + 1) = LastChange(x, cursor)
      BY <1>1, <2>2, LastChangeStays
    <3> QED BY <3>1 DEF Mapped
  <2>3. DOMAIN Mapped(cursor) = Objects /\ DOMAIN Mapped(cursor + 1) = Objects
        /\ Mapped(cursor + 1) = [x \in Objects |-> Mapped(cursor + 1)[x]]
    BY DEF Mapped
  <2>4. store' = [x \in Objects |-> IF x = o THEN Mapped(cursor + 1)[o] ELSE Mapped(cursor)[x]]
    BY <1>3, <2>1, <2>3
  <2> HIDE DEF o
  <2> QED BY <2>2, <2>3, <2>4
<1>7. store' \in [Objects -> 0 .. Len(log)]
  <2>1. Mapped(cursor + 1) \in [Objects -> 0 .. cursor + 1]
    BY <1>1, MappedType
  <2> QED BY <1>1, <1>6, <2>1
<1>8. \A x \in Objects : store'[x] = store[x] \/ Touched(store, store', x) \subseteq keys
  <2>1. \A x \in Objects : x = o \/ store'[x] = store[x]
    BY <1>2, <1>3 DEF LoopTypeOK
  <2> QED BY <2>1
<1>9. {cursor, page}' \subseteq -1 .. Len(log) /\ synced' \in BOOLEAN
  BY <1>1, <1>4 DEF LoopTypeOK
<1>10. StoreFollowsCursor'
  <2>1. Mapped(cursor)' = Mapped(cursor')
    BY <1>4 DEF Mapped, LastChange, ParentOf
  <2> QED BY <1>1, <1>6, <2>1 DEF StoreFollowsCursor
<1> HIDE DEF keys
<1> QED BY <1>3, <1>4, <1>5, <1>7, <1>8, <1>9, <1>10, StoreStep

----------------------------------------------------------------------------
(* The worker and its timers *)

\* What the worker's steps leave alone.
LEMMA WorldStays ==
    ASSUME LoopInv, UNCHANGED <<source, stream>>
    PROVE  /\ \A p : Members(p)' = Members(p)
           /\ StoreFollowsCursor'
<1>1. log' = log /\ cursor' = cursor /\ store' = store
  BY DEF source, stream
<1>2. \A p : Members(p)' = Members(p)
  BY <1>1 DEF Members, ParentOf
<1>3. Mapped(cursor)' = Mapped(cursor)
  BY <1>1 DEF Mapped, LastChange, ParentOf
<1> QED BY <1>1, <1>2, <1>3 DEF StoreFollowsCursor

\* A parent leaves the queue to be reconciled.
LEMMA TakeInv ==
    ASSUME LoopInv, Take
    PROVE  LoopInv'
<1>1. /\ Head(queue) \in Parents /\ queue' \in Seq(Parents) /\ OnceQueued'
      /\ ToSet(queue) \subseteq ToSet(queue') \cup {Head(queue)}
  BY TakeLeaves DEF Take
<1>2. /\ current = {} /\ view = {} /\ current' = {Head(queue)} /\ view' = {}
      /\ applied' = applied /\ retry' = retry /\ UNCHANGED <<source, stream, failures>>
  BY DEF Take, OneAtATime
<1>3. (\A p : Members(p)' = Members(p)) /\ StoreFollowsCursor'
  BY <1>2, WorldStays
<1>4. LoopTypeOK'
  BY <1>1, <1>2 DEF LoopTypeOK, source, stream
<1>5. OneAtATime' /\ ReadsAreFresh'
  BY <1>2 DEF OneAtATime, ReadsAreFresh
<1>6. NothingIsForgotten'
  BY <1>1, <1>2, <1>3 DEF NothingIsForgotten
<1> QED BY <1>1, <1>3, <1>4, <1>5, <1>6

\* A reconcile reads what is so, and applies what it read.
LEMMA ReconcileInv ==
    ASSUME LoopInv, NEW p \in Parents, Read(p) \/ Succeed(p) \/ Fail(p)
    PROVE  LoopInv'
<1>1. /\ UNCHANGED <<source, stream, queue>> /\ current = {p}
      /\ queue' = queue
  BY DEF Read, Succeed, Fail, OneAtATime
<1>2. (\A q : Members(q)' = Members(q)) /\ StoreFollowsCursor'
  BY <1>1, WorldStays
<1>3. OnceQueued'
  BY <1>1 DEF OnceQueued
<1>4. LoopTypeOK'
  <2>1. UNCHANGED <<log, compacted, cursor, page, store, synced, queue>>
    BY <1>1 DEF source, stream
  <2>2. Members(p) \in SUBSET Nat
    BY MembersType
  <2>3. /\ current' \subseteq Parents /\ view' \subseteq SUBSET Nat
        /\ applied' \in [Parents -> SUBSET Nat] /\ failures' \in 0 .. MaxFailures
    <3>1. CASE Read(p)
      BY <2>2, <3>1 DEF Read, LoopTypeOK
    <3>2. CASE Succeed(p)
      <4>1. PICK members \in view : applied' = [applied EXCEPT ![p] = members]
        BY <3>2 DEF Succeed
      <4>2. members \in SUBSET Nat
        BY DEF LoopTypeOK
      <4>3. applied' \in [Parents -> SUBSET Nat]
        BY <4>1, <4>2 DEF LoopTypeOK
      <4> QED BY <3>2, <4>3 DEF Succeed, LoopTypeOK
    <3>3. CASE Fail(p)
      BY <3>3 DEF Fail, LoopTypeOK
    <3> QED BY <3>1, <3>2, <3>3
  <2>4. retry' \in [Parents -> BOOLEAN]
    BY DEF Read, Succeed, Fail, LoopTypeOK
  <2> QED BY <2>1, <2>3, <2>4 DEF LoopTypeOK
<1>5. OneAtATime' /\ ReadsAreFresh'
  BY <1>1, <1>2 DEF Read, Succeed, Fail, OneAtATime, ReadsAreFresh
<1>6. NothingIsForgotten'
  <2> SUFFICES ASSUME NEW q \in Parents
               PROVE  \/ Members(q)' = applied'[q]
                      \/ q \in ToSet(queue') \/ retry'[q]
                      \/ q \in current' /\ view' \subseteq {Members(q)'}
    BY DEF NothingIsForgotten
  <2>1. CASE q # p
    <3>1. applied'[q] = applied[q] /\ (retry[q] => retry'[q]) /\ q \notin current
      BY <1>1, <2>1 DEF Read, Succeed, Fail, LoopTypeOK
    <3> QED BY <1>1, <1>2, <3>1 DEF NothingIsForgotten
  <2>2. CASE q = p /\ Read(p)
    BY <1>1, <1>2, <2>2 DEF Read
  <2>3. CASE q = p /\ Fail(p)
    BY <2>3 DEF Fail, LoopTypeOK
  <2>4. CASE q = p /\ Succeed(p)
    <3>1. PICK members \in view : applied' = [applied EXCEPT ![p] = members]
      BY <2>4 DEF Succeed
    <3>2. p \in ToSet(queue) \/ members = Members(p)
      BY <1>1 DEF ReadsAreFresh
    <3>3. applied'[p] = members
      BY <3>1 DEF LoopTypeOK
    <3> QED BY <1>1, <1>2, <2>4, <3>2, <3>3
  <2> QED BY <2>1, <2>2, <2>3, <2>4
<1> QED BY <1>2, <1>3, <1>4, <1>5, <1>6

\* A timer puts a parent back into the queue.
LEMMA TimerInv ==
    ASSUME LoopInv, Resync \/ \E p \in Parents : RetryDue(p)
    PROVE  LoopInv'
<1>1. PICK keys \in SUBSET Parents :
         /\ Enqueue(keys)
         /\ \/ retry' = retry
            \/ \E p \in keys : retry' = [retry EXCEPT ![p] = FALSE]
  <2>1. CASE Resync
    <3>1. {p \in Parents : Members(p) # {}} \in SUBSET Parents
      OBVIOUS
    <3> QED BY <2>1, <3>1 DEF Resync
  <2>2. CASE \E p \in Parents : RetryDue(p)
    <3>1. PICK p \in Parents : RetryDue(p)
      BY <2>2
    <3>2. {p} \in SUBSET Parents /\ p \in {p} /\ Enqueue({p}) /\ retry' = [retry EXCEPT ![p] = FALSE]
      BY <3>1 DEF RetryDue
    <3> QED BY <3>2
  <2> QED BY <2>1, <2>2
<1>2. UNCHANGED <<source, stream, current, view, applied, failures>>
  BY DEF Resync, RetryDue, worker
<1>3. queue' \in Seq(Parents) /\ OnceQueued' /\ ToSet(queue') = ToSet(queue) \cup keys
  BY <1>1, EnqueueExtends
<1>4. (\A p : Members(p)' = Members(p)) /\ StoreFollowsCursor'
  BY <1>2, WorldStays
<1>5. retry' \in [Parents -> BOOLEAN] /\ \A p \in Parents \ keys : retry'[p] = retry[p]
  BY <1>1 DEF LoopTypeOK
<1>6. LoopTypeOK'
  BY <1>2, <1>3, <1>5 DEF LoopTypeOK, source, stream
<1>7. OneAtATime' /\ ReadsAreFresh'
  BY <1>2, <1>3, <1>4 DEF OneAtATime, ReadsAreFresh
<1>8. NothingIsForgotten'
  BY <1>2, <1>3, <1>4, <1>5 DEF NothingIsForgotten
<1> QED BY <1>3, <1>4, <1>6, <1>7, <1>8

----------------------------------------------------------------------------

LEMMA LoopStarts == LoopInit => LoopInv
<1> SUFFICES ASSUME LoopInit PROVE LoopInv
  OBVIOUS
<1>1. LoopTypeOK
  <2>1. log = <<>> /\ Len(log) = 0
    BY DEF LoopInit
  <2>2. compacted \in 0 .. Len(log) /\ {cursor, page} \subseteq -1 .. Len(log)
    <3>1. compacted = 0 /\ cursor = -1 /\ page = -1
      BY DEF LoopInit
    <3>2. -1 \in -1 .. 0 /\ 0 \in 0 .. 0
      OBVIOUS
    <3> QED BY <2>1, <3>1, <3>2
  <2>6. failures \in 0 .. MaxFailures
    <3>1. MaxFailures \in Nat /\ failures = 0
      BY DEF LoopInit, LoopAssumption
    <3> QED BY <3>1
  <2>5. store \in [Objects -> 0 .. Len(log)]
    <3>1. 0 \in 0 .. Len(log) /\ store = [o \in Objects |-> 0]
      BY <2>1 DEF LoopInit
    <3> QED BY <3>1
  <2>7. synced \in BOOLEAN
    BY DEF LoopInit
  <2>3. /\ log \in Seq([object : Objects, parent : Parents \cup {Unmapped, Gone}])
        /\ queue \in Seq(Parents)
    BY DEF LoopInit
  <2>4. /\ current \subseteq Parents /\ view \subseteq SUBSET Nat
        /\ retry \in [Parents -> BOOLEAN] /\ applied \in [Parents -> SUBSET Nat]
    BY DEF LoopInit
  <2> QED BY <2>2, <2>3, <2>4, <2>5, <2>6, <2>7 DEF LoopTypeOK
<1>2. \A p \in Parents : Members(p) = {}
  BY DEF LoopInit, Members, ParentOf
<1>3. NothingIsForgotten
  BY <1>2 DEF LoopInit, NothingIsForgotten
<1>4. StoreFollowsCursor /\ OnceQueued /\ OneAtATime /\ ReadsAreFresh
  BY DEF LoopInit, StoreFollowsCursor, OnceQueued, OneAtATime, ReadsAreFresh
<1> QED BY <1>1, <1>3, <1>4

(***************************************************************************)
(* Whatever is missed, relisted, raised or coalesced, the store is the     *)
(* world as of the cursor, a parent is queued once and reconciled alone,   *)
(* and a parent whose members differ from what its last good reconcile saw *)
(* is queued, waits for its retry or is being reconciled with what is so   *)
(* (ObjectStore, WorkQueue, RetryScheduler and the worker of the loop).    *)
(***************************************************************************)
THEOREM NothingIsLost == LoopSpec => []LoopInv
<1>1. LoopInv /\ [LoopNext]_loopVars => LoopInv'
  <2> SUFFICES ASSUME LoopInv, [LoopNext]_loopVars PROVE LoopInv'
    OBVIOUS
  <2>1. ASSUME NEW o \in Objects, NEW p \in Parents \cup {Unmapped, Gone}, Change(o, p) PROVE LoopInv'
    BY <2>1, ChangeInv
  <2>2. CASE Compact \/ List \/ CursorRejected \/ StartOver
    BY <2>2, QuietInv
  <2>3. CASE Replace
    BY <2>3, ReplaceInv
  <2>4. CASE Frame
    BY <2>4, FrameInv
  <2>5. CASE Take
    BY <2>5, TakeInv
  <2>6. ASSUME NEW p \in Parents, Read(p) \/ Succeed(p) \/ Fail(p) PROVE LoopInv'
    BY <2>6, ReconcileInv
  <2>7. CASE Resync \/ \E p \in Parents : RetryDue(p)
    BY <2>7, TimerInv
  <2>8. CASE UNCHANGED loopVars
    <3>1. UNCHANGED <<source, stream, queue, current, view, applied, retry, failures>>
      BY <2>8 DEF loopVars, worker
    <3>2. (\A p : Members(p)' = Members(p)) /\ StoreFollowsCursor'
      BY <3>1, WorldStays
    <3>3. LoopTypeOK'
      BY <3>1 DEF LoopTypeOK, source, stream
    <3>4. OnceQueued' /\ OneAtATime' /\ ReadsAreFresh' /\ NothingIsForgotten'
      BY <3>1, <3>2 DEF OnceQueued, OneAtATime, ReadsAreFresh, NothingIsForgotten
    <3> QED BY <3>2, <3>3, <3>4
  <2> QED BY <2>1, <2>2, <2>3, <2>4, <2>5, <2>6, <2>7, <2>8 DEF LoopNext, StreamStep, WorkerStep
<1> QED BY <1>1, LoopStarts, PTL DEF LoopSpec

HIDE LoopAssumption DEF LoopInv

(***************************************************************************)
(* Registration                                                            *)
(***************************************************************************)

USE RegistrationAssumption DEF HubInv

----------------------------------------------------------------------------
(* Types *)

\* The snapshots on their way, and what they say.
LEMMA Messages ==
    ASSUME TypeOK
    PROVE  \A m \in net :
              /\ m.from \in Reporters /\ m.number \in Nat
              /\ m.cells \in SUBSET (Cells \X (0 .. infos))
              /\ \A x \in m.cells : x[1] \in Cells /\ x[2] \in 0 .. infos
BY DEF TypeOK, Snapshots

\* The infos of the world and of the hub are numbers.
LEMMA Infos ==
    ASSUME TypeOK, NEW c \in Cells
    PROVE  /\ infos \in Nat
           /\ world[c] \in Holder /\ held[c] \in Holder
           /\ world[c].by \in Reporters \cup {NoOne} /\ world[c].info \in 0 .. infos
           /\ held[c].by \in Reporters \cup {NoOne} /\ held[c].info \in 0 .. infos
BY DEF TypeOK, Holder

\* What a reporter sees are infos of its cells.
LEMMA ObservedType ==
    ASSUME TypeOK, NEW r
    PROVE  /\ Observed(r) \in SUBSET (Cells \X (0 .. infos))
           /\ \A x \in Observed(r) : x[1] \in Cells /\ world[x[1]].by = r /\ x[2] = world[x[1]].info
BY Infos DEF Observed

\* What a snapshot says of a cell it names is one of its entries.
LEMMA InfoOfIs ==
    ASSUME NEW S, NEW c, \E x \in S : x[1] = c
    PROVE  \E x \in S : x[1] = c /\ InfoOf(S, c) = x[2]
BY DEF InfoOf

----------------------------------------------------------------------------
(* The deployments and their reporters *)

\* A new info is greater than every one there was.
LEMMA WorldChangesInv ==
    ASSUME HubInv, NEW c \in Cells, WorldChanges(c)
    PROVE  HubInv'
<1>1. /\ UNCHANGED <<alive, seq, sending, net, crashes, known, held, listed, todo, seen, fleet, faults>>
  BY DEF WorldChanges, reporter, hub, poller
<1>2. infos \in Nat /\ infos' \in infos .. MaxInfos /\ infos' \in Nat
  BY DEF WorldChanges, TypeOK
<1>3. /\ world' \in [Cells -> Holder'] /\ held' \in [Cells -> Holder']
  <2>1. Nothing \in Holder' /\ \A r \in Reporters : infos' \in Nat => [by |-> r, info |-> infos'] \in Holder'
    BY <1>2 DEF Nothing, Holder
  <2>2. \A h \in Holder : h \in Holder'
    BY <1>2 DEF Holder
  <2>3. world \in [Cells -> Holder'] /\ held \in [Cells -> Holder']
    BY <2>2 DEF TypeOK
  <2> QED BY <1>1, <1>2, <2>1, <2>3 DEF WorldChanges
<1>4. net' \subseteq Snapshots'
  <2>1. (0 .. infos) \subseteq (0 .. infos')
    BY <1>2
  <2> QED BY <1>1, <2>1 DEF TypeOK, Snapshots
<1>5. TypeOK'
  <2>1. {listed', seen', fleet'} \subseteq [Cells -> 0 .. infos']
    BY <1>1, <1>2 DEF TypeOK
  <2> QED BY <1>1, <1>2, <1>3, <1>4, <2>1 DEF TypeOK
<1>6. WorldIsNewest'
  <2> SUFFICES ASSUME NEW d \in Cells, world'[d].by # NoOne
               PROVE  /\ held[d].info <= world'[d].info
                      /\ \A m \in net : \A x \in m.cells : x[1] = d => x[2] <= world'[d].info
    BY <1>1 DEF WorldIsNewest
  <2>1. CASE world'[d] = world[d]
    BY <2>1 DEF WorldIsNewest
  <2>2. CASE world'[d] # world[d]
    <3>1. world'[d].info = infos' /\ infos' = infos + 1
      BY <2>2 DEF WorldChanges, TypeOK, Nothing
    <3> QED BY <1>2, <3>1, Messages, Infos
  <2> QED BY <2>1, <2>2
<1>7. HoldersAreKnown' /\ AnswersCome' /\ NumberedOnce' /\ LaterIsNewer' /\ SeenIsRunning'
  BY <1>1 DEF HoldersAreKnown, AnswersCome, NumberedOnce, LaterIsNewer, SeenIsRunning
<1>8. FreshIsNewer'
  BY <1>1 DEF FreshIsNewer, IsLate
<1> QED BY <1>5, <1>6, <1>7, <1>8

\* A snapshot is made of what is newest and gets the next number.
LEMMA SendInv ==
    ASSUME HubInv, NEW r \in Reporters, Send(r)
    PROVE  HubInv'
<1> DEFINE new == [from |-> r, number |-> seq[r] + 1, cells |-> Observed(r), since |-> {}]
<1>1. /\ seq' = [seq EXCEPT ![r] = @ + 1] /\ seq[r] \in Nat /\ seq'[r] = seq[r] + 1
      /\ seq' \in [Reporters -> Nat] /\ \A q \in Reporters : q # r => seq'[q] = seq[q]
  BY DEF Send, TypeOK
<1>2. net' = net \cup {new} /\ sending' = sending \cup {r} /\ r \in alive
  BY <1>1 DEF Send
<1>3. UNCHANGED <<world, infos, alive, crashes, known, held, listed, todo, seen, fleet, faults>>
  BY DEF Send, outside, hub, poller
<1>4. /\ new.from = r /\ new.number = seq[r] + 1 /\ new \in Snapshots
      /\ \A x \in new.cells : x[1] \in Cells /\ world[x[1]].by = r /\ x[2] = world[x[1]].info
  BY <1>1, ObservedType DEF Snapshots
<1> HIDE DEF new
<1>5. /\ \A m \in net : m.from \in Reporters /\ m.number \in Nat /\ m.number <= seq[m.from]
      /\ seq \in [Reporters -> Nat]
  BY Messages DEF NumberedOnce, TypeOK
<1>6. TypeOK'
  <2>1. Snapshots' = Snapshots /\ Holder' = Holder
    BY <1>3 DEF Snapshots, Holder
  <2> QED BY <1>1, <1>2, <1>3, <1>4, <2>1 DEF TypeOK
<1>7. AnswersCome'
  <2> SUFFICES ASSUME NEW q \in sending' PROVE \E m \in net' : m.from = q /\ m.number = seq'[q]
    BY DEF AnswersCome
  <2>1. CASE q = r
    BY <1>1, <1>2, <1>4, <2>1
  <2>2. CASE q # r
    <3>1. q \in sending /\ q \in Reporters
      BY <1>2, <2>2 DEF TypeOK
    <3>2. PICK m \in net : m.from = q /\ m.number = seq[q]
      BY <3>1 DEF AnswersCome
    <3> QED BY <1>1, <1>2, <2>2, <3>1, <3>2
  <2> QED BY <2>1, <2>2
<1>8. \A m \in net : m.from = r => m.number < new.number
  BY <1>1, <1>4, <1>5
<1>9. NumberedOnce'
  <2>1. \A m \in net' : m.number <= seq'[m.from]
    BY <1>1, <1>2, <1>4, <1>5
  <2>2. ASSUME NEW m \in net', NEW n \in net', m.from = n.from, m.number = n.number
        PROVE  m = n
    <3>1. CASE m \in net /\ n \in net
      BY <2>2, <3>1 DEF NumberedOnce
    <3>2. CASE m = new \/ n = new
      BY <1>2, <1>4, <1>5, <1>8, <2>2, <3>2
    <3> QED BY <1>2, <3>1, <3>2
  <2> QED BY <2>1, <2>2 DEF NumberedOnce
<1>10. WorldIsNewest'
  <2> SUFFICES ASSUME NEW d \in Cells, world[d].by # NoOne
               PROVE  /\ held[d].info <= world[d].info
                      /\ \A m \in net' : \A x \in m.cells : x[1] = d => x[2] <= world[d].info
    BY <1>3 DEF WorldIsNewest
  <2>1. \A x \in new.cells : x[1] = d => x[2] <= world[d].info
    BY <1>4, Infos
  <2> QED BY <1>2, <2>1 DEF WorldIsNewest
<1>11. LaterIsNewer'
  <2> SUFFICES ASSUME NEW m \in net', NEW n \in net', m.from = n.from, m.number < n.number,
                      NEW x \in m.cells, NEW y \in n.cells, x[1] = y[1]
               PROVE  x[2] <= y[2]
    BY DEF LaterIsNewer
  <2>1. CASE m \in net /\ n \in net
    BY <2>1 DEF LaterIsNewer
  <2>2. m # new
    BY <1>1, <1>2, <1>4, <1>5
  <2>3. CASE m \in net /\ n = new
    BY <1>4, <2>3 DEF WorldIsNewest
  <2> QED BY <1>2, <2>1, <2>2, <2>3
<1>12. FreshIsNewer'
  <2> SUFFICES ASSUME NEW m \in net', ~ (m.number <= known[m.from]),
                      NEW x \in m.cells, held[x[1]].by = m.from
               PROVE  held[x[1]].info <= x[2]
    BY <1>3 DEF FreshIsNewer, IsLate
  <2>1. CASE m = new
    BY <1>4, <2>1 DEF WorldIsNewest
  <2>2. CASE m \in net
    BY <2>2 DEF FreshIsNewer, IsLate
  <2> QED BY <1>2, <2>1, <2>2
<1>13. HoldersAreKnown' /\ SeenIsRunning'
  BY <1>3 DEF HoldersAreKnown, SeenIsRunning
<1> QED BY <1>6, <1>7, <1>9, <1>10, <1>11, <1>12, <1>13

(***************************************************************************)
(* Reporters that stop waiting and snapshots that are lost: what is left   *)
(* was there before, and nobody waits for what is lost.                    *)
(***************************************************************************)
LEMMA FewerMessages ==
    ASSUME HubInv, net' \subseteq net, UNCHANGED <<world, infos, listed, todo, seen, fleet, known, held>>,
           sending' \subseteq sending \cap alive', alive' \subseteq Reporters,
           crashes' \in 0 .. MaxCrashes, faults' \in 0 .. MaxFaults, faults' = faults \/ faults' # 0,
           seq' \in [Reporters -> Nat], \A m \in net' : seq'[m.from] = seq[m.from],
           \A r \in sending' : seq'[r] = seq[r] /\ \A m \in net : m.from = r => m \in net'
    PROVE  HubInv'
<1>1. TypeOK'
  <2>1. Snapshots' = Snapshots /\ Holder' = Holder
    BY DEF Snapshots, Holder
  <2> QED BY <2>1 DEF TypeOK
<1>2. AnswersCome'
  <2> SUFFICES ASSUME NEW r \in sending' PROVE \E m \in net' : m.from = r /\ m.number = seq'[r]
    BY DEF AnswersCome
  <2>1. PICK m \in net : m.from = r /\ m.number = seq[r]
    BY DEF AnswersCome
  <2> QED BY <2>1
<1>3. NumberedOnce'
  BY DEF NumberedOnce
<1>4. WorldIsNewest' /\ LaterIsNewer'
  BY DEF WorldIsNewest, LaterIsNewer
<1>5. FreshIsNewer'
  BY DEF FreshIsNewer, IsLate
<1>6. HoldersAreKnown' /\ SeenIsRunning'
  BY DEF HoldersAreKnown, SeenIsRunning
<1> QED BY <1>1, <1>2, <1>3, <1>4, <1>5, <1>6

\* A send is given up; a process dies or starts anew.
LEMMA ReporterInv ==
    ASSUME HubInv, NEW r \in Reporters, SendTimesOut(r) \/ Crash(r) \/ Restart(r)
    PROVE  HubInv'
<1>1. UNCHANGED <<world, infos, listed, todo, seen, fleet, known, held>>
  BY DEF SendTimesOut, Crash, Restart, outside, hub, poller
<1>2. /\ sending \subseteq alive /\ alive \subseteq Reporters /\ seq \in [Reporters -> Nat]
      /\ crashes \in 0 .. MaxCrashes /\ faults \in 0 .. MaxFaults
      /\ MaxCrashes \in Nat /\ MaxFaults \in Nat
      /\ \A m \in net : m.from \in Reporters
  BY Messages DEF TypeOK
<1>3. CASE SendTimesOut(r)
  <2>1. /\ net' \subseteq net /\ \A m \in net : m.from # r => m \in net'
        /\ sending' = sending \ {r}
    BY <1>3 DEF SendTimesOut
  <2>2. faults' = faults + 1 /\ faults' \in 0 .. MaxFaults
    BY <1>2, <1>3 DEF SendTimesOut, Fault
  <2>3. UNCHANGED <<alive, seq, crashes>>
    BY <1>3 DEF SendTimesOut
  <2>4. faults' # 0
    BY <1>2, <2>2
  <2>5. sending' \subseteq sending \cap alive'
    BY <1>2, <2>1, <2>3
  <2> QED BY <1>1, <1>2, <2>1, <2>2, <2>3, <2>4, <2>5, FewerMessages
<1>4. CASE Crash(r)
  <2>1. UNCHANGED <<seq, net, faults>> /\ alive' = alive \ {r} /\ sending' = sending \ {r}
        /\ crashes' \in 0 .. MaxCrashes
    BY <1>2, <1>4 DEF Crash
  <2>2. sending' \subseteq sending \cap alive' /\ alive' \subseteq Reporters
    BY <1>2, <2>1
  <2> QED BY <1>1, <1>2, <2>1, <2>2, FewerMessages
<1>5. CASE Restart(r)
  <2>1. /\ UNCHANGED <<sending, crashes, faults>> /\ alive' = alive \cup {r} /\ r \notin alive
        /\ seq' = [seq EXCEPT ![r] = 0] /\ net' = {m \in net : m.from # r}
    BY <1>5 DEF Restart
  <2>2. seq' \in [Reporters -> Nat] /\ \A q \in Reporters : q # r => seq'[q] = seq[q]
    BY <1>2, <2>1
  <2>3. r \notin sending
    BY <1>2, <2>1
  <2>4. /\ net' \subseteq net /\ \A m \in net' : seq'[m.from] = seq[m.from]
        /\ \A q \in sending' : seq'[q] = seq[q] /\ \A m \in net : m.from = q => m \in net'
    BY <1>2, <2>1, <2>2, <2>3
  <2>5. sending' \subseteq sending \cap alive' /\ alive' \subseteq Reporters
    BY <1>2, <2>1
  <2> QED BY <1>1, <1>2, <2>1, <2>2, <2>4, <2>5, FewerMessages
<1> QED BY <1>3, <1>4, <1>5

----------------------------------------------------------------------------
(* The hub *)

\* A snapshot that is taken in moves the cells of its reporter forward.
LEMMA TakeInMoves ==
    ASSUME HubInv, NEW m \in net, ~ IsLate(m), ~ Conflicts(m.from, m.cells), TakeIn(m),
           NEW c \in Cells
    PROVE  \/ /\ held'[c].by = m.from /\ held[c].by \in {NoOne, m.from}
              /\ \E x \in m.cells : x[1] = c /\ held'[c].info = x[2]
              /\ held'[c].info >= held[c].info /\ held'[c] \in Holder
           \/ held'[c] = Nothing
           \/ held'[c] = held[c] /\ held[c].by # m.from
<1>1. CASE \E x \in m.cells : x[1] = c
  <2>1. held'[c] = [by |-> m.from, info |-> InfoOf(m.cells, c)]
    BY <1>1 DEF TakeIn
  <2>2. PICK x \in m.cells : x[1] = c /\ InfoOf(m.cells, c) = x[2]
    BY <1>1, InfoOfIs
  <2>3. held[c].by \in {NoOne, m.from}
    BY <2>2 DEF Conflicts
  <2>4. x[2] \in 0 .. infos /\ m.from \in Reporters
    BY Messages
  <2>5. held[c].by = NoOne => held[c].info = 0
    BY DEF HoldersAreKnown, Nothing
  <2>6. held[c].by = m.from => held[c].info <= x[2]
    BY <2>2 DEF FreshIsNewer
  <2>7. held[c].info <= x[2] /\ held[c].info \in Nat
    BY <2>3, <2>4, <2>5, <2>6, Infos
  <2> QED BY <2>1, <2>2, <2>3, <2>4, <2>7, Infos DEF Holder
<1>2. CASE ~ \E x \in m.cells : x[1] = c
  BY <1>2 DEF TakeIn
<1> QED BY <1>1, <1>2

\* What is noted of a snapshot that another one overtakes is not what it says.
LEMMA OlderSays ==
    ASSUME NEW n \in Snapshots, NEW r \in Reporters
    PROVE  /\ Older(n, r) \in Snapshots
           /\ Older(n, r).from = n.from /\ Older(n, r).number = n.number /\ Older(n, r).cells = n.cells
BY DEF Older, Snapshots

\* The hub answers a snapshot, whatever it makes of it.
LEMMA IngestInv ==
    ASSUME HubInv, NEW m \in net, Ingest(m)
    PROVE  HubInv'
<1>1. /\ sending' \subseteq sending
      /\ m.from \in sending' => m.number # seq[m.from]
  BY DEF Ingest
<1>2. UNCHANGED <<world, infos, alive, seq, crashes, listed, todo, seen, fleet, faults>>
  BY DEF Ingest, outside, poller
<1>3. m.from \in Reporters /\ m.number \in Nat
  BY Messages
<1>4. /\ net' \subseteq Snapshots
      /\ \A n \in net' : \E o \in net \ {m} :
             n.from = o.from /\ n.number = o.number /\ n.cells = o.cells
      /\ \A o \in net \ {m} : \E n \in net' : n.from = o.from /\ n.number = o.number
      /\ NumberedOnce'
  <2>1. net \subseteq Snapshots
    BY DEF TypeOK
  <2>2. CASE net' = net \ {m}
    BY <1>2, <2>1, <2>2 DEF NumberedOnce
  <2>3. CASE net' = {Older(n, m.from) : n \in net \ {m}}
    <3>1. \A n \in net \ {m} : /\ Older(n, m.from) \in Snapshots
                               /\ Older(n, m.from).from = n.from
                               /\ Older(n, m.from).number = n.number
                               /\ Older(n, m.from).cells = n.cells
      BY <1>3, <2>1, OlderSays
    <3>2. ASSUME NEW n \in net' PROVE n.number <= seq[n.from]
      <4>1. PICK o \in net \ {m} : n = Older(o, m.from)
        BY <2>3
      <4> QED BY <3>1, <4>1 DEF NumberedOnce
    <3>3. ASSUME NEW n \in net', NEW k \in net', n.from = k.from, n.number = k.number
          PROVE  n = k
      <4>1. PICK o \in net \ {m} : n = Older(o, m.from)
        BY <2>3
      <4>2. PICK q \in net \ {m} : k = Older(q, m.from)
        BY <2>3
      <4>3. o = q
        BY <3>1, <3>3, <4>1, <4>2 DEF NumberedOnce
      <4> QED BY <4>1, <4>2, <4>3
    <3>4. NumberedOnce'
      BY <1>2, <3>2, <3>3 DEF NumberedOnce
    <3> HIDE DEF Older
    <3> QED BY <2>3, <3>1, <3>4
  <2> QED BY <2>2, <2>3 DEF Ingest
<1>5. AnswersCome' /\ LaterIsNewer' /\ SeenIsRunning'
  <2>1. ASSUME NEW r \in sending' PROVE \E n \in net' : n.from = r /\ n.number = seq[r]
    <3>1. PICK o \in net : o.from = r /\ o.number = seq[r]
      BY <1>1, <2>1 DEF AnswersCome
    <3>2. o # m
      BY <1>1, <2>1, <3>1
    <3> QED BY <1>4, <3>1, <3>2
  <2>2. ASSUME NEW n \in net', NEW k \in net', n.from = k.from, n.number < k.number,
               NEW x \in n.cells, NEW y \in k.cells, x[1] = y[1]
        PROVE  x[2] <= y[2]
    <3>1. PICK o \in net : n.from = o.from /\ n.number = o.number /\ n.cells = o.cells
      BY <1>4
    <3>2. PICK q \in net : k.from = q.from /\ k.number = q.number /\ k.cells = q.cells
      BY <1>4
    <3> QED BY <2>2, <3>1, <3>2 DEF LaterIsNewer
  <2> QED BY <1>2, <2>1, <2>2 DEF AnswersCome, LaterIsNewer, SeenIsRunning
<1>6. Snapshots' = Snapshots /\ Holder' = Holder
  BY <1>2 DEF Snapshots, Holder
<1>7. CASE UNCHANGED hub
  <2>1. known' = known /\ held' = held
    BY <1>7 DEF hub
  <2>2. TypeOK'
    BY <1>1, <1>2, <1>4, <1>6, <2>1 DEF TypeOK
  <2>3. HoldersAreKnown' /\ WorldIsNewest'
    BY <1>2, <1>4, <2>1 DEF HoldersAreKnown, WorldIsNewest
  <2>4. FreshIsNewer'
    BY <1>4, <2>1 DEF FreshIsNewer, IsLate
  <2> QED BY <1>4, <1>5, <2>2, <2>3, <2>4
<1>8. CASE ~ IsLate(m) /\ ~ Conflicts(m.from, m.cells) /\ TakeIn(m)
  <2>1. \A c \in Cells :
           \/ /\ held'[c].by = m.from /\ held[c].by \in {NoOne, m.from}
              /\ \E x \in m.cells : x[1] = c /\ held'[c].info = x[2]
              /\ held'[c].info >= held[c].info /\ held'[c] \in Holder
           \/ held'[c] = Nothing
           \/ held'[c] = held[c] /\ held[c].by # m.from
    BY <1>8, TakeInMoves
  <2>2. /\ known' = [known EXCEPT ![m.from] = m.number] /\ known' \in [Reporters -> Nat \cup {-1}]
        /\ known'[m.from] = m.number /\ \A r \in Reporters : r # m.from => known'[r] = known[r]
        /\ known[m.from] \in Nat \cup {-1} /\ ~ (m.number <= known[m.from])
    BY <1>3, <1>8 DEF TakeIn, TypeOK, IsLate
  <2>3. held' \in [Cells -> Holder]
    <3>1. Nothing \in Holder
      BY DEF Nothing, Holder, TypeOK
    <3>2. \A c \in Cells : held'[c] \in Holder
      BY <2>1, <3>1, Infos
    <3>3. held' = [c \in Cells |-> held'[c]]
      BY <1>8 DEF TakeIn
    <3> QED BY <3>2, <3>3
  <2>4. TypeOK'
    BY <1>1, <1>2, <1>4, <1>6, <2>2, <2>3 DEF TypeOK
  <2>5. HoldersAreKnown'
    <3> SUFFICES ASSUME NEW c \in Cells
                 PROVE  IF held'[c].by = NoOne THEN held'[c] = Nothing ELSE known'[held'[c].by] # -1
      BY DEF HoldersAreKnown
    <3>1. CASE held'[c].by = m.from
      BY <1>3, <2>2, <3>1
    <3>2. CASE held'[c] = Nothing
      BY <3>2 DEF Nothing
    <3>3. CASE held'[c] = held[c] /\ held[c].by # m.from
      BY <2>2, <3>3, Infos DEF HoldersAreKnown
    <3> QED BY <2>1, <3>1, <3>2, <3>3
  <2>6. WorldIsNewest'
    <3> SUFFICES ASSUME NEW c \in Cells, world[c].by # NoOne
                 PROVE  /\ held'[c].info <= world[c].info
                        /\ \A n \in net' : \A x \in n.cells : x[1] = c => x[2] <= world[c].info
      BY <1>2 DEF WorldIsNewest
    <3>1. \A n \in net : \A x \in n.cells : x[1] = c => x[2] <= world[c].info
      BY DEF WorldIsNewest
    <3>2. held[c].info <= world[c].info
      BY DEF WorldIsNewest
    <3>3. Nothing.info <= world[c].info
      BY Infos DEF Nothing
    <3> QED BY <1>4, <2>1, <3>1, <3>2, <3>3
  <2>7. FreshIsNewer'
    <3> SUFFICES ASSUME NEW n \in net, n # m, ~ (n.number <= known'[n.from]),
                        NEW x \in n.cells, held'[x[1]].by = n.from
                 PROVE  held'[x[1]].info <= x[2]
      BY <1>4 DEF FreshIsNewer, IsLate
    <3>1. n.from \in Reporters /\ n.number \in Nat /\ x[1] \in Cells
      BY Messages
    <3>2. held'[x[1]] # Nothing
      BY <3>1 DEF Nothing
    <3>3. CASE n.from = m.from
      <4>1. PICK y \in m.cells : y[1] = x[1] /\ held'[x[1]].info = y[2]
        BY <2>1, <3>1, <3>2, <3>3
      <4>2. m.number < n.number
        BY <1>3, <2>2, <3>1, <3>3
      <4> QED BY <3>3, <4>1, <4>2 DEF LaterIsNewer
    <3>4. CASE n.from # m.from
      <4>1. held'[x[1]] = held[x[1]]
        BY <2>1, <3>1, <3>2, <3>4
      <4>2. known'[n.from] = known[n.from]
        BY <2>2, <3>1, <3>4
      <4> QED BY <4>1, <4>2 DEF FreshIsNewer, IsLate
    <3> QED BY <3>3, <3>4
  <2> QED BY <1>4, <1>5, <2>4, <2>5, <2>6, <2>7
<1> QED BY <1>7, <1>8 DEF Ingest

\* A reporter that is dropped takes its cells and what was sent before along.
LEMMA DropInv ==
    ASSUME HubInv, NEW r \in Reporters, Expire(r) \/ Outage(r)
    PROVE  HubInv'
<1>1. /\ known' = [known EXCEPT ![r] = -1] /\ held' = WithoutCells(r)
      /\ net' \subseteq net /\ sending' \subseteq sending
      /\ \A q \in sending' : \E m \in net' : m.from = q /\ m.number = seq[q]
      /\ UNCHANGED <<world, infos, alive, seq, crashes, listed, todo, seen, fleet>>
  BY DEF Expire, Outage, Drop, outside, poller
<1>2. faults' \in 0 .. MaxFaults /\ (faults' = faults \/ faults' # 0)
  BY DEF Expire, Outage, Fault, TypeOK
<1>3. /\ known' \in [Reporters -> Nat \cup {-1}]
      /\ \A q \in Reporters : q # r => known'[q] = known[q]
  BY <1>1 DEF TypeOK
<1>4. \A c \in Cells : held'[c] = Nothing \/ (held'[c] = held[c] /\ held[c].by # r)
  BY <1>1 DEF WithoutCells
<1>5. Snapshots' = Snapshots /\ Holder' = Holder
  BY <1>1 DEF Snapshots, Holder
<1>6. held' \in [Cells -> Holder]
  <2>1. Nothing \in Holder
    BY DEF Nothing, Holder, TypeOK
  <2>2. \A c \in Cells : held'[c] \in Holder
    BY <1>4, <2>1, Infos
  <2> QED BY <1>1, <2>2 DEF WithoutCells
<1>7. TypeOK'
  BY <1>1, <1>2, <1>3, <1>5, <1>6 DEF TypeOK
<1>8. HoldersAreKnown'
  <2> SUFFICES ASSUME NEW c \in Cells
               PROVE  IF held'[c].by = NoOne THEN held'[c] = Nothing ELSE known'[held'[c].by] # -1
    BY DEF HoldersAreKnown
  <2>1. CASE held'[c] = Nothing
    BY <2>1 DEF Nothing
  <2>2. CASE held'[c] = held[c] /\ held[c].by # r
    BY <1>3, <2>2, Infos DEF HoldersAreKnown
  <2> QED BY <1>4, <2>1, <2>2
<1>9. WorldIsNewest'
  <2>1. \A c \in Cells : Nothing.info <= world[c].info
    BY Infos DEF Nothing
  <2> QED BY <1>1, <1>4, <2>1 DEF WorldIsNewest
<1>10. AnswersCome' /\ NumberedOnce' /\ LaterIsNewer'
  BY <1>1 DEF AnswersCome, NumberedOnce, LaterIsNewer
<1>12. FreshIsNewer'
  <2> SUFFICES ASSUME NEW m \in net, ~ IsLate(m)', NEW x \in m.cells, held'[x[1]].by = m.from
               PROVE  held'[x[1]].info <= x[2]
    BY <1>1 DEF FreshIsNewer, IsLate
  <2>1. m.from \in Reporters /\ x[1] \in Cells
    BY Messages
  <2>2. held'[x[1]] = held[x[1]]
    BY <1>4, <2>1 DEF Nothing
  <2>3. m.from # r
    BY <1>4, <2>1 DEF Nothing
  <2>4. ~ IsLate(m)
    BY <1>3, <2>1, <2>3 DEF IsLate
  <2> QED BY <2>2, <2>4 DEF FreshIsNewer
<1>11. SeenIsRunning'
  BY <1>1, <1>2 DEF SeenIsRunning
<1> QED BY <1>7, <1>8, <1>9, <1>10, <1>11, <1>12

----------------------------------------------------------------------------
(* The polling loop *)

LEMMA PollerInv ==
    ASSUME HubInv, Poll \/ \E c \in Cells : Reconcile(c) \/ ReconcileFails(c)
    PROVE  HubInv'
<1>1. UNCHANGED <<world, infos, alive, seq, sending, net, crashes, known, held>>
  BY DEF Poll, Reconcile, ReconcileFails, outside, reporter, hub
<1>2. Snapshots' = Snapshots /\ Holder' = Holder
  BY <1>1 DEF Snapshots, Holder
<1>3. /\ {listed', seen', fleet'} \subseteq [Cells -> 0 .. infos] /\ todo' \subseteq Cells
      /\ faults' \in 0 .. MaxFaults /\ SeenIsRunning'
  <2>1. CASE Poll
    <3>1. \A c \in Cells : held[c].info \in 0 .. infos
      BY Infos
    <3> QED BY <2>1, <3>1 DEF Poll, TypeOK, SeenIsRunning
  <2>2. ASSUME NEW c \in Cells, Reconcile(c)
        PROVE  /\ {listed', seen', fleet'} \subseteq [Cells -> 0 .. infos] /\ todo' \subseteq Cells
               /\ faults' \in 0 .. MaxFaults /\ SeenIsRunning'
    <3>1. listed[c] \in 0 .. infos /\ listed' = listed /\ faults' = faults
      BY <2>2 DEF Reconcile, TypeOK
    <3>2. {listed', seen', fleet'} \subseteq [Cells -> 0 .. infos]
      BY <2>2, <3>1 DEF Reconcile, TypeOK
    <3>3. SeenIsRunning'
      BY <2>2 DEF Reconcile, SeenIsRunning
    <3> QED BY <2>2, <3>1, <3>2, <3>3 DEF Reconcile, TypeOK
  <2>3. ASSUME NEW c \in Cells, ReconcileFails(c)
        PROVE  /\ {listed', seen', fleet'} \subseteq [Cells -> 0 .. infos] /\ todo' \subseteq Cells
               /\ faults' \in 0 .. MaxFaults /\ SeenIsRunning'
    <3>1. faults' = faults + 1 /\ faults' \in 0 .. MaxFaults /\ faults' # 0
      BY <2>3 DEF ReconcileFails, Fault, TypeOK
    <3>2. fleet' \in [Cells -> 0 .. infos]
      <4>1. infos \in Nat /\ fleet \in [Cells -> 0 .. infos]
        BY DEF TypeOK
      <4>2. 0 \in 0 .. infos /\ fleet[c] \in 0 .. infos
        BY <4>1
      <4> QED BY <2>3, <4>1, <4>2 DEF ReconcileFails
    <3> QED BY <2>3, <3>1, <3>2 DEF ReconcileFails, SeenAfterFailure, TypeOK, SeenIsRunning
  <2> QED BY <2>1, <2>2, <2>3
<1>4. TypeOK'
  BY <1>1, <1>2, <1>3 DEF TypeOK
<1>5. HoldersAreKnown' /\ AnswersCome' /\ NumberedOnce' /\ WorldIsNewest' /\ LaterIsNewer'
  BY <1>1 DEF HoldersAreKnown, AnswersCome, NumberedOnce, WorldIsNewest, LaterIsNewer
<1>6. FreshIsNewer'
  BY <1>1 DEF FreshIsNewer, IsLate
<1> QED BY <1>3, <1>4, <1>5, <1>6

----------------------------------------------------------------------------

LEMMA HubStarts == Init => HubInv
<1> SUFFICES ASSUME Init PROVE HubInv
  OBVIOUS
<1>1. TypeOK
  <2>1. Nothing \in Holder
    BY DEF Init, Nothing, Holder
  <2>2. 0 \in 0 .. infos /\ infos \in 0 .. MaxInfos
    BY DEF Init
  <2>3. crashes \in 0 .. MaxCrashes /\ faults \in 0 .. MaxFaults
    BY DEF Init
  <2>4. {world, held} \subseteq [Cells -> Holder] /\ {listed, seen, fleet} \subseteq [Cells -> 0 .. infos]
    BY <2>1, <2>2 DEF Init
  <2>5. /\ net \subseteq Snapshots
        /\ seq \in [Reporters -> Nat] /\ known \in [Reporters -> Nat \cup {-1}]
        /\ sending \subseteq alive /\ alive \subseteq Reporters /\ todo \subseteq Cells
    BY DEF Init
  <2> QED BY <2>2, <2>3, <2>4, <2>5 DEF TypeOK
<1>2. HoldersAreKnown /\ WorldIsNewest
  BY DEF Init, HoldersAreKnown, WorldIsNewest, Nothing
<1>3. AnswersCome /\ NumberedOnce /\ LaterIsNewer /\ FreshIsNewer /\ SeenIsRunning
  BY DEF Init, AnswersCome, NumberedOnce, LaterIsNewer, FreshIsNewer, SeenIsRunning
<1> QED BY <1>1, <1>2, <1>3

LEMMA HubStep == HubInv /\ [Next]_vars => HubInv'
<1> SUFFICES ASSUME HubInv, [Next]_vars PROVE HubInv'
  OBVIOUS
<1>1. ASSUME NEW c \in Cells, WorldChanges(c) PROVE HubInv'
  BY <1>1, WorldChangesInv
<1>2. CASE Poll \/ \E c \in Cells : Reconcile(c) \/ ReconcileFails(c)
  BY <1>2, PollerInv
<1>3. ASSUME NEW r \in Reporters, Send(r) PROVE HubInv'
  BY <1>3, SendInv
<1>4. ASSUME NEW r \in Reporters, SendTimesOut(r) \/ Crash(r) \/ Restart(r) PROVE HubInv'
  BY <1>4, ReporterInv
<1>5. ASSUME NEW r \in Reporters, Expire(r) \/ Outage(r) PROVE HubInv'
  BY <1>5, DropInv
<1>6. ASSUME NEW m \in net, Ingest(m) PROVE HubInv'
  BY <1>6, IngestInv
<1>7. CASE UNCHANGED vars
  <2>1. /\ UNCHANGED <<world, infos, listed, todo, seen, fleet, known, held>>
        /\ UNCHANGED <<alive, seq, sending, net, crashes, faults>>
    BY <1>7 DEF vars, outside, reporter, hub, poller
  <2>2. /\ sending' \subseteq sending \cap alive' /\ alive' \subseteq Reporters
        /\ crashes' \in 0 .. MaxCrashes /\ faults' \in 0 .. MaxFaults
        /\ seq' \in [Reporters -> Nat]
    BY <2>1 DEF TypeOK
  <2> QED BY <2>1, <2>2, FewerMessages
<1> QED BY <1>1, <1>2, <1>3, <1>4, <1>5, <1>6, <1>7 DEF Next

(***************************************************************************)
(* Whatever is lost, late, refused or restarted: each cell the hub holds   *)
(* has a holder that can expire, no reporter waits for an answer that      *)
(* cannot come, and what the poll recorded as seen runs, but for failed    *)
(* reconciles (ingest, _remove_reporter, _send_once, _poll_once).          *)
(***************************************************************************)
THEOREM HubIsConsistent == Spec => []HubInv
BY HubStarts, HubStep, PTL DEF Spec

(***************************************************************************)
(* A snapshot that arrives out of order never takes a cell the hub holds   *)
(* back to an older info (the sequence numbers of ingest), also where the  *)
(* reporter's process was replaced by one that counts from the start.      *)
(***************************************************************************)
THEOREM HubNeverGoesBack == Spec => InfosNeverGoBack
<1> DEFINE Forward == \A c \in Cells : held'[c] # Nothing => held'[c].info >= held[c].info
<1>1. HubInv /\ [Next]_vars => [Forward]_vars
  <2> SUFFICES ASSUME HubInv, [Next]_vars, NEW c \in Cells, held'[c] # Nothing
               PROVE  held'[c].info >= held[c].info
    OBVIOUS
  <2>0. held[c].info \in Nat
    BY Infos
  <2>1. CASE held'[c] = held[c]
    BY <2>0, <2>1
  <2>2. ASSUME NEW m \in net, Ingest(m) PROVE held'[c].info >= held[c].info
    <3>1. CASE UNCHANGED hub
      BY <2>1, <3>1 DEF hub
    <3>2. CASE ~ IsLate(m) /\ ~ Conflicts(m.from, m.cells) /\ TakeIn(m)
      BY <2>1, <3>2, TakeInMoves
    <3> QED BY <2>2, <3>1, <3>2 DEF Ingest
  <2>3. ASSUME NEW r \in Reporters, Expire(r) \/ Outage(r) PROVE held'[c] = held[c]
    BY <2>3 DEF Expire, Outage, Drop, WithoutCells
  <2>4. CASE held' # held
    <3>1. \/ \E m \in net : Ingest(m)
          \/ \E r \in Reporters : Expire(r) \/ Outage(r)
      BY <2>4 DEF Next, WorldChanges, Reconcile, ReconcileFails, Send, SendTimesOut, Crash, Restart,
                  Poll, hub, vars
    <3> QED BY <2>1, <2>2, <2>3, <3>1
  <2> QED BY <2>1, <2>4
<1> QED BY <1>1, HubIsConsistent, PTL DEF Spec, InfosNeverGoBack
=============================================================================

---------------------------- MODULE ReconcileLoop ----------------------------
(***************************************************************************)
(* The reconcile loop over Kubernetes (utils/workers/reconcile): a         *)
(* reflector lists the pods and watches from the cursor of the list, a     *)
(* driver pumps its events into a store indexed by parent, and one worker  *)
(* reconciles the parents a queue names, reading the store as it is then.  *)
(* The watched world is a log of changes; what an object says is told      *)
(* apart by the change that said it.  Failures that lose no state (a watch *)
(* that ends or drops at its cursor) are not steps.  Stopping the loop is  *)
(* left out.                                                               *)
(***************************************************************************)
EXTENDS Integers, FiniteSets, SequencesExt

CONSTANTS
    Objects,
    Parents,
    Unmapped,       \* what key_map makes of an object without a parent
    Gone,           \* a deleted object
    MaxChanges,     \* bound: changes of the world
    MaxFailures     \* bound: relists, and reconciles that raise

ASSUME LoopAssumption ==
    /\ Unmapped # Gone /\ {Unmapped, Gone} \cap Parents = {}
    /\ IsFiniteSet(Parents)
    /\ {MaxChanges, MaxFailures} \subseteq Nat

VARIABLES
    log,        \* the changes of the world: an object and its new parent
    compacted,  \* the changes a cursor may no longer ask for
    cursor,     \* resource_version of the reflector, or -1
    page,       \* the cursor of a list that is under way, or -1
    store,      \* object -> the change it was stored from, or 0
    synced,     \* the first list was taken in
    queue,      \* parents to reconcile
    current,    \* the parent being reconciled, in a set
    view,       \* what its reconcile has read, in a set
    retry,      \* parent -> whether a failed reconcile waits to be repeated
    applied,    \* history: parent -> what its last good reconcile saw
    failures

source   == <<log, compacted>>
stream   == <<cursor, page, store, synced>>
worker   == <<current, view, applied>>
loopVars == <<source, stream, queue, worker, retry, failures>>

\* The last change of an object among the first n, or 0.
LastChange(o, n) == Max({0} \cup {i \in 1 .. n : log[i].object = o})

\* The parent of what change i says, if any.
ParentOf(i) == IF i = 0 THEN Gone ELSE log[i].parent

\* What a store that took in the first n changes holds.
Mapped(n) == [o \in Objects |-> LET i == LastChange(o, n)
                                IN IF ParentOf(i) \in Parents THEN i ELSE 0]

Members(p) == {store[o] : o \in {x \in Objects : ParentOf(store[x]) = p}}

----------------------------------------------------------------------------
(* Faulty variants of definitions below                                    *)

OnlyNew(before, after, o) == {ParentOf(after[o])} \cap Parents
CursorOfNow == Len(log)

----------------------------------------------------------------------------
(* The world                                                               *)

Change(o, p) ==
    /\ Len(log) < MaxChanges
    /\ p = Gone => LastChange(o, Len(log)) # 0
    /\ log' = Append(log, [object |-> o, parent |-> p])
    /\ UNCHANGED <<compacted, stream, queue, worker, retry, failures>>

Compact ==
    /\ compacted < Len(log)
    /\ compacted' = Len(log)
    /\ UNCHANGED <<log, stream, queue, worker, retry, failures>>

----------------------------------------------------------------------------
(* The reflector and the store                                             *)

\* The parents an object's move touches: the one it left, the one it joined.
Touched(before, after, o) == {ParentOf(before[o]), ParentOf(after[o])} \cap Parents

\* _enqueue_all: new keys at the end, in some order.
Enqueue(keys) ==
    queue' \in {queue \o order : order \in
        {s \in [1 .. Cardinality(keys \ ToSet(queue)) -> keys \ ToSet(queue)] :
            ToSet(s) = keys \ ToSet(queue)}}

\* Without a cursor the reflector lists; the page may be old when it arrives.
List ==
    /\ cursor = -1 /\ page = -1
    /\ page' = Len(log)
    /\ UNCHANGED <<source, cursor, store, synced, queue, worker, retry, failures>>

ResumeFrom == page

\* ReplaceEvent: every listed object is stored, every other one removed.
Replace ==
    /\ page # -1
    /\ store' = Mapped(page)
    /\ Enqueue(UNION {Touched(store, store', o) : o \in Objects})
    /\ cursor' = ResumeFrom
    /\ page' = -1
    /\ synced' = TRUE
    /\ UNCHANGED <<source, worker, retry, failures>>

\* The next frame of the watch: an upsert, one that leaves no parent and
\* evicts, or a delete.  What is not stored when it is deleted had no parent.
Frame ==
    /\ cursor # -1 /\ cursor < Len(log)
    /\ cursor >= compacted
    /\ LET o == log[cursor + 1].object
       IN /\ store' = [store EXCEPT ![o] = Mapped(cursor + 1)[o]]
          /\ Enqueue(Touched(store, store', o))
    /\ cursor' = cursor + 1
    /\ UNCHANGED <<source, page, synced, worker, retry, failures>>

\* 410 or 504, in an exception or in a frame.
CursorRejected ==
    /\ cursor # -1 /\ cursor < compacted
    /\ cursor' = -1
    /\ UNCHANGED <<source, page, store, synced, queue, worker, retry, failures>>

\* A frame or a page that cannot be read, or a stream that dies and is
\* reopened by the driver: the reflector starts from a list.
StartOver ==
    /\ failures < MaxFailures
    /\ cursor # -1 \/ page # -1
    /\ cursor' = -1 /\ page' = -1
    /\ failures' = failures + 1
    /\ UNCHANGED <<source, store, synced, queue, worker, retry>>

----------------------------------------------------------------------------
(* The worker                                                              *)

Take ==
    /\ synced /\ current = {} /\ queue # <<>>
    /\ current' = {Head(queue)}
    /\ queue' = Tail(queue)
    /\ UNCHANGED <<source, stream, view, applied, retry, failures>>

\* The reconcile function asks get_by_parent.
Read(p) ==
    /\ p \in current /\ view = {}
    /\ view' = {Members(p)}
    /\ UNCHANGED <<source, stream, queue, current, applied, retry, failures>>

Succeed(p) ==
    /\ p \in current
    /\ \E members \in view : applied' = [applied EXCEPT ![p] = members]
    /\ retry' = [retry EXCEPT ![p] = FALSE]
    /\ current' = {} /\ view' = {}
    /\ UNCHANGED <<source, stream, queue, failures>>

\* note_failure.
Fail(p) ==
    /\ p \in current
    /\ failures < MaxFailures
    /\ failures' = failures + 1
    /\ retry' = [retry EXCEPT ![p] = TRUE]
    /\ current' = {} /\ view' = {}
    /\ UNCHANGED <<source, stream, queue, applied>>

\* The delay is over: _poll adds the key.
RetryDue(p) ==
    /\ retry[p]
    /\ retry' = [retry EXCEPT ![p] = FALSE]
    /\ Enqueue({p})
    /\ UNCHANGED <<source, stream, worker, failures>>

\* Every ten hours, the parents that have members.
Resync ==
    /\ synced
    /\ Enqueue({p \in Parents : Members(p) # {}})
    /\ UNCHANGED <<source, stream, worker, retry, failures>>

----------------------------------------------------------------------------

LoopInit ==
    /\ log = <<>> /\ compacted = 0
    /\ cursor = -1 /\ page = -1
    /\ store = [o \in Objects |-> 0]
    /\ synced = FALSE
    /\ queue = <<>> /\ current = {} /\ view = {}
    /\ retry = [p \in Parents |-> FALSE]
    /\ applied = [p \in Parents |-> {}]
    /\ failures = 0

StreamStep == List \/ Replace \/ Frame \/ CursorRejected
WorkerStep == Take \/ \E p \in Parents : Read(p) \/ Succeed(p)

LoopNext ==
    \/ \E o \in Objects, p \in Parents \cup {Unmapped, Gone} : Change(o, p)
    \/ Compact
    \/ StreamStep \/ StartOver
    \/ WorkerStep \/ Resync
    \/ \E p \in Parents : Fail(p) \/ RetryDue(p)

LoopSpec == LoopInit /\ [][LoopNext]_loopVars

\* The loop's tasks run and its timers fire; the resync is not counted on.
LoopFairness ==
    /\ WF_loopVars(StreamStep) /\ WF_loopVars(WorkerStep)
    /\ \A p \in Parents : WF_loopVars(RetryDue(p))

LoopFairSpec == LoopSpec /\ LoopFairness

----------------------------------------------------------------------------
(* Properties                                                              *)

LoopTypeOK ==
    /\ log \in Seq([object : Objects, parent : Parents \cup {Unmapped, Gone}])
    /\ compacted \in 0 .. Len(log)
    /\ {cursor, page} \subseteq -1 .. Len(log)
    /\ store \in [Objects -> 0 .. Len(log)] /\ synced \in BOOLEAN
    /\ queue \in Seq(Parents)
    /\ current \subseteq Parents /\ view \subseteq SUBSET Nat
    /\ retry \in [Parents -> BOOLEAN] /\ applied \in [Parents -> SUBSET Nat]
    /\ failures \in 0 .. MaxFailures

\* The store is the world as of the cursor (ObjectStore.handle_event).
StoreFollowsCursor == cursor # -1 => store = Mapped(cursor)

\* The queue names a parent once, and one parent is reconciled at a time.
OnceQueued == \A i, j \in 1 .. Len(queue) : queue[i] = queue[j] => i = j
OneAtATime == (\A p, q \in current : p = q) /\ (current = {} => view = {})

\* What a reconcile has read is still so, or its parent is queued again.
ReadsAreFresh == \A p \in current : p \in ToSet(queue) \/ view \subseteq {Members(p)}

\* A parent whose members are not those its last good reconcile saw is
\* queued, waits for its retry, or is being reconciled with what it is going
\* to read or has read (WorkQueue, RetryScheduler).
NothingIsForgotten ==
    \A p \in Parents :
        \/ Members(p) = applied[p]
        \/ p \in ToSet(queue) \/ retry[p]
        \/ p \in current /\ view \subseteq {Members(p)}

\* Together, inductive.
LoopInv ==
    /\ LoopTypeOK /\ StoreFollowsCursor /\ OnceQueued /\ OneAtATime
    /\ ReadsAreFresh /\ NothingIsForgotten

\* Once the world keeps still (changes and failures are bounded) every parent is
\* reconciled with what the world says in the end, whatever was missed,
\* relisted, raised or coalesced on the way
\* (docs/developer/reconcile-loop.md, "level-triggered").
Settled == \A p \in Parents :
    applied[p] = {Mapped(Len(log))[o] : o \in {x \in Objects : ParentOf(Mapped(Len(log))[x]) = p}}

Converges == <>[]Settled
=============================================================================

------------------------- MODULE FullyAsyncRollout -------------------------
(***************************************************************************)
(* Fully asynchronous training: the background worker of                   *)
(* rollout/fully_async_rollout.py keeps prompt groups in generation and    *)
(* puts the finished ones into the data buffer                             *)
(* (rollout/fully_async_data_buffer.py); the driver (train_async.py) takes *)
(* a batch out of it with a drain, trains, saves, sends the weights to the *)
(* engines and evaluates on them.  Worker, drains and evaluations are      *)
(* coroutines of one event loop: a step here is what runs between two of   *)
(* their awaits.                                                           *)
(*                                                                         *)
(* A group is its index in the order the data source hands groups out.     *)
(* What a sample says is abstracted to how its generation ended and to the *)
(* oldest weight version its tokens carry.  The order of a batch (it is    *)
(* sorted by index) is left out.  A crash takes the whole run down; the    *)
(* checkpoint of a rollout is the trainer's, then the data source's.       *)
(* Left out: the reward model of a whole group (group_rm), so a group is   *)
(* over with its last sample; intervals that are None (the run then saves  *)
(* or evaluates never, not even at the end) and the saves and evaluations  *)
(* that the end of an epoch adds.                                          *)
(***************************************************************************)
EXTENDS Integers, Sequences, FiniteSets, FiniteSetsExt, Functions, SequencesExt

CONSTANTS
    GroupSize,      \* n_samples_per_prompt
    GroupBudget,    \* _max_in_flight_groups
    BatchSize,      \* rollout_batch_size
    Capacity,       \* of the data buffer
    MaxStaleness,   \* max_weight_staleness
    Retry,          \* async_unused_samples_handler is "retry", not "drop"
    NumRollout,     \* num_rollout
    UpdateInterval, SaveInterval, EvalInterval,
    MaxFaults,      \* bound: samples that do not end well
    MaxCrashes      \* bound: crashes of the run

ASSUME RolloutAssumption ==
    /\ {GroupSize, GroupBudget, BatchSize, Capacity, NumRollout,
        UpdateInterval, SaveInterval, EvalInterval} \subseteq Nat \ {0}
    /\ {MaxStaleness, MaxFaults, MaxCrashes} \subseteq Nat
    /\ Retry \in BOOLEAN

VARIABLES
    base,       \* the first index this life of the run handed out
    next,       \* sample_group_index: the next fresh group
    recycled,   \* the buffer of the data source: groups to generate again
    active,     \* group -> its generation: samples left, version, outcome
    inFlight,   \* samples_in_flight of the submission scheduler
    sampleDone, \* its _sample_done event
    worker,     \* where the worker stands
    done,       \* the finished groups it has still to put
    held,       \* the entry a put() holds while the buffer is full
    buffer,     \* the data buffer: entries, oldest first
    resumed,    \* _producer_resumed
    engine,     \* the weight version the engines serve
    published,  \* the version the rollout executor was told of
    unpublished,\* rollouts served since it was told (rollouts_since_publish)
    drain,      \* the drain the driver has started
    phase,      \* where the driver stands
    rollout,    \* rollout_id
    batch,      \* the batch being trained on
    trained,    \* groups this life trained on
    before,     \* groups the loaded checkpoint was trained on
    unused,     \* groups dropped or rejected in this life
    saved,      \* the trainer's last checkpoint: rollout and its groups
    dataset,    \* the data source's last saved index, and its rollout
    reread,     \* a restart found no index beside the trainer's checkpoint
    faults, crashes

producer == <<recycled, active, inFlight, sampleDone, worker, done, held>>
driver   == <<phase, rollout, batch, trained, saved, dataset>>
weights  == <<engine, published, unpublished>>
life     == <<base, before, reread, crashes>>
vars == <<next, producer, buffer, resumed, weights, drain, driver, unused,
          faults, life>>

Outcomes == {"ok", "rejected", "aborted", "raised"}
Rank     == [ok |-> 0, rejected |-> 1, aborted |-> 2, raised |-> 3]
Entry    == [group : Nat, oldest : Nat]
Groups(entries) == {e.group : e \in entries}

NoDrain       == [state |-> "off", version |-> 0, got |-> {}]
NewDrain      == [state |-> "on", version |-> published, got |-> {}]

----------------------------------------------------------------------------
(* Faulty variants of definitions below                                        *)

RecycleAndKeep(g) ==
    /\ recycled' = IF Retry THEN Append(recycled, g) ELSE recycled
    /\ unused'   = unused \cup {g}
NeverDefer == FALSE
SaveTrainedCount == Cardinality(before \cup trained)
StartedFromOldTokens == [left |-> GroupSize, born |-> engine, versions |-> {1},
                         outcome |-> "ok"]

----------------------------------------------------------------------------
(* Generation of the groups in flight                                      *)

\* add_samples through _recycle, or the "drop" handler.
HandleUnused(g) ==
    /\ recycled' = IF Retry THEN Append(recycled, g) ELSE recycled
    /\ unused'   = IF Retry THEN unused ELSE unused \cup {g}

\* A group raises if one of its samples does, unless one was cancelled before,
\* which is what gather reports; otherwise one aborted or cancelled sample makes
\* it aborted, and one without a reward rejected.
Verdicts(was, how) ==
    {o \in {was, how} :
        \/ \A other \in {was, how} : Rank[other] <= Rank[o]
        \/ o = was /\ was = "aborted"}

\* A sample task ends and its done callback frees its slot.  Its tokens
\* carry versions from the one served when the group went out to the one
\* served now.  The group task returns with its last sample, the siblings of
\* a failed one included.
SampleDone(g) ==
    \E how \in Outcomes, v \in active[g].born .. engine :
    \E verdict \in Verdicts(active[g].outcome, how) :
       /\ active[g].left > 0
       /\ how # "ok" => faults < MaxFaults
       /\ faults' = IF how = "ok" THEN faults ELSE faults + 1
       /\ active' = [active EXCEPT
                        ![g].left     = @ - 1,
                        ![g].outcome  = verdict,
                        ![g].versions = @ \cup {v}]
       /\ inFlight' = inFlight - 1
       /\ sampleDone' = TRUE
       /\ UNCHANGED <<next, recycled, worker, done, held, buffer, resumed,
                      weights, drain, driver, unused, life>>

----------------------------------------------------------------------------
(* The worker loop                                                         *)

\* has_capacity resets an account that no pending group backs.
Accounted == IF DOMAIN active = {} THEN 0 ELSE inFlight

\* How many groups has_capacity lets the loop submit in a row.
Room == Max({0, (GroupBudget * GroupSize - Accounted) \div GroupSize})

\* get_samples: the recycled groups first, then fresh ones.
Taken(k)  == SubSeq(recycled, 1, Min({k, Len(recycled)}))
Fresh(k)  == next .. next + k - Len(Taken(k)) - 1
Started   == [left |-> GroupSize, born |-> engine, versions |-> {},
              outcome |-> "ok"]

Submit ==
    /\ worker = "top"
    /\ resumed
    /\ LET new == Range(Taken(Room)) \cup Fresh(Room) IN
       /\ active'   = [g \in DOMAIN active \cup new |->
                          IF g \in new THEN Started ELSE active[g]]
       /\ inFlight' = Accounted + Room * GroupSize
       /\ recycled' = SubSeq(recycled, Len(Taken(Room)) + 1, Len(recycled))
       /\ next'     = next + Cardinality(Fresh(Room))
    /\ sampleDone' = FALSE
    /\ worker' = "wait"
    /\ UNCHANGED <<done, held, buffer, resumed, weights, drain, driver,
                   unused, faults, life>>

Over == {g \in DOMAIN active : active[g].left = 0}

\* wait_for_progress: a finished group or a finished sample.
Progress ==
    /\ worker = "wait"
    /\ Over # {} \/ sampleDone
    /\ done' = Over
    /\ worker' = IF Over = {} THEN "top" ELSE "put"
    /\ UNCHANGED <<next, recycled, active, inFlight, sampleDone, held, buffer,
                   resumed, weights, drain, driver, unused, faults, life>>

AfterPut(left) == IF left = {} THEN "top" ELSE "put"

\* _collect_group_result and the first part of put().
Collect(g) ==
    /\ worker = "put"
    /\ g \in done
    /\ active' = Restrict(active, DOMAIN active \ {g})
    /\ done'   = done \ {g}
    /\ LET how == active[g].outcome IN
       \/ /\ how = "raised"
          /\ worker' = "dead"
          /\ unused' = unused \cup {g}
          /\ UNCHANGED <<recycled, held>>
       \/ /\ how = "aborted"
          /\ HandleUnused(g)
          /\ worker' = AfterPut(done')
          /\ UNCHANGED held
       \/ /\ how = "rejected"
          /\ unused' = unused \cup {g}
          /\ worker' = AfterPut(done')
          /\ UNCHANGED <<recycled, held>>
       \/ /\ how = "ok"
          /\ held'   = {[group |-> g, oldest |-> Min(active[g].versions)]}
          /\ worker' = "full"
          /\ UNCHANGED <<recycled, unused>>
    /\ UNCHANGED <<next, inFlight, sampleDone, buffer, resumed, weights,
                   drain, driver, faults, life>>

\* The rest of put(), once there is room.
Put ==
    /\ worker = "full"
    /\ Len(buffer) < Capacity
    /\ \E e \in held : buffer' = Append(buffer, e)
    /\ held' = {}
    /\ worker' = AfterPut(done)
    /\ UNCHANGED <<next, recycled, active, inFlight, sampleDone, done, resumed,
                   weights, drain, driver, unused, faults, life>>

----------------------------------------------------------------------------
(* A drain: get() until the batch is full                                  *)

\* get(): the oldest entry, or the unused handler for one that is stale.
Get ==
    /\ drain.state = "on"
    /\ worker # "dead"
    /\ buffer # <<>>
    /\ buffer' = Tail(buffer)
    /\ LET e == Head(buffer)
           got == drain.got \cup {e} IN
       \/ /\ drain.version - e.oldest > MaxStaleness
          /\ HandleUnused(e.group)
          /\ UNCHANGED drain
       \/ /\ drain.version - e.oldest <= MaxStaleness
          /\ drain' = [drain EXCEPT
                          !.got = got,
                          !.state = IF Cardinality(got) = BatchSize THEN "ready" ELSE "on"]
          /\ UNCHANGED <<recycled, unused>>
    /\ UNCHANGED <<next, active, inFlight, sampleDone, worker, done, held,
                   resumed, weights, driver, faults, life>>

\* _next_group looks at the worker first: a dead one fails the drain.
DrainFails ==
    /\ drain.state = "on"
    /\ worker = "dead"
    /\ drain' = [drain EXCEPT !.state = "failed"]
    /\ UNCHANGED <<next, producer, buffer, resumed, weights, driver, unused,
                   faults, life>>

----------------------------------------------------------------------------
(* The driver                                                              *)

Due(interval) == (rollout + 1) % interval = 0
HasNext       == rollout + 1 < NumRollout
Defer         == HasNext /\ Due(UpdateInterval)

\* The executor's get(): it counts the rollout and starts the drain with the
\* version it was told of; the first call creates the worker.
StartDrain ==
    /\ drain' = NewDrain
    /\ unpublished' = unpublished + 1
    /\ worker' = IF worker = "none" THEN "top" ELSE worker

NoNewDrain ==
    /\ drain' = NoDrain
    /\ UNCHANGED <<unpublished, worker>>

\* The first weight update, and the first drain.
Start ==
    /\ phase = "start"
    /\ engine' = 1
    /\ published' = 1
    /\ drain' = [NewDrain EXCEPT !.version = 1]
    /\ unpublished' = 1
    /\ worker' = "top"
    /\ phase' = IF rollout < NumRollout THEN "await" ELSE "ended"
    /\ UNCHANGED <<next, recycled, active, inFlight, sampleDone, done, held,
                   buffer, resumed, rollout, batch, trained, saved, dataset,
                   unused, faults, life>>

\* The batch arrives; the next drain starts now unless it has to wait for
\* new weights.
Receive ==
    /\ phase = "await"
    /\ drain.state = "ready"
    /\ batch' = drain.got
    /\ phase' = "train"
    /\ IF HasNext /\ ~ Defer THEN StartDrain ELSE NoNewDrain
    /\ UNCHANGED <<next, recycled, active, inFlight, sampleDone, done, held,
                   buffer, resumed, engine, published, rollout, trained,
                   saved, dataset, unused, faults, life>>

Fail ==
    /\ phase = "await"
    /\ drain.state = "failed"
    /\ phase' = "failed"
    /\ UNCHANGED <<next, producer, buffer, resumed, weights, drain, rollout,
                   batch, trained, saved, dataset, unused, faults, life>>

Train ==
    /\ phase = "train"
    /\ trained' = trained \cup Groups(batch)
    /\ batch' = {}
    /\ phase' = IF Due(SaveInterval) \/ ~ HasNext THEN "save" ELSE "update"
    /\ UNCHANGED <<next, producer, buffer, resumed, weights, drain, rollout,
                   saved, dataset, unused, faults, life>>

\* save_training_model, and then the executor's save(): the data source
\* writes where it stands, not what it has recycled or in generation.
SaveModel ==
    /\ phase = "save"
    /\ saved' = [rollout |-> rollout, groups |-> before \cup trained]
    /\ phase' = "saveData"
    /\ UNCHANGED <<next, producer, buffer, resumed, weights, drain, rollout,
                   batch, trained, dataset, unused, faults, life>>

SavedIndex == next

SaveData ==
    /\ phase = "saveData"
    /\ dataset' = [rollout |-> rollout, index |-> SavedIndex]
    /\ phase' = "update"
    /\ UNCHANGED <<next, producer, buffer, resumed, weights, drain, rollout,
                   batch, trained, saved, unused, faults, life>>

\* update_weights: the engines get the new version while groups are in
\* generation, then the executor is told.
UpdateEngines ==
    /\ phase = "update"
    /\ IF Due(UpdateInterval)
       THEN engine' = engine + 1 /\ phase' = "publish"
       ELSE engine' = engine /\ phase' = "eval"
    /\ UNCHANGED <<next, producer, buffer, resumed, published, unpublished,
                   drain, rollout, batch, trained, saved, dataset, unused,
                   faults, life>>

Publish ==
    /\ phase = "publish"
    /\ published' = engine
    /\ IF Defer
       THEN drain' = [NewDrain EXCEPT !.version = engine] /\ unpublished' = 1
       ELSE UNCHANGED drain /\ unpublished' = 0
    /\ phase' = "eval"
    /\ UNCHANGED <<next, producer, buffer, resumed, engine, rollout, batch,
                   trained, saved, dataset, unused, faults, life>>

\* The shared-engine evaluation: it pauses the producer, and the driver
\* waits for it.
PauseForEval ==
    /\ phase = "eval"
    /\ Due(EvalInterval) \/ ~ HasNext
    /\ resumed' = FALSE
    /\ phase' = "evaluating"
    /\ UNCHANGED <<next, producer, buffer, weights, drain, rollout, batch,
                   trained, saved, dataset, unused, faults, life>>

EvalEnds ==
    /\ phase = "evaluating"
    /\ resumed' = TRUE
    /\ phase' = "next"
    /\ UNCHANGED <<next, producer, buffer, weights, drain, rollout, batch,
                   trained, saved, dataset, unused, faults, life>>

NextRollout ==
    /\ phase = "next" \/ (phase = "eval" /\ ~ Due(EvalInterval) /\ HasNext)
    /\ phase' = IF HasNext THEN "await" ELSE "ended"
    /\ rollout' = rollout + 1
    /\ UNCHANGED <<next, producer, buffer, resumed, weights, drain, batch,
                   trained, saved, dataset, unused, faults, life>>

----------------------------------------------------------------------------
(* Lives of the run                                                        *)

Init ==
    /\ base = 0 /\ next = 0
    /\ recycled = <<>> /\ active = [g \in {} |-> 0] /\ inFlight = 0
    /\ sampleDone = FALSE /\ worker = "none" /\ done = {} /\ held = {}
    /\ buffer = <<>> /\ resumed = TRUE
    /\ engine = 0 /\ published = 0 /\ unpublished = 0
    /\ drain = NoDrain
    /\ phase = "start" /\ rollout = 0 /\ batch = {}
    /\ trained = {} /\ unused = {}
    /\ before = {}
    /\ saved = [rollout |-> -1, groups |-> {}]
    /\ dataset = [rollout |-> -1, index |-> 0]
    /\ reread = FALSE /\ faults = 0 /\ crashes = 0

\* load(): without its file "the dataset starts where a fresh run's would".
HasIndex  == dataset.rollout = saved.rollout
LoadIndex == IF HasIndex THEN dataset.index ELSE 0

CrashAndRestart ==
    /\ phase # "ended"
    /\ crashes < MaxCrashes
    /\ crashes' = crashes + 1
    /\ UNCHANGED <<saved, dataset, faults>>
    /\ base' = LoadIndex /\ next' = LoadIndex
    /\ recycled' = <<>> /\ active' = [g \in {} |-> 0] /\ inFlight' = 0
    /\ sampleDone' = FALSE /\ worker' = "none" /\ done' = {} /\ held' = {}
    /\ buffer' = <<>> /\ resumed' = TRUE
    /\ engine' = 0 /\ published' = 0 /\ unpublished' = 0
    /\ drain' = NoDrain
    /\ phase' = "start" /\ rollout' = saved.rollout + 1 /\ batch' = {}
    /\ trained' = {} /\ unused' = {}
    /\ before' = saved.groups
    /\ reread' = (reread \/ ~ HasIndex)

Stopped == phase \in {"ended", "failed"} /\ UNCHANGED vars

DriverStep ==
    \/ Start \/ Receive \/ Fail \/ Train \/ SaveModel \/ SaveData
    \/ UpdateEngines \/ Publish \/ PauseForEval \/ EvalEnds \/ NextRollout
WorkerStep == Submit \/ Progress \/ Put \/ \E g \in done : Collect(g)
DrainStep  == Get \/ DrainFails
SampleStep == \E g \in DOMAIN active : SampleDone(g)

Running == phase \notin {"ended", "failed"}

Next ==
    \/ Running /\ (DriverStep \/ WorkerStep \/ DrainStep \/ SampleStep)
    \/ CrashAndRestart
    \/ Stopped

Spec == Init /\ [][Next]_vars

\* Generation ends, the event loop runs every coroutine, and the driver
\* every call: while the run goes on, something happens.  Who comes first is
\* left open.
Fairness == WF_vars(Running /\ (DriverStep \/ WorkerStep \/ DrainStep \/ SampleStep))

FairSpec == Spec /\ Fairness

----------------------------------------------------------------------------
(* Properties                                                              *)

Generation == [left : 0 .. GroupSize, born : Nat, versions : SUBSET Nat, outcome : Outcomes]

TypeOK ==
    /\ recycled \in Seq(Nat) /\ buffer \in Seq(Entry)
    /\ active \in [DOMAIN active -> Generation]
    /\ {base, next, inFlight, engine, published, unpublished, rollout} \subseteq Nat
    /\ sampleDone \in BOOLEAN /\ resumed \in BOOLEAN /\ reread \in BOOLEAN
    /\ worker \in {"none", "top", "wait", "put", "full", "dead"}
    /\ phase \in {"start", "await", "train", "save", "saveData", "update", "publish",
                  "eval", "evaluating", "next", "ended", "failed"}
    /\ drain \in [state : {"off", "on", "ready", "failed"}, version : Nat,
                  got : SUBSET Entry]
    /\ held \subseteq Entry /\ batch \subseteq Entry
    /\ trained \cup before \cup unused \subseteq Nat
    /\ saved \in [rollout : Nat \cup {-1}, groups : SUBSET Nat]
    /\ dataset \in [rollout : Nat \cup {-1}, index : Nat]

\* Every group this life of the run took from the data source is in exactly
\* one place: waiting to be generated again, in generation, finished and
\* held, buffered, drained, trained on, or given up.  Recycling, filtering,
\* blocking puts and drains neither lose a group nor copy one.
Places == <<Range(recycled), DOMAIN active, Groups(held), Groups(Range(buffer)),
            Groups(drain.got), Groups(batch), trained, unused>>

OnePlace ==
    /\ UNION Range(Places) = base .. next - 1
    /\ Len(recycled) + Cardinality(DOMAIN active) + Cardinality(held) + Len(buffer)
         + Cardinality(drain.got) + Cardinality(batch) + Cardinality(trained)
         + Cardinality(unused)
         = next - base

\* The scheduler's account is the number of unfinished samples, whatever
\* failed or was cancelled, and it stays within the budget: the comment of
\* generate_and_rm_group, "in-flight accounting is conserved".
Unfinished == {t \in (DOMAIN active) \X (1 .. GroupSize) : t[2] <= active[t[1]].left}
AccountIsExact ==
    /\ inFlight = Cardinality(Unfinished)
    /\ inFlight <= GroupBudget * GroupSize
    /\ Len(buffer) <= Capacity

\* The worker holds an entry while it waits for room and nothing else, what
\* it is about to collect is over, and tokens carry versions that were
\* served while their group was in generation.
WorkerFits ==
    /\ held = {} <=> worker # "full"
    /\ \A e, f \in held : e = f
    /\ done \subseteq Over /\ (done # {} => worker \in {"put", "full", "dead"})
    /\ \A g \in DOMAIN active :
          /\ active[g].versions \subseteq active[g].born .. engine
          /\ active[g].left < GroupSize => active[g].versions # {}

\* A drain is under way exactly when the driver needs one, and it filters by
\* the version that is published for as long as its batch is not trained on;
\* a batch is full.
Draining == drain.state # "off" /\ drain.version = published
DriverFits ==
    /\ phase = "start" <=> worker = "none"
    /\ phase = "start" => engine = 0 /\ DOMAIN active = {} /\ drain = NoDrain
    /\ engine = IF phase = "publish" THEN published + 1 ELSE published
    /\ phase = "await" => Draining
    /\ phase \in {"train", "save", "saveData", "update"} =>
          IF HasNext /\ ~ Due(UpdateInterval) THEN Draining ELSE drain = NoDrain
    /\ phase = "publish" => Due(UpdateInterval) /\ drain = NoDrain
    /\ phase \in {"eval", "evaluating", "next"} => IF HasNext THEN Draining ELSE drain = NoDrain
    /\ \A e \in drain.got : drain.version - e.oldest <= MaxStaleness
    /\ drain.state = "on" => Cardinality(drain.got) < BatchSize
    /\ drain.state = "ready" => Cardinality(drain.got) = BatchSize
    /\ IF phase = "train" THEN Cardinality(batch) = BatchSize ELSE batch = {}

\* assert_weight_version_is_published never fires: at most one rollout of
\* every position of the update interval is served between two publications.
VersionIsPublished == unpublished <= Max({3, UpdateInterval + 1})
ServedSincePublish ==
    /\ unpublished <= UpdateInterval
    /\ phase = "await" => unpublished <= (rollout % UpdateInterval) + 1
    /\ phase \in {"train", "save", "saveData", "update", "publish"} =>
          unpublished <= (rollout % UpdateInterval)
                           + (IF HasNext /\ ~ Due(UpdateInterval) THEN 2 ELSE 1)
    /\ phase \in {"eval", "evaluating", "next"} =>
          unpublished <= ((rollout + 1) % UpdateInterval) + 1

\* The data source is saved after the trainer, so its index covers what the
\* trainer's checkpoint was trained on whenever both are of one rollout.
CheckpointsFit ==
    /\ base <= next
    /\ dataset.rollout <= saved.rollout /\ saved.rollout <= rollout
    /\ phase \in {"start", "await", "train", "save"} => saved.rollout < rollout
    /\ phase = "saveData" => saved = [rollout |-> rollout, groups |-> before \cup trained]
    /\ reread \/ before \subseteq 0 .. base - 1
    /\ reread \/ dataset.rollout # saved.rollout \/ saved.groups \subseteq 0 .. dataset.index - 1

\* Together, inductive.
GroupsInv ==
    /\ TypeOK /\ OnePlace /\ AccountIsExact /\ WorkerFits /\ DriverFits
    /\ VersionIsPublished /\ ServedSincePublish /\ CheckpointsFit

\* No batch is trained on whose oldest token lags the published weights by
\* more than max_weight_staleness, although its groups were filtered when
\* they were drained and not when they are used.
FreshEnough ==
    phase = "train" =>
        \A e \in batch : published - e.oldest <= MaxStaleness

\* No group is trained on twice on the way to the weights of the run, across
\* crashes and checkpoints, unless a restart found a trainer checkpoint with
\* no index of the data source beside it and read the data from the start.
NothingTrainedTwice ==
    phase = "train" => reread \/ Groups(batch) \cap (before \cup trained) = {}

\* The run comes to its end: an evaluation that pauses the producer, a full
\* buffer, stale, aborted or recycled groups and a dead worker do not leave
\* the driver waiting for groups for ever.
RunEnds == <>(phase \in {"ended", "failed"})

============================================================================

---------------------------- MODULE Registration ----------------------------
(***************************************************************************)
(* Deployments register their cells with a run (utils/workers/registration *)
(* and polling_reconcile_loop.py): the reporter of each deployment sends   *)
(* numbered snapshots of its cells to the hub in the run's inference       *)
(* controller, the hub drops a reporter that has gone silent, and a        *)
(* polling loop reconciles the fleet with what the hub holds.  A cell's    *)
(* info is a number, new with every change.  The repetition of a snapshot  *)
(* the hub has taken in, or must refuse as things are, is left out: it     *)
(* only keeps the reporter from expiring.  The hub's process stays up.     *)
(***************************************************************************)
EXTENDS Integers, FiniteSets

CONSTANTS
    Cells,
    Reporters,
    NoOne,
    MaxInfos,   \* bound: changes of the deployments
    MaxCrashes, \* bound: reporters that die
    MaxFaults   \* bound: snapshots lost or late, outages, reconciles that raise

ASSUME RegistrationAssumption ==
    /\ NoOne \notin Reporters
    /\ {MaxInfos, MaxCrashes, MaxFaults} \subseteq Nat

VARIABLES
    world,      \* cell -> the reporter whose deployment runs it, and its info
    infos,      \* the last info there was
    alive,      \* reporters whose process runs
    seq,        \* reporter -> the last sequence number of its process
    sending,    \* reporters waiting for the hub's answer
    net,        \* snapshots on their way
    known,      \* reporter -> the last number the hub took in, or -1
    held,       \* cell -> the reporter and the info the hub holds
    listed,     \* what the poll under way has listed
    todo,       \* the cells it still has to reconcile
    seen,       \* cell -> seen_infos of the polling loop
    fleet,      \* cell -> the info it runs with in the fleet
    crashes, faults

outside  == <<world, infos>>
reporter == <<alive, seq, sending, net, crashes>>
hub      == <<known, held>>
poller   == <<listed, todo, seen, fleet>>
vars     == <<outside, reporter, hub, poller, faults>>

Nothing == [by |-> NoOne, info |-> 0]

\* What a reporter sees of its deployment, and what the hub holds of it.
Observed(r) == {<<c, world[c].info>> : c \in {d \in Cells : world[d].by = r}}
HeldBy(r)   == {<<c, held[c].info>> : c \in {d \in Cells : held[d].by = r}}

InfoOf(cells, c) == (CHOOSE x \in cells : x[1] = c)[2]

Fault == faults < MaxFaults /\ faults' = faults + 1

----------------------------------------------------------------------------
(* Faulty variants of definitions below                                    *)

AnyNumber(m) == FALSE
KeepsCells(r) == held
SeenAnyway(c) == [seen EXCEPT ![c] = listed[c]]

----------------------------------------------------------------------------
(* The deployments and their reporters                                     *)

\* A cell starts, is restarted, moves to another deployment, or goes away.
WorldChanges(c) ==
    /\ \/ /\ infos < MaxInfos
          /\ infos' = infos + 1
          /\ \E r \in Reporters : world' = [world EXCEPT ![c] = [by |-> r, info |-> infos']]
       \/ /\ world[c] # Nothing
          /\ world' = [world EXCEPT ![c] = Nothing]
          /\ UNCHANGED infos
    /\ UNCHANGED <<reporter, hub, poller, faults>>

\* _replace_cells_of_reporter refuses cells another reporter holds.
Conflicts(r, cells) == \E x \in cells : held[x[1]].by \notin {NoOne, r}

\* _send_once.
Send(r) ==
    /\ r \in alive \ sending
    /\ Observed(r) # HeldBy(r)
    /\ ~ Conflicts(r, Observed(r))
    /\ seq' = [seq EXCEPT ![r] = @ + 1]
    /\ net' = net \cup {[from |-> r, number |-> seq'[r], cells |-> Observed(r), since |-> {}]}
    /\ sending' = sending \cup {r}
    /\ UNCHANGED <<outside, alive, crashes, hub, poller, faults>>

\* The timeout of the send; its snapshot is lost, or still on its way.
SendTimesOut(r) ==
    /\ r \in sending
    /\ Fault
    /\ sending' = sending \ {r}
    /\ net' \in {net, {m \in net : m.from # r}}
    /\ UNCHANGED <<outside, alive, seq, crashes, hub, poller>>

Crash(r) ==
    /\ r \in alive
    /\ crashes < MaxCrashes
    /\ crashes' = crashes + 1
    /\ alive' = alive \ {r}
    /\ sending' = sending \ {r}
    /\ UNCHANGED <<outside, seq, net, hub, poller, faults>>

\* A new process of the same reporter_id counts from the start; nothing of
\* the old one is still on its way.
Restart(r) ==
    /\ r \notin alive
    /\ alive' = alive \cup {r}
    /\ seq' = [seq EXCEPT ![r] = 0]
    /\ net' = {m \in net : m.from # r}
    /\ UNCHANGED <<outside, sending, crashes, hub, poller, faults>>

----------------------------------------------------------------------------
(* The hub                                                                 *)

\* A snapshot that arrived late is ignored.
IsLate(m) == m.number <= known[m.from]

\* A snapshot of the reporter was taken in since this one was sent.
Older(n, r) == [n EXCEPT !.since = @ \cup {r}]

TakeIn(m) ==
    /\ known' = [known EXCEPT ![m.from] = m.number]
    /\ held' = [c \in Cells |->
          IF \E x \in m.cells : x[1] = c
          THEN [by |-> m.from, info |-> InfoOf(m.cells, c)]
          ELSE IF held[c].by = m.from THEN Nothing ELSE held[c]]

Ingest(m) ==
    /\ m \in net
    /\ sending' = IF m.number = seq[m.from] THEN sending \ {m.from} ELSE sending
    /\ IF IsLate(m) \/ Conflicts(m.from, m.cells)
       THEN net' = net \ {m} /\ UNCHANGED hub
       ELSE net' = {Older(n, m.from) : n \in net \ {m}} /\ TakeIn(m)
    /\ UNCHANGED <<outside, alive, seq, crashes, poller, faults>>

\* _remove_reporter drops every cell the reporter announced.
WithoutCells(r) == [c \in Cells |-> IF held[c].by = r THEN Nothing ELSE held[c]]

\* The 240 seconds since its last snapshot was taken in are four times what a
\* send may take: nothing that was sent before that is on its way any more.
Drop(r) ==
    /\ known[r] # -1
    /\ known' = [known EXCEPT ![r] = -1]
    /\ held' = WithoutCells(r)
    /\ net' = {m \in net : r \notin m.since}
    /\ sending' = {q \in sending : \E m \in net' : m.from = q /\ m.number = seq[q]}
    /\ UNCHANGED <<outside, alive, seq, crashes, poller>>

\* Sixteen snapshots in a row were not taken in: the reporter is gone, counts
\* below the number the hub knows, or is refused.
Expire(r) ==
    /\ r \notin alive \/ seq[r] < known[r] \/ Conflicts(r, Observed(r))
    /\ Drop(r)
    /\ UNCHANGED faults

\* Or it could not reach the hub for that long.
Outage(r) == Fault /\ Drop(r)

----------------------------------------------------------------------------
(* The polling loop                                                        *)

\* _poll_once lists the cells; the list ages while it is worked through.
Poll ==
    /\ todo = {}
    /\ listed' = [c \in Cells |-> held[c].info]
    /\ todo' = {c \in Cells : seen[c] # listed'[c]}
    /\ todo' # {}
    /\ UNCHANGED <<outside, reporter, hub, seen, fleet, faults>>

Reconcile(c) ==
    /\ c \in todo
    /\ fleet' = [fleet EXCEPT ![c] = listed[c]]
    /\ seen' = [seen EXCEPT ![c] = listed[c]]
    /\ todo' = todo \ {c}
    /\ UNCHANGED <<outside, reporter, hub, listed, faults>>

SeenAfterFailure(c) == seen

\* It raises, before anything was done or, as the cell is replaced, between
\* the removal of the old one and the addition of the new one; the other
\* cells follow.
ReconcileFails(c) ==
    /\ c \in todo
    /\ Fault
    /\ fleet' \in {fleet, [fleet EXCEPT ![c] = IF listed[c] = 0 THEN @ ELSE 0]}
    /\ seen' = SeenAfterFailure(c)
    /\ todo' = todo \ {c}
    /\ UNCHANGED <<outside, reporter, hub, listed>>

----------------------------------------------------------------------------

Init ==
    /\ world = [c \in Cells |-> Nothing] /\ infos = 0
    /\ alive = Reporters /\ seq = [r \in Reporters |-> 0]
    /\ sending = {} /\ net = {}
    /\ known = [r \in Reporters |-> -1]
    /\ held = [c \in Cells |-> Nothing]
    /\ listed = [c \in Cells |-> 0] /\ todo = {}
    /\ seen = [c \in Cells |-> 0] /\ fleet = seen
    /\ crashes = 0 /\ faults = 0

Next ==
    \/ \E c \in Cells : WorldChanges(c) \/ Reconcile(c) \/ ReconcileFails(c)
    \/ \E r \in Reporters : \/ Send(r) \/ SendTimesOut(r) \/ Expire(r) \/ Outage(r)
                            \/ Crash(r) \/ Restart(r)
    \/ \E m \in net : Ingest(m)
    \/ Poll

Spec == Init /\ [][Next]_vars

\* The tasks of the reporters and of the hub run and their timers fire; a
\* reporter that died may stay dead.
Fairness ==
    /\ WF_vars(\E m \in net : Ingest(m))
    /\ \A r \in Reporters : WF_vars(Send(r)) /\ WF_vars(Expire(r))
    /\ WF_vars(Poll \/ \E c \in Cells : Reconcile(c))

FairSpec == Spec /\ Fairness

----------------------------------------------------------------------------
(* Properties                                                              *)

Holder    == [by : Reporters \cup {NoOne}, info : 0 .. infos]
Snapshots == [from : Reporters, number : Nat,
              cells : SUBSET (Cells \X (0 .. infos)), since : SUBSET Reporters]

TypeOK ==
    /\ {world, held} \subseteq [Cells -> Holder]
    /\ {listed, seen, fleet} \subseteq [Cells -> 0 .. infos]
    /\ infos \in 0 .. MaxInfos /\ crashes \in 0 .. MaxCrashes /\ faults \in 0 .. MaxFaults
    /\ net \subseteq Snapshots
    /\ seq \in [Reporters -> Nat] /\ known \in [Reporters -> Nat \cup {-1}]
    /\ sending \subseteq alive /\ alive \subseteq Reporters /\ todo \subseteq Cells

\* Every cell the hub holds belongs to a reporter that can still expire
\* (_remove_reporter).
HoldersAreKnown ==
    \A c \in Cells : IF held[c].by = NoOne THEN held[c] = Nothing ELSE known[held[c].by] # -1

\* No reporter waits for an answer that cannot come, and a number names one
\* snapshot of its reporter's process (_send_once).
AnswersCome == \A r \in sending : \E m \in net : m.from = r /\ m.number = seq[r]
NumberedOnce ==
    \A m \in net :
        /\ m.number <= seq[m.from]
        /\ \A n \in net : m.from = n.from /\ m.number = n.number => m = n

\* What runs is newer than what was ever said of it; of two snapshots the one
\* numbered higher is newer, and one the hub will take in is newer than what
\* it holds of that reporter.
WorldIsNewest ==
    \A c \in Cells : world[c].by # NoOne =>
        /\ held[c].info <= world[c].info
        /\ \A m \in net : \A x \in m.cells : x[1] = c => x[2] <= world[c].info
LaterIsNewer ==
    \A m, n \in net : m.from = n.from /\ m.number < n.number =>
        \A x \in m.cells, y \in n.cells : x[1] = y[1] => x[2] <= y[2]
FreshIsNewer ==
    \A m \in net : ~ IsLate(m) =>
        \A x \in m.cells : held[x[1]].by = m.from => held[x[1]].info <= x[2]

\* What the poll recorded as seen runs in the fleet, but for a cell whose
\* reconcile failed (_poll_once).
SeenIsRunning == faults = 0 => fleet = seen

\* Together, inductive.
HubInv ==
    /\ TypeOK /\ HoldersAreKnown /\ AnswersCome /\ NumberedOnce
    /\ WorldIsNewest /\ LaterIsNewer /\ FreshIsNewer /\ SeenIsRunning

\* A snapshot that arrives out of order never takes a cell the hub holds back
\* to an older info (the sequence numbers of ingest).
InfosNeverGoBack ==
    [][\A c \in Cells : held'[c] # Nothing => held'[c].info >= held[c].info]_vars

\* Once the deployments keep still, what the fleet runs is what the reporters
\* that live see, whatever was lost, late, refused, restarted or failed
\* (the number the hub knows, the expiry, the retry of the next poll).
FleetConverges ==
    <>[](\A c \in Cells : fleet[c] = IF world[c].by \in alive THEN world[c].info ELSE 0)
=============================================================================

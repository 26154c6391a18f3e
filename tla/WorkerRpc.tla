------------------------------ MODULE WorkerRpc ------------------------------
(***************************************************************************)
(* Calls over the worker RPC (utils/workers/rpc): a handle submits a call, *)
(* polls for its outcome and is pinned to the server process that answered *)
(* its handshake; the server runs every call it accepts once and keeps its *)
(* outcome for a while.  The network loses and delays requests and         *)
(* replies, the server process dies and is started again.  Time appears as *)
(* deadlines that pass.                                                    *)
(***************************************************************************)
EXTENDS Integers, Sequences

CONSTANTS
    Calls,
    Serial,     \* those to sync methods of one concurrency group
    MaxBoots    \* bound: server processes

ASSUME RpcAssumption == Serial \subseteq Calls /\ MaxBoots \in Nat \ {0}

VARIABLES
    phase,      \* call -> where the client stands with it
    waiting,    \* calls with an attempt under way
    late,       \* calls whose present retry window has passed
    pin,        \* the process the handle is pinned to, or 0
    net,        \* requests, open while the client waits for the reply,
                \* and replies
    boot,       \* the last server process
    up,         \* it runs
    record,     \* call -> its record in the store
    queue,      \* the serial calls accepted and not finished, the first runs
    ran,        \* history: call -> the processes that ran it
    pinned,     \* history: call -> the process it was submitted for
    produced,   \* history: call -> its outcome
    answered    \* history: calls whose outcome the server has sent

client  == <<phase, waiting, late, pin, pinned>>
server  == <<boot, up, record, queue, ran, produced, answered>>
vars    == <<client, net, server>>

Active   == {"handshake", "submitting", "polling"}
Outcomes == {"success", "failed"}
Ended    == Outcomes \cup {"unreachable", "timeout", "restarted", "rejected"}

----------------------------------------------------------------------------
(* Faulty variants of definitions below                                    *)

RepeatsAll(p) == TRUE
AnyProcess(m) == TRUE
NeverPasses(c) == phase[c] # "polling"

----------------------------------------------------------------------------
(* The client                                                              *)

\* _prepare_call: a handle that is not pinned shakes hands first.
StartCall(c) ==
    /\ phase[c] = "new"
    /\ phase' = [phase EXCEPT ![c] = IF pin = 0 THEN "handshake" ELSE "submitting"]
    /\ UNCHANGED <<waiting, late, pin, pinned, net, server>>

\* An attempt of the present phase, with the expected boot uuid.  If the
\* connection fails the request never reaches the server.
Send(c) ==
    /\ phase[c] \in Active
    /\ c \notin waiting \cup late
    /\ net' = net \cup {[to |-> "server", call |-> c, kind |-> phase[c],
                          boot |-> pin, open |-> TRUE]}
    /\ waiting' = waiting \cup {c}
    /\ pinned' = IF phase[c] = "submitting" THEN [pinned EXCEPT ![c] = pin] ELSE pinned
    /\ UNCHANGED <<phase, late, pin, server>>

Passes(c) == TRUE

DeadlinePasses(c) ==
    /\ phase[c] \in Active
    /\ Passes(c)
    /\ late' = late \cup {c}
    /\ UNCHANGED <<phase, waiting, pin, pinned, net, server>>

\* retry_until_deadline raises the last error.
GiveUp(c) ==
    /\ c \in late \ waiting
    /\ phase' = [phase EXCEPT ![c] = IF @ = "polling" THEN "timeout" ELSE "unreachable"]
    /\ late' = late \ {c}
    /\ UNCHANGED <<waiting, pin, pinned, net, server>>

\* Which attempts are repeated when they may have reached the server.
Repeated(p) == p # "submitting"

\* The attempt's connection is closed: no reply reaches the client any more.
\* A submission may still reach the server; of the others only what they did
\* before matters.  A poll that is given up while the server holds it is taken
\* to leave no trace: the code counts it as an answer if the call finishes
\* before the poll's time is over (CallStore.wait).
Closed(c) ==
    {IF m.call = c THEN [m EXCEPT !.open = FALSE] ELSE m :
        m \in {n \in net : n.call # c \/ n.kind = "submitting"}}

\* No answer in time, or no connection.
AttemptFails(c) ==
    /\ c \in waiting
    /\ waiting' = waiting \ {c}
    /\ net' \in {Closed(c), Closed(c) \ {m \in Closed(c) : m.call = c}}
    /\ phase' = IF Repeated(phase[c]) THEN phase
                ELSE [phase EXCEPT ![c] = "unreachable"]
    /\ late' = IF Repeated(phase[c]) THEN late ELSE late \ {c}
    /\ UNCHANGED <<pin, pinned, server>>

\* Where a reply takes a call.  A process the handle is not pinned to is
\* found out by its own refusal or by its reply.
After(c, m) ==
    CASE m.kind = "mismatch"                     -> "restarted"
      [] m.kind \in {"duplicate", "unknown"}     -> "rejected"
      [] pin \notin {0, m.boot}                  -> "restarted"
      [] m.kind = "ok"   -> IF phase[c] = "handshake" THEN "submitting" ELSE "polling"
      [] m.kind = "pending"                      -> "polling"
      [] OTHER                                   -> m.kind

Receive(c) ==
    /\ c \in waiting
    /\ \E m \in net :
          /\ m.to = "client" /\ m.call = c
          /\ net' = net \ {m}
          /\ phase' = [phase EXCEPT ![c] = After(c, m)]
          /\ late' = IF After(c, m) = phase[c] THEN late ELSE late \ {c}
          /\ pin' = IF pin = 0 /\ m.kind \in {"ok", "pending"} \cup Outcomes
                    THEN m.boot ELSE pin
    /\ waiting' = waiting \ {c}
    /\ UNCHANGED <<pinned, server>>

\* wait_ready(allow_server_uuid_change), between two calls of the handle: the
\* pin moves to the process that answers, or stays.
Reattach ==
    /\ \A c \in Calls : phase[c] \notin Active
    /\ up
    /\ pin' = boot
    /\ UNCHANGED <<phase, waiting, late, pinned, net, server>>

----------------------------------------------------------------------------
(* The server                                                              *)

Running(c) == record[c] = "pending" /\ (c \in Serial => Head(queue) = c)

Reply(m, kind) ==
    net' = (net \ {m}) \cup
           IF m.open THEN {[to |-> "client", call |-> m.call, kind |-> kind, boot |-> boot]}
           ELSE {}

\* boot_uuid_guard.
Expected(m) == m.boot \in {0, boot}

Refuse(m) ==
    /\ ~ Expected(m)
    /\ Reply(m, "mismatch")
    /\ UNCHANGED <<client, server>>

Health(m) ==
    /\ m.kind = "handshake" /\ Expected(m)
    /\ Reply(m, "ok")
    /\ UNCHANGED <<client, server>>

\* Records that may have outlived their time to live: 300 seconds from the
\* first answer with the outcome, or 12 hours, when nobody polls any more.
Purgeable == {c \in Calls : record[c] \in Outcomes /\ (c \in answered \/ phase[c] \in Ended)}

\* submit_call: begin purges, refuses a call id it knows, and the executor
\* takes the call.
Submit(m) ==
    /\ m.kind = "submitting" /\ Expected(m)
    /\ \E gone \in SUBSET Purgeable :
          LET kept == [c \in Calls |-> IF c \in gone THEN "none" ELSE record[c]]
          IN IF kept[m.call] # "none"
             THEN /\ Reply(m, "duplicate")
                  /\ record' = kept
                  /\ UNCHANGED <<queue, ran>>
             ELSE /\ Reply(m, "ok")
                  /\ record' = [kept EXCEPT ![m.call] = "pending"]
                  /\ queue' = IF m.call \in Serial THEN Append(queue, m.call) ELSE queue
                  /\ ran' = [ran EXCEPT ![m.call] = Append(@, boot)]
    /\ UNCHANGED <<client, boot, up, produced, answered>>

\* query_call: the outcome, or "pending" when the long poll ends without one.
Query(m) ==
    /\ m.kind = "polling" /\ Expected(m)
    /\ Reply(m, IF record[m.call] = "none" THEN "unknown" ELSE record[m.call])
    /\ answered' = IF record[m.call] \in Outcomes THEN answered \cup {m.call} ELSE answered
    /\ UNCHANGED <<client, boot, up, record, queue, ran, produced>>

Handle(m) == up /\ m.to = "server" /\ (Refuse(m) \/ Health(m) \/ Submit(m) \/ Query(m))

\* The worker's method returns or raises.
Finish(c) ==
    /\ Running(c)
    /\ \E outcome \in Outcomes :
          /\ record' = [record EXCEPT ![c] = outcome]
          /\ produced' = [produced EXCEPT ![c] = outcome]
    /\ queue' = IF c \in Serial THEN Tail(queue) ELSE queue
    /\ UNCHANGED <<client, net, boot, up, ran, answered>>

Crash ==
    /\ up
    /\ up' = FALSE
    /\ record' = [c \in Calls |-> "none"]
    /\ queue' = <<>>
    /\ UNCHANGED <<client, net, boot, ran, produced, answered>>

Restart ==
    /\ ~ up
    /\ boot < MaxBoots
    /\ boot' = boot + 1
    /\ up' = TRUE
    /\ UNCHANGED <<client, net, record, queue, ran, produced, answered>>

----------------------------------------------------------------------------

Init ==
    /\ phase = [c \in Calls |-> "new"]
    /\ waiting = {} /\ late = {} /\ net = {}
    /\ pin = 0 /\ pinned = [c \in Calls |-> 0]
    /\ boot = 1 /\ up = TRUE
    /\ record = [c \in Calls |-> "none"] /\ queue = <<>>
    /\ ran = [c \in Calls |-> <<>>]
    /\ produced = [c \in Calls |-> "none"]
    /\ answered = {}

ClientStep(c) == AttemptFails(c) \/ Receive(c) \/ DeadlinePasses(c) \/ GiveUp(c)

Next ==
    \/ \E c \in Calls : StartCall(c) \/ Send(c) \/ ClientStep(c) \/ Finish(c)
    \/ \E m \in net : Handle(m)
    \/ Reattach \/ Crash \/ Restart

Spec == Init /\ [][Next]_vars

\* The client's clock and its timeouts run; the network, the worker's methods
\* and the server process promise nothing.
Fairness ==
    \A c \in Calls :
        /\ WF_vars(DeadlinePasses(c)) /\ WF_vars(GiveUp(c))
        /\ WF_vars(AttemptFails(c) \/ Receive(c))

FairSpec == Spec /\ Fairness

----------------------------------------------------------------------------
(* Properties                                                              *)

Requests == [to : {"server"}, call : Calls, kind : Active, boot : 0 .. MaxBoots, open : BOOLEAN]
Replies  == [to : {"client"}, call : Calls, boot : 1 .. MaxBoots,
             kind : {"ok", "mismatch", "duplicate", "unknown", "pending"} \cup Outcomes]

TypeOK ==
    /\ phase \in [Calls -> {"new"} \cup Active \cup Ended]
    /\ waiting \cup late \subseteq {c \in Calls : phase[c] \in Active}
    /\ net \subseteq Requests \cup Replies
    /\ boot \in 1 .. MaxBoots /\ pin \in 0 .. boot /\ up \in BOOLEAN
    /\ record \in [Calls -> {"none", "pending"} \cup Outcomes]
    /\ queue \in Seq(Serial)
    /\ ran \in [Calls -> Seq(1 .. MaxBoots)]
    /\ pinned \in [Calls -> 0 .. MaxBoots]
    /\ produced \in [Calls -> {"none"} \cup Outcomes]
    /\ answered \subseteq Calls

\* A call is run at most once, and only by the process it was submitted for,
\* however late its request arrives; in_flight_calls names exactly the calls
\* still to finish (BootUuidPin, boot_uuid_guard, CallStore.begin).
RunsOnce ==
    \A c \in Calls :
        /\ Len(ran[c]) <= 1
        /\ ran[c] # <<>> => pinned[c] = ran[c][1]
        /\ record[c] = "pending" => up /\ ran[c] = <<boot>>
        /\ c \in Serial => (record[c] = "pending" <=>
                               \E i \in 1 .. Len(queue) : queue[i] = c)

\* What the client is told is true: an outcome is the one the worker produced
\* in the process the call was submitted for, and a call is only refused as
\* unknown when its outcome has been sent before (NEVER_REACHED_SERVER_ERRORS,
\* the times to live of the records).
OutcomesAreTrue ==
    \A c \in Calls :
        /\ phase[c] \in Outcomes => produced[c] = phase[c] /\ ran[c] = <<pinned[c]>>
        /\ phase[c] = "rejected" => c \in answered
        /\ phase[c] = "restarted" => boot > 1

\* No attempt is taken for another: a call has one message on its way, the
\* open request of the phase it is in or the answer to it, or the submission
\* its caller has given up; an answer speaks of the process the call runs in.
OneAttempt == \A m, n \in net : m.call = n.call => m = n

RequestInv(m) ==
    /\ m.boot <= boot
    /\ IF m.open THEN m.call \in waiting /\ m.kind = phase[m.call]
       ELSE m.kind = "submitting" /\ phase[m.call] = "unreachable"
    /\ m.kind \in {"submitting", "polling"} => m.boot = pinned[m.call] /\ m.boot # 0
    /\ m.kind = "submitting" => ran[m.call] = <<>>

ReplyInv(m) ==
    /\ m.call \in waiting /\ m.boot <= boot
    /\ m.kind = "mismatch" => boot > 1
    /\ m.kind = "ok" =>
          \/ phase[m.call] = "handshake"
          \/ phase[m.call] = "submitting" /\ ran[m.call] = <<pinned[m.call]>>
    /\ m.kind \notin {"ok", "mismatch"} => phase[m.call] = "polling"
    /\ m.kind \in {"duplicate", "unknown"} => m.call \in answered
    /\ m.kind \in Outcomes => produced[m.call] = m.kind

MessagesInv ==
    /\ OneAttempt
    /\ \A m \in net \cap Requests : RequestInv(m)
    /\ \A m \in net \cap Replies : ReplyInv(m)

\* A handle keeps to one process while it has calls, and a record is missing
\* in the process that ran the call only when nobody needs it any more.
Unsent(c) == phase[c] \in {"new", "handshake"} \/ (phase[c] = "submitting" /\ c \notin waiting)

RecordsLast ==
    \A c \in Calls :
        /\ phase[c] \in {"submitting", "polling"} => pin # 0 /\ (Unsent(c) \/ pinned[c] = pin)
        /\ Unsent(c) => ran[c] = <<>>
        /\ phase[c] = "polling" => ran[c] = <<pinned[c]>>
        /\ ran[c] # <<>> => ran[c][1] <= boot
        /\ record[c] # "none" => up /\ ran[c] = <<boot>>
        /\ up /\ ran[c] = <<boot>> /\ record[c] = "none" => c \in answered \/ phase[c] \in Ended
        /\ record[c] \in Outcomes => produced[c] = record[c]
        /\ record[c] = "pending" \/ ran[c] = <<>> => produced[c] = "none"

QueueHasNoDuplicates == \A i, j \in 1 .. Len(queue) : queue[i] = queue[j] => i = j

\* Together, inductive: at most one run, the truth about it, and the
\* attempts and records that make it so.
CallsInv ==
    /\ TypeOK /\ RunsOnce /\ OutcomesAreTrue
    /\ MessagesInv /\ RecordsLast /\ QueueHasNoDuplicates

\* Every call ends for its caller, with an outcome or an error, whatever the
\* network, the method and the server do (retry_until_deadline).
CallsEnd == \A c \in Calls : phase[c] \in Active ~> phase[c] \in Ended
=============================================================================

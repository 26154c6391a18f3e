--------------------------- MODULE WorkerRpcProofs ---------------------------
(***************************************************************************)
(* Proofs about the worker RPC, for any calls, any serial ones among them  *)
(* and any number of server processes: CallsInv is inductive.  Its parts   *)
(* carry each other: a call runs once because its submission is sent once  *)
(* (OneAttempt) and reaches the process the handle is pinned to, and a     *)
(* caller learns the truth because that process keeps the record as long   *)
(* as somebody still asks for it (RecordsLast).                            *)
(***************************************************************************)
EXTENDS WorkerRpc, TLAPS

USE RpcAssumption DEF CallsInv, Active, Ended, Outcomes

\* Requests and replies are told apart by their addressee.
LEMMA Messages ==
    ASSUME TypeOK
    PROVE  \A m \in net :
              /\ m.call \in Calls
              /\ m.to = "server" => m \in Requests
              /\ m \in Requests => /\ m.to = "server" /\ m.kind \in Active
                                   /\ m.boot \in Nat /\ m.open \in BOOLEAN
                                   /\ m \notin Replies
              /\ m \notin Requests => m \in Replies
              /\ m \in Replies => /\ m.to = "client" /\ m.boot \in Nat \ {0}
BY DEF TypeOK, Requests, Replies

----------------------------------------------------------------------------
(* The client *)

\* The message sent is the only one of its call.
LEMMA SendInv == ASSUME CallsInv, NEW c \in Calls, Send(c) PROVE CallsInv'
<1> DEFINE r == [to |-> "server", call |-> c, kind |-> phase[c], boot |-> pin, open |-> TRUE]
<1>1. /\ net' = net \cup {r} /\ phase[c] \in Active
      /\ waiting' = waiting \cup {c} /\ c \notin waiting \cup late
      /\ pinned' = IF phase[c] = "submitting" THEN [pinned EXCEPT ![c] = pin] ELSE pinned
      /\ UNCHANGED <<phase, late, pin, boot, up, record, queue, ran, produced, answered>>
  BY DEF Send, server
<1>2. r \in Requests /\ r \notin Replies
  BY DEF Send, TypeOK, Requests, Replies
<1>3. \A m \in net : m.call # c
  <2> SUFFICES ASSUME NEW m \in net, m.call = c PROVE FALSE
    OBVIOUS
  <2> QED BY <1>1, Messages DEF MessagesInv, RequestInv, ReplyInv
<1>0. r.call = c 
   OBVIOUS
<1>4. TypeOK'
  <2>1. (Requests \cup Replies)' = Requests \cup Replies
    BY DEF Requests, Replies
  <2>2. (net \subseteq Requests \cup Replies)'
    BY <1>1, <1>2, <2>1 DEF TypeOK
  <2>3. (pinned \in [Calls -> 0 .. MaxBoots])' 
    BY <1>1 DEF TypeOK
  <2> QED BY <1>1, <2>2, <2>3 DEF TypeOK
<1>5. RunsOnce' BY <1>1 DEF RunsOnce, TypeOK, RecordsLast, Unsent
<1>6. OutcomesAreTrue' BY <1>1 DEF OutcomesAreTrue, TypeOK
<1>7. MessagesInv'
  <2>1. OneAttempt'
    <3> HIDE DEF r
    <3> QED BY <1>1, <1>3, <1>0 DEF MessagesInv, OneAttempt
  <2>2. ASSUME NEW m \in net', m \in Requests PROVE  RequestInv(m)'
    <3>1. CASE m = r
      BY <1>1, <3>1 DEF TypeOK, RecordsLast, Unsent, RequestInv
    <3>2. CASE m \in net
      BY <1>1, <1>3, <2>2, <3>2, Messages DEF MessagesInv, TypeOK, RequestInv
    <3> QED BY <1>1, <3>1, <3>2
  <2>3. ASSUME NEW m \in net', m \in Replies PROVE  ReplyInv(m)'
    <3>1. m \in net /\ m.call # c
      BY <1>1, <1>2, <1>3, <2>3
    <3> QED BY <1>1, <2>3, <3>1, Messages DEF MessagesInv, TypeOK, ReplyInv
  <2> QED BY <2>1, <2>2, <2>3 DEF MessagesInv, Requests, Replies
<1>8. RecordsLast' BY <1>1 DEF RecordsLast, Unsent, TypeOK
<1>9. QueueHasNoDuplicates' BY <1>1 DEF QueueHasNoDuplicates
<1> QED BY <1>4, <1>5, <1>6, <1>7, <1>8, <1>9

\* Of the call's messages only a submission outlives its connection.
LEMMA AttemptFailsInv == ASSUME CallsInv, NEW c \in Calls, AttemptFails(c) PROVE CallsInv'
<1>1. /\ c \in waiting /\ waiting' = waiting \ {c} /\ phase[c] \in Active
      /\ phase' = IF Repeated(phase[c]) THEN phase ELSE [phase EXCEPT ![c] = "unreachable"]
      /\ late' = IF Repeated(phase[c]) THEN late ELSE late \ {c}
      /\ UNCHANGED <<pin, pinned, boot, up, record, queue, ran, produced, answered>>
  BY DEF AttemptFails, server, TypeOK
<1>2. ASSUME NEW m \in net'
      PROVE  \/ m \in net /\ m.call # c
             \/ /\ ~ Repeated(phase[c])
                /\ \E n \in net \cap Requests : /\ n.call = c /\ n.kind = "submitting"
                                              /\ m = [n EXCEPT !.open = FALSE]
  <2>1. m \in Closed(c)
    BY DEF AttemptFails
  <2>2. PICK n \in net : /\ m = IF n.call = c THEN [n EXCEPT !.open = FALSE] ELSE n
                         /\ n.call # c \/ n.kind = "submitting"
    BY <2>1 DEF Closed
  <2>3. CASE n.call # c
    BY <2>2, <2>3
  <2>4. CASE n.call = c
    <3>1. n \in Requests
      BY <1>1, <2>2, <2>4, Messages DEF MessagesInv, ReplyInv, Replies
    <3>2. ~ Repeated(phase[c])
      BY <1>1, <2>2, <2>4, <3>1, Messages DEF MessagesInv, RequestInv, Repeated
    <3> QED BY <2>2, <2>4, <3>1, <3>2
  <2> QED BY <2>3, <2>4
<1> DEFINE given(n) == [n EXCEPT !.open = FALSE]
<1>3. ASSUME NEW n \in Requests
      PROVE  /\ given(n) \in Requests /\ given(n).open = FALSE
             /\ given(n).call = n.call /\ given(n).kind = n.kind /\ given(n).boot = n.boot
  BY DEF Requests
<1>b. \A m \in net' : \/ m \in net /\ m.call # c
                      \/ \E n \in net \cap Requests : n.call = c /\ m = given(n)
  BY <1>2
<1> HIDE DEF given
<1>4. TypeOK'
  <2>1. (Requests \cup Replies)' = Requests \cup Replies
    BY DEF Requests, Replies
  <2>2. (net \subseteq Requests \cup Replies)'
    <3> SUFFICES ASSUME NEW m \in net' PROVE m \in Requests \cup Replies
      BY <2>1
    <3>1. CASE m \in net
      BY <3>1 DEF TypeOK
    <3>2. ASSUME NEW n \in net \cap Requests, m = given(n) PROVE m \in Requests
      BY <3>2, <1>3
    <3> QED BY <1>b, <3>1, <3>2
  <2> QED BY <1>1, <2>2 DEF TypeOK
<1>5. RunsOnce' BY <1>1 DEF RunsOnce
<1>6. OutcomesAreTrue' BY <1>1 DEF OutcomesAreTrue, TypeOK
<1>7. MessagesInv'
  <2>1. OneAttempt'
    <3> SUFFICES ASSUME NEW m \in net', NEW n \in net', m.call = n.call PROVE m = n
      BY DEF OneAttempt
    <3>1. CASE m.call # c
      <4>1. m \in net
        BY <1>b, <1>3, <3>1
      <4>2. n \in net
        BY <1>b, <1>3, <3>1
      <4> QED BY <4>1, <4>2 DEF MessagesInv, OneAttempt
    <3>2. CASE m.call = c
      <4>1. PICK k \in net \cap Requests : k.call = c /\ m = given(k)
        BY <1>b, <3>2
      <4>2. PICK l \in net \cap Requests : l.call = c /\ n = given(l)
        BY <1>b, <3>2
      <4> QED BY <4>1, <4>2 DEF MessagesInv, OneAttempt
    <3> QED BY <3>1, <3>2
  <2>2. ASSUME NEW m \in net', m \in Requests PROVE RequestInv(m)'
    <3>1. CASE m \in net /\ m.call # c
      BY <1>1, <2>2, <3>1, Messages DEF MessagesInv, TypeOK, RequestInv
    <3>2. ASSUME ~ Repeated(phase[c]), NEW n \in net \cap Requests,
                 n.call = c, n.kind = "submitting", m = [n EXCEPT !.open = FALSE]
          PROVE  RequestInv(m)'
      BY <1>1, <1>3, <3>2 DEF MessagesInv, TypeOK, RequestInv, given
    <3> QED BY <1>2, <3>1, <3>2
  <2>3. ASSUME NEW m \in net', m \in Replies PROVE ReplyInv(m)'
    <3>1. m \in net /\ m.call # c
      BY <1>b, <1>3, <2>3 DEF Requests, Replies
    <3> QED BY <1>1, <2>3, <3>1, Messages DEF MessagesInv, TypeOK, ReplyInv
  <2> QED BY <2>1, <2>2, <2>3 DEF MessagesInv, Requests, Replies
<1>8. RecordsLast' BY <1>1 DEF RecordsLast, Unsent, TypeOK, Repeated
<1>9. QueueHasNoDuplicates' BY <1>1 DEF QueueHasNoDuplicates
<1> QED BY <1>4, <1>5, <1>6, <1>7, <1>8, <1>9

\* The answer taken is the only message of its call, and it is true.
LEMMA ReceiveInv == ASSUME CallsInv, NEW c \in Calls, Receive(c) PROVE CallsInv'
<1>1. PICK m \in net :
          /\ m.to = "client" /\ m.call = c
          /\ net' = net \ {m}
          /\ phase' = [phase EXCEPT ![c] = After(c, m)]
          /\ late' = IF After(c, m) = phase[c] THEN late ELSE late \ {c}
          /\ pin' = IF pin = 0 /\ m.kind \in {"ok", "pending"} \cup Outcomes
                    THEN m.boot ELSE pin
  BY DEF Receive
<1>2. /\ c \in waiting /\ waiting' = waiting \ {c} /\ phase[c] \in Active
      /\ UNCHANGED <<pinned, boot, up, record, queue, ran, produced, answered>>
  BY DEF Receive, server, TypeOK
<1>3. m \in Replies /\ ReplyInv(m)
  BY <1>1, Messages DEF MessagesInv
<1>4. \A n \in net' : n \in net /\ n.call # c
  BY <1>1 DEF MessagesInv, OneAttempt
<1>5. TypeOK'
  <2>1. (Requests \cup Replies)' = Requests \cup Replies
    BY DEF Requests, Replies
  <2>2. (net \subseteq Requests \cup Replies)'
    BY <1>4, <2>1 DEF TypeOK
  <2>3. After(c, m) \in Active \cup Ended
    BY <1>2, <1>3 DEF After, Replies
  <2>4. pin' \in 0 .. boot
    BY <1>1, <1>3 DEF TypeOK, Replies, ReplyInv
  <2>5. /\ phase' \in [Calls -> {"new"} \cup Active \cup Ended]
        /\ phase'[c] = After(c, m) /\ \A d \in Calls : d # c => phase'[d] = phase[d]
    BY <1>1, <2>3 DEF TypeOK
  <2>6. (waiting \cup late \subseteq {d \in Calls : phase[d] \in Active})'
    BY <1>1, <1>2, <2>5, <2>3 DEF TypeOK
  <2> QED BY <1>2, <2>2, <2>4, <2>5, <2>6 DEF TypeOK
<1>6. RunsOnce' BY <1>2 DEF RunsOnce
<1>7. OutcomesAreTrue'
  <2>1. ASSUME NEW d \in Calls, d # c
        PROVE  (/\ phase[d] \in Outcomes => produced[d] = phase[d] /\ ran[d] = <<pinned[d]>>
                /\ phase[d] = "rejected" => d \in answered
                /\ phase[d] = "restarted" => boot > 1)'
    BY <1>1, <1>2, <2>1 DEF OutcomesAreTrue, TypeOK
  <2>2. /\ After(c, m) \in Outcomes => produced[c] = After(c, m) /\ ran[c] = <<pinned[c]>>
        /\ After(c, m) = "rejected" => c \in answered
    BY <1>1, <1>2, <1>3 DEF After, Replies, ReplyInv, RecordsLast
  <2>3. After(c, m) = "restarted" => boot > 1
    <3>1. CASE m.kind = "mismatch"
      BY <1>3, <3>1 DEF ReplyInv
    <3>2. CASE pin \notin {0, m.boot}
      BY <1>3, <3>2 DEF ReplyInv, Replies, TypeOK
    <3> QED BY <1>3, <3>1, <3>2 DEF After, Replies
  <2>4. phase'[c] = After(c, m)
    BY <1>1 DEF TypeOK
  <2> QED BY <1>2, <2>1, <2>2, <2>3, <2>4 DEF OutcomesAreTrue
<1>8. MessagesInv'
  <2>1. OneAttempt'
    BY <1>1 DEF MessagesInv, OneAttempt
  <2>2. ASSUME NEW n \in net', n \in Requests PROVE RequestInv(n)'
    BY <1>1, <1>2, <1>4, <2>2, Messages DEF MessagesInv, RequestInv, TypeOK
  <2>3. ASSUME NEW n \in net', n \in Replies PROVE ReplyInv(n)'
    BY <1>1, <1>2, <1>4, <2>3, Messages DEF MessagesInv, ReplyInv, TypeOK
  <2> QED BY <2>1, <2>2, <2>3 DEF MessagesInv, Requests, Replies
<1>9. RecordsLast'
  <2>1. phase' = [phase EXCEPT ![c] = After(c, m)] /\ phase \in [Calls -> {"new"} \cup Active \cup Ended]
    BY <1>1 DEF TypeOK
  <2>2. After(c, m) \in {"submitting", "polling"} => pin' # 0 /\ (phase[c] # "handshake" => pin' = pin)
    BY <1>1, <1>2, <1>3 DEF After, Replies, ReplyInv, RecordsLast
  <2>3. After(c, m) \notin {"new", "handshake"}
    BY <1>2, <1>3 DEF After, Replies, ReplyInv
  <2>4. After(c, m) = "submitting" => phase[c] = "handshake"
    BY <1>2, <1>3 DEF After, Replies, ReplyInv
  <2>5. After(c, m) = "polling" => phase[c] \in {"submitting", "polling"} /\ ran[c] = <<pinned[c]>>
    BY <1>1, <1>2, <1>3 DEF After, Replies, ReplyInv, RecordsLast
  <2>6. pin # 0 => pin' = pin
    BY <1>1
  <2> QED BY <1>2, <2>1, <2>2, <2>3, <2>4, <2>5, <2>6 DEF RecordsLast, Unsent, TypeOK
<1>10. QueueHasNoDuplicates' BY <1>2 DEF QueueHasNoDuplicates
<1> QED BY <1>5, <1>6, <1>7, <1>8, <1>9, <1>10

\* Steps of the client that exchange no message.
LEMMA ClientInv ==
    ASSUME CallsInv,
           (\E c \in Calls : StartCall(c) \/ DeadlinePasses(c) \/ GiveUp(c)) \/ Reattach
    PROVE  CallsInv'
<1> DEFINE Moves(d) == \/ phase'[d] = phase[d]
                       \/ phase[d] = "new" /\ phase'[d] = "handshake"
                       \/ phase[d] = "new" /\ phase'[d] = "submitting" /\ pin # 0
                       \/ /\ phase[d] \in Active /\ d \notin waiting
                          /\ phase'[d] \in {"timeout", "unreachable"}
<1>1. /\ UNCHANGED <<waiting, pinned, net, boot, up, record, queue, ran, produced, answered>>
      /\ pin' \in 0 .. boot /\ (pin # 0 => pin' # 0)
      /\ pin' # pin => \A d \in Calls : phase[d] \notin Active
      /\ phase' \in [Calls -> {"new"} \cup Active \cup Ended]
      /\ \A d \in late' : d \in Calls /\ phase'[d] \in Active
      /\ \A d \in Calls : Moves(d)
  <2>1. /\ phase \in [Calls -> {"new"} \cup Active \cup Ended]
        /\ \A d \in late : d \in Calls /\ phase[d] \in Active
        /\ pin \in 0 .. boot /\ boot \in 1 .. MaxBoots
    BY DEF TypeOK
  <2>2. ASSUME NEW c \in Calls, StartCall(c)
        PROVE  /\ pin' = pin /\ late' = late
               /\ phase[c] = "new"
               /\ phase' = [phase EXCEPT ![c] = IF pin = 0 THEN "handshake" ELSE "submitting"]
    BY <2>2 DEF StartCall
  <2>3. ASSUME NEW c \in Calls, DeadlinePasses(c)
        PROVE  pin' = pin /\ phase' = phase /\ late' = late \cup {c} /\ phase[c] \in Active
    BY <2>3 DEF DeadlinePasses
  <2>4. ASSUME NEW c \in Calls, GiveUp(c)
        PROVE  /\ pin' = pin /\ late' = late \ {c} /\ c \in late /\ c \notin waiting
               /\ phase' = [phase EXCEPT ![c] = IF @ = "polling" THEN "timeout" ELSE "unreachable"]
    BY <2>4 DEF GiveUp
  <2>5. ASSUME Reattach
        PROVE  /\ pin' = boot /\ phase' = phase /\ late' = late
               /\ \A d \in Calls : phase[d] \notin Active
    BY <2>5 DEF Reattach
  <2>6. UNCHANGED <<waiting, pinned, net, boot, up, record, queue, ran, produced, answered>>
    BY DEF StartCall, DeadlinePasses, GiveUp, Reattach, server
  <2>7. ASSUME NEW c \in Calls, StartCall(c)
        PROVE  /\ phase' \in [Calls -> {"new"} \cup Active \cup Ended]
               /\ \A d \in late' : d \in Calls /\ phase'[d] \in Active
               /\ \A d \in Calls : Moves(d)
    BY <2>1, <2>2, <2>7
  <2>8. ASSUME NEW c \in Calls, DeadlinePasses(c)
        PROVE  /\ phase' \in [Calls -> {"new"} \cup Active \cup Ended]
               /\ \A d \in late' : d \in Calls /\ phase'[d] \in Active
               /\ \A d \in Calls : Moves(d)
    BY <2>1, <2>3, <2>8
  <2>9. ASSUME NEW c \in Calls, GiveUp(c)
        PROVE  /\ phase' \in [Calls -> {"new"} \cup Active \cup Ended]
               /\ \A d \in late' : d \in Calls /\ phase'[d] \in Active
               /\ \A d \in Calls : Moves(d)
    BY <2>1, <2>4, <2>9
  <2>10. CASE Reattach
    BY <2>1, <2>5, <2>6, <2>10
  <2> HIDE DEF Moves
  <2>11. CASE \E c \in Calls : StartCall(c) \/ DeadlinePasses(c) \/ GiveUp(c)
    BY <2>1, <2>2, <2>3, <2>4, <2>6, <2>7, <2>8, <2>9, <2>11
  <2> QED BY <2>10, <2>11
<1>2. \A d \in waiting : phase'[d] = phase[d] /\ d \in Calls
  BY <1>1 DEF TypeOK
<1>3. TypeOK'
  <2>1. (net \subseteq Requests \cup Replies)'
    BY <1>1 DEF TypeOK, Requests, Replies
  <2> QED BY <1>1, <1>2, <2>1 DEF TypeOK
<1>4. RunsOnce' BY <1>1 DEF RunsOnce
<1>5. OutcomesAreTrue' BY <1>1 DEF OutcomesAreTrue
<1>6. MessagesInv'
  <2>1. ASSUME NEW m \in net, m \in Requests PROVE RequestInv(m)'
    BY <1>1, <1>2, <2>1, Messages DEF MessagesInv, RequestInv
  <2>2. ASSUME NEW m \in net, m \in Replies PROVE ReplyInv(m)'
    BY <1>1, <1>2, <2>2, Messages DEF MessagesInv, ReplyInv
  <2> QED BY <1>1, <2>1, <2>2 DEF MessagesInv, OneAttempt, Requests, Replies
<1>7. RecordsLast'
  <2> SUFFICES ASSUME NEW d \in Calls
               PROVE  /\ phase'[d] \in {"submitting", "polling"} => pin' # 0 /\ (Unsent(d)' \/ pinned[d] = pin')
                      /\ Unsent(d)' => Unsent(d)
                      /\ phase'[d] = "polling" => phase[d] = "polling"
                      /\ phase[d] \in Ended => phase'[d] = phase[d]
    BY <1>1 DEF RecordsLast
  <2>1. phase[d] \in {"submitting", "polling"} => pin # 0 /\ (Unsent(d) \/ pinned[d] = pin)
    BY DEF RecordsLast
  <2> QED BY <1>1, <2>1 DEF Unsent, TypeOK
<1>8. QueueHasNoDuplicates' BY <1>1 DEF QueueHasNoDuplicates
<1> QED BY <1>3, <1>4, <1>5, <1>6, <1>7, <1>8

----------------------------------------------------------------------------
(* The server *)

\* An answer takes the place of the open request it answers.
LEMMA ReplyStep ==
    ASSUME CallsInv, NEW m \in net \cap Requests,
           NEW kind \in {"ok", "mismatch", "duplicate", "unknown", "pending"} \cup Outcomes,
           Reply(m, kind), boot' = boot
    PROVE  /\ (net \subseteq Requests \cup Replies)'
           /\ OneAttempt'
           /\ \A n \in net' : \/ n \in net /\ n.call # m.call
                            \/ /\ n \in Replies /\ n \notin Requests /\ m.open
                               /\ n.call = m.call /\ n.kind = kind /\ n.boot = boot
<1> DEFINE answer == [to |-> "client", call |-> m.call, kind |-> kind, boot |-> boot]
<1>1. /\ answer \in Replies /\ answer \notin Requests
      /\ answer.call = m.call /\ answer.kind = kind /\ answer.boot = boot
  BY Messages DEF Replies, Requests, TypeOK
<1>2. net' = (net \ {m}) \cup IF m.open THEN {answer} ELSE {}
  BY DEF Reply
<1> HIDE DEF answer
<1>3. \A n \in net \ {m} : n.call # m.call
  BY DEF MessagesInv, OneAttempt
<1>4. (net \subseteq Requests \cup Replies)'
  <2>1. (Requests \cup Replies)' = Requests \cup Replies
    BY DEF Requests, Replies
  <2>2. net' \subseteq Requests \cup Replies
    BY <1>1, <1>2 DEF TypeOK
  <2> QED BY <2>1, <2>2
<1>5. OneAttempt'
  BY <1>1, <1>2, <1>3 DEF MessagesInv, OneAttempt
<1> QED BY <1>1, <1>2, <1>3, <1>4, <1>5

\* What ReplyInv asks of the kind of an answer to a call that waits for it.
Truth(m, kind) ==
    /\ kind = "mismatch" => boot > 1
    /\ kind = "ok" =>
          \/ phase[m.call] = "handshake"
          \/ phase[m.call] = "submitting" /\ ran'[m.call] = <<pinned[m.call]>>
    /\ kind \notin {"ok", "mismatch"} => phase[m.call] = "polling"
    /\ kind \in {"duplicate", "unknown"} => m.call \in answered
    /\ kind \in Outcomes => produced[m.call] = kind

\* What the messages say is preserved by an answer that is true.
LEMMA ReplyKeepsMessages ==
    ASSUME CallsInv, NEW m \in net \cap Requests,
           NEW kind \in {"ok", "mismatch", "duplicate", "unknown", "pending"} \cup Outcomes,
           Reply(m, kind), UNCHANGED <<phase, waiting, pinned, boot>>,
           answered \subseteq answered', produced' = produced, 
           \A c \in Calls : ran'[c] # ran[c] => c = m.call,
           m.open => Truth(m, kind)
    PROVE  MessagesInv'
<1>1. /\ OneAttempt'
      /\ \A n \in net' : \/ n \in net /\ n.call # m.call
                       \/ /\ n \in Replies /\ n \notin Requests /\ m.open
                          /\ n.call = m.call /\ n.kind = kind /\ n.boot = boot
  BY ReplyStep
<1>2. ASSUME NEW n \in net', n \in Requests PROVE RequestInv(n)'
  <2>1. n \in net /\ n.call # m.call
    BY <1>1, <1>2
  <2>2. RequestInv(n) /\ ran'[n.call] = ran[n.call]
    BY <1>2, <2>1, Messages DEF MessagesInv
  <2> QED BY <2>2 DEF RequestInv
<1>3. ASSUME NEW n \in net', n \in Replies PROVE ReplyInv(n)'
  <2>1. CASE n \in net /\ n.call # m.call
    BY <1>3, <2>1, Messages DEF MessagesInv, ReplyInv, TypeOK
  <2>2. CASE /\ n \in Replies /\ n \notin Requests /\ m.open
             /\ n.call = m.call /\ n.kind = kind /\ n.boot = boot
    BY <2>2, Messages DEF MessagesInv, RequestInv, ReplyInv, TypeOK, Truth
  <2> QED BY <1>1, <2>1, <2>2
<1> QED BY <1>1, <1>2, <1>3 DEF MessagesInv, Requests, Replies

\* Refusals and handshakes change nothing in the server.
LEMMA RefuseInv ==
    ASSUME CallsInv, NEW m \in net \cap Requests, Refuse(m) \/ Health(m) PROVE CallsInv'
<1>1. PICK kind \in {"ok", "mismatch"} :
         /\ Reply(m, kind)
         /\ kind = "mismatch" => ~ Expected(m)
         /\ kind = "ok" => m.kind = "handshake"
  BY DEF Refuse, Health
<1>2. UNCHANGED <<phase, waiting, late, pin, pinned, boot, up, record, queue, ran, produced, answered>>
  BY DEF Refuse, Health, client, server
<1>3. TypeOK'
  BY <1>1, <1>2, ReplyStep DEF TypeOK
<1>4. MessagesInv'
  <2>1. RequestInv(m) /\ m.boot \in Nat
    BY Messages DEF MessagesInv
  <2>2. ~ Expected(m) => boot > 1
    <3>1. boot \in Nat \ {0} /\ m.boot <= boot
      BY <2>1 DEF RequestInv, TypeOK
    <3> QED BY <2>1, <3>1 DEF Expected
  <2>3. m.open => phase[m.call] = m.kind
    BY <2>1 DEF RequestInv
  <2>4. kind = "mismatch" => boot > 1
    BY <1>1, <2>2
  <2>5. m.open => (kind = "ok" => phase[m.call] = "handshake")
    BY <1>1, <2>3
  <2>6. kind \in {"ok", "mismatch"} /\ Reply(m, kind)
    BY <1>1
  <2> QED BY <1>2, <2>4, <2>5, <2>6, ReplyKeepsMessages DEF Truth
<1>5. RunsOnce' BY <1>2 DEF RunsOnce
<1>6. OutcomesAreTrue' BY <1>2 DEF OutcomesAreTrue
<1>7. RecordsLast' BY <1>2 DEF RecordsLast, Unsent
<1>8. QueueHasNoDuplicates' BY <1>2 DEF QueueHasNoDuplicates
<1> QED BY <1>3, <1>4, <1>5, <1>6, <1>7, <1>8

\* A query is answered from the record, which is there or was sent before.
LEMMA QueryInv ==
    ASSUME CallsInv, NEW m \in net \cap Requests, up, Query(m) PROVE CallsInv'
<1> DEFINE kind == IF record[m.call] = "none" THEN "unknown" ELSE record[m.call]
<1>1. /\ Reply(m, kind) /\ m.kind = "polling" /\ Expected(m)
      /\ answered' = IF record[m.call] \in Outcomes THEN answered \cup {m.call} ELSE answered
      /\ UNCHANGED <<phase, waiting, late, pin, pinned, boot, up, record, queue, ran, produced>>
  BY DEF Query, client
<1>2. /\ m.call \in Calls /\ RequestInv(m) /\ m.open \in BOOLEAN
      /\ m.boot = boot
  BY <1>1, Messages DEF MessagesInv, Expected, RequestInv
<1>3. kind \in {"unknown", "pending"} \cup Outcomes
  BY <1>2 DEF TypeOK
<1>4. TypeOK'
  BY <1>1, <1>2, <1>3, ReplyStep DEF TypeOK
<1>5. MessagesInv'
  <2>1. m.open => ran[m.call] = <<boot>> /\ phase[m.call] = "polling"
    BY <1>1, <1>2 DEF RequestInv, RecordsLast
  <2>2. m.open /\ kind = "unknown" => m.call \in answered
    BY <1>2, <2>1 DEF RecordsLast, TypeOK
  <2>3. kind \in Outcomes => produced[m.call] = kind
    BY <1>2 DEF RecordsLast
  <2> HIDE DEF kind
  <2> QED BY <1>1, <1>3, <2>1, <2>2, <2>3, ReplyKeepsMessages DEF Truth
<1>6. RunsOnce' BY <1>1 DEF RunsOnce
<1>7. OutcomesAreTrue' BY <1>1 DEF OutcomesAreTrue
<1>8. RecordsLast' BY <1>1 DEF RecordsLast, Unsent
<1>9. QueueHasNoDuplicates' BY <1>1 DEF QueueHasNoDuplicates
<1> QED BY <1>4, <1>5, <1>6, <1>7, <1>8, <1>9

\* The queue of serial calls grows at its end and shrinks at its head.
LEMMA AppendToQueue ==
    ASSUME NEW q \in Seq(Calls), NEW c \in Calls
    PROVE  /\ Append(q, c) \in Seq(Calls)
           /\ \A d : (\E i \in 1 .. Len(Append(q, c)) : Append(q, c)[i] = d)
                     <=> d = c \/ \E i \in 1 .. Len(q) : q[i] = d
           /\ (\A i, j \in 1 .. Len(q) : q[i] = q[j] => i = j) /\ (\A i \in 1 .. Len(q) : q[i] # c)
                 => \A i, j \in 1 .. Len(Append(q, c)) : Append(q, c)[i] = Append(q, c)[j] => i = j
<1>1. /\ Append(q, c) \in Seq(Calls) /\ Len(Append(q, c)) = Len(q) + 1
      /\ Len(q) \in Nat
      /\ \A i \in 1 .. Len(q) : Append(q, c)[i] = q[i]
      /\ Append(q, c)[Len(q) + 1] = c
  OBVIOUS
<1>2. \A i \in 1 .. Len(Append(q, c)) : i \in 1 .. Len(q) \/ i = Len(q) + 1
  BY <1>1
<1>3. \A i \in 1 .. Len(q) : i \in 1 .. Len(Append(q, c))
  BY <1>1
<1>4. Len(q) + 1 \in 1 .. Len(Append(q, c))
  BY <1>1
<1> HIDE <1>1
<1>5. \A d : (\E i \in 1 .. Len(Append(q, c)) : Append(q, c)[i] = d)
                     <=> d = c \/ \E i \in 1 .. Len(q) : q[i] = d
  BY <1>1, <1>2, <1>3, <1>4
<1>6. ASSUME \A i, j \in 1 .. Len(q) : q[i] = q[j] => i = j, \A i \in 1 .. Len(q) : q[i] # c
      PROVE  \A i, j \in 1 .. Len(Append(q, c)) : Append(q, c)[i] = Append(q, c)[j] => i = j
  BY <1>1, <1>2, <1>6
<1> QED BY <1>1, <1>5, <1>6

\* What is left of a queue is what was behind its head.
LEMMA TailOfQueue ==
    ASSUME NEW q \in Seq(Calls), q # <<>>, \A i, j \in 1 .. Len(q) : q[i] = q[j] => i = j
    PROVE  /\ Tail(q) \in Seq(Calls)
           /\ \A d : (\E i \in 1 .. Len(Tail(q)) : Tail(q)[i] = d)
                       <=> d # Head(q) /\ \E i \in 1 .. Len(q) : q[i] = d
           /\ \A i, j \in 1 .. Len(Tail(q)) : Tail(q)[i] = Tail(q)[j] => i = j
<1>1. /\ Tail(q) \in Seq(Calls) /\ Len(Tail(q)) = Len(q) - 1
      /\ Len(q) \in Nat \ {0} /\ Head(q) = q[1]
      /\ \A i \in 1 .. Len(Tail(q)) : Tail(q)[i] = q[i + 1] /\ i + 1 \in 1 .. Len(q)
      /\ 1 \in 1 .. Len(q)
  OBVIOUS
<1>2. \A i \in 1 .. Len(q) : i = 1 \/ (i - 1 \in 1 .. Len(Tail(q)) /\ Tail(q)[i - 1] = q[i])
  BY <1>1
<1> QED BY <1>1, <1>2

\* A submission finds no record and no run of its call.
LEMMA SubmitInv ==
    ASSUME CallsInv, NEW m \in net \cap Requests, up, Submit(m) PROVE CallsInv'
<1> DEFINE c == m.call
<1>1. /\ m.kind = "submitting" /\ Expected(m)
      /\ UNCHANGED <<phase, waiting, late, pin, pinned, boot, up, produced, answered>>
  BY DEF Submit, client
<1>2. /\ c \in Calls /\ RequestInv(m) /\ m.open \in BOOLEAN /\ m.boot = boot
      /\ pinned[c] = boot /\ ran[c] = <<>> /\ record[c] = "none" /\ boot \in 1 .. MaxBoots
  <2>1. /\ c \in Calls /\ RequestInv(m) /\ m.open \in BOOLEAN
    BY Messages DEF MessagesInv
  <2>2. pinned[c] = m.boot /\ m.boot = boot /\ ran[c] = <<>>
    BY <1>1, <2>1 DEF Expected, RequestInv
  <2>3. record[c] = "none"
    BY <2>1, <2>2 DEF RecordsLast
  <2> QED BY <2>1, <2>2, <2>3 DEF TypeOK
<1>3. PICK gone \in SUBSET Purgeable :
         /\ Reply(m, "ok")
         /\ record' = [[d \in Calls |-> IF d \in gone THEN "none" ELSE record[d]]
                          EXCEPT ![c] = "pending"]
         /\ queue' = IF c \in Serial THEN Append(queue, c) ELSE queue
         /\ ran' = [ran EXCEPT ![c] = Append(@, boot)]
  BY <1>2 DEF Submit
<1> HIDE DEF c
<1>4. /\ ran' \in [Calls -> Seq(1 .. MaxBoots)] /\ ran'[c] = <<boot>>
      /\ \A d \in Calls : d # c => ran'[d] = ran[d]
  BY <1>2, <1>3 DEF TypeOK
<1>5. /\ record' \in [Calls -> {"none", "pending"} \cup Outcomes]
      /\ record'[c] = "pending"
      /\ \A d \in Calls : d # c =>
            \/ record'[d] = record[d]
            \/ record[d] \in Outcomes /\ record'[d] = "none" /\ (d \in answered \/ phase[d] \in Ended)
  BY <1>2, <1>3 DEF TypeOK, Purgeable
<1>6. TypeOK'
  <2>1. queue' \in Seq(Serial)
    BY <1>2, <1>3 DEF TypeOK
  <2>2. (net \subseteq Requests \cup Replies)'
    BY <1>1, <1>3, ReplyStep
  <2> QED BY <1>1, <1>4, <1>5, <2>1, <2>2 DEF TypeOK
<1>7. MessagesInv'
  <2>1. m.open => phase[c] = "submitting" /\ pinned[c] = boot
    BY <1>1, <1>2 DEF RequestInv, c
  <2> QED BY <1>1, <1>3, <1>4, <2>1, ReplyKeepsMessages DEF Truth, c
<1>8. /\ c \in Serial => /\ \A d : (\E i \in 1 .. Len(queue') : queue'[i] = d)
                                  <=> d = c \/ \E i \in 1 .. Len(queue) : queue[i] = d
      /\ QueueHasNoDuplicates'
  <2>1. c \in Serial => \A i \in 1 .. Len(queue) : queue[i] # c
    BY <1>2 DEF RunsOnce
  <2>2. queue \in Seq(Calls)
    BY DEF TypeOK
  <2> QED BY <1>2, <1>3, <2>1, <2>2, AppendToQueue DEF QueueHasNoDuplicates
<1>9. RunsOnce'
  <2>1. ASSUME NEW d \in Calls
        PROVE  (/\ Len(ran[d]) <= 1
                /\ ran[d] # <<>> => pinned[d] = ran[d][1]
                /\ record[d] = "pending" => up /\ ran[d] = <<boot>>)'
    <3>1. CASE d = c
      <4>1. Len(<<boot>>) = 1 /\ <<boot>>[1] = boot
        OBVIOUS
      <4>2. up'
        BY <1>1
      <4>3. ran'[d] = <<boot>> /\ boot' = boot /\ pinned'[d] = boot
        BY <1>1, <1>2, <1>4, <3>1
      <4> QED BY <4>1, <4>2, <4>3
    <3>2. CASE d # c
      BY <1>1, <1>4, <1>5, <3>2 DEF RunsOnce
    <3> QED BY <3>1, <3>2
  <2>2. ASSUME NEW d \in Serial
        PROVE  (record[d] = "pending" <=> \E i \in 1 .. Len(queue) : queue[i] = d)'
    <3>1. CASE c \in Serial
      <4>1. record[d] = "pending" <=> \E i \in 1 .. Len(queue) : queue[i] = d
        BY DEF RunsOnce
      <4>2. record'[d] = "pending" <=> d = c \/ record[d] = "pending"
        BY <1>5
      <4> QED BY <1>8, <3>1, <4>1, <4>2
    <3>2. CASE c \notin Serial
      BY <1>3, <1>5, <3>2 DEF RunsOnce
    <3> QED BY <3>1, <3>2
  <2> QED BY <2>1, <2>2 DEF RunsOnce
<1>10. OutcomesAreTrue'
  <2>1. phase[c] \notin Outcomes
    BY <1>2 DEF OutcomesAreTrue
  <2> QED BY <1>1, <1>4, <2>1 DEF OutcomesAreTrue
<1>11. RecordsLast'
  <2>1. ~ Unsent(c) /\ phase[c] # "polling"
    BY <1>1, <1>2 DEF RequestInv, RecordsLast, Unsent, c
  <2>2. produced[c] = "none"
    BY <1>2 DEF RecordsLast
  <2> SUFFICES ASSUME NEW d \in Calls
               PROVE  /\ Unsent(d) => ran'[d] = <<>>
                      /\ phase[d] = "polling" => ran'[d] = <<pinned[d]>>
                      /\ ran'[d] # <<>> => ran'[d][1] <= boot
                      /\ record'[d] # "none" => up /\ ran'[d] = <<boot>>
                      /\ up /\ ran'[d] = <<boot>> /\ record'[d] = "none"
                            => d \in answered \/ phase[d] \in Ended
                      /\ record'[d] \in Outcomes => produced[d] = record'[d]
                      /\ record'[d] = "pending" \/ ran'[d] = <<>> => produced[d] = "none"
    BY <1>1 DEF RecordsLast, Unsent
  <2>3. CASE d = c
    <3>1. <<boot>> # <<>> /\ <<boot>>[1] <= boot
      BY <1>2
    <3> QED BY <1>2, <1>4, <1>5, <2>1, <2>2, <2>3, <3>1
  <2>4. CASE d # c
    BY <1>4, <1>5, <2>4 DEF RecordsLast
  <2> QED BY <2>3, <2>4
<1> QED BY <1>6, <1>7, <1>8, <1>9, <1>10, <1>11

\* A call that finishes is the one the executor runs, for the first time.
LEMMA FinishInv == ASSUME CallsInv, NEW c \in Calls, Finish(c) PROVE CallsInv'
<1>1. PICK outcome \in Outcomes :
         /\ record' = [record EXCEPT ![c] = outcome]
         /\ produced' = [produced EXCEPT ![c] = outcome]
  BY DEF Finish
<1>2. /\ record[c] = "pending" /\ (c \in Serial => Head(queue) = c)
      /\ queue' = IF c \in Serial THEN Tail(queue) ELSE queue
      /\ UNCHANGED <<phase, waiting, late, pin, pinned, net, boot, up, ran, answered>>
  BY DEF Finish, Running, client
<1>3. /\ record' \in [Calls -> {"none", "pending"} \cup Outcomes]
      /\ produced' \in [Calls -> {"none"} \cup Outcomes]
      /\ record'[c] = outcome /\ produced'[c] = outcome
      /\ \A d \in Calls : d # c => record'[d] = record[d] /\ produced'[d] = produced[d]
  BY <1>1 DEF TypeOK
<1>4. queue \in Seq(Calls) /\ (c \in Serial => queue # <<>>)
  BY <1>2 DEF TypeOK, RunsOnce
<1>5. TypeOK'
  <2>1. queue' \in Seq(Serial)
    BY <1>2, <1>4 DEF TypeOK
  <2>2. (net \subseteq Requests \cup Replies)'
    BY <1>2 DEF TypeOK, Requests, Replies
  <2> QED BY <1>2, <1>3, <2>1, <2>2 DEF TypeOK
<1>6. produced[c] = "none"
  BY <1>2 DEF RecordsLast
<1>7. MessagesInv'
  <2>1. ASSUME NEW m \in net, m \in Replies PROVE ReplyInv(m)'
    BY <1>2, <1>3, <1>6, <2>1, Messages DEF MessagesInv, ReplyInv
  <2>2. ASSUME NEW m \in net, m \in Requests PROVE RequestInv(m)'
    BY <1>2, <2>2 DEF MessagesInv, RequestInv
  <2>3. OneAttempt'
    BY <1>2 DEF MessagesInv, OneAttempt
  <2> QED BY <1>2, <2>1, <2>2, <2>3 DEF MessagesInv, Requests, Replies
<1>8. /\ c \in Serial => \A d : (\E i \in 1 .. Len(queue') : queue'[i] = d)
                                  <=> d # c /\ \E i \in 1 .. Len(queue) : queue[i] = d
      /\ QueueHasNoDuplicates'
  <2>1. CASE c \in Serial
    <3>1. queue' = Tail(queue) /\ Head(queue) = c /\ queue # <<>>
      BY <1>2, <1>4, <2>1
    <3>2. \A i, j \in 1 .. Len(queue) : queue[i] = queue[j] => i = j
      BY DEF QueueHasNoDuplicates
    <3>3. /\ \A d : (\E i \in 1 .. Len(queue') : queue'[i] = d)
                     <=> d # c /\ \E i \in 1 .. Len(queue) : queue[i] = d
          /\ \A i, j \in 1 .. Len(queue') : queue'[i] = queue'[j] => i = j
      <4>1. /\ \A d : (\E i \in 1 .. Len(Tail(queue)) : Tail(queue)[i] = d)
                       <=> d # Head(queue) /\ \E i \in 1 .. Len(queue) : queue[i] = d
            /\ \A i, j \in 1 .. Len(Tail(queue)) : Tail(queue)[i] = Tail(queue)[j] => i = j
        BY <1>4, <2>1, <3>2, TailOfQueue
      <4> QED BY <3>1, <4>1
    <3> QED BY <3>3 DEF QueueHasNoDuplicates
  <2>2. CASE c \notin Serial
    BY <1>2, <2>2 DEF QueueHasNoDuplicates
  <2> QED BY <2>1, <2>2
<1>9. RunsOnce'
  <2>1. ASSUME NEW d \in Calls
        PROVE  (/\ Len(ran[d]) <= 1
                /\ ran[d] # <<>> => pinned[d] = ran[d][1]
                /\ record[d] = "pending" => up /\ ran[d] = <<boot>>)'
    BY <1>2, <1>3 DEF RunsOnce
  <2>2. ASSUME NEW d \in Serial
        PROVE  (record[d] = "pending" <=> \E i \in 1 .. Len(queue) : queue[i] = d)'
    <3>1. CASE c \in Serial
      BY <1>3, <1>8, <3>1 DEF RunsOnce
    <3>2. CASE c \notin Serial
      BY <1>2, <1>3, <3>2 DEF RunsOnce
    <3> QED BY <3>1, <3>2
  <2> QED BY <2>1, <2>2 DEF RunsOnce
<1>10. OutcomesAreTrue'
  BY <1>2, <1>3, <1>6 DEF OutcomesAreTrue
<1>11. RecordsLast'
  <2>1. ran[c] = <<boot>> /\ up /\ <<boot>> # <<>>
    BY <1>2 DEF RecordsLast
  <2> QED BY <1>2, <1>3, <2>1 DEF RecordsLast, Unsent
<1> QED BY <1>5, <1>7, <1>8, <1>9, <1>10, <1>11

\* A crash forgets the records with the process they are about.
LEMMA CrashInv == ASSUME CallsInv, Crash PROVE CallsInv'
<1>1. /\ up /\ up' = FALSE /\ record' = [c \in Calls |-> "none"] /\ queue' = <<>>
      /\ UNCHANGED <<phase, waiting, late, pin, pinned, net, boot, ran, produced, answered>>
  BY DEF Crash, client
<1>2. TypeOK'
  <2>1. (net \subseteq Requests \cup Replies)'
    BY <1>1 DEF TypeOK, Requests, Replies
  <2>2. queue' \in Seq(Serial)
    BY <1>1
  <2>3. up' \in BOOLEAN
    BY <1>1
  <2> QED BY <1>1, <2>1, <2>2, <2>3 DEF TypeOK
<1>3. RunsOnce' BY <1>1 DEF RunsOnce
<1>4. OutcomesAreTrue' BY <1>1 DEF OutcomesAreTrue
<1>5. MessagesInv'
  BY <1>1 DEF MessagesInv, OneAttempt, RequestInv, ReplyInv, Requests, Replies
<1>6. RecordsLast' BY <1>1 DEF RecordsLast, Unsent
<1>7. QueueHasNoDuplicates' BY <1>1 DEF QueueHasNoDuplicates
<1> QED BY <1>2, <1>3, <1>4, <1>5, <1>6, <1>7

\* A new process has run nothing yet.
LEMMA RestartInv == ASSUME CallsInv, Restart PROVE CallsInv'
<1>1. /\ ~ up /\ up' = TRUE /\ boot < MaxBoots /\ boot' = boot + 1
      /\ UNCHANGED <<phase, waiting, late, pin, pinned, net, record, queue, ran, produced, answered>>
  BY DEF Restart, client
<1>2. \A c \in Calls : record[c] = "none"
  BY <1>1 DEF RecordsLast
<1>3. \A c \in Calls : ran[c] # <<boot'>>
  <2> SUFFICES ASSUME NEW c \in Calls, ran[c] = <<boot'>> PROVE FALSE
    OBVIOUS
  <2>1. ran[c] # <<>> /\ ran[c][1] = boot + 1
    BY <1>1
  <2>2. ran[c][1] <= boot
    BY <2>1 DEF RecordsLast
  <2>3. boot \in Nat
    BY DEF TypeOK
  <2> QED BY <2>1, <2>2, <2>3
<1>4. TypeOK'
  <2>1. (net \subseteq Requests \cup Replies)'
    BY <1>1 DEF TypeOK, Requests, Replies
  <2> QED BY <1>1, <2>1 DEF TypeOK
<1>5. RunsOnce' BY <1>1, <1>2 DEF RunsOnce
<1>6. OutcomesAreTrue' BY <1>1 DEF OutcomesAreTrue, TypeOK
<1>7. MessagesInv'
  <2>1. ASSUME NEW m \in net, m \in Requests PROVE RequestInv(m)'
    BY <1>1, <2>1, Messages DEF MessagesInv, RequestInv, TypeOK
  <2>2. ASSUME NEW m \in net, m \in Replies PROVE ReplyInv(m)'
    BY <1>1, <2>2, Messages DEF MessagesInv, ReplyInv, TypeOK
  <2> QED BY <1>1, <2>1, <2>2 DEF MessagesInv, OneAttempt, Requests, Replies
<1>8. RecordsLast'
  <2>1. ASSUME NEW c \in Calls, ran[c] # <<>> PROVE ran[c][1] <= boot'
    <3>1. Len(ran[c]) <= 1 /\ ran[c] \in Seq(1 .. MaxBoots)
      BY DEF RunsOnce, TypeOK
    <3>2. ran[c][1] \in 1 .. MaxBoots
      BY <2>1, <3>1
    <3> QED BY <1>1, <2>1, <3>2 DEF RecordsLast, TypeOK
  <2> QED BY <1>1, <1>2, <1>3, <2>1 DEF RecordsLast, Unsent
<1>9. QueueHasNoDuplicates' BY <1>1 DEF QueueHasNoDuplicates
<1> QED BY <1>4, <1>5, <1>6, <1>7, <1>8, <1>9

----------------------------------------------------------------------------
(* The theorem *)

LEMMA InitInv == Init => CallsInv
<1> SUFFICES ASSUME Init PROVE CallsInv
  OBVIOUS
<1>1. TypeOK BY DEF Init, TypeOK
<1> QED BY <1>1 DEF Init, RunsOnce, OutcomesAreTrue, MessagesInv, OneAttempt,
                    RecordsLast, QueueHasNoDuplicates, Unsent

(***************************************************************************)
(* Every call is run at most once and only by the process it was submitted *)
(* for, and what its caller is told is true, over lost, late and repeated  *)
(* requests, crashes and restarts of the server (BootUuidPin, CallStore).  *)
(***************************************************************************)
THEOREM CallsAreTrue == Spec => []CallsInv
<1>1. CallsInv /\ [Next]_vars => CallsInv'
  <2> SUFFICES ASSUME CallsInv, [Next]_vars PROVE CallsInv'
    OBVIOUS
  <2>1. ASSUME NEW c \in Calls, StartCall(c) \/ Send(c) \/ ClientStep(c) \/ Finish(c)
        PROVE  CallsInv'
    BY <2>1, ClientInv, SendInv, AttemptFailsInv, ReceiveInv, FinishInv DEF ClientStep
  <2>2. ASSUME NEW m \in net, Handle(m) PROVE CallsInv'
    <3>1. m \in net \cap Requests /\ up
      BY <2>2, Messages DEF Handle
    <3> QED BY <2>2, <3>1, RefuseInv, SubmitInv, QueryInv DEF Handle
  <2>3. CASE Reattach
    BY <2>3, ClientInv
  <2>4. CASE Crash
    BY <2>4, CrashInv
  <2>5. CASE Restart
    BY <2>5, RestartInv
  <2>6. CASE UNCHANGED vars
    BY <2>6 DEF vars, client, server, TypeOK, RunsOnce, OutcomesAreTrue, MessagesInv, OneAttempt,
                RequestInv, ReplyInv, RecordsLast, QueueHasNoDuplicates, Unsent, Requests, Replies
  <2> QED BY <2>1, <2>2, <2>3, <2>4, <2>5, <2>6 DEF Next
<1> QED BY InitInv, <1>1, PTL DEF Spec
=============================================================================

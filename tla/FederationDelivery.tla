------------------------ MODULE FederationDelivery ------------------------
(***************************************************************************)
(* Relaying messages to another server: VostokServer.Federation with its   *)
(* DeliveryWorker on the sending server, the mTLS transport, and           *)
(* receive_delivery on the receiving one.                                  *)
(*                                                                         *)
(* One pair of servers.  Each keeps a peer row for the other; `peer` is    *)
(* the sender's and `origin` the receiver's.  All deliveries are outbound  *)
(* message_relay_v1 events with an id and a signature the receiver takes.  *)
(***************************************************************************)
EXTENDS Naturals, FiniteSets

CONSTANTS
    Deliveries, \* ids outbound delivery jobs may get
    Messages,   \* client ids of messages
    Payload,    \* the message a delivery carries
    Known,      \* messages whose chat and recipients the receiver has
    Handlers,   \* request processes of the receiving server
    NoDelivery,
    Outcomes,   \* what operators record with attempt_delivery
    PeerMoves,  \* statuses operators set on peers
    Faults,     \* what goes wrong (a subset of FaultKinds)
    MaxErrors,  \* Oban's max_attempts
    MaxFaults   \* bound: faults in a behaviour

FaultKinds == {"loss", "raise", "sender", "receiver"}
PeerStatus == {"pending", "active", "disabled"}

ASSUME PayloadAssumption == Payload \in [Deliveries -> Messages]
ASSUME NoDeliveryAssumption == NoDelivery \notin Deliveries
ASSUME OutcomesAssumption == Outcomes \subseteq {"processing", "delivered", "failed"}
ASSUME PeerMovesAssumption == PeerMoves \subseteq PeerStatus
ASSUME FaultsAssumption == Faults \subseteq FaultKinds
ASSUME BoundsAssumption == MaxErrors \in Nat \ {0} /\ MaxFaults \in Nat

VARIABLES
    peer,     \* sender: federation_peers.status of the receiver
    job,      \* sender: federation_delivery_jobs.status, "absent" before the insert
    ready,    \* sender: deliveries whose available_at has come
    oban,     \* sender: state of the Oban job that dispatches a delivery
    errors,   \* sender: attempts of the Oban job that raised
    worker,   \* sender: dispatch_delivery as it runs for a delivery
    operator, \* sender: a running attempt_delivery
    wire,     \* requests on their way: "live" ones are waited for, "late" ones not
    origin,   \* receiver: federation_peers.status of the sender
    handler,  \* receiver: receive_delivery as it runs in a process
    inbox,    \* receiver: deliveries with an inbound delivery row
    relay,    \* receiver: whether the relay user of the sender exists
    copies,   \* receiver: how many rows of a message there are
    faults    \* faults so far

senderVars   == <<peer, job, ready, oban, errors, worker, operator>>
receiverVars == <<origin, handler, inbox, relay, copies>>
vars == <<senderVars, wire, receiverVars, faults>>

JobStatus == {"absent", "queued", "processing", "delivered", "failed"}
Verdicts  == {"none", "ok", "retryable", "permanent"}

\* seen and due are the status and the readiness of the job struct a worker holds.
Worker == [at      : {"idle", "decide", "wait", "answered", "fail", "finish"},
           seen    : JobStatus,
           due     : BOOLEAN,
           verdict : Verdicts]
NoWork == [at |-> "idle", seen |-> "absent", due |-> FALSE, verdict |-> "none"]

Operator == [d : Deliveries \cup {NoDelivery}, seen : JobStatus]
NoAttempt == [d |-> NoDelivery, seen |-> "absent"]

\* rows are the inserts of the handler's transaction, which nobody else sees yet.
Waiting == [at |-> "idle", d |-> NoDelivery, live |-> FALSE, rows |-> {}]
Handler == [at   : {"find_inbound", "insert_inbound", "find_relay", "insert_relay",
                    "find_message", "insert_message", "commit"},
            d    : Deliveries,
            live : BOOLEAN,
            rows : SUBSET {"inbound", "relay", "message"}] \cup {Waiting}

TypeOK ==
    /\ peer     \in PeerStatus
    /\ job      \in [Deliveries -> JobStatus]
    /\ ready    \subseteq Deliveries
    /\ oban     \in [Deliveries -> {"none", "available", "executing", "scheduled",
                                    "completed", "discarded"}]
    /\ errors   \in [Deliveries -> 0..MaxErrors]
    /\ worker   \in [Deliveries -> Worker]
    /\ operator \in Operator
    /\ wire     \in [Deliveries -> SUBSET {"live", "late"}]
    /\ origin   \in PeerStatus
    /\ handler  \in [Handlers -> Handler]
    /\ inbox    \subseteq Deliveries
    /\ relay    \in BOOLEAN
    /\ copies   \in [Messages -> Nat]
    /\ faults   \in 0..MaxFaults

\* Operators have paired the two servers; the receiver may have made the relay user
\* for messages that are not looked at here.
Init ==
    /\ peer     = "active"
    /\ job      = [d \in Deliveries |-> "absent"]
    /\ ready    = {}
    /\ oban     = [d \in Deliveries |-> "none"]
    /\ errors   = [d \in Deliveries |-> 0]
    /\ worker   = [d \in Deliveries |-> NoWork]
    /\ operator = NoAttempt
    /\ wire     = [d \in Deliveries |-> {}]
    /\ origin   = "active"
    /\ handler  = [h \in Handlers |-> Waiting]
    /\ inbox    = {}
    /\ relay    \in BOOLEAN
    /\ copies   = [m \in Messages |-> 0]
    /\ faults   = 0

\* Ecto.Changeset: the field is in the UPDATE only when it changes the struct.
Written(stored, seen, new) == IF seen = new THEN stored ELSE new

WorkerMoves(d, step, verdict) ==
    worker' = [worker EXCEPT ![d].at = step, ![d].verdict = verdict]

-----------------------------------------------------------------------------
(* Sender: the queue and Oban.                                             *)

\* queue_delivery: the delivery row and its Oban job, in one transaction.
Enqueue(d) ==
    /\ job[d] = "absent"
    /\ job'   = [job EXCEPT ![d] = "queued"]
    /\ ready' = ready \cup {d}
    /\ oban'  = [oban EXCEPT ![d] = "available"]
    /\ UNCHANGED <<peer, errors, worker, operator, wire, receiverVars, faults>>

\* Oban runs the job; fetch_job_with_peer reads the delivery.
Fetch(d) ==
    /\ oban[d] = "available"
    /\ oban'   = [oban EXCEPT ![d] = "executing"]
    /\ worker' = [worker EXCEPT ![d] = [NoWork EXCEPT !.at = "decide", !.seen = job[d],
                                                       !.due = d \in ready]]
    /\ UNCHANGED <<peer, job, ready, errors, operator, wire, receiverVars, faults>>

\* Mutant: a failure that may be retried is given up.
FinishDiscarding(d) ==
    /\ worker[d].at = "finish"
    /\ oban' = [oban EXCEPT ![d] = IF worker[d].verdict = "ok" THEN "completed" ELSE "discarded"]
    /\ worker' = [worker EXCEPT ![d] = NoWork]
    /\ UNCHANGED <<peer, job, ready, errors, operator, wire, receiverVars, faults>>
\* Oban stores what perform returned: :ok, {:snooze, seconds} or {:discard, reason}.
Finish(d) ==
    /\ worker[d].at = "finish"
    /\ oban' = [oban EXCEPT ![d] = IF worker[d].verdict = "ok" THEN "completed"
                                   ELSE IF worker[d].verdict = "permanent" THEN "discarded"
                                   ELSE "scheduled"]
    /\ worker' = [worker EXCEPT ![d] = NoWork]
    /\ UNCHANGED <<peer, job, ready, errors, operator, wire, receiverVars, faults>>

\* Time: a scheduled job is due, and a delivery's available_at comes.
Wake(d) ==
    /\ oban[d] = "scheduled"
    /\ oban' = [oban EXCEPT ![d] = "available"]
    /\ UNCHANGED <<peer, job, ready, errors, worker, operator, wire, receiverVars, faults>>

BecomeReady(d) ==
    /\ job[d] # "absent"
    /\ d \notin ready
    /\ ready' = ready \cup {d}
    /\ UNCHANGED <<peer, job, oban, errors, worker, operator, wire, receiverVars, faults>>

-----------------------------------------------------------------------------
(* Sender: dispatch_delivery.                                              *)

MarkFailed(d, verdict) ==
    /\ job'   = [job EXCEPT ![d] = Written(@, worker[d].seen, "failed")]
    /\ ready' = IF verdict = "permanent" THEN ready \cup {d} ELSE ready \ {d}
    /\ WorkerMoves(d, "finish", verdict)

\* Mutant: a delivery that was accepted before is sent again.
NeverSettled(d) == FALSE
\* The delivery was read as delivered: nothing is left to do.
Settled(d) == worker[d].seen = "delivered"

SkipDelivered(d) ==
    /\ worker[d].at = "decide"
    /\ Settled(d)
    /\ WorkerMoves(d, "finish", "ok")
    /\ UNCHANGED <<peer, job, ready, oban, errors, operator, wire, receiverVars, faults>>

SnoozeUntilReady(d) ==
    /\ worker[d].at = "decide"
    /\ ~Settled(d)
    /\ ~worker[d].due
    /\ WorkerMoves(d, "finish", "retryable")
    /\ UNCHANGED <<peer, job, ready, oban, errors, operator, wire, receiverVars, faults>>

\* fail_preflight: a disabled peer is final, a pending one is not.
FailPreflight(d) ==
    /\ worker[d].at = "decide"
    /\ ~Settled(d)
    /\ worker[d].due
    /\ peer # "active"
    /\ MarkFailed(d, IF peer = "disabled" THEN "permanent" ELSE "retryable")
    /\ UNCHANGED <<peer, oban, errors, operator, wire, receiverVars, faults>>

\* mark_job_processing, then the POST leaves.
Send(d) ==
    /\ worker[d].at = "decide"
    /\ ~Settled(d)
    /\ worker[d].due
    /\ peer = "active"
    /\ job'  = [job EXCEPT ![d] = Written(@, worker[d].seen, "processing")]
    /\ wire' = [wire EXCEPT ![d] = @ \cup {"live"}]
    /\ WorkerMoves(d, "wait", "none")
    /\ UNCHANGED <<peer, ready, oban, errors, operator, receiverVars, faults>>

\* mark_job_delivered, from the struct that mark_job_processing returned.
RecordDelivered(d) ==
    /\ worker[d].at = "answered"
    /\ worker[d].verdict = "ok"
    /\ job'   = [job EXCEPT ![d] = "delivered"]
    /\ ready' = ready \cup {d}
    /\ WorkerMoves(d, "finish", "ok")
    /\ UNCHANGED <<peer, oban, errors, operator, wire, receiverVars, faults>>

\* Mutant: the failure is written from the struct the dispatch began with.
ReloadSkipped(d) ==
    /\ worker[d].at = "answered"
    /\ worker[d].verdict # "ok"
    /\ worker' = [worker EXCEPT ![d].at = "fail"]
    /\ UNCHANGED <<peer, job, ready, oban, errors, operator, wire, receiverVars, faults>>
\* handle_dispatch_failure reads the delivery again before it writes.
Reload(d) ==
    /\ worker[d].at = "answered"
    /\ worker[d].verdict # "ok"
    /\ worker' = [worker EXCEPT ![d].at = "fail", ![d].seen = job[d]]
    /\ UNCHANGED <<peer, job, ready, oban, errors, operator, wire, receiverVars, faults>>

RecordFailed(d) ==
    /\ worker[d].at = "fail"
    /\ MarkFailed(d, worker[d].verdict)
    /\ UNCHANGED <<peer, oban, errors, operator, wire, receiverVars, faults>>

-----------------------------------------------------------------------------
(* Sender: operators.                                                      *)

AttemptLoad(d) ==
    /\ Outcomes # {}
    /\ operator = NoAttempt
    /\ job[d] # "absent"
    /\ operator' = [d |-> d, seen |-> job[d]]
    /\ UNCHANGED <<peer, job, ready, oban, errors, worker, wire, receiverVars, faults>>

\* attempt_delivery: only "failed" moves available_at, thirty seconds ahead.
AttemptWrite(outcome) ==
    /\ operator # NoAttempt
    /\ job'   = [job EXCEPT ![operator.d] = Written(@, operator.seen, outcome)]
    /\ ready' = IF outcome = "failed" THEN ready \ {operator.d} ELSE ready
    /\ operator' = NoAttempt
    /\ UNCHANGED <<peer, oban, errors, worker, wire, receiverVars, faults>>

\* update_peer_status, create_peer_invite, accept_peer_invite, record_peer_heartbeat.
SetPeer(s) ==
    /\ peer' = s
    /\ UNCHANGED <<job, ready, oban, errors, worker, operator, wire, receiverVars, faults>>

SetOrigin(s) ==
    /\ origin' = s
    /\ UNCHANGED <<senderVars, wire, handler, inbox, relay, copies, faults>>

-----------------------------------------------------------------------------
(* Receiver: receive_delivery, a transaction at READ COMMITTED: a read     *)
(* sees committed rows and its own, an insert of a key that another        *)
(* transaction has inserted waits for that one to end.                     *)

Step(h, step) == handler' = [handler EXCEPT ![h].at = step]
Insert(h, row, step) ==
    handler' = [handler EXCEPT ![h].at = step, ![h].rows = @ \cup {row}]

\* The response, if the sender still waits for it; classify_response.
Answer(h, verdict) ==
    /\ handler' = [handler EXCEPT ![h] = Waiting]
    /\ worker'  = IF handler[h].live
                  THEN [worker EXCEPT ![handler[h].d].at = "answered",
                                      ![handler[h].d].verdict = verdict]
                  ELSE worker

SenderRests == UNCHANGED <<peer, job, ready, oban, errors, operator, wire, faults>>

\* The unique indexes: (peer, remote_delivery_id), username, client_id.
SameKey(row, d, e) == \/ row = "relay"
                      \/ d = e
                      \/ row = "message" /\ Payload[d] = Payload[e]
Blocked(h, row) ==
    \E g \in Handlers \ {h} :
        row \in handler[g].rows /\ SameKey(row, handler[g].d, handler[h].d)

\* authorize_inbound_peer: the peer is read before the transaction begins.
Receive(h, d, kind) ==
    /\ handler[h] = Waiting
    /\ kind \in wire[d]
    /\ origin = "active"
    /\ wire' = [wire EXCEPT ![d] = @ \ {kind}]
    /\ handler' = [handler EXCEPT ![h] = [at |-> "find_inbound", d |-> d,
                                          live |-> kind = "live", rows |-> {}]]
    /\ UNCHANGED <<senderVars, origin, inbox, relay, copies, faults>>

\* 401, which the sender takes for final.
Refuse(d, kind) ==
    /\ kind \in wire[d]
    /\ origin # "active"
    /\ wire' = [wire EXCEPT ![d] = @ \ {kind}]
    /\ IF kind = "live" THEN WorkerMoves(d, "answered", "permanent") ELSE UNCHANGED worker
    /\ UNCHANGED <<peer, job, ready, oban, errors, operator, receiverVars, faults>>

FindInbound(h) ==
    /\ handler[h].at = "find_inbound"
    /\ Step(h, IF handler[h].d \in inbox THEN "find_relay" ELSE "insert_inbound")
    /\ SenderRests /\ UNCHANGED <<worker, origin, inbox, relay, copies>>

\* A unique violation aborts the transaction, so that the read of the existing row
\* that follows it in the code raises: 500.
InsertInbound(h) ==
    /\ handler[h].at = "insert_inbound"
    /\ ~Blocked(h, "inbound")
    /\ IF handler[h].d \in inbox
       THEN Answer(h, "retryable")
       ELSE Insert(h, "inbound", "find_relay") /\ UNCHANGED worker
    /\ SenderRests /\ UNCHANGED <<origin, inbox, relay, copies>>

FindRelay(h) ==
    /\ handler[h].at = "find_relay"
    /\ Step(h, IF relay THEN "find_message" ELSE "insert_relay")
    /\ SenderRests /\ UNCHANGED <<worker, origin, inbox, relay, copies>>

\* Mutant: every unique violation is taken for a duplicate delivery.
InsertRelayAccepted(h) ==
    /\ handler[h].at = "insert_relay"
    /\ ~Blocked(h, "relay")
    /\ IF relay
       THEN Answer(h, "ok")
       ELSE Insert(h, "relay", "find_message") /\ UNCHANGED worker
    /\ SenderRests /\ UNCHANGED <<origin, inbox, relay, copies>>
\* ensure_relay_user, with the relay's device; a violation is answered 422.
InsertRelay(h) ==
    /\ handler[h].at = "insert_relay"
    /\ ~Blocked(h, "relay")
    /\ IF relay
       THEN Answer(h, "permanent")
       ELSE Insert(h, "relay", "find_message") /\ UNCHANGED worker
    /\ SenderRests /\ UNCHANGED <<origin, inbox, relay, copies>>

\* ingest_federated_message: an unknown chat is final, a known client id is fine.
FindMessage(h) ==
    LET m == Payload[handler[h].d] IN
    /\ handler[h].at = "find_message"
    /\ IF m \notin Known
       THEN Answer(h, "permanent")
       ELSE Step(h, IF copies[m] > 0 THEN "commit" ELSE "insert_message") /\ UNCHANGED worker
    /\ SenderRests /\ UNCHANGED <<origin, inbox, relay, copies>>

\* Mutant: no unique index on client_id.
InsertMessageAnyway(h) ==
    /\ handler[h].at = "insert_message"
    /\ Insert(h, "message", "commit")
    /\ SenderRests /\ UNCHANGED <<worker, origin, inbox, relay, copies>>
InsertMessage(h) ==
    LET m == Payload[handler[h].d] IN
    /\ handler[h].at = "insert_message"
    /\ ~Blocked(h, "message")
    /\ IF copies[m] > 0
       THEN Answer(h, "permanent")
       ELSE Insert(h, "message", "commit") /\ UNCHANGED worker
    /\ SenderRests /\ UNCHANGED <<origin, inbox, relay, copies>>

\* Mutant: the update always carries the status.
TouchAlways == "active"
\* touch_peer_last_seen, on the struct authorize_inbound_peer saw as active.
Touched == Written(origin, "active", "active")

Commit(h) ==
    LET d == handler[h].d  rows == handler[h].rows IN
    /\ handler[h].at = "commit"
    /\ inbox'  = IF "inbound" \in rows THEN inbox \cup {d} ELSE inbox
    /\ relay'  = (relay \/ "relay" \in rows)
    /\ copies' = IF "message" \in rows
                 THEN [copies EXCEPT ![Payload[d]] = @ + 1] ELSE copies
    /\ origin' = Touched
    /\ Answer(h, "ok")
    /\ SenderRests

-----------------------------------------------------------------------------
(* Faults.                                                                 *)

Faulty(kind) ==
    /\ kind \in Faults
    /\ faults < MaxFaults
    /\ faults' = faults + 1

\* Nobody waits for the requests of D any more; those not taken yet are lost or
\* late (one late request stands for several: they are handled one by one).
Abandon(D, lost) ==
    /\ wire' = [d \in Deliveries |->
                   IF d \in D /\ "live" \in wire[d]
                   THEN (wire[d] \ {"live"}) \cup (IF lost THEN {} ELSE {"late"})
                   ELSE wire[d]]
    /\ handler' = [h \in Handlers |->
                      IF handler[h].d \in D THEN [handler[h] EXCEPT !.live = FALSE]
                      ELSE handler[h]]

\* No connection, or no response in time: do_post reports a retryable failure.
NoResponse(d, lost) ==
    /\ Faulty("loss")
    /\ worker[d].at = "wait"
    /\ WorkerMoves(d, "answered", "retryable")
    /\ Abandon({d}, lost)
    /\ UNCHANGED <<peer, job, ready, oban, errors, operator, origin, inbox, relay, copies>>

\* A Repo call raises, before or after the database has done its part; Oban counts
\* the error, and schedules the job again unless it was the last attempt.
WorkerRaises(d, lost) ==
    /\ Faulty("raise")
    /\ worker[d].at # "idle"
    /\ errors' = [errors EXCEPT ![d] = @ + 1]
    /\ oban'   = [oban EXCEPT ![d] = IF errors[d] + 1 = MaxErrors
                                     THEN "discarded" ELSE "scheduled"]
    /\ worker' = [worker EXCEPT ![d] = NoWork]
    /\ Abandon({d}, lost)
    /\ UNCHANGED <<peer, job, ready, operator, origin, inbox, relay, copies>>

\* No plugin rescues the jobs that were executing: they stay so.
SenderRestart(lost) ==
    /\ Faulty("sender")
    /\ worker' = [d \in Deliveries |-> NoWork]
    /\ operator' = NoAttempt
    /\ Abandon(Deliveries, lost)
    /\ UNCHANGED <<peer, job, ready, oban, errors, origin, inbox, relay, copies>>

\* The transaction is rolled back; the request raises, and is answered 500.
HandlerRaises(h) ==
    /\ Faulty("receiver")
    /\ handler[h] # Waiting
    /\ Answer(h, "retryable")
    /\ UNCHANGED <<peer, job, ready, oban, errors, operator, wire, origin, inbox, relay,
                   copies>>

ReceiverRestart ==
    LET cut == {handler[h].d : h \in {g \in Handlers : handler[g].live}} IN
    /\ Faulty("receiver")
    /\ handler' = [h \in Handlers |-> Waiting]
    /\ worker'  = [d \in Deliveries |->
                      IF d \in cut
                      THEN [worker[d] EXCEPT !.at = "answered", !.verdict = "retryable"]
                      ELSE worker[d]]
    /\ UNCHANGED <<peer, job, ready, oban, errors, operator, wire, origin, inbox, relay,
                   copies>>

-----------------------------------------------------------------------------
\* dispatch_delivery takes its next step, after Oban has started it.
Dispatch(d) == \/ Fetch(d) \/ Finish(d)
               \/ SkipDelivered(d) \/ SnoozeUntilReady(d) \/ FailPreflight(d) \/ Send(d)
               \/ RecordDelivered(d) \/ Reload(d) \/ RecordFailed(d)

Time(d) == Wake(d) \/ BecomeReady(d)

Operate == \/ \E d \in Deliveries : Enqueue(d) \/ AttemptLoad(d)
           \/ \E outcome \in Outcomes : AttemptWrite(outcome)
           \/ \E s \in PeerMoves : SetPeer(s) \/ SetOrigin(s)

Arrive(d, kind) == Refuse(d, kind) \/ \E h \in Handlers : Receive(h, d, kind)

Handle(h) == \/ FindInbound(h) \/ InsertInbound(h) \/ FindRelay(h) \/ InsertRelay(h)
             \/ FindMessage(h) \/ InsertMessage(h) \/ Commit(h)

Fault == \/ \E d \in Deliveries, lost \in BOOLEAN : NoResponse(d, lost) \/ WorkerRaises(d, lost)
         \/ \E lost \in BOOLEAN : SenderRestart(lost)
         \/ \E h \in Handlers : HandlerRaises(h)
         \/ ReceiverRestart

Next == \/ \E d \in Deliveries : Dispatch(d) \/ Time(d)
        \/ \E d \in Deliveries, kind \in {"live", "late"} : Arrive(d, kind)
        \/ \E h \in Handlers : Handle(h)
        \/ Operate
        \/ Fault

Spec == Init /\ [][Next]_vars

(* Both servers run what is runnable, time passes, and a request that is   *)
(* on its way and not lost arrives.  Operators and faults are free.        *)
Fairness == /\ \A d \in Deliveries : WF_vars(Dispatch(d)) /\ WF_vars(Wake(d))
                                     /\ WF_vars(BecomeReady(d))
                                     /\ WF_vars(Arrive(d, "live"))
            /\ \A h \in Handlers : WF_vars(Handle(h))

FairSpec == Spec /\ Fairness

-----------------------------------------------------------------------------
(* Safety.                                                                 *)

\* Whatever is retried, lost, late or crashed, and although two requests of one
\* delivery may be handled at once, the receiver stores a message once, and only
\* a message that was queued for it.
Exactly == INSTANCE ExactlyOnce WITH
               Items   <- Messages,
               offered <- {Payload[d] : d \in {e \in Deliveries : job[e] # "absent"}},
               copies  <- copies
ExactlyOnceSpec == Exactly!Spec

\* A delivery row at the receiver stands for a message it holds: the sender's retries
\* find the row and are accepted because of it.
InboxBacked == \A d \in inbox : copies[Payload[d]] > 0

\* A delivery the sender shows as delivered is at the receiver, unless an operator
\* has recorded the outcome by hand.
DeliveredIsHeld ==
    "delivered" \notin Outcomes => \A d \in Deliveries : job[d] = "delivered" => d \in inbox

\* Unless operators record outcomes, nothing takes a delivered delivery back: not a
\* repeated run of its job, nor the late answer to an earlier request.
DeliveredIsFinal ==
    [][Outcomes = {} => \A d \in Deliveries : job[d] = "delivered" => job'[d] = "delivered"]_vars

\* Oban gives a job up only when the delivery shows it, or after its last attempt.
JobsAgree ==
    Outcomes = {} => \A d \in Deliveries :
        /\ oban[d] = "completed" => job[d] = "delivered"
        /\ oban[d] = "discarded" => job[d] = "failed" \/ errors[d] = MaxErrors

\* Receiving deliveries never brings back a peer that an operator has disabled while
\* they were handled, although each touches the peer as active.
OperatorDecides ==
    [][origin' # origin => \E s \in PeerMoves : SetOrigin(s)]_vars

-----------------------------------------------------------------------------
(* The inductive invariant.                                                *)

\* Nothing is on its way for a delivery that was never queued.
QueuedFirst == \A d \in Deliveries : job[d] = "absent" =>
    /\ oban[d] = "none"
    /\ wire[d] = {}
    /\ worker[d].at = "idle"
    /\ operator.d # d
    /\ \A h \in Handlers : handler[h].d # d

\* A handler that is past a step has found or inserted that step's row, and the
\* unique indexes keep its inserts apart from committed and other rows.
PastInbound == {"find_relay", "insert_relay", "find_message", "insert_message", "commit"}
OwnRows(h) ==
    LET d == handler[h].d  rows == handler[h].rows IN
    /\ handler[h].at \in PastInbound => "inbound" \in rows \/ d \in inbox
    /\ handler[h].at = "commit" => "message" \in rows \/ copies[Payload[d]] = 1
    /\ "message" \in rows => handler[h].at = "commit" /\ copies[Payload[d]] = 0
    /\ "message" \in rows => ~Blocked(h, "message")
HandlersApart == \A h \in Handlers : OwnRows(h)
StoredOnce == \A m \in Messages : copies[m] \in {0, 1}

\* At most one request of a delivery is waited for, and only by a waiting worker.
LiveHandler(h, d) == handler[h].live /\ handler[h].d = d
OneAnswer == \A d \in Deliveries :
    /\ "live" \in wire[d] => /\ worker[d].at = "wait"
                             /\ \A h \in Handlers : ~LiveHandler(h, d)
    /\ \A h \in Handlers : LiveHandler(h, d) =>
          /\ worker[d].at = "wait"
          /\ \A g \in Handlers \ {h} : ~LiveHandler(g, d)

\* A worker runs for an executing job, and none is left after the last attempt.
JobsHeld == \A d \in Deliveries :
    /\ worker[d].at # "idle" => oban[d] = "executing"
    /\ errors[d] = MaxErrors => oban[d] = "discarded"

\* A worker believes what is stored, unless operators record outcomes.
OwnJob(d) ==
    /\ worker[d].at = "answered" /\ worker[d].verdict = "ok" => d \in inbox
    /\ worker[d].at = "answered" => worker[d].verdict # "none"
    /\ worker[d].at = "fail" => worker[d].verdict \in {"retryable", "permanent"}
    /\ Outcomes = {} =>
        /\ worker[d].at \in {"decide", "fail"} => worker[d].seen = job[d]
        /\ worker[d].at \in {"wait", "answered", "fail"} => job[d] = "processing"
        /\ worker[d].at = "finish" =>
              \/ worker[d].verdict = "ok" /\ job[d] = "delivered"
              \/ worker[d].verdict = "permanent" /\ job[d] = "failed"
              \/ worker[d].verdict = "retryable" /\ job[d] # "delivered"
WorkersAgree == \A d \in Deliveries : OwnJob(d)

\* True at first, kept by every step, and enough for the safety properties.
IInv == /\ TypeOK /\ JobsHeld /\ QueuedFirst
        /\ HandlersApart /\ StoredOnce /\ InboxBacked
        /\ OneAnswer /\ WorkersAgree /\ DeliveredIsHeld /\ JobsAgree

-----------------------------------------------------------------------------
(* Liveness, under Fairness: without restarts of the sender, with fewer    *)
(* faults than attempts, and operators who only activate peers.            *)

\* A queued message whose chat the receiver has, queued for a peer in good standing
\* with a relay user, is delivered; a delivery is given up only when another one has
\* brought the message.
EventuallyDelivered == \A d \in Deliveries :
    (job[d] # "absent" /\ Payload[d] \in Known /\ peer = "active" /\ origin = "active" /\ relay)
        ~> \/ job[d] = "delivered"
           \/ \E e \in inbox \ {d} : Payload[e] = Payload[d] /\ oban[d] = "discarded"

-----------------------------------------------------------------------------
(* What the repository says and the code does not do.                      *)

\* federation_test.exs: "deduplicates remote delivery id"; mtls.ex: duplicates "are
\* safe and should not trigger retries".
DuplicatesAccepted ==
    [][\A h \in Handlers :
          (InsertInbound(h) /\ handler[h].live /\ handler[h].d \in inbox)
              => worker'[handler[h].d].verdict # "retryable"]_vars
=============================================================================

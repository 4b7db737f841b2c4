--------------------- MODULE FederationDelivery_proofs ---------------------
(* Theorems about FederationDelivery, for any deliveries, messages and     *)
(* handlers, any faults and any number of them.                            *)
EXTENDS FederationDelivery, TLAPS

-----------------------------------------------------------------------------
(* Types.                                                                  *)

\* A worker that moves keeps its type.
LEMMA WorkerType ==
    ASSUME TypeOK, NEW d \in Deliveries, NEW verdict \in Verdicts,
           NEW step \in {"idle", "decide", "wait", "answered", "fail", "finish"}
    PROVE  /\ [worker EXCEPT ![d].at = step, ![d].verdict = verdict] \in [Deliveries -> Worker]
           /\ [worker[d] EXCEPT !.at = step, !.verdict = verdict] \in Worker
           /\ NoWork \in Worker
  <1>1. [worker[d] EXCEPT !.at = step, !.verdict = verdict] \in Worker
    BY DEF TypeOK, Worker
  <1>2. NoWork \in Worker
    BY DEF NoWork, Worker, JobStatus, Verdicts
  <1>3. [worker EXCEPT ![d].at = step, ![d].verdict = verdict]
            = [worker EXCEPT ![d] = [worker[d] EXCEPT !.at = step, !.verdict = verdict]]
    BY DEF TypeOK, Worker
  <1> QED
    BY <1>1, <1>2, <1>3 DEF TypeOK

\* The same, of the action.
LEMMA MoveType ==
    ASSUME TypeOK, NEW d \in Deliveries, NEW verdict \in Verdicts,
           NEW step \in {"idle", "decide", "wait", "answered", "fail", "finish"},
           WorkerMoves(d, step, verdict)
    PROVE  worker' \in [Deliveries -> Worker]
  BY WorkerType DEF WorkerMoves

\* A handler that steps, inserts or answers keeps its type, and so does its worker.
LEMMA HandlerType ==
    ASSUME TypeOK, NEW h \in Handlers, handler[h] # Waiting
    PROVE  /\ handler[h].d \in Deliveries
           /\ \A verdict \in Verdicts : Answer(h, verdict)
                 => worker' \in [Deliveries -> Worker] /\ handler' \in [Handlers -> Handler]
           /\ \A step \in {"find_relay", "find_message", "commit"},
                 row \in {"inbound", "relay", "message"} :
                 Insert(h, row, step) => handler' \in [Handlers -> Handler]
           /\ \A step \in {"find_relay", "insert_inbound", "find_message", "insert_relay",
                            "insert_message", "commit"} :
                 Step(h, step) => handler' \in [Handlers -> Handler]
  <1>1. handler[h].d \in Deliveries /\ Waiting \in Handler
    BY DEF TypeOK, Handler
  <1>2. ASSUME NEW verdict \in Verdicts, Answer(h, verdict)
        PROVE  worker' \in [Deliveries -> Worker] /\ handler' \in [Handlers -> Handler]
    <2>1. handler' \in [Handlers -> Handler]
      BY <1>1, <1>2 DEF Answer, TypeOK
    <2>2. [worker EXCEPT ![handler[h].d].at = "answered", ![handler[h].d].verdict = verdict]
              \in [Deliveries -> Worker]
      BY <1>1, WorkerType
    <2> QED
      BY <1>2, <2>1, <2>2 DEF Answer, TypeOK
  <1>3. ASSUME NEW step \in {"find_relay", "find_message", "commit"},
               NEW row \in {"inbound", "relay", "message"}, Insert(h, row, step)
        PROVE  handler' \in [Handlers -> Handler]
    <2>1. [handler[h] EXCEPT !.at = step, !.rows = @ \cup {row}] \in Handler
      BY DEF TypeOK, Handler
    <2>2. handler' = [handler EXCEPT ![h] =
                         [handler[h] EXCEPT !.at = step, !.rows = @ \cup {row}]]
      BY <1>3 DEF Insert, TypeOK, Handler
    <2> QED
      BY <2>1, <2>2 DEF TypeOK
  <1>4. ASSUME NEW step \in {"find_relay", "insert_inbound", "find_message", "insert_relay",
                             "insert_message", "commit"},
               Step(h, step)
        PROVE  handler' \in [Handlers -> Handler]
    <2>1. [handler[h] EXCEPT !.at = step] \in Handler
      BY DEF TypeOK, Handler
    <2> QED
      BY <1>4, <2>1 DEF Step, TypeOK
  <1> QED
    BY <1>1, <1>2, <1>3, <1>4

\* Giving up on requests leaves wires and handlers of their types.
LEMMA AbandonTypes ==
    ASSUME TypeOK, NEW D \in SUBSET Deliveries, NEW lost \in BOOLEAN, Abandon(D, lost)
    PROVE  /\ wire' \in [Deliveries -> SUBSET {"live", "late"}]
           /\ handler' \in [Handlers -> Handler]
  <1>1. ASSUME NEW h \in Handlers, handler[h].d \in D
        PROVE  [handler[h] EXCEPT !.live = FALSE] \in Handler
    <2>1. handler[h] \in Handler \ {Waiting}
      BY <1>1, NoDeliveryAssumption DEF TypeOK, Waiting
    <2> QED
      BY <2>1 DEF Handler
  <1>2. handler' \in [Handlers -> Handler]
    BY <1>1 DEF TypeOK, Abandon
  <1>3. wire' \in [Deliveries -> SUBSET {"live", "late"}]
    BY DEF TypeOK, Abandon
  <1> QED
    BY <1>2, <1>3

\* A fault is counted up to its bound.
LEMMA FaultType == ASSUME TypeOK, NEW kind, Faulty(kind) PROVE faults' \in 0..MaxFaults
  BY BoundsAssumption DEF TypeOK, Faulty

\* Every step keeps the types.
LEMMA TypeStep == TypeOK /\ JobsHeld /\ [Next]_vars => TypeOK'
  <1> SUFFICES ASSUME TypeOK, JobsHeld, [Next]_vars PROVE TypeOK'
    OBVIOUS
  <1> USE DEF TypeOK, senderVars, receiverVars
  <1>1. ASSUME NEW d \in Deliveries, Enqueue(d) \/ Wake(d) \/ BecomeReady(d)
        PROVE  TypeOK'
    BY <1>1 DEF Enqueue, Wake, BecomeReady, JobStatus
  <1>2. ASSUME NEW d \in Deliveries, Fetch(d) \/ Finish(d) \/ Reload(d)
        PROVE  TypeOK'
    <2>1. worker' \in [Deliveries -> Worker]
      <3>1. NoWork \in Worker
        BY DEF NoWork, Worker, JobStatus, Verdicts
      <3>2. [NoWork EXCEPT !.at = "decide", !.seen = job[d], !.due = d \in ready] \in Worker
        <4>1. \A b \in BOOLEAN :
                 [NoWork EXCEPT !.at = "decide", !.seen = job[d], !.due = b] \in Worker
          BY <3>1 DEF Worker
        <4>2. (d \in ready) \in BOOLEAN
          OBVIOUS
        <4> HIDE DEF TypeOK
        <4> QED
          BY ONLY <4>1, <4>2, Zenon
      <3>3. [worker[d] EXCEPT !.at = "fail", !.seen = job[d]] \in Worker
        BY DEF Worker
      <3>4. [worker EXCEPT ![d].at = "fail", ![d].seen = job[d]]
                = [worker EXCEPT ![d] = [worker[d] EXCEPT !.at = "fail", !.seen = job[d]]]
        BY DEF Worker
      <3> QED
        BY <1>2, <3>1, <3>2, <3>3, <3>4 DEF Fetch, Finish, Reload
    <2>2. oban' \in [Deliveries -> {"none", "available", "executing", "scheduled",
                                    "completed", "discarded"}]
      BY <1>2 DEF Fetch, Finish, Reload
    <2> QED
      BY <1>2, <2>1, <2>2 DEF Fetch, Finish, Reload
  <1>3. ASSUME NEW d \in Deliveries, SkipDelivered(d) \/ SnoozeUntilReady(d)
        PROVE  TypeOK'
    <2>1. worker' \in [Deliveries -> Worker]
      BY <1>3, MoveType DEF SkipDelivered, SnoozeUntilReady, Verdicts
    <2> QED
      BY <1>3, <2>1 DEF SkipDelivered, SnoozeUntilReady
  <1>4. ASSUME NEW d \in Deliveries, FailPreflight(d) \/ RecordFailed(d)
        PROVE  TypeOK'
    <2>1. PICK verdict \in Verdicts : MarkFailed(d, verdict)
      BY <1>4 DEF FailPreflight, RecordFailed, Verdicts, Worker
    <2>2. worker' \in [Deliveries -> Worker]
      BY <2>1, MoveType DEF MarkFailed
    <2>3. job' \in [Deliveries -> JobStatus] /\ ready' \subseteq Deliveries
      BY <2>1 DEF MarkFailed, Written, JobStatus
    <2> QED
      BY <1>4, <2>2, <2>3 DEF FailPreflight, RecordFailed
  <1>5. ASSUME NEW d \in Deliveries, Send(d) \/ RecordDelivered(d)
        PROVE  TypeOK'
    <2>1. worker' \in [Deliveries -> Worker]
      BY <1>5, MoveType DEF Send, RecordDelivered, Verdicts
    <2> QED
      BY <1>5, <2>1 DEF Send, RecordDelivered, Written, JobStatus
  <1>6. ASSUME NEW d \in Deliveries, AttemptLoad(d)
        PROVE  TypeOK'
    BY <1>6 DEF AttemptLoad, Operator
  <1>7. ASSUME NEW outcome \in Outcomes, AttemptWrite(outcome)
        PROVE  TypeOK'
    BY <1>7, OutcomesAssumption DEF AttemptWrite, NoAttempt, Operator, JobStatus, Written
  <1>8. ASSUME NEW s \in PeerMoves, SetPeer(s) \/ SetOrigin(s)
        PROVE  TypeOK'
    BY <1>8, PeerMovesAssumption DEF SetPeer, SetOrigin
  <1>9. ASSUME NEW d \in Deliveries, NEW kind \in {"live", "late"}, Refuse(d, kind)
        PROVE  TypeOK'
    <2>1. worker' \in [Deliveries -> Worker]
      BY <1>9, MoveType DEF Refuse, Verdicts
    <2> QED
      BY <1>9, <2>1 DEF Refuse
  <1>10. ASSUME NEW d \in Deliveries, NEW kind \in {"live", "late"}, NEW h \in Handlers,
                Receive(h, d, kind)
         PROVE  TypeOK'
    BY <1>10 DEF Receive, Handler
  <1>11. ASSUME NEW h \in Handlers, FindInbound(h) \/ FindRelay(h)
         PROVE  TypeOK'
    BY <1>11, HandlerType DEF FindInbound, FindRelay, SenderRests, Waiting
  <1>12. ASSUME NEW h \in Handlers,
                InsertInbound(h) \/ InsertRelay(h) \/ FindMessage(h) \/ InsertMessage(h)
         PROVE  TypeOK'
    <2>1. worker' \in [Deliveries -> Worker] /\ handler' \in [Handlers -> Handler]
      BY <1>12, HandlerType
         DEF InsertInbound, InsertRelay, FindMessage, InsertMessage, Verdicts, Waiting
    <2> QED
      BY <1>12, <2>1
         DEF InsertInbound, InsertRelay, FindMessage, InsertMessage, SenderRests
  <1>13. ASSUME NEW h \in Handlers, Commit(h)
         PROVE  TypeOK'
    <2>1. worker' \in [Deliveries -> Worker] /\ handler' \in [Handlers -> Handler]
      <3>1. Answer(h, "ok") /\ handler[h] # Waiting /\ "ok" \in Verdicts
        BY <1>13 DEF Commit, Verdicts, Waiting
      <3> QED
        BY <3>1, HandlerType
    <2>2. inbox' \subseteq Deliveries
      <3>1. handler[h].d \in Deliveries
        BY <1>13, HandlerType DEF Commit, Waiting
      <3>2. inbox' = inbox \/ inbox' = inbox \cup {handler[h].d}
        BY <1>13 DEF Commit
      <3> QED
        BY <3>1, <3>2
    <2>3. relay' \in BOOLEAN /\ copies' \in [Messages -> Nat]
      <3>1. relay' \in BOOLEAN
        BY <1>13 DEF Commit
      <3>2. copies' = copies \/ copies' = [copies EXCEPT ![Payload[handler[h].d]] = @ + 1]
        BY <1>13 DEF Commit
      <3> QED
        BY <3>1, <3>2
    <2> QED
      BY <1>13, <2>1, <2>2, <2>3 DEF Commit, SenderRests, Touched, Written
  <1>14. ASSUME NEW d \in Deliveries, NEW lost \in BOOLEAN, NoResponse(d, lost)
         PROVE  TypeOK'
    <2>1. worker' \in [Deliveries -> Worker]
      BY <1>14, MoveType DEF NoResponse, Verdicts
    <2>2. Abandon({d}, lost) /\ faults' \in 0..MaxFaults
      BY <1>14, FaultType DEF NoResponse
    <2>3. wire' \in [Deliveries -> SUBSET {"live", "late"}] /\ handler' \in [Handlers -> Handler]
      BY <2>2, AbandonTypes
    <2> QED
      BY <1>14, <2>1, <2>2, <2>3 DEF NoResponse
  <1>15. ASSUME NEW d \in Deliveries, NEW lost \in BOOLEAN, WorkerRaises(d, lost)
         PROVE  TypeOK'
    <2>1. worker' \in [Deliveries -> Worker]
      BY <1>15, WorkerType DEF WorkerRaises, Verdicts
    <2>2. errors[d] # MaxErrors
      BY <1>15 DEF WorkerRaises, JobsHeld
    <2>3. errors' \in [Deliveries -> 0..MaxErrors]
      BY <1>15, <2>2, BoundsAssumption DEF WorkerRaises
    <2>4. Abandon({d}, lost) /\ faults' \in 0..MaxFaults
      BY <1>15, FaultType DEF WorkerRaises
    <2>5. wire' \in [Deliveries -> SUBSET {"live", "late"}] /\ handler' \in [Handlers -> Handler]
      BY <2>4, AbandonTypes
    <2> QED
      BY <1>15, <2>1, <2>3, <2>4, <2>5 DEF WorkerRaises
  <1>16. ASSUME NEW lost \in BOOLEAN, SenderRestart(lost)
         PROVE  TypeOK'
    <2>1. Abandon(Deliveries, lost) /\ worker' \in [Deliveries -> Worker]
      BY <1>16 DEF SenderRestart, NoWork, Worker, JobStatus, Verdicts
    <2>2. NoAttempt \in Operator
      BY DEF NoAttempt, Operator, JobStatus
    <2>3. faults' \in 0..MaxFaults
      BY <1>16, FaultType DEF SenderRestart
    <2>4. wire' \in [Deliveries -> SUBSET {"live", "late"}] /\ handler' \in [Handlers -> Handler]
      BY <2>1, AbandonTypes
    <2> QED
      BY <1>16, <2>1, <2>2, <2>3, <2>4 DEF SenderRestart
  <1>17. ASSUME NEW h \in Handlers, HandlerRaises(h)
         PROVE  TypeOK'
    <2>1. worker' \in [Deliveries -> Worker] /\ handler' \in [Handlers -> Handler]
      BY <1>17, HandlerType DEF HandlerRaises, Verdicts
    <2> QED
      BY <1>17, <2>1, BoundsAssumption DEF HandlerRaises, Faulty
  <1>18. CASE ReceiverRestart
    <2>1. worker' \in [Deliveries -> Worker]
      <3>1. ASSUME NEW d \in Deliveries
            PROVE  [worker[d] EXCEPT !.at = "answered", !.verdict = "retryable"] \in Worker
        BY WorkerType, "retryable" \in Verdicts DEF Verdicts
      <3> QED
        BY <1>18, <3>1 DEF ReceiverRestart
    <2>2. handler' \in [Handlers -> Handler]
      <3>1. Waiting \in Handler
        BY DEF Handler
      <3> QED
        BY <1>18, <3>1 DEF ReceiverRestart
    <2>3. faults' \in 0..MaxFaults
      BY <1>18, FaultType DEF ReceiverRestart
    <2> QED
      BY <1>18, <2>1, <2>2, <2>3 DEF ReceiverRestart
  <1>19. CASE UNCHANGED vars
    BY <1>19 DEF vars
  <1> QED
    BY <1>1, <1>2, <1>3, <1>4, <1>5, <1>6, <1>7, <1>8, <1>9, <1>10, <1>11, <1>12, <1>13,
       <1>14, <1>15, <1>16, <1>17, <1>18, <1>19
       DEF Next, Dispatch, Time, Arrive, Handle, Operate, Fault

-----------------------------------------------------------------------------
(* What the pieces the actions are made of do, delivery by delivery and    *)
(* handler by handler.                                                     *)

\* A worker that moves keeps what it has read, and the others stay.
LEMMA MoveEffect ==
    ASSUME TypeOK, NEW d \in Deliveries, NEW step, NEW verdict, WorkerMoves(d, step, verdict)
    PROVE  /\ worker'[d].at = step /\ worker'[d].verdict = verdict
           /\ worker'[d].seen = worker[d].seen
           /\ \A e \in Deliveries \ {d} : worker'[e] = worker[e]
  BY DEF TypeOK, Worker, WorkerMoves

\* An answer frees its handler and reaches the worker that waits for it, if any.
LEMMA AnswerEffect ==
    ASSUME TypeOK, NEW h \in Handlers, handler[h] # Waiting, NEW verdict, Answer(h, verdict)
    PROVE  /\ handler'[h] = Waiting
           /\ \A g \in Handlers \ {h} : handler'[g] = handler[g]
           /\ \A e \in Deliveries :
                 IF LiveHandler(h, e)
                 THEN /\ worker'[e].at = "answered" /\ worker'[e].verdict = verdict
                      /\ worker'[e].seen = worker[e].seen
                 ELSE worker'[e] = worker[e]
  <1>1. handler[h].d \in Deliveries
    BY HandlerType
  <1>2. handler'[h] = Waiting /\ \A g \in Handlers \ {h} : handler'[g] = handler[g]
    BY DEF TypeOK, Answer
  <1>3. ASSUME NEW e \in Deliveries
        PROVE  IF LiveHandler(h, e)
               THEN /\ worker'[e].at = "answered" /\ worker'[e].verdict = verdict
                    /\ worker'[e].seen = worker[e].seen
               ELSE worker'[e] = worker[e]
    <2>1. CASE handler[h].live
      <3>1. WorkerMoves(handler[h].d, "answered", verdict)
        BY <2>1 DEF Answer, WorkerMoves
      <3> QED
        BY <1>1, <2>1, <3>1, MoveEffect DEF LiveHandler
    <2>2. CASE ~handler[h].live
      BY <2>2 DEF Answer, LiveHandler
    <2> QED
      BY <2>1, <2>2
  <1> QED
    BY <1>2, <1>3

\* Of requests that are given up only who waits for them changes.
LEMMA AbandonEffect ==
    ASSUME TypeOK, NEW D \in SUBSET Deliveries, NEW lost \in BOOLEAN, Abandon(D, lost)
    PROVE  /\ \A d \in Deliveries : /\ d \in D => "live" \notin wire'[d]
                                    /\ d \notin D => wire'[d] = wire[d]
                                    /\ wire[d] = {} => wire'[d] = {}
           /\ \A h \in Handlers : /\ handler'[h].at = handler[h].at
                                  /\ handler'[h].d = handler[h].d
                                  /\ handler'[h].rows = handler[h].rows
                                  /\ handler[h].d \in D => ~handler'[h].live
                                  /\ handler[h].d \notin D => handler'[h] = handler[h]
  <1>1. \A d \in Deliveries : /\ d \in D => "live" \notin wire'[d]
                              /\ d \notin D => wire'[d] = wire[d]
                              /\ wire[d] = {} => wire'[d] = {}
    BY DEF TypeOK, Abandon
  <1>2. ASSUME NEW h \in Handlers
        PROVE  /\ handler'[h].at = handler[h].at
               /\ handler'[h].d = handler[h].d
               /\ handler'[h].rows = handler[h].rows
               /\ handler[h].d \in D => ~handler'[h].live
               /\ handler[h].d \notin D => handler'[h] = handler[h]
    <2>1. CASE handler[h].d \in D
      <3>1. handler[h] \in Handler \ {Waiting}
        BY <2>1, NoDeliveryAssumption DEF TypeOK, Waiting
      <3>2. handler'[h] = [handler[h] EXCEPT !.live = FALSE]
        BY <2>1 DEF Abandon
      <3> QED
        BY <2>1, <3>1, <3>2 DEF Handler
    <2>2. CASE handler[h].d \notin D
      BY <2>2 DEF Abandon
    <2> QED
      BY <2>1, <2>2
  <1> QED
    BY <1>1, <1>2

-----------------------------------------------------------------------------
(* The receiver: handlers, rows and messages.                              *)

ReceiverInv == HandlersApart /\ StoredOnce /\ InboxBacked

\* Handlers that go on, or end without a trace, disturb nothing.
LEMMA QuietHandlers ==
    ASSUME TypeOK, ReceiverInv, inbox' = inbox, copies' = copies,
           \A g \in Handlers : \/ handler'[g] = Waiting
                               \/ /\ handler'[g].at = handler[g].at
                                  /\ handler'[g].d = handler[g].d
                                  /\ handler'[g].rows = handler[g].rows
    PROVE  ReceiverInv'
  <1>1. StoredOnce' /\ InboxBacked'
    BY DEF ReceiverInv, StoredOnce, InboxBacked
  <1>2. ASSUME NEW g \in Handlers PROVE OwnRows(g)'
    <2>1. OwnRows(g)
      BY DEF ReceiverInv, HandlersApart
    <2>2. CASE handler'[g] = Waiting
      BY <2>2 DEF OwnRows, Waiting, PastInbound
    <2>3. CASE handler'[g].at = handler[g].at /\ handler'[g].d = handler[g].d
               /\ handler'[g].rows = handler[g].rows
      <3>1. Blocked(g, "message")' => Blocked(g, "message")
        BY <2>3 DEF Blocked, SameKey, Waiting
      <3> QED
        BY <2>1, <2>3, <3>1 DEF OwnRows
    <2> QED
      BY <2>2, <2>3
  <1> QED
    BY <1>1, <1>2 DEF ReceiverInv, HandlersApart

\* A handler that has not inserted the message disturbs nobody.
LEMMA OneHandler ==
    ASSUME TypeOK, ReceiverInv, inbox' = inbox, copies' = copies, NEW h \in Handlers,
           \A g \in Handlers \ {h} : handler'[g] = handler[g],
           "message" \notin handler'[h].rows,
           handler'[h].at \in PastInbound
               => "inbound" \in handler'[h].rows \/ handler'[h].d \in inbox,
           handler'[h].at = "commit" => copies[Payload[handler'[h].d]] = 1
    PROVE  ReceiverInv'
  <1>1. StoredOnce' /\ InboxBacked'
    BY DEF ReceiverInv, StoredOnce, InboxBacked
  <1>2. OwnRows(h)'
    BY DEF OwnRows
  <1>3. ASSUME NEW g \in Handlers \ {h} PROVE OwnRows(g)'
    <2>1. OwnRows(g)
      BY DEF ReceiverInv, HandlersApart
    <2>2. Blocked(g, "message")' => Blocked(g, "message")
      BY DEF Blocked, SameKey
    <2> QED
      BY <2>1, <2>2 DEF OwnRows
  <1> QED
    BY <1>1, <1>2, <1>3 DEF ReceiverInv, HandlersApart

\* The message is inserted only when no other row of it is there.
LEMMA InsertMessageKeeps ==
    ASSUME TypeOK, ReceiverInv, NEW h \in Handlers, InsertMessage(h)
    PROVE  ReceiverInv'
  <1> DEFINE m == Payload[handler[h].d]
  <1>1. handler[h] # Waiting /\ handler[h].at = "insert_message" /\ OwnRows(h)
    BY DEF InsertMessage, Waiting, ReceiverInv, HandlersApart
  <1>2. inbox' = inbox /\ copies' = copies
    BY DEF InsertMessage
  <1>3. CASE copies[m] > 0
    <2>1. Answer(h, "permanent")
      BY <1>3 DEF InsertMessage
    <2> QED
      BY <1>1, <1>2, <2>1, AnswerEffect, QuietHandlers
  <1>4. CASE ~(copies[m] > 0)
    <2>1. m \in Messages /\ copies[m] = 0
      BY <1>1, <1>4, HandlerType, PayloadAssumption DEF ReceiverInv, StoredOnce
    <2>2. /\ handler'[h].at = "commit" /\ handler'[h].d = handler[h].d
          /\ handler'[h].rows = handler[h].rows \cup {"message"}
          /\ \A g \in Handlers \ {h} : handler'[g] = handler[g]
      BY <1>1, <1>4 DEF InsertMessage, Insert, TypeOK, Handler
    <2>3. ~Blocked(h, "message")
      BY DEF InsertMessage
    <2>4. OwnRows(h)'
      <3>1. ~Blocked(h, "message")'
        BY <2>2, <2>3 DEF Blocked, SameKey
      <3> QED
        BY <1>1, <1>2, <2>1, <2>2, <3>1 DEF OwnRows, PastInbound
    <2>5. ASSUME NEW g \in Handlers \ {h} PROVE OwnRows(g)'
      <3>1. OwnRows(g)
        BY DEF ReceiverInv, HandlersApart
      <3>2. "message" \in handler[g].rows => ~Blocked(g, "message")'
        BY <2>2, <2>3, <3>1 DEF OwnRows, Blocked, SameKey
      <3> QED
        BY <1>2, <2>2, <3>1, <3>2 DEF OwnRows
    <2> QED
      BY <1>2, <2>4, <2>5 DEF ReceiverInv, HandlersApart, StoredOnce, InboxBacked
  <1> QED
    BY <1>3, <1>4

\* A committed delivery has its message, and no other handler counted on its absence.
LEMMA CommitKeeps ==
    ASSUME TypeOK, ReceiverInv, NEW h \in Handlers, Commit(h)
    PROVE  ReceiverInv'
  <1> DEFINE d == handler[h].d
  <1> DEFINE m == Payload[d]
  <1>1. handler[h] # Waiting /\ handler[h].at = "commit" /\ OwnRows(h) /\ Answer(h, "ok")
    BY DEF Commit, Waiting, ReceiverInv, HandlersApart
  <1>2. d \in Deliveries /\ m \in Messages
    BY <1>1, HandlerType, PayloadAssumption
  <1>3. handler'[h] = Waiting /\ \A g \in Handlers \ {h} : handler'[g] = handler[g]
    BY <1>1, AnswerEffect
  <1>4. inbox' \subseteq inbox \cup {d} /\ inbox \subseteq inbox'
    BY DEF Commit
  <1>5. /\ copies'[m] = 1
        /\ \A n \in Messages \ {m} : copies'[n] = copies[n]
        /\ "message" \notin handler[h].rows => copies' = copies
    <2>1. CASE "message" \in handler[h].rows
      <3>1. copies' = [copies EXCEPT ![m] = @ + 1] /\ copies[m] = 0
        BY <1>1, <2>1 DEF Commit, OwnRows
      <3> QED
        BY <1>2, <2>1, <3>1 DEF TypeOK
    <2>2. CASE "message" \notin handler[h].rows
      BY <1>1, <2>2 DEF Commit, OwnRows
    <2> QED
      BY <2>1, <2>2
  <1>6. StoredOnce' /\ InboxBacked'
    <2>1. StoredOnce'
      BY <1>5 DEF ReceiverInv, StoredOnce
    <2>2. \A e \in inbox : Payload[e] \in Messages /\ copies[Payload[e]] > 0
      BY PayloadAssumption DEF ReceiverInv, InboxBacked, TypeOK
    <2> QED
      BY <1>4, <1>5, <2>1, <2>2 DEF InboxBacked
  <1>7. OwnRows(h)'
    BY <1>3 DEF OwnRows, Waiting, PastInbound
  <1>8. ASSUME NEW g \in Handlers \ {h} PROVE OwnRows(g)'
    <2>1. OwnRows(g)
      BY DEF ReceiverInv, HandlersApart
    <2>2. Blocked(g, "message")' => Blocked(g, "message")
      BY <1>3 DEF Blocked, SameKey, Waiting
    <2>3. handler'[g].at \in PastInbound
              => "inbound" \in handler'[g].rows \/ handler'[g].d \in inbox'
      BY <1>3, <1>4, <2>1 DEF OwnRows
    <2>4. CASE handler[g] = Waiting
      BY <1>3, <2>4 DEF OwnRows, Waiting, PastInbound
    <2>5. CASE handler[g] # Waiting
      <3>1. Payload[handler[g].d] \in Messages
        BY <2>5, HandlerType, PayloadAssumption
      <3>2. handler'[g].at = "commit"
                => "message" \in handler'[g].rows \/ copies'[Payload[handler'[g].d]] = 1
        BY <1>3, <1>5, <2>1, <3>1 DEF OwnRows
      <3>3. "message" \in handler'[g].rows
                => handler'[g].at = "commit" /\ copies'[Payload[handler'[g].d]] = 0
        <4>1. "message" \in handler[g].rows /\ "message" \in handler[h].rows
                  => Payload[handler[g].d] # m
          BY <2>1 DEF OwnRows, Blocked, SameKey
        <4> QED
          BY <1>3, <1>5, <2>1, <3>1, <4>1 DEF OwnRows
      <3> QED
        BY <1>3, <2>1, <2>2, <2>3, <3>2, <3>3 DEF OwnRows
    <2> QED
      BY <2>4, <2>5
  <1> QED
    BY <1>6, <1>7, <1>8 DEF ReceiverInv, HandlersApart

\* Every step keeps the receiver's invariant.
LEMMA ReceiverStep == TypeOK /\ ReceiverInv /\ [Next]_vars => ReceiverInv'
  <1> SUFFICES ASSUME TypeOK, ReceiverInv, [Next]_vars PROVE ReceiverInv'
    OBVIOUS
  <1>1. ASSUME UNCHANGED <<handler, inbox, copies>> PROVE ReceiverInv'
    BY <1>1, QuietHandlers
  <1>2. ASSUME NEW d \in Deliveries, Dispatch(d) \/ Time(d) PROVE ReceiverInv'
    BY <1>1, <1>2
       DEF Dispatch, Time, Fetch, Finish, SkipDelivered, SnoozeUntilReady, FailPreflight, Send,
           RecordDelivered, Reload, RecordFailed, Wake, BecomeReady, receiverVars
  <1>3. CASE Operate
    BY <1>1, <1>3 DEF Operate, Enqueue, AttemptLoad, AttemptWrite, SetPeer, SetOrigin, receiverVars
  <1>4. ASSUME NEW d \in Deliveries, NEW kind, Refuse(d, kind) PROVE ReceiverInv'
    BY <1>1, <1>4 DEF Refuse, receiverVars
  <1>5. ASSUME NEW d \in Deliveries, NEW kind, NEW h \in Handlers, Receive(h, d, kind)
        PROVE  ReceiverInv'
    <2>1. /\ handler'[h].at = "find_inbound" /\ handler'[h].rows = {}
          /\ \A g \in Handlers \ {h} : handler'[g] = handler[g]
          /\ inbox' = inbox /\ copies' = copies
      BY <1>5 DEF Receive, TypeOK
    <2> QED
      BY <2>1, OneHandler DEF PastInbound
  <1>6. ASSUME NEW h \in Handlers, FindInbound(h) \/ FindRelay(h) \/ FindMessage(h)
        PROVE  ReceiverInv'
    <2>1. /\ inbox' = inbox /\ copies' = copies
          /\ handler[h] # Waiting /\ OwnRows(h) /\ handler[h].at # "commit"
      BY <1>6 DEF FindInbound, FindRelay, FindMessage, Waiting, ReceiverInv, HandlersApart
    <2>2. ASSUME NEW step, Step(h, step)
          PROVE  /\ handler'[h].at = step
                 /\ handler'[h].d = handler[h].d /\ handler'[h].rows = handler[h].rows
                 /\ \A g \in Handlers \ {h} : handler'[g] = handler[g]
      BY <2>1, <2>2 DEF Step, TypeOK, Handler
    <2>3. CASE FindInbound(h)
      BY <2>1, <2>2, <2>3, OneHandler DEF FindInbound, OwnRows, PastInbound
    <2>4. CASE FindRelay(h)
      BY <2>1, <2>2, <2>4, OneHandler DEF FindRelay, OwnRows, PastInbound
    <2>5. CASE FindMessage(h)
      <3>1. CASE Payload[handler[h].d] \notin Known
        BY <2>1, <2>5, <3>1, AnswerEffect, QuietHandlers DEF FindMessage
      <3>2. CASE Payload[handler[h].d] \in Known
        <4>1. copies[Payload[handler[h].d]] \in {0, 1}
          BY <2>1, HandlerType, PayloadAssumption DEF ReceiverInv, StoredOnce
        <4> QED
          BY <2>1, <2>2, <2>5, <3>2, <4>1, OneHandler DEF FindMessage, OwnRows, PastInbound
      <3> QED
        BY <3>1, <3>2
    <2> QED
      BY <1>6, <2>3, <2>4, <2>5
  <1>7. ASSUME NEW h \in Handlers, InsertInbound(h) \/ InsertRelay(h) PROVE ReceiverInv'
    <2>1. /\ inbox' = inbox /\ copies' = copies
          /\ handler[h] # Waiting /\ OwnRows(h) /\ handler[h].at # "commit"
      BY <1>7 DEF InsertInbound, InsertRelay, Waiting, ReceiverInv, HandlersApart
    <2>2. ASSUME NEW verdict, Answer(h, verdict) PROVE ReceiverInv'
      BY <2>1, <2>2, AnswerEffect, QuietHandlers
    <2>3. ASSUME NEW step, NEW row, Insert(h, row, step)
          PROVE  /\ handler'[h].at = step /\ handler'[h].d = handler[h].d
                 /\ handler'[h].rows = handler[h].rows \cup {row}
                 /\ \A g \in Handlers \ {h} : handler'[g] = handler[g]
      BY <2>1, <2>3 DEF Insert, TypeOK, Handler
    <2>4. CASE Insert(h, "inbound", "find_relay")
      BY <2>1, <2>3, <2>4, OneHandler DEF OwnRows, PastInbound
    <2>5. CASE InsertRelay(h) /\ Insert(h, "relay", "find_message")
      BY <2>1, <2>3, <2>5, OneHandler DEF InsertRelay, OwnRows, PastInbound
    <2> QED
      BY <1>7, <2>2, <2>4, <2>5 DEF InsertInbound, InsertRelay
  <1>8. ASSUME NEW h \in Handlers, InsertMessage(h) \/ Commit(h) PROVE ReceiverInv'
    BY <1>8, InsertMessageKeeps, CommitKeeps
  <1>9. ASSUME NEW D \in SUBSET Deliveries, NEW lost \in BOOLEAN, Abandon(D, lost),
               inbox' = inbox, copies' = copies
        PROVE  ReceiverInv'
    BY <1>9, AbandonEffect, QuietHandlers
  <1>10. CASE Fault
    <2>1. ASSUME NEW d \in Deliveries, NEW lost \in BOOLEAN,
                 NoResponse(d, lost) \/ WorkerRaises(d, lost)
          PROVE  ReceiverInv'
      BY <1>9, <2>1 DEF NoResponse, WorkerRaises
    <2>2. ASSUME NEW lost \in BOOLEAN, SenderRestart(lost) PROVE ReceiverInv'
      BY <1>9, <2>2 DEF SenderRestart
    <2>3. ASSUME NEW h \in Handlers, HandlerRaises(h) PROVE ReceiverInv'
      BY <2>3, AnswerEffect, QuietHandlers DEF HandlerRaises
    <2>4. CASE ReceiverRestart
      BY <2>4, QuietHandlers DEF ReceiverRestart
    <2> QED
      BY <1>10, <2>1, <2>2, <2>3, <2>4 DEF Fault
  <1> QED
    BY <1>1, <1>2, <1>3, <1>4, <1>5, <1>6, <1>7, <1>8, <1>10
       DEF Next, Arrive, Handle, vars, receiverVars

-----------------------------------------------------------------------------
(* The sender's workers, its Oban jobs and the requests on their way.      *)

LinkInv == JobsHeld /\ OneAnswer /\ QueuedFirst

\* A worker that is not waiting may move: nobody is about to answer it.
LEMMA OneAnswerMoves ==
    ASSUME OneAnswer, UNCHANGED <<handler, wire>>, NEW d \in Deliveries,
           worker[d].at # "wait", \A e \in Deliveries \ {d} : worker'[e] = worker[e]
    PROVE  OneAnswer'
  BY DEF OneAnswer, LiveHandler

\* Handlers that go on leave the links as they are.
LEMMA LinkSteps ==
    ASSUME LinkInv, UNCHANGED <<worker, wire, oban, errors, job, operator>>,
           \A h \in Handlers : handler'[h].d = handler[h].d /\ handler'[h].live = handler[h].live
    PROVE  LinkInv'
  <1>1. \A h \in Handlers, e \in Deliveries : LiveHandler(h, e)' <=> LiveHandler(h, e)
    BY DEF LiveHandler
  <1>2. OneAnswer'
    BY <1>1 DEF LinkInv, OneAnswer
  <1>3. JobsHeld'
    BY DEF LinkInv, JobsHeld
  <1>4. QueuedFirst'
    BY DEF LinkInv, QueuedFirst
  <1> QED
    BY <1>2, <1>3, <1>4 DEF LinkInv

\* An answer takes a worker from waiting to answered.
LEMMA LinkAnswers ==
    ASSUME TypeOK, LinkInv, UNCHANGED <<wire, oban, errors, job, operator>>,
           NEW h \in Handlers, handler[h] # Waiting, NEW verdict, Answer(h, verdict)
    PROVE  LinkInv'
  <1>1. /\ ~handler'[h].live /\ handler'[h].d = NoDelivery
        /\ \A g \in Handlers \ {h} : handler'[g] = handler[g]
    <2>1. handler'[h] = Waiting /\ \A g \in Handlers \ {h} : handler'[g] = handler[g]
      BY AnswerEffect
    <2> QED
      BY <2>1 DEF Waiting
  <1>2. \A e \in Deliveries : IF LiveHandler(h, e) THEN worker'[e].at = "answered"
                              ELSE worker'[e] = worker[e]
    BY AnswerEffect
  <1>3. \A e \in Deliveries : LiveHandler(h, e) => /\ worker[e].at = "wait"
                                                   /\ "live" \notin wire[e]
                                                   /\ \A g \in Handlers \ {h} : ~LiveHandler(g, e)
    BY DEF LinkInv, OneAnswer
  <1>4. JobsHeld'
    BY <1>2, <1>3 DEF LinkInv, JobsHeld
  <1>5. OneAnswer'
    <2>1. \A g \in Handlers, e \in Deliveries :
             LiveHandler(g, e)' => g # h /\ LiveHandler(g, e) /\ ~LiveHandler(h, e)
      BY <1>1, <1>3 DEF LiveHandler
    <2>2. ASSUME NEW e \in Deliveries, "live" \in wire'[e]
          PROVE  worker'[e].at = "wait" /\ \A g \in Handlers : ~LiveHandler(g, e)'
      BY <1>2, <2>1, <2>2 DEF LinkInv, OneAnswer
    <2>3. ASSUME NEW e \in Deliveries, NEW g \in Handlers, LiveHandler(g, e)'
          PROVE  worker'[e].at = "wait" /\ \A f \in Handlers \ {g} : ~LiveHandler(f, e)'
      BY <1>2, <2>1, <2>3 DEF LinkInv, OneAnswer
    <2> QED
      BY <2>2, <2>3 DEF OneAnswer
  <1>6. QueuedFirst'
    BY <1>1, <1>2, <1>3, NoDeliveryAssumption DEF LinkInv, QueuedFirst
  <1> QED
    BY <1>4, <1>5, <1>6 DEF LinkInv

\* A worker that ends while its request is given up leaves no link behind.
LEMMA LinkAbandoned ==
    ASSUME TypeOK, LinkInv, NEW D \in SUBSET Deliveries, NEW lost \in BOOLEAN, Abandon(D, lost),
           \A e \in Deliveries \ D : worker'[e] = worker[e]
    PROVE  OneAnswer'
  <1>1. \A e \in Deliveries : "live" \in wire'[e] => e \notin D /\ "live" \in wire[e]
    BY AbandonEffect
  <1>2. \A g \in Handlers, e \in Deliveries :
           LiveHandler(g, e)' => e \notin D /\ LiveHandler(g, e)
    BY AbandonEffect DEF LiveHandler
  <1>3. \A e \in Deliveries, g \in Handlers : e \notin D /\ ~LiveHandler(g, e) => ~LiveHandler(g, e)'
    BY <1>2
  <1> QED
    BY <1>1, <1>2, <1>3 DEF LinkInv, OneAnswer

\* What was never queued has no request to give up.
LEMMA QueuedAbandoned ==
    ASSUME TypeOK, LinkInv, NEW D \in SUBSET Deliveries, NEW lost \in BOOLEAN, Abandon(D, lost),
           job' = job, operator' = operator \/ operator' = NoAttempt,
           \A e \in Deliveries : job[e] = "absent" => oban'[e] = oban[e] /\ worker'[e].at = "idle"
    PROVE  QueuedFirst'
  <1>1. /\ \A e \in Deliveries : wire[e] = {} => wire'[e] = {}
        /\ \A h \in Handlers : handler'[h].d = handler[h].d
    BY AbandonEffect
  <1>2. \A e \in Deliveries : operator.d # e => operator'.d # e
    BY NoDeliveryAssumption DEF NoAttempt
  <1> QED
    BY <1>1, <1>2 DEF LinkInv, QueuedFirst

\* Every step keeps the links.
LEMMA LinkStep == TypeOK /\ LinkInv /\ [Next]_vars => LinkInv'
  <1> SUFFICES ASSUME TypeOK, LinkInv, [Next]_vars PROVE LinkInv'
    OBVIOUS
  <1> USE DEF receiverVars
  <1>1. ASSUME NEW d \in Deliveries, Enqueue(d) PROVE LinkInv'
    <2>1. /\ oban[d] = "none" /\ worker[d].at = "idle" /\ job'[d] = "queued"
          /\ \A e \in Deliveries \ {d} : oban'[e] = oban[e] /\ job'[e] = job[e]
          /\ UNCHANGED <<worker, wire, errors, operator, handler>>
      BY <1>1 DEF Enqueue, LinkInv, QueuedFirst, TypeOK
    <2>2. JobsHeld'
      BY <2>1 DEF LinkInv, JobsHeld
    <2>3. OneAnswer' /\ QueuedFirst'
      BY <2>1 DEF LinkInv, OneAnswer, LiveHandler, QueuedFirst
    <2> QED
      BY <2>2, <2>3 DEF LinkInv
  <1>2. ASSUME NEW d \in Deliveries, Time(d) PROVE LinkInv'
    <2>1. CASE Wake(d)
      <3>1. /\ oban[d] = "scheduled"
            /\ \A e \in Deliveries \ {d} : oban'[e] = oban[e]
            /\ UNCHANGED <<worker, wire, errors, job, operator, handler>>
        BY <2>1 DEF Wake, TypeOK
      <3> QED
        BY <3>1 DEF LinkInv, JobsHeld, OneAnswer, LiveHandler, QueuedFirst
    <2>2. CASE BecomeReady(d)
      BY <2>2, LinkSteps DEF BecomeReady
    <2> QED
      BY <1>2, <2>1, <2>2 DEF Time
  <1>3. ASSUME NEW d \in Deliveries, Fetch(d) \/ Finish(d) PROVE LinkInv'
    <2>1. /\ worker[d].at # "wait"
          /\ \A e \in Deliveries \ {d} : worker'[e] = worker[e] /\ oban'[e] = oban[e]
          /\ UNCHANGED <<handler, wire, errors, job, operator>>
      BY <1>3 DEF Fetch, Finish, TypeOK, LinkInv, JobsHeld
    <2>2. /\ oban[d] # "none" /\ errors[d] # MaxErrors
          /\ oban'[d] = "executing" \/ worker'[d].at = "idle"
      BY <1>3 DEF Fetch, Finish, TypeOK, LinkInv, JobsHeld, QueuedFirst, NoWork
    <2>3. JobsHeld'
      BY <2>1, <2>2 DEF LinkInv, JobsHeld
    <2>4. QueuedFirst'
      BY <2>1, <2>2 DEF LinkInv, QueuedFirst
    <2> QED
      BY <2>1, <2>3, <2>4, OneAnswerMoves DEF LinkInv
  <1>4. ASSUME NEW d \in Deliveries, worker[d].at \notin {"idle", "wait"},
               \A e \in Deliveries \ {d} : worker'[e] = worker[e] /\ job'[e] = job[e],
               UNCHANGED <<handler, wire, oban, errors, operator>>,
               job[d] # "absent" => job'[d] # "absent"
        PROVE  LinkInv'
    BY <1>4, OneAnswerMoves DEF LinkInv, JobsHeld, QueuedFirst
  <1>5. ASSUME NEW d \in Deliveries,
               SkipDelivered(d) \/ SnoozeUntilReady(d) \/ Reload(d) \/ FailPreflight(d)
                   \/ RecordFailed(d) \/ RecordDelivered(d)
        PROVE  LinkInv'
    <2>1. /\ worker[d].at \notin {"idle", "wait"}
          /\ UNCHANGED <<handler, wire, oban, errors, operator>>
      BY <1>5 DEF SkipDelivered, SnoozeUntilReady, Reload, FailPreflight, RecordFailed,
                  RecordDelivered
    <2>2. \A e \in Deliveries \ {d} : worker'[e] = worker[e]
      BY <1>5, MoveEffect DEF SkipDelivered, SnoozeUntilReady, Reload, FailPreflight, RecordFailed,
                  RecordDelivered, MarkFailed, TypeOK
    <2>3. /\ \A e \in Deliveries \ {d} : job'[e] = job[e]
          /\ job[d] # "absent" => job'[d] # "absent"
      BY <1>5 DEF SkipDelivered, SnoozeUntilReady, Reload, FailPreflight, RecordFailed,
                  RecordDelivered, MarkFailed, Written, TypeOK
    <2> QED
      BY <1>4, <2>1, <2>2, <2>3
  <1>6. ASSUME NEW d \in Deliveries, Send(d) PROVE LinkInv'
    <2>1. /\ worker[d].at = "decide" /\ worker'[d].at = "wait"
          /\ \A e \in Deliveries \ {d} : worker'[e] = worker[e]
      BY <1>6, MoveEffect DEF Send
    <2>2. /\ \A e \in Deliveries \ {d} : wire'[e] = wire[e] /\ job'[e] = job[e]
          /\ job[d] # "absent" => job'[d] # "absent"
          /\ UNCHANGED <<handler, oban, errors, operator>>
      BY <1>6 DEF Send, Written, TypeOK
    <2>3. job[d] # "absent" /\ \A h \in Handlers : ~LiveHandler(h, d)
      BY <2>1 DEF LinkInv, QueuedFirst, OneAnswer
    <2>4. OneAnswer'
      BY <2>1, <2>2, <2>3 DEF LinkInv, OneAnswer, LiveHandler
    <2> QED
      BY <2>1, <2>2, <2>3, <2>4 DEF LinkInv, JobsHeld, QueuedFirst
  <1>7. ASSUME NEW d \in Deliveries, AttemptLoad(d) PROVE LinkInv'
    <2>1. job[d] # "absent" /\ operator'.d = d
          /\ UNCHANGED <<worker, wire, oban, errors, job, handler>>
      BY <1>7 DEF AttemptLoad
    <2> QED
      BY <2>1 DEF LinkInv, JobsHeld, OneAnswer, LiveHandler, QueuedFirst
  <1>8. ASSUME NEW outcome \in Outcomes, AttemptWrite(outcome) PROVE LinkInv'
    <2>1. /\ operator'.d = NoDelivery
          /\ UNCHANGED <<worker, wire, oban, errors, handler>>
      BY <1>8 DEF AttemptWrite, NoAttempt
    <2>2. \A e \in Deliveries : job'[e] = "absent" => job[e] = "absent"
      BY <1>8, OutcomesAssumption DEF AttemptWrite, Written, TypeOK
    <2> QED
      BY <2>1, <2>2, NoDeliveryAssumption
         DEF LinkInv, JobsHeld, OneAnswer, LiveHandler, QueuedFirst
  <1>9. ASSUME NEW s, SetPeer(s) \/ SetOrigin(s) PROVE LinkInv'
    BY <1>9, LinkSteps DEF SetPeer, SetOrigin, senderVars
  <1>10. ASSUME NEW d \in Deliveries, NEW kind \in {"live", "late"}, Refuse(d, kind)
         PROVE  LinkInv'
    <2>1. /\ wire'[d] = wire[d] \ {kind} /\ kind \in wire[d]
          /\ \A e \in Deliveries \ {d} : wire'[e] = wire[e]
          /\ UNCHANGED <<handler, oban, errors, job, operator>>
      BY <1>10 DEF Refuse, TypeOK
    <2>2. /\ \A e \in Deliveries \ {d} : worker'[e] = worker[e]
          /\ kind = "live" => worker[d].at = "wait"
          /\ kind = "late" => worker'[d] = worker[d]
      BY <1>10, MoveEffect DEF Refuse, LinkInv, OneAnswer
    <2>3. \A h \in Handlers : kind = "live" => ~LiveHandler(h, d)
      BY <2>1 DEF LinkInv, OneAnswer
    <2>4. OneAnswer'
      BY <2>1, <2>2, <2>3 DEF LinkInv, OneAnswer, LiveHandler
    <2> QED
      BY <2>1, <2>2, <2>4 DEF LinkInv, JobsHeld, QueuedFirst
  <1>11. ASSUME NEW d \in Deliveries, NEW kind \in {"live", "late"}, NEW h \in Handlers,
                Receive(h, d, kind)
         PROVE  LinkInv'
    <2>1. /\ wire'[d] = wire[d] \ {kind} /\ kind \in wire[d]
          /\ \A e \in Deliveries \ {d} : wire'[e] = wire[e]
          /\ UNCHANGED <<worker, oban, errors, job, operator>>
      BY <1>11 DEF Receive, TypeOK, senderVars
    <2>2. /\ handler'[h].d = d /\ handler'[h].live = (kind = "live")
          /\ \A g \in Handlers \ {h} : handler'[g] = handler[g]
      BY <1>11 DEF Receive, TypeOK
    <2>3. \A g \in Handlers, e \in Deliveries :
             LiveHandler(g, e)' => LiveHandler(g, e) \/ (g = h /\ e = d /\ kind = "live")
      BY <2>2 DEF LiveHandler
    <2>4. JobsHeld' /\ QueuedFirst'
      BY <2>1, <2>2 DEF LinkInv, JobsHeld, QueuedFirst
    <2>5. OneAnswer'
      BY <2>1, <2>3 DEF LinkInv, OneAnswer
    <2> QED
      BY <2>4, <2>5 DEF LinkInv
  <1>12. ASSUME NEW h \in Handlers, Handle(h) PROVE LinkInv'
    <2>1. handler[h] # Waiting /\ UNCHANGED <<wire, oban, errors, job, operator>>
      BY <1>12 DEF Handle, FindInbound, InsertInbound, FindRelay, InsertRelay, FindMessage,
                   InsertMessage, Commit, SenderRests, Waiting
    <2>2. ASSUME NEW verdict, Answer(h, verdict) PROVE LinkInv'
      BY <2>1, <2>2, LinkAnswers
    <2>3. ASSUME NEW step, Step(h, step), UNCHANGED worker PROVE LinkInv'
      <3>1. \A g \in Handlers : handler'[g].d = handler[g].d /\ handler'[g].live = handler[g].live
        BY <2>1, <2>3 DEF Step, TypeOK, Handler
      <3> QED
        BY <2>1, <2>3, <3>1, LinkSteps
    <2>4. ASSUME NEW row, NEW step, Insert(h, row, step), UNCHANGED worker PROVE LinkInv'
      <3>1. \A g \in Handlers : handler'[g].d = handler[g].d /\ handler'[g].live = handler[g].live
        BY <2>1, <2>4 DEF Insert, TypeOK, Handler
      <3> QED
        BY <2>1, <2>4, <3>1, LinkSteps
    <2> QED
      BY <1>12, <2>2, <2>3, <2>4
         DEF Handle, FindInbound, InsertInbound, FindRelay, InsertRelay, FindMessage,
             InsertMessage, Commit
  <1>13. ASSUME NEW d \in Deliveries, NEW lost \in BOOLEAN, NoResponse(d, lost) PROVE LinkInv'
    <2>1. /\ worker[d].at = "wait" /\ Abandon({d}, lost)
          /\ UNCHANGED <<oban, errors, job, operator>>
          /\ \A e \in Deliveries \ {d} : worker'[e] = worker[e]
      BY <1>13, MoveEffect DEF NoResponse
    <2>2. OneAnswer'
      BY <2>1, LinkAbandoned
    <2>3. QueuedFirst'
      BY <2>1, QueuedAbandoned DEF LinkInv, QueuedFirst
    <2> QED
      BY <2>1, <2>2, <2>3 DEF LinkInv, JobsHeld
  <1>14. ASSUME NEW d \in Deliveries, NEW lost \in BOOLEAN, WorkerRaises(d, lost) PROVE LinkInv'
    <2>1. /\ worker[d].at # "idle" /\ worker'[d].at = "idle" /\ Abandon({d}, lost)
          /\ UNCHANGED <<job, operator>>
          /\ \A e \in Deliveries \ {d} : /\ worker'[e] = worker[e] /\ oban'[e] = oban[e]
                                         /\ errors'[e] = errors[e]
          /\ errors'[d] = errors[d] + 1
          /\ errors'[d] = MaxErrors => oban'[d] = "discarded"
      BY <1>14 DEF WorkerRaises, TypeOK, NoWork
    <2>2. OneAnswer'
      BY <2>1, LinkAbandoned
    <2>3. job[d] # "absent"
      BY <2>1 DEF LinkInv, QueuedFirst
    <2>4. QueuedFirst'
      BY <2>1, <2>3, QueuedAbandoned DEF LinkInv, QueuedFirst
    <2> QED
      BY <2>1, <2>2, <2>4 DEF LinkInv, JobsHeld
  <1>15. ASSUME NEW lost \in BOOLEAN, SenderRestart(lost) PROVE LinkInv'
    <2>1. /\ Abandon(Deliveries, lost) /\ \A e \in Deliveries : worker'[e].at = "idle"
          /\ operator' = NoAttempt /\ UNCHANGED <<oban, errors, job>>
      BY <1>15 DEF SenderRestart, NoWork
    <2>2. OneAnswer'
      BY <2>1, LinkAbandoned
    <2>3. QueuedFirst'
      BY <2>1, QueuedAbandoned
    <2> QED
      BY <2>1, <2>2, <2>3 DEF LinkInv, JobsHeld
  <1>16. ASSUME NEW h \in Handlers, HandlerRaises(h) PROVE LinkInv'
    BY <1>16, LinkAnswers DEF HandlerRaises
  <1>17. CASE ReceiverRestart
    <2>1. /\ \A h \in Handlers : ~handler'[h].live /\ handler'[h].d = NoDelivery
          /\ UNCHANGED <<wire, oban, errors, job, operator>>
      BY <1>17 DEF ReceiverRestart, Waiting
    <2>2. \A e \in Deliveries : \/ worker'[e] = worker[e]
                                \/ \E h \in Handlers : LiveHandler(h, e)
      BY <1>17 DEF ReceiverRestart, LiveHandler
    <2>3. \A e \in Deliveries : \/ worker'[e] = worker[e]
                                \/ worker[e].at = "wait" /\ "live" \notin wire[e]
      BY <2>2 DEF LinkInv, OneAnswer
    <2>4. OneAnswer'
      BY <2>1, <2>3 DEF LinkInv, OneAnswer, LiveHandler
    <2> QED
      BY <2>1, <2>3, <2>4, NoDeliveryAssumption DEF LinkInv, JobsHeld, QueuedFirst
  <1>18. CASE UNCHANGED vars
    BY <1>18, LinkSteps DEF vars, senderVars
  <1> QED
    BY <1>1, <1>2, <1>3, <1>5, <1>6, <1>7, <1>8, <1>9, <1>10, <1>11, <1>12, <1>13, <1>14, <1>15,
       <1>16, <1>17, <1>18
       DEF Next, Dispatch, Arrive, Operate, Fault

-----------------------------------------------------------------------------
(* What workers believe, and what the delivery row says.                   *)

BeliefInv == WorkersAgree /\ DeliveredIsHeld /\ JobsAgree

\* Nothing is lost when rows are only added at the receiver.
LEMMA BeliefSteps ==
    ASSUME TypeOK, BeliefInv, UNCHANGED <<worker, job, oban, errors>>, inbox \subseteq inbox'
    PROVE  BeliefInv'
  BY DEF BeliefInv, WorkersAgree, OwnJob, DeliveredIsHeld, JobsAgree

\* One delivery moves; the others stay as they are.
LEMMA BeliefMoves ==
    ASSUME TypeOK, BeliefInv, NEW d \in Deliveries, inbox \subseteq inbox',
           \A e \in Deliveries \ {d} : /\ worker'[e] = worker[e] /\ job'[e] = job[e]
                                       /\ oban'[e] = oban[e] /\ errors'[e] = errors[e],
           OwnJob(d)',
           "delivered" \notin Outcomes => (job'[d] = "delivered" => d \in inbox'),
           Outcomes = {} => /\ oban'[d] = "completed" => job'[d] = "delivered"
                            /\ oban'[d] = "discarded" => job'[d] = "failed" \/ errors'[d] = MaxErrors
    PROVE  BeliefInv'
  <1>1. \A e \in Deliveries \ {d} : OwnJob(e)'
    BY DEF BeliefInv, WorkersAgree, OwnJob
  <1>2. WorkersAgree'
    BY <1>1 DEF WorkersAgree
  <1>3. DeliveredIsHeld' /\ JobsAgree'
    BY DEF BeliefInv, DeliveredIsHeld, JobsAgree
  <1> QED
    BY <1>2, <1>3 DEF BeliefInv

\* A worker that is answered was waiting; it is told ok only of a delivery that is held.
LEMMA BeliefAnswers ==
    ASSUME TypeOK, LinkInv, BeliefInv, UNCHANGED <<job, oban, errors>>, inbox \subseteq inbox',
           NEW h \in Handlers, handler[h] # Waiting,
           NEW verdict \in {"ok", "retryable", "permanent"}, Answer(h, verdict),
           verdict = "ok" => handler[h].d \in inbox'
    PROVE  BeliefInv'
  <1>1. \A e \in Deliveries : IF LiveHandler(h, e)
                              THEN worker'[e].at = "answered" /\ worker'[e].verdict = verdict
                              ELSE worker'[e] = worker[e]
    BY AnswerEffect
  <1>2. ASSUME NEW e \in Deliveries PROVE OwnJob(e)'
    <2>1. CASE LiveHandler(h, e)
      <3>1. worker[e].at = "wait" /\ OwnJob(e)
        BY <2>1 DEF LinkInv, OneAnswer, BeliefInv, WorkersAgree
      <3> QED
        BY <1>1, <2>1, <3>1 DEF OwnJob, LiveHandler
    <2>2. CASE ~LiveHandler(h, e)
      BY <1>1, <2>2 DEF OwnJob, BeliefInv, WorkersAgree
    <2> QED
      BY <2>1, <2>2
  <1> QED
    BY <1>2 DEF BeliefInv, WorkersAgree, DeliveredIsHeld, JobsAgree

\* Oban fetches and finishes: a job it is done with shows why.
LEMMA BeliefOban ==
    ASSUME TypeOK, LinkInv, BeliefInv, NEW d \in Deliveries,
           Enqueue(d) \/ Wake(d) \/ Fetch(d) \/ Finish(d)
    PROVE  BeliefInv'
  <1>1. /\ inbox' = inbox
        /\ \A e \in Deliveries \ {d} : /\ worker'[e] = worker[e] /\ job'[e] = job[e]
                                       /\ oban'[e] = oban[e] /\ errors'[e] = errors[e]
    BY DEF Enqueue, Wake, Fetch, Finish, TypeOK, receiverVars
  <1>2. OwnJob(d) /\ (job[d] = "absent" => worker[d].at = "idle")
    BY DEF LinkInv, QueuedFirst, BeliefInv, WorkersAgree
  <1>3. CASE Enqueue(d)
    <2>1. job'[d] = "queued" /\ worker' = worker /\ oban'[d] = "available" /\ worker[d].at = "idle"
      BY <1>2, <1>3 DEF Enqueue, TypeOK
    <2>2. OwnJob(d)'
      BY <2>1 DEF OwnJob
    <2> QED
      BY <1>1, <2>1, <2>2, BeliefMoves
  <1>4. CASE Wake(d)
    <2>1. job' = job /\ worker' = worker /\ oban'[d] = "available"
      BY <1>4 DEF Wake, TypeOK
    <2>2. OwnJob(d)'
      BY <1>1, <1>2, <2>1 DEF OwnJob
    <2> QED
      BY <1>1, <2>1, <2>2, BeliefMoves DEF BeliefInv, DeliveredIsHeld
  <1>5. CASE Fetch(d)
    <2>1. /\ job' = job /\ oban'[d] = "executing"
          /\ worker'[d].at = "decide" /\ worker'[d].seen = job[d]
      BY <1>5 DEF Fetch, TypeOK, NoWork
    <2>2. OwnJob(d)'
      BY <2>1 DEF OwnJob
    <2> QED
      BY <1>1, <2>1, <2>2, BeliefMoves DEF BeliefInv, DeliveredIsHeld
  <1>6. CASE Finish(d)
    <2>1. /\ job' = job /\ worker'[d].at = "idle" /\ worker[d].at = "finish"
          /\ oban'[d] = "completed" => worker[d].verdict = "ok"
          /\ oban'[d] = "discarded" => worker[d].verdict = "permanent"
      BY <1>6 DEF Finish, TypeOK, NoWork
    <2>2. OwnJob(d)'
      BY <2>1 DEF OwnJob
    <2>3. Outcomes = {} => /\ oban'[d] = "completed" => job'[d] = "delivered"
                           /\ oban'[d] = "discarded" => job'[d] = "failed"
      BY <1>2, <2>1 DEF OwnJob
    <2> QED
      BY <1>1, <2>1, <2>2, <2>3, BeliefMoves DEF BeliefInv, DeliveredIsHeld
  <1> QED
    BY <1>3, <1>4, <1>5, <1>6

\* dispatch_delivery writes what it has read and been told.
LEMMA BeliefDispatch ==
    ASSUME TypeOK, LinkInv, BeliefInv, NEW d \in Deliveries,
           \/ SkipDelivered(d) \/ SnoozeUntilReady(d) \/ FailPreflight(d) \/ Send(d)
           \/ RecordDelivered(d) \/ Reload(d) \/ RecordFailed(d)
    PROVE  BeliefInv'
  <1>1. /\ inbox' = inbox /\ oban' = oban /\ errors' = errors
        /\ \A e \in Deliveries \ {d} : job'[e] = job[e]
    BY DEF SkipDelivered, SnoozeUntilReady, FailPreflight, Send, RecordDelivered, Reload,
           RecordFailed, MarkFailed, Written, TypeOK, receiverVars
  <1>2. \A e \in Deliveries \ {d} : worker'[e] = worker[e]
    BY MoveEffect
       DEF SkipDelivered, SnoozeUntilReady, FailPreflight, Send, RecordDelivered, Reload,
           RecordFailed, MarkFailed, TypeOK
  <1>3. OwnJob(d) /\ worker[d].at # "idle" /\ oban[d] = "executing"
    <2>1. worker[d].at # "idle"
      BY DEF SkipDelivered, SnoozeUntilReady, FailPreflight, Send, RecordDelivered, Reload,
             RecordFailed
    <2> QED
      BY <2>1 DEF LinkInv, JobsHeld, BeliefInv, WorkersAgree
  <1>4. ASSUME OwnJob(d)', job'[d] # "delivered" \/ job'[d] = job[d] \/ d \in inbox
        PROVE  BeliefInv'
    BY <1>1, <1>2, <1>3, <1>4, BeliefMoves DEF BeliefInv, DeliveredIsHeld
  <1>5. CASE SkipDelivered(d) \/ SnoozeUntilReady(d)
    <2>1. /\ job' = job /\ worker[d].at = "decide" /\ worker'[d].at = "finish"
          /\ \/ worker'[d].verdict = "ok" /\ worker[d].seen = "delivered"
             \/ worker'[d].verdict = "retryable" /\ worker[d].seen # "delivered"
      BY <1>5, MoveEffect DEF SkipDelivered, SnoozeUntilReady, Settled
    <2> QED
      BY <1>1, <1>3, <1>4, <2>1 DEF OwnJob
  <1>6. CASE FailPreflight(d) \/ RecordFailed(d)
    <2>1. PICK verdict \in {"retryable", "permanent"} : MarkFailed(d, verdict)
      BY <1>3, <1>6 DEF FailPreflight, RecordFailed, OwnJob
    <2>2. /\ worker'[d].at = "finish" /\ worker'[d].verdict = verdict
          /\ job'[d] = Written(job[d], worker[d].seen, "failed")
      BY <2>1, MoveEffect DEF MarkFailed, TypeOK
    <2>3. job'[d] = "failed" \/ job'[d] = job[d]
      BY <2>2 DEF Written
    <2>4. Outcomes = {} => job'[d] = "failed"
      BY <1>3, <1>6, <2>2 DEF FailPreflight, RecordFailed, OwnJob, Written
    <2>5. OwnJob(d)'
      BY <2>2, <2>4 DEF OwnJob
    <2> QED
      BY <1>4, <2>3, <2>5
  <1>7. CASE Send(d)
    <2>1. /\ worker[d].at = "decide" /\ worker'[d].at = "wait"
          /\ job'[d] = Written(job[d], worker[d].seen, "processing")
      BY <1>7, MoveEffect DEF Send, TypeOK
    <2> QED
      BY <1>3, <1>4, <2>1 DEF OwnJob, Written
  <1>8. CASE RecordDelivered(d)
    <2>1. /\ worker[d].at = "answered" /\ worker[d].verdict = "ok" /\ job'[d] = "delivered"
          /\ worker'[d].at = "finish" /\ worker'[d].verdict = "ok"
      BY <1>8, MoveEffect DEF RecordDelivered, TypeOK
    <2> QED
      BY <1>3, <1>4, <2>1 DEF OwnJob
  <1>9. CASE Reload(d)
    <2>1. /\ worker[d].at = "answered" /\ worker[d].verdict # "ok" /\ job' = job
          /\ worker'[d].at = "fail" /\ worker'[d].seen = job[d]
          /\ worker'[d].verdict = worker[d].verdict
      BY <1>9 DEF Reload, TypeOK, Worker
    <2>2. worker[d].verdict \in {"ok", "retryable", "permanent"}
      BY <1>3, <2>1 DEF OwnJob, TypeOK, Worker, Verdicts
    <2> QED
      BY <1>3, <1>4, <2>1, <2>2 DEF OwnJob
  <1> QED
    BY <1>5, <1>6, <1>7, <1>8, <1>9

\* Every step keeps what workers believe true.
LEMMA BeliefStep == TypeOK /\ LinkInv /\ ReceiverInv /\ BeliefInv /\ [Next]_vars => BeliefInv'
  <1> SUFFICES ASSUME TypeOK, LinkInv, ReceiverInv, BeliefInv, [Next]_vars PROVE BeliefInv'
    OBVIOUS
  <1>1. ASSUME NEW d \in Deliveries, Dispatch(d) \/ Time(d) \/ Enqueue(d) \/ AttemptLoad(d)
        PROVE  BeliefInv'
    <2>1. CASE BecomeReady(d) \/ AttemptLoad(d)
      BY <2>1, BeliefSteps DEF BecomeReady, AttemptLoad, receiverVars
    <2> QED
      BY <1>1, <2>1, BeliefOban, BeliefDispatch DEF Dispatch, Time
  <1>2. ASSUME NEW outcome \in Outcomes, AttemptWrite(outcome) PROVE BeliefInv'
    <2>1. Outcomes # {} /\ UNCHANGED <<worker, inbox>>
      BY <1>2 DEF AttemptWrite, receiverVars
    <2>2. \A e \in Deliveries : job'[e] = job[e] \/ job'[e] = outcome
      BY <1>2 DEF AttemptWrite, Written, TypeOK
    <2> QED
      BY <2>1, <2>2 DEF BeliefInv, WorkersAgree, OwnJob, DeliveredIsHeld, JobsAgree
  <1>3. ASSUME NEW s, SetPeer(s) \/ SetOrigin(s) PROVE BeliefInv'
    BY <1>3, BeliefSteps DEF SetPeer, SetOrigin, receiverVars, senderVars
  <1>4. ASSUME NEW d \in Deliveries, NEW kind \in {"live", "late"}, Refuse(d, kind)
        PROVE  BeliefInv'
    <2>1. UNCHANGED <<job, oban, errors, inbox>>
      BY <1>4 DEF Refuse, receiverVars
    <2>2. CASE kind = "live"
      <3>1. worker[d].at = "wait" /\ OwnJob(d)
        BY <1>4, <2>2 DEF Refuse, LinkInv, OneAnswer, BeliefInv, WorkersAgree
      <3>2. /\ worker'[d].at = "answered" /\ worker'[d].verdict = "permanent"
            /\ \A e \in Deliveries \ {d} : worker'[e] = worker[e]
        BY <1>4, <2>2, MoveEffect DEF Refuse
      <3>3. OwnJob(d)'
        BY <2>1, <3>1, <3>2 DEF OwnJob
      <3> QED
        BY <2>1, <3>2, <3>3, BeliefMoves DEF BeliefInv, DeliveredIsHeld, JobsAgree
    <2>3. CASE kind = "late"
      BY <1>4, <2>1, <2>3, BeliefSteps DEF Refuse
    <2> QED
      BY <2>2, <2>3
  <1>5. ASSUME NEW d \in Deliveries, NEW kind, NEW h \in Handlers, Receive(h, d, kind)
        PROVE  BeliefInv'
    BY <1>5, BeliefSteps DEF Receive, senderVars
  <1>6. ASSUME NEW h \in Handlers, Handle(h) PROVE BeliefInv'
    <2>1. handler[h] # Waiting /\ UNCHANGED <<job, oban, errors>> /\ inbox \subseteq inbox'
      BY <1>6 DEF Handle, FindInbound, InsertInbound, FindRelay, InsertRelay, FindMessage,
                  InsertMessage, Commit, SenderRests, Waiting
    <2>2. CASE UNCHANGED worker
      BY <2>1, <2>2, BeliefSteps
    <2>3. ASSUME NEW verdict \in {"retryable", "permanent"}, Answer(h, verdict) PROVE BeliefInv'
      BY <2>1, <2>3, BeliefAnswers
    <2>4. CASE Commit(h)
      <3>1. Answer(h, "ok") /\ handler[h].d \in inbox'
        BY <2>4 DEF Commit, ReceiverInv, HandlersApart, OwnRows, PastInbound
      <3> QED
        BY <2>1, <3>1, BeliefAnswers
    <2> QED
      BY <1>6, <2>2, <2>3, <2>4
         DEF Handle, FindInbound, InsertInbound, FindRelay, InsertRelay, FindMessage,
             InsertMessage
  <1>7. ASSUME NEW d \in Deliveries, NEW lost, NoResponse(d, lost) PROVE BeliefInv'
    <2>1. /\ worker[d].at = "wait" /\ OwnJob(d) /\ UNCHANGED <<job, oban, errors, inbox>>
          /\ worker'[d].at = "answered" /\ worker'[d].verdict = "retryable"
          /\ \A e \in Deliveries \ {d} : worker'[e] = worker[e]
      BY <1>7, MoveEffect DEF NoResponse, BeliefInv, WorkersAgree
    <2>2. OwnJob(d)'
      BY <2>1 DEF OwnJob
    <2> QED
      BY <2>1, <2>2, BeliefMoves DEF BeliefInv, DeliveredIsHeld, JobsAgree
  <1>8. ASSUME NEW d \in Deliveries, NEW lost, WorkerRaises(d, lost) PROVE BeliefInv'
    <2>1. /\ worker'[d].at = "idle" /\ UNCHANGED <<job, inbox>>
          /\ oban'[d] # "completed"
          /\ oban'[d] = "discarded" => errors'[d] = MaxErrors
          /\ \A e \in Deliveries \ {d} : /\ worker'[e] = worker[e] /\ oban'[e] = oban[e]
                                         /\ errors'[e] = errors[e]
      BY <1>8 DEF WorkerRaises, TypeOK, NoWork
    <2>2. OwnJob(d)'
      BY <2>1 DEF OwnJob
    <2> QED
      BY <2>1, <2>2, BeliefMoves DEF BeliefInv, DeliveredIsHeld
  <1>9. ASSUME NEW lost, SenderRestart(lost) PROVE BeliefInv'
    <2>1. /\ \A e \in Deliveries : worker'[e].at = "idle"
          /\ UNCHANGED <<job, oban, errors, inbox>>
      BY <1>9 DEF SenderRestart, NoWork
    <2> QED
      BY <2>1 DEF BeliefInv, WorkersAgree, OwnJob, DeliveredIsHeld, JobsAgree
  <1>10. ASSUME NEW h \in Handlers, HandlerRaises(h) PROVE BeliefInv'
    BY <1>10, BeliefAnswers DEF HandlerRaises
  <1>11. CASE ReceiverRestart
    <2>1. /\ UNCHANGED <<job, oban, errors, inbox>>
          /\ \A e \in Deliveries :
                \/ worker'[e] = worker[e]
                \/ /\ \E h \in Handlers : LiveHandler(h, e)
                   /\ worker'[e] = [worker[e] EXCEPT !.at = "answered", !.verdict = "retryable"]
      BY <1>11 DEF ReceiverRestart, LiveHandler
    <2>2. ASSUME NEW e \in Deliveries PROVE OwnJob(e)'
      <3>1. OwnJob(e) /\ (worker'[e] # worker[e] =>
                             /\ worker[e].at = "wait"
                             /\ worker'[e].at = "answered" /\ worker'[e].verdict = "retryable")
        BY ZenonT(60), <2>1 DEF LinkInv, OneAnswer, BeliefInv, WorkersAgree, TypeOK, Worker
      <3> QED
        BY <2>1, <3>1 DEF OwnJob
    <2> QED
      BY <2>1, <2>2 DEF BeliefInv, WorkersAgree, DeliveredIsHeld, JobsAgree
  <1>12. CASE UNCHANGED vars
    BY <1>12, BeliefSteps DEF vars, senderVars, receiverVars
  <1> QED
    BY <1>1, <1>2, <1>3, <1>4, <1>5, <1>6, <1>7, <1>8, <1>9, <1>10, <1>11, <1>12
       DEF Next, Arrive, Operate, Fault

-----------------------------------------------------------------------------
(* The inductive invariant and what follows from it.                       *)

\* At first the invariant holds.
LEMMA InvInit == Init => IInv
  <1> SUFFICES ASSUME Init PROVE IInv
    OBVIOUS
  <1> USE DEF Init, NoWork, NoAttempt, Waiting
  <1>1. TypeOK
    <2>1. NoWork \in Worker /\ NoAttempt \in Operator /\ Waiting \in Handler
      <3>1. NoWork \in Worker
        BY DEF Worker, JobStatus, Verdicts
      <3>2. NoAttempt \in Operator
        BY DEF Operator, JobStatus
      <3>3. Waiting \in Handler
        BY DEF Handler
      <3> QED
        BY <3>1, <3>2, <3>3
    <2> HIDE DEF NoWork, NoAttempt, Waiting
    <2>2. /\ worker \in [Deliveries -> Worker] /\ operator \in Operator
          /\ handler \in [Handlers -> Handler]
      BY <2>1
    <2>3. /\ peer \in PeerStatus /\ origin \in PeerStatus
          /\ job \in [Deliveries -> JobStatus] /\ ready \subseteq Deliveries
      BY DEF PeerStatus, JobStatus
    <2>4. /\ errors \in [Deliveries -> 0..MaxErrors] /\ faults \in 0..MaxFaults
          /\ copies \in [Messages -> Nat]
      BY BoundsAssumption
    <2>5. /\ oban \in [Deliveries -> {"none", "available", "executing", "scheduled",
                                      "completed", "discarded"}]
          /\ wire \in [Deliveries -> SUBSET {"live", "late"}]
          /\ inbox \subseteq Deliveries /\ relay \in BOOLEAN
      OBVIOUS
    <2> QED
      BY <2>2, <2>3, <2>4, <2>5 DEF TypeOK
  <1>2. JobsHeld /\ QueuedFirst
    BY BoundsAssumption, NoDeliveryAssumption DEF JobsHeld, QueuedFirst
  <1>3. HandlersApart /\ StoredOnce /\ InboxBacked
    BY DEF HandlersApart, OwnRows, PastInbound, StoredOnce, InboxBacked
  <1>4. OneAnswer /\ WorkersAgree
    BY DEF OneAnswer, LiveHandler, WorkersAgree, OwnJob
  <1>5. DeliveredIsHeld /\ JobsAgree
    BY DEF DeliveredIsHeld, JobsAgree
  <1> QED
    BY <1>1, <1>2, <1>3, <1>4, <1>5 DEF IInv

\* Every step keeps it.
LEMMA InvStep == IInv /\ [Next]_vars => IInv'
  <1> SUFFICES ASSUME IInv, [Next]_vars PROVE IInv'
    OBVIOUS
  <1>1. TypeOK /\ ReceiverInv /\ LinkInv /\ BeliefInv
    BY DEF IInv, ReceiverInv, LinkInv, BeliefInv
  <1>2. TypeOK'
    BY <1>1, TypeStep DEF LinkInv
  <1>3. ReceiverInv' /\ LinkInv' /\ BeliefInv'
    BY <1>1, ReceiverStep, LinkStep, BeliefStep
  <1> QED
    BY <1>2, <1>3 DEF IInv, ReceiverInv, LinkInv, BeliefInv

\* The inductive invariant holds of every behaviour.
THEOREM Inductive == Spec => []IInv
  BY InvInit, InvStep, PTL DEF Spec

\* Every variable keeps its type.
THEOREM TypeCorrect == Spec => []TypeOK
  <1>1. IInv => TypeOK
    BY DEF IInv
  <1> QED
    BY <1>1, Inductive, PTL

\* What the receiver took for handled it holds: a delivery row, and on the sender's side
\* a delivered status nobody wrote by hand, stand for a stored message, whatever was
\* retried, lost, late or crashed.
THEOREM AcceptedIsHeld == Spec => [](InboxBacked /\ DeliveredIsHeld)
  <1>1. IInv => InboxBacked /\ DeliveredIsHeld
    BY DEF IInv
  <1> QED
    BY <1>1, Inductive, PTL

\* An Oban job that is over shows why in the delivery, or has used its attempts up.
THEOREM JobsShowWhy == Spec => []JobsAgree
  <1>1. IInv => JobsAgree
    BY DEF IInv
  <1> QED
    BY <1>1, Inductive, PTL

\* Who writes the status of deliveries.
LEMMA JobWriters ==
    ASSUME [Next]_vars, job' # job
    PROVE  \/ \E d \in Deliveries : \/ Enqueue(d) \/ FailPreflight(d) \/ Send(d)
                                    \/ RecordDelivered(d) \/ RecordFailed(d)
           \/ \E outcome \in Outcomes : AttemptWrite(outcome)
  BY DEF Next, Dispatch, Time, Arrive, Handle, Operate, Fault, Fetch, Finish, SkipDelivered,
         SnoozeUntilReady, Reload, Wake, BecomeReady, Refuse, Receive, FindInbound,
         InsertInbound, FindRelay, InsertRelay, FindMessage, InsertMessage, Commit,
         SenderRests, AttemptLoad, SetPeer, SetOrigin, NoResponse, WorkerRaises,
         SenderRestart, HandlerRaises, ReceiverRestart, vars, senderVars

\* Without operators who record outcomes a delivered delivery stays delivered.
THEOREM DeliveredStays == Spec => DeliveredIsFinal
  <1>1. ASSUME IInv, [Next]_vars, Outcomes = {}, NEW e \in Deliveries, job[e] = "delivered"
        PROVE  job'[e] = "delivered"
    <2>1. OwnJob(e)
      BY <1>1 DEF IInv, WorkersAgree
    <2> SUFFICES ASSUME job'[e] # job[e] PROVE FALSE
      BY <1>1
    <2>2. \/ Enqueue(e)
          \/ FailPreflight(e) \/ Send(e) \/ RecordDelivered(e) \/ RecordFailed(e)
      <3>1. TypeOK
        BY <1>1 DEF IInv
      <3>2. ~\E outcome \in Outcomes : AttemptWrite(outcome)
        BY <1>1
      <3>3. PICK d \in Deliveries : \/ Enqueue(d) \/ FailPreflight(d) \/ Send(d)
                                    \/ RecordDelivered(d) \/ RecordFailed(d)
        BY <1>1, <3>2, JobWriters
      <3>4. \A f \in Deliveries \ {d} : job'[f] = job[f]
        BY <3>1, <3>3 DEF Enqueue, FailPreflight, Send, RecordDelivered, RecordFailed, MarkFailed,
                          TypeOK
      <3> QED
        BY <3>3, <3>4
    <2>3. CASE RecordDelivered(e)
      BY <1>1, <2>3 DEF RecordDelivered, IInv, TypeOK
    <2>4. CASE Enqueue(e) \/ FailPreflight(e) \/ Send(e) \/ RecordFailed(e)
      BY <1>1, <2>1, <2>4 DEF Enqueue, FailPreflight, Send, RecordFailed, Settled, OwnJob
    <2> QED
      BY <2>2, <2>3, <2>4
  <1>2. IInv /\ [Next]_vars
            => [Outcomes = {} => \A d \in Deliveries :
                    job[d] = "delivered" => job'[d] = "delivered"]_vars
    BY <1>1
  <1> QED
    BY <1>2, Inductive, PTL DEF Spec, DeliveredIsFinal

\* Only operators change the receiver's peer row, although every delivery touches it.
THEOREM OnlyOperatorsDecide == Spec => OperatorDecides
  <1>1. ASSUME [Next]_vars, origin' # origin PROVE \E s \in PeerMoves : SetOrigin(s)
    BY <1>1
       DEF Next, Dispatch, Time, Arrive, Handle, Operate, Fault, Enqueue, Fetch, Finish,
           SkipDelivered, SnoozeUntilReady, FailPreflight, Send, RecordDelivered, RecordFailed,
           Reload, Wake, BecomeReady, Refuse, Receive, FindInbound, InsertInbound, FindRelay,
           InsertRelay, FindMessage, InsertMessage, Commit, Touched, Written, AttemptLoad,
           AttemptWrite, SetPeer, NoResponse, WorkerRaises, SenderRestart, HandlerRaises,
           ReceiverRestart, vars, receiverVars
  <1>2. [Next]_vars => [origin' # origin => \E s \in PeerMoves : SetOrigin(s)]_vars
    BY <1>1
  <1> QED
    BY <1>2, PTL DEF Spec, OperatorDecides

\* However often a message is sent the receiver stores it once, and only if it was
\* queued: relaying implements ExactlyOnce.
THEOREM ImplementsExactlyOnce == Spec => ExactlyOnceSpec
  <1>1. Init => Exactly!Init
    BY DEF Init, Exactly!Init
  <1>2. IInv /\ [Next]_vars => [Exactly!Next]_(Exactly!vars)
    <2> SUFFICES ASSUME IInv, [Next]_vars PROVE [Exactly!Next]_(Exactly!vars)
      OBVIOUS
    <2> DEFINE offered == {Payload[d] : d \in {e \in Deliveries : job[e] # "absent"}}
    <2>1. TypeOK /\ JobsHeld /\ QueuedFirst /\ HandlersApart /\ StoredOnce
      BY DEF IInv
    <2>2. CASE \E h \in Handlers : Commit(h)
      <3>1. PICK h \in Handlers : Commit(h)
        BY <2>2
      <3>2. handler[h] # Waiting /\ OwnRows(h) /\ job' = job
        BY <2>1, <3>1 DEF Commit, Waiting, HandlersApart, SenderRests
      <3>3. CASE "message" \in handler[h].rows
        <4>1. Payload[handler[h].d] \in Messages /\ Payload[handler[h].d] \in offered
          BY <2>1, <3>2, HandlerType, PayloadAssumption DEF QueuedFirst
        <4>2. /\ copies[Payload[handler[h].d]] = 0
              /\ copies' = [copies EXCEPT ![Payload[handler[h].d]] = 1]
          <5>1. copies[Payload[handler[h].d]] = 0
            BY <3>2, <3>3 DEF OwnRows
          <5>2. copies' = [copies EXCEPT ![Payload[handler[h].d]] = @ + 1]
            BY <3>1, <3>3 DEF Commit
          <5> QED
            BY <5>1, <5>2
        <4>3. Exactly!Take(Payload[handler[h].d])
          BY <3>2, <4>1, <4>2 DEF Exactly!Take
        <4> QED
          BY <4>1, <4>3 DEF Exactly!Next
      <3>4. CASE "message" \notin handler[h].rows
        BY <3>1, <3>2, <3>4 DEF Commit, Exactly!vars
      <3> QED
        BY <3>3, <3>4
    <2>3. CASE ~\E h \in Handlers : Commit(h)
      <3>1. copies' = copies
        BY <2>3
           DEF Next, Dispatch, Time, Arrive, Handle, Operate, Fault, Enqueue, Fetch, Finish,
               SkipDelivered, SnoozeUntilReady, FailPreflight, Send, RecordDelivered,
               RecordFailed, Reload, Wake, BecomeReady, Refuse, Receive, FindInbound,
               InsertInbound, FindRelay, InsertRelay, FindMessage, InsertMessage,
               AttemptLoad, AttemptWrite, SetPeer, SetOrigin, NoResponse, WorkerRaises,
               SenderRestart, HandlerRaises, ReceiverRestart, vars, receiverVars
      <3>2. CASE \E d \in Deliveries : Enqueue(d)
        <4>1. PICK d \in Deliveries : Enqueue(d)
          BY <3>2
        <4>2. /\ job'[d] # "absent" /\ \A e \in Deliveries \ {d} : job'[e] = job[e]
          BY <2>1, <4>1 DEF Enqueue, TypeOK
        <4>3. offered' = offered \cup {Payload[d]}
          BY <4>1, <4>2 DEF Enqueue
        <4>4. Exactly!Offer(Payload[d]) /\ Payload[d] \in Messages
          BY <3>1, <4>3, PayloadAssumption DEF Exactly!Offer
        <4> QED
          BY <4>4 DEF Exactly!Next
      <3>3. CASE ~\E d \in Deliveries : Enqueue(d)
        <4>1. ASSUME NEW e \in Deliveries PROVE job'[e] = "absent" <=> job[e] = "absent"
          <5>1. CASE \E d \in Deliveries : \/ FailPreflight(d) \/ Send(d)
                                         \/ RecordDelivered(d) \/ RecordFailed(d)
            <6>1. PICK d \in Deliveries : \/ FailPreflight(d) \/ Send(d)
                                         \/ RecordDelivered(d) \/ RecordFailed(d)
              BY <5>1
            <6>2. job[d] # "absent"
              BY <2>1, <6>1 DEF FailPreflight, Send, RecordDelivered, RecordFailed, QueuedFirst
            <6>3. job'[d] # "absent" /\ \A f \in Deliveries \ {d} : job'[f] = job[f]
              BY <2>1, <6>1, <6>2
                 DEF FailPreflight, Send, RecordDelivered, RecordFailed, MarkFailed, Written, TypeOK
            <6> QED
              BY <6>2, <6>3
          <5>2. CASE \E outcome \in Outcomes : AttemptWrite(outcome)
            BY <2>1, <5>2, OutcomesAssumption
               DEF AttemptWrite, NoAttempt, Written, QueuedFirst, TypeOK, Operator
          <5>3. CASE job' = job
            BY <5>3
          <5> QED
            BY <3>3, <5>1, <5>2, <5>3, JobWriters
        <4>2. offered' = offered
          BY <4>1
        <4> QED
          BY <3>1, <4>2 DEF Exactly!vars
      <3> QED
        BY <3>2, <3>3
    <2> QED
      BY <2>2, <2>3
  <1> QED
    BY <1>1, <1>2, Inductive, PTL DEF Spec, ExactlyOnceSpec, Exactly!Spec
=============================================================================

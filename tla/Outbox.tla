------------------------------- MODULE Outbox -------------------------------
(***************************************************************************)
(* Sending messages from the web client: sendDraftMessage, the outbox in   *)
(* IndexedDB with its replay timer (useMessages.ts, outbox-queue.ts), and  *)
(* the server's create_message, which holds one row per client id.         *)
(*                                                                         *)
(* A message is its client id.  The client is signed in, and its database  *)
(* opens always or never, so that records are in one place.                *)
(***************************************************************************)
EXTENDS Naturals

CONSTANTS
    Messages, \* messages the user may send
    Ticks,    \* runs of replayOutboxMessages, in one tab or in several
    NoMessage,
    Moves,    \* how the server's stance towards a message may change
    MaxFaults \* bound: faults in a behaviour

\* "open": the server takes the message.  "refuse": it answers with an error that
\* shouldQueueOutboxSendFailure knows; "bar": with one that it does not know.
Stances == {"open", "refuse", "bar"}
Procs == Messages \cup Ticks \* each message is sent by a sendDraftMessage of its own

ASSUME NamesAssumption == Messages \cap Ticks = {} /\ NoMessage \notin Procs
ASSUME MovesAssumption == Moves \subseteq Stances
ASSUME FaultsAssumption == MaxFaults \in Nat

VARIABLES
    outbox, \* client: messages with an outbox record
    due,    \* client: records whose nextAttemptAt has come
    told,   \* client: what the user was last told of a message
    call,   \* client: the createMessage of a process
    todo,   \* client: records a run has listed and not looked at yet
    stance, \* server: what membership, roles and recipients' devices make it answer
    rows,   \* server: how many rows of a message there are
    late,   \* requests on their way that nobody waits for
    faults  \* faults so far

clientVars == <<outbox, due, told, call, todo>>
serverVars == <<stance, rows, late>>
vars == <<clientVars, serverVars, faults>>

Verdicts == {"none", "ok", "refused", "duplicate", "error"}
NoCall == [at |-> "idle", m |-> NoMessage, verdict |-> "none"]
Call == [at : {"post", "answered"}, m : Messages, verdict : Verdicts] \cup {NoCall}

TypeOK ==
    /\ outbox \subseteq Messages
    /\ due    \subseteq outbox
    /\ told   \in [Messages -> {"none", "sending", "sent", "queued", "refused", "failed"}]
    /\ call   \in [Procs -> Call]
    /\ todo   \in [Ticks -> SUBSET Messages]
    /\ stance \in [Messages -> Stances]
    /\ rows   \in [Messages -> Nat]
    /\ late   \subseteq Messages
    /\ faults \in 0..MaxFaults

Init ==
    /\ outbox = {}
    /\ due    = {}
    /\ told   = [m \in Messages |-> "none"]
    /\ call   = [p \in Procs |-> NoCall]
    /\ todo   = [t \in Ticks |-> {}]
    /\ stance \in [Messages -> Stances]
    /\ rows   = [m \in Messages |-> 0]
    /\ late   = {}
    /\ faults = 0

Post(p, m) == call' = [call EXCEPT ![p] = [at |-> "post", m |-> m, verdict |-> "none"]]
Hear(p, verdict) ==
    call' = [call EXCEPT ![p].at = "answered", ![p].verdict = verdict]
Answered(p) == call[p].at = "answered"
Return(p) == call' = [call EXCEPT ![p] = NoCall]

Forget(m) == outbox' = outbox \ {m} /\ due' = due \ {m}

-----------------------------------------------------------------------------
(* sendDraftMessage, after the message has been encrypted.                 *)

Send(m) ==
    /\ told[m] = "none"
    /\ told' = [told EXCEPT ![m] = "sending"]
    /\ Post(m, m)
    /\ UNCHANGED <<outbox, due, todo, serverVars, faults>>

\* Mutant: no answer at all is taken for a refusal.
QueueableBusy(verdict) == verdict = "duplicate"
\* shouldQueueOutboxSendFailure knows the refusals by their text.
Queueable(verdict) == verdict = "error"

FinishSend(m) ==
    /\ Answered(m)
    /\ LET verdict == call[m].verdict IN
       /\ told' = [told EXCEPT ![m] = IF verdict = "ok" THEN "sent"
                                      ELSE IF Queueable(verdict) THEN "queued" ELSE "refused"]
       /\ IF Queueable(verdict)
          THEN outbox' = outbox \cup {m} /\ due' = due \cup {m}
          ELSE UNCHANGED <<outbox, due>>
    /\ Return(m)
    /\ UNCHANGED <<todo, serverVars, faults>>

-----------------------------------------------------------------------------
(* replayOutboxMessages.  The timer starts a run whether or not earlier    *)
(* ones are over; records due are few enough for one list.                 *)

Tick(t) ==
    /\ call[t] = NoCall /\ todo[t] = {}
    /\ due # {}
    /\ todo' = [todo EXCEPT ![t] = due]
    /\ UNCHANGED <<outbox, due, told, call, serverVars, faults>>

\* The records are taken in some order: the code's is by due time.
Replay(t) ==
    /\ call[t] = NoCall
    /\ \E m \in todo[t] :
          /\ todo' = [todo EXCEPT ![t] = @ \ {m}]
          /\ Post(t, m)
    /\ UNCHANGED <<outbox, due, told, serverVars, faults>>

\* Mutant: a message that the server refuses is dropped.
SettledOnRefusal(verdict) == verdict # "error"
\* The message was stored, or isOutboxDuplicateClientIdError reads so.
Settled(verdict) == verdict \in {"ok", "duplicate"}

\* deleteOutboxMessage.
Settle(t) ==
    /\ Answered(t)
    /\ Settled(call[t].verdict)
    /\ Forget(call[t].m)
    /\ Return(t)
    /\ UNCHANGED <<told, todo, serverVars, faults>>

\* Mutant: the record is put back from the listed copy.
RetryFromCopy(t) ==
    /\ Answered(t)
    /\ ~Settled(call[t].verdict)
    /\ outbox' = outbox \cup {call[t].m}
    /\ due' = due \ {call[t].m}
    /\ Return(t)
    /\ UNCHANGED <<told, todo, serverVars, faults>>
\* markOutboxRetry: one transaction that reads the record, and puts it only if it
\* is still there, with a later nextAttemptAt.
Retry(t) ==
    /\ Answered(t)
    /\ ~Settled(call[t].verdict)
    /\ due' = due \ {call[t].m}
    /\ Return(t)
    /\ UNCHANGED <<outbox, told, todo, serverVars, faults>>

\* Mutant: a record is tried once only.
NeverDue(m) == FALSE /\ UNCHANGED vars
\* outboxRetryDelayMs has passed.
BecomeDue(m) ==
    /\ m \in outbox \ due
    /\ due' = due \cup {m}
    /\ UNCHANGED <<outbox, told, call, todo, serverVars, faults>>

-----------------------------------------------------------------------------
(* create_message: reads that may refuse, and a transaction that inserts   *)
(* the row.                                                                *)

\* Mutant: no unique index on client_id.
TakesAgain(m) == stance[m] = "open"
Takes(m) == stance[m] = "open" /\ rows[m] = 0

\* The violation of the unique index comes back as a changeset, for which the
\* controller has no clause: a 500, whose body the client reads as "Request failed.".
DuplicateAnswer == "error"

Serve(p) ==
    /\ call[p].at = "post"
    /\ LET m == call[p].m IN
       /\ rows' = IF Takes(m) THEN [rows EXCEPT ![m] = @ + 1] ELSE rows
       /\ Hear(p, IF Takes(m) THEN "ok"
                  ELSE IF stance[m] = "open" THEN DuplicateAnswer
                  ELSE IF stance[m] = "refuse" THEN "refused" ELSE "error")
    /\ UNCHANGED <<outbox, due, told, todo, stance, late, faults>>

ServeLate(m) ==
    /\ m \in late
    /\ late' = late \ {m}
    /\ rows' = IF Takes(m) THEN [rows EXCEPT ![m] = @ + 1] ELSE rows
    /\ UNCHANGED <<clientVars, stance, faults>>

\* Members leave, roles and permissions change, recipients link and revoke devices.
Turn(m, s) ==
    /\ s \in Moves
    /\ stance' = [stance EXCEPT ![m] = s]
    /\ UNCHANGED <<clientVars, rows, late, faults>>

-----------------------------------------------------------------------------
(* Faults.                                                                 *)

Faulty == faults < MaxFaults /\ faults' = faults + 1

\* Nobody waits for the request of p any more: it is lost, or late (and handled at
\* once when only its answer is lost).
Abandon(p, lost) ==
    late' = IF call[p].at = "post" /\ ~lost THEN late \cup {call[p].m} ELSE late

\* The network fails, the server raises or restarts, or the user is rate limited.
Fail(p, lost) ==
    /\ Faulty
    /\ call[p].at = "post"
    /\ Hear(p, "error")
    /\ Abandon(p, lost)
    /\ UNCHANGED <<outbox, due, told, todo, stance, rows>>

\* ingestMessageIntoActiveThread or deleteOutboxMessage raises after the success.
IngestFails(p) ==
    /\ Faulty
    /\ Answered(p) /\ call[p].verdict = "ok"
    /\ Hear(p, "error")
    /\ UNCHANGED <<outbox, due, told, todo, serverVars>>

\* queueOutboxMessage raises: the user is told of the error, and has the draft back.
QueueFails(m) ==
    /\ Faulty
    /\ Answered(m) /\ Queueable(call[m].verdict)
    /\ told' = [told EXCEPT ![m] = "failed"]
    /\ Return(m)
    /\ UNCHANGED <<outbox, due, todo, serverVars>>

\* The page is reloaded or closed, or a database call of the run raises.
Stop(p, lost) ==
    /\ Faulty
    /\ call[p] # NoCall \/ (p \in Ticks /\ todo[p] # {})
    /\ Return(p)
    /\ todo' = [t \in Ticks |-> IF t = p THEN {} ELSE todo[t]]
    /\ Abandon(p, lost)
    /\ UNCHANGED <<outbox, due, told, stance, rows>>

-----------------------------------------------------------------------------
Run(t) == Tick(t) \/ Replay(t) \/ Settle(t) \/ Retry(t)

Fault == \/ \E p \in Procs, lost \in BOOLEAN : Fail(p, lost) \/ Stop(p, lost)
         \/ \E p \in Procs : IngestFails(p)
         \/ \E m \in Messages : QueueFails(m)

Next == \/ \E m \in Messages : \/ Send(m) \/ FinishSend(m) \/ BecomeDue(m) \/ ServeLate(m)
                               \/ \E s \in Stances : Turn(m, s)
        \/ \E t \in Ticks : Run(t)
        \/ \E p \in Procs : Serve(p)
        \/ Fault

Spec == Init /\ [][Next]_vars

(* The timer of an open page runs, a request that is waited for and does   *)
(* not fail is served, and time passes.                                    *)
Fairness == /\ \A m \in Messages : WF_vars(FinishSend(m)) /\ WF_vars(BecomeDue(m))
            /\ \A t \in Ticks : WF_vars(Run(t))
            /\ \A p \in Procs : WF_vars(Serve(p))

FairSpec == Spec /\ Fairness

-----------------------------------------------------------------------------
(* Safety.                                                                 *)

\* However often a message is posted, by overlapping runs, after lost answers and
\* by pages that were closed meanwhile, the server stores it once, and only if the
\* user has sent it.
Exactly == INSTANCE ExactlyOnce WITH
               Items   <- Messages,
               offered <- {m \in Messages : told[m] # "none"},
               copies  <- rows
ExactlyOnceSpec == Exactly!Spec

\* "Message queued for offline replay. It will retry automatically.": from then on
\* the message is in the outbox until the server has it.
KeptUntilStored ==
    \A m \in Messages : told[m] = "queued" => m \in outbox \/ rows[m] > 0

\* A refusal gives the user the draft back: the refused message is never stored
\* after all, not even by a request that was thought lost.
RefusedStaysAway == \A m \in Messages : told[m] = "refused" => rows[m] = 0

\* A run that lost the race against another one, which has deleted the record,
\* does not bring it back: only the message's own send puts it in the outbox.
NoRevival == [][\A m \in Messages : m \in outbox' \ outbox => told[m] = "sending"]_vars

-----------------------------------------------------------------------------
(* The inductive invariant.                                                *)

\* A send posts its own message, until the user is told.
SendsOwn == \A m \in Messages :
    call[m] # NoCall => call[m].m = m /\ told[m] = "sending"

\* Runs and records are there for queued messages only.
OnlyQueued == \A m \in Messages : told[m] # "queued" =>
    m \notin outbox /\ \A t \in Ticks : m \notin todo[t] /\ call[t].m # m

\* Who has heard of a success can rely on it.
AnswersTrue == \A p \in Procs : Answered(p) =>
    /\ call[p].verdict \in {"ok", "refused", "error"}
    /\ call[p].verdict = "ok" => rows[call[p].m] > 0

\* Until the one request of a send is served, and for good when it is refused, no
\* other request can store the message.
FirstTry == \A m \in Messages :
    (\/ told[m] \in {"none", "refused"}
     \/ call[m].at = "post"
     \/ call[m].verdict = "refused") => rows[m] = 0 /\ m \notin late

StoredOnce == \A m \in Messages : rows[m] \in {0, 1}

IInv == /\ TypeOK /\ SendsOwn /\ OnlyQueued /\ AnswersTrue /\ FirstTry /\ StoredOnce
        /\ KeptUntilStored

-----------------------------------------------------------------------------
(* Liveness.                                                               *)

\* A message that can only be refused for a while is stored in the end: runs that
\* fail, stop or overlap do not strand a record.
EventuallyStored ==
    \A m \in Messages : <>[](stance[m] = "open") => (m \in outbox ~> rows[m] > 0)

-----------------------------------------------------------------------------
(* What the repository says and the code does not do.                      *)

\* crypto-helpers.ts: an error that says that the client id "already been taken" is a
\* duplicate, upon which useMessages.ts deletes the record.
QueueDrains ==
    \A m \in Messages : <>[](stance[m] = "open") => (m \in outbox ~> m \notin outbox)
=============================================================================

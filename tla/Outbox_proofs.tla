--------------------------- MODULE Outbox_proofs ---------------------------
(* Theorems about Outbox, for any messages, any number of runs at a time   *)
(* and any number of faults.                                               *)
EXTENDS Outbox, TLAPS

-----------------------------------------------------------------------------
(* Types.                                                                  *)

\* What a process does to its call keeps the type of calls.
LEMMA CallTypes ==
    ASSUME TypeOK, NEW p \in Procs
    PROVE  /\ \A m \in Messages : Post(p, m) => call' \in [Procs -> Call]
           /\ \A verdict \in Verdicts :
                 call[p] # NoCall /\ Hear(p, verdict) => call' \in [Procs -> Call]
           /\ Return(p) => call' \in [Procs -> Call]
           /\ call[p].at # "idle" => call[p] # NoCall /\ call[p].m \in Messages
  <1>1. call[p] \in Call /\ NoCall \in Call
    BY DEF TypeOK, Call
  <1>2. \A m \in Messages : [at |-> "post", m |-> m, verdict |-> "none"] \in Call
    BY DEF Call, Verdicts
  <1>3. ASSUME NEW verdict \in Verdicts, call[p] # NoCall
        PROVE  [call[p] EXCEPT !.at = "answered", !.verdict = verdict] \in Call
    BY <1>1, <1>3 DEF Call
  <1>4. \A verdict \in Verdicts :
           [call EXCEPT ![p].at = "answered", ![p].verdict = verdict]
               = [call EXCEPT ![p] = [call[p] EXCEPT !.at = "answered", !.verdict = verdict]]
    BY <1>1 DEF TypeOK, Call, NoCall
  <1>5. call[p].at # "idle" => call[p] # NoCall /\ call[p].m \in Messages
    BY <1>1 DEF Call, NoCall
  <1>6. \A m \in Messages : Post(p, m) => call' \in [Procs -> Call]
    BY <1>2 DEF TypeOK, Post
  <1>7. ASSUME NEW verdict \in Verdicts, call[p] # NoCall, Hear(p, verdict)
        PROVE  call' \in [Procs -> Call]
    <2>1. call' = [call EXCEPT ![p] = [call[p] EXCEPT !.at = "answered", !.verdict = verdict]]
      BY <1>4, <1>7 DEF Hear
    <2>2. [call[p] EXCEPT !.at = "answered", !.verdict = verdict] \in Call
      BY <1>3, <1>7
    <2>3. call \in [Procs -> Call]
      BY DEF TypeOK
    <2> QED
      BY <2>1, <2>2, <2>3
  <1>8. Return(p) => call' \in [Procs -> Call]
    BY <1>1 DEF TypeOK, Return
  <1> QED
    BY <1>5, <1>6, <1>7, <1>8

LEMMA TypeInit == Init => TypeOK
  <1>1. NoCall \in Call
    BY DEF Call
  <1> QED
    BY <1>1, FaultsAssumption DEF Init, TypeOK

LEMMA SendTypes == ASSUME TypeOK, NEW m \in Messages, Send(m) PROVE TypeOK'
  BY CallTypes DEF Send, TypeOK, Procs, serverVars
LEMMA FinishSendTypes == ASSUME TypeOK, NEW m \in Messages, FinishSend(m) PROVE TypeOK'
  BY CallTypes DEF FinishSend, TypeOK, Procs, serverVars
LEMMA TickTypes == ASSUME TypeOK, NEW t \in Ticks, Tick(t) PROVE TypeOK'
  BY DEF Tick, TypeOK, serverVars
LEMMA ReplayTypes == ASSUME TypeOK, NEW t \in Ticks, Replay(t) PROVE TypeOK'
  BY CallTypes DEF Replay, TypeOK, Procs, serverVars
LEMMA SettleTypes == ASSUME TypeOK, NEW t \in Ticks, Settle(t) PROVE TypeOK'
  BY CallTypes DEF Settle, Forget, TypeOK, Procs, serverVars
LEMMA RetryTypes == ASSUME TypeOK, NEW t \in Ticks, Retry(t) PROVE TypeOK'
  BY CallTypes DEF Retry, TypeOK, Procs, serverVars
LEMMA BecomeDueTypes == ASSUME TypeOK, NEW m \in Messages, BecomeDue(m) PROVE TypeOK'
  BY DEF BecomeDue, TypeOK, serverVars
LEMMA ServeTypes == ASSUME TypeOK, NEW p \in Procs, Serve(p) PROVE TypeOK'
  <1>1. call[p] # NoCall /\ call[p].m \in Messages
    BY CallTypes DEF Serve
  <1>2. call' \in [Procs -> Call]
    BY <1>1, CallTypes DEF Serve, DuplicateAnswer, Verdicts
  <1>3. rows' \in [Messages -> Nat]
    BY <1>1 DEF Serve, TypeOK
  <1> QED
    BY <1>2, <1>3 DEF Serve, TypeOK
LEMMA ServeLateTypes == ASSUME TypeOK, NEW m \in Messages, ServeLate(m) PROVE TypeOK'
  BY DEF ServeLate, TypeOK, clientVars
LEMMA TurnTypes ==
    ASSUME TypeOK, NEW m \in Messages, NEW s \in Stances, Turn(m, s) PROVE TypeOK'
  BY DEF Turn, TypeOK, clientVars

LEMMA FailTypes ==
    ASSUME TypeOK, NEW p \in Procs, NEW lost \in BOOLEAN, Fail(p, lost) PROVE TypeOK'
  <1>1. call[p] # NoCall /\ call[p].m \in Messages
    BY CallTypes DEF Fail
  <1>2. call' \in [Procs -> Call]
    BY <1>1, CallTypes DEF Fail, Verdicts
  <1>3. late' \subseteq Messages
    BY <1>1 DEF Fail, Abandon, TypeOK
  <1> QED
    BY <1>2, <1>3, FaultsAssumption DEF Fail, Faulty, TypeOK
LEMMA IngestFailsTypes == ASSUME TypeOK, NEW p \in Procs, IngestFails(p) PROVE TypeOK'
  <1>1. call' \in [Procs -> Call]
    BY CallTypes DEF IngestFails, Answered, Verdicts
  <1> QED
    BY <1>1, FaultsAssumption DEF IngestFails, Faulty, TypeOK, serverVars
LEMMA QueueFailsTypes == ASSUME TypeOK, NEW m \in Messages, QueueFails(m) PROVE TypeOK'
  BY CallTypes, FaultsAssumption DEF QueueFails, Faulty, TypeOK, Procs, serverVars
LEMMA StopTypes ==
    ASSUME TypeOK, NEW p \in Procs, NEW lost \in BOOLEAN, Stop(p, lost) PROVE TypeOK'
  <1>1. call' \in [Procs -> Call]
    BY CallTypes DEF Stop
  <1>2. late' \subseteq Messages
    BY CallTypes DEF Stop, Abandon, TypeOK
  <1> QED
    BY <1>1, <1>2, FaultsAssumption DEF Stop, Faulty, TypeOK

-----------------------------------------------------------------------------
(* The inductive invariant.                                                *)

LEMMA InvInit == Init => IInv
  <1>1. Init => TypeOK
    BY TypeInit
  <1>2. Init => SendsOwn /\ OnlyQueued /\ AnswersTrue
    BY NamesAssumption DEF Init, SendsOwn, OnlyQueued, AnswersTrue, Answered, NoCall, Procs
  <1>3. Init => FirstTry /\ StoredOnce /\ KeptUntilStored
    BY DEF Init, FirstTry, StoredOnce, KeptUntilStored
  <1> QED
    BY <1>1, <1>2, <1>3 DEF IInv

\* A step that leaves records, calls and rows alone.
LEMMA Undisturbed ==
    ASSUME IInv, TypeOK', UNCHANGED <<outbox, told, call, todo, rows, late>>
    PROVE  IInv'
  BY DEF IInv, SendsOwn, OnlyQueued, AnswersTrue, Answered, FirstTry, StoredOnce,
         KeptUntilStored

\* What the invariant says of the call of a send.
LEMMA SendsSending ==
    ASSUME IInv, NEW m \in Messages, call[m].at # "idle"
    PROVE  call[m].m = m /\ told[m] = "sending"
  <1>1. call[m] # NoCall
    BY DEF NoCall
  <1> QED
    BY <1>1 DEF IInv, SendsOwn

\* What the invariant says of the call of a run.
LEMMA RunsQueued ==
    ASSUME IInv, NEW t \in Ticks, call[t] # NoCall
    PROVE  call[t].m \in Messages /\ told[call[t].m] = "queued" /\ call[call[t].m] = NoCall
  <1>1. call[t].m \in Messages
    BY DEF IInv, TypeOK, Procs, Call
  <1>2. told[call[t].m] = "queued"
    BY <1>1 DEF IInv, OnlyQueued
  <1> QED
    BY <1>1, <1>2 DEF IInv, SendsOwn

-----------------------------------------------------------------------------
(* Sends.                                                                  *)

LEMMA SendKeeps == ASSUME IInv, NEW m \in Messages, Send(m) PROVE IInv'
  <1>1. TypeOK' /\ call \in [Procs -> Call]
    BY SendTypes DEF IInv, TypeOK
  <1>2. call' = [call EXCEPT ![m] = [at |-> "post", m |-> m, verdict |-> "none"]]
    BY DEF Send, Post
  <1>3. SendsOwn'
    BY <1>1, <1>2 DEF IInv, TypeOK, SendsOwn, Send, Procs
  <1>4. OnlyQueued'
    BY <1>1, <1>2, NamesAssumption DEF IInv, TypeOK, OnlyQueued, Send, Procs
  <1>5. AnswersTrue'
    BY <1>1, <1>2 DEF IInv, AnswersTrue, Answered, Send, serverVars, Procs
  <1>6. FirstTry'
    BY <1>1, <1>2 DEF IInv, TypeOK, FirstTry, Send, serverVars, Procs
  <1>7. (StoredOnce /\ KeptUntilStored)'
    BY DEF IInv, TypeOK, StoredOnce, KeptUntilStored, Send, serverVars
  <1> QED
    BY <1>1, <1>3, <1>4, <1>5, <1>6, <1>7 DEF IInv

\* The verdict decides what the user is told: none but a refusal is forgotten.
LEMMA FinishSendKeeps == ASSUME IInv, NEW m \in Messages, FinishSend(m) PROVE IInv'
  <1>1. /\ TypeOK' /\ call \in [Procs -> Call]
        /\ told[m] = "sending" /\ call[m].m = m
    BY FinishSendTypes, SendsSending DEF IInv, TypeOK, FinishSend, Answered
  <1>2. call' = [call EXCEPT ![m] = NoCall]
    BY DEF FinishSend, Return
  <1>3. call[m].verdict \in {"ok", "refused", "error"}
    BY DEF IInv, AnswersTrue, FinishSend, Answered, Procs
  <1>4. SendsOwn'
    BY <1>1, <1>2 DEF IInv, TypeOK, SendsOwn, FinishSend, Procs
  <1>5. OnlyQueued'
    BY <1>1, <1>2, NamesAssumption
       DEF IInv, TypeOK, OnlyQueued, FinishSend, Queueable, Procs
  <1>6. AnswersTrue'
    BY <1>1, <1>2 DEF IInv, AnswersTrue, Answered, FinishSend, NoCall, serverVars, Procs
  <1>7. FirstTry'
    BY <1>1, <1>2, <1>3 DEF IInv, TypeOK, FirstTry, FinishSend, Queueable, NoCall, serverVars,
                            Procs
  <1>8. (StoredOnce /\ KeptUntilStored)'
    BY DEF IInv, TypeOK, StoredOnce, KeptUntilStored, FinishSend, Queueable, serverVars
  <1> QED
    BY <1>1, <1>4, <1>5, <1>6, <1>7, <1>8 DEF IInv

LEMMA QueueFailsKeeps == ASSUME IInv, NEW m \in Messages, QueueFails(m) PROVE IInv'
  <1>1. /\ TypeOK' /\ call \in [Procs -> Call]
        /\ told[m] = "sending" /\ call[m].m = m
    BY QueueFailsTypes, SendsSending DEF IInv, TypeOK, QueueFails, Answered
  <1>2. call' = [call EXCEPT ![m] = NoCall]
    BY DEF QueueFails, Return
  <1>3. SendsOwn'
    BY <1>1, <1>2 DEF IInv, TypeOK, SendsOwn, QueueFails, Procs
  <1>4. OnlyQueued'
    BY <1>1, <1>2, NamesAssumption DEF IInv, TypeOK, OnlyQueued, QueueFails, Procs
  <1>5. AnswersTrue'
    BY <1>1, <1>2 DEF IInv, AnswersTrue, Answered, QueueFails, NoCall, serverVars, Procs
  <1>6. FirstTry'
    BY <1>1, <1>2 DEF IInv, TypeOK, FirstTry, QueueFails, NoCall, serverVars, Procs
  <1>7. (StoredOnce /\ KeptUntilStored)'
    BY DEF IInv, TypeOK, StoredOnce, KeptUntilStored, QueueFails, serverVars
  <1> QED
    BY <1>1, <1>3, <1>4, <1>5, <1>6, <1>7 DEF IInv

-----------------------------------------------------------------------------
(* Runs.                                                                   *)

LEMMA TickKeeps == ASSUME IInv, NEW t \in Ticks, Tick(t) PROVE IInv'
  <1>1. TypeOK' /\ due \subseteq outbox
    BY TickTypes DEF IInv, TypeOK
  <1>2. OnlyQueued'
    BY <1>1 DEF IInv, TypeOK, OnlyQueued, Tick
  <1>3. (SendsOwn /\ AnswersTrue /\ FirstTry /\ StoredOnce /\ KeptUntilStored)'
    BY DEF IInv, SendsOwn, AnswersTrue, Answered, FirstTry, StoredOnce, KeptUntilStored,
           Tick, serverVars
  <1> QED
    BY <1>1, <1>2, <1>3 DEF IInv

\* The calls of the sends are not those of the runs.
LEMMA RunsApart == \A t \in Ticks : t \in Procs /\ t \notin Messages
  BY NamesAssumption DEF Procs

LEMMA ReplayKeeps == ASSUME IInv, NEW t \in Ticks, Replay(t) PROVE IInv'
  <1>1. TypeOK' /\ call \in [Procs -> Call]
    BY ReplayTypes DEF IInv, TypeOK
  <1>2. PICK m \in todo[t] : /\ todo' = [todo EXCEPT ![t] = @ \ {m}]
                             /\ call' = [call EXCEPT ![t] = [at |-> "post", m |-> m,
                                                             verdict |-> "none"]]
    BY DEF Replay, Post
  <1>3. OnlyQueued'
    BY <1>1, <1>2, RunsApart DEF IInv, TypeOK, OnlyQueued, Replay
  <1>4. (SendsOwn /\ FirstTry)'
    BY <1>1, <1>2, RunsApart DEF IInv, SendsOwn, FirstTry, Replay, serverVars, Procs
  <1>5. AnswersTrue'
    BY <1>1, <1>2 DEF IInv, AnswersTrue, Answered, Replay, serverVars
  <1>6. (StoredOnce /\ KeptUntilStored)'
    BY DEF IInv, StoredOnce, KeptUntilStored, Replay, serverVars
  <1> QED
    BY <1>1, <1>3, <1>4, <1>5, <1>6 DEF IInv

\* A run that deletes a record has heard that the message is stored.
LEMMA SettleKeeps == ASSUME IInv, NEW t \in Ticks, Settle(t) PROVE IInv'
  <1>1. TypeOK' /\ call \in [Procs -> Call]
    BY SettleTypes DEF IInv, TypeOK
  <1>2. call' = [call EXCEPT ![t] = NoCall]
    BY DEF Settle, Return
  <1>3. rows[call[t].m] > 0
    BY RunsApart DEF IInv, AnswersTrue, Settle, Settled, Answered
  <1>4. OnlyQueued'
    BY <1>1, <1>2, RunsApart, NamesAssumption
       DEF IInv, TypeOK, OnlyQueued, Settle, Forget, NoCall, Procs
  <1>5. (SendsOwn /\ FirstTry)'
    BY <1>1, <1>2, RunsApart DEF IInv, SendsOwn, FirstTry, Settle, serverVars, Procs
  <1>6. AnswersTrue'
    BY <1>1, <1>2 DEF IInv, AnswersTrue, Answered, Settle, serverVars, NoCall
  <1>7. (StoredOnce /\ KeptUntilStored)'
    BY <1>3 DEF IInv, StoredOnce, KeptUntilStored, Settle, Forget, serverVars
  <1> QED
    BY <1>1, <1>4, <1>5, <1>6, <1>7 DEF IInv

LEMMA RetryKeeps == ASSUME IInv, NEW t \in Ticks, Retry(t) PROVE IInv'
  <1>1. TypeOK' /\ call \in [Procs -> Call]
    BY RetryTypes DEF IInv, TypeOK
  <1>2. call' = [call EXCEPT ![t] = NoCall]
    BY DEF Retry, Return
  <1>3. OnlyQueued'
    BY <1>1, <1>2, RunsApart, NamesAssumption DEF IInv, TypeOK, OnlyQueued, Retry, NoCall, Procs
  <1>4. (SendsOwn /\ FirstTry)'
    BY <1>1, <1>2, RunsApart DEF IInv, SendsOwn, FirstTry, Retry, serverVars, Procs
  <1>5. AnswersTrue'
    BY <1>1, <1>2 DEF IInv, AnswersTrue, Answered, Retry, serverVars, NoCall
  <1>6. (StoredOnce /\ KeptUntilStored)'
    BY DEF IInv, StoredOnce, KeptUntilStored, Retry, serverVars
  <1> QED
    BY <1>1, <1>3, <1>4, <1>5, <1>6 DEF IInv

-----------------------------------------------------------------------------
(* The server.                                                             *)

\* Storing a message that is absent, and that some request may still bring.
LEMMA ServeKeeps == ASSUME IInv, NEW p \in Procs, Serve(p) PROVE IInv'
  <1> DEFINE m == call[p].m
  <1>1. TypeOK' /\ call \in [Procs -> Call] /\ m \in Messages /\ call[p] # NoCall
    BY ServeTypes, CallTypes DEF IInv, TypeOK, Serve
  <1>2. PICK verdict \in {"ok", "refused", "error"} :
           /\ call' = [call EXCEPT ![p].at = "answered", ![p].verdict = verdict]
           /\ verdict = "ok" <=> Takes(m)
           /\ rows' = IF Takes(m) THEN [rows EXCEPT ![m] = @ + 1] ELSE rows
    BY DEF Serve, Hear, Takes, DuplicateAnswer
  <1>3. \A q \in Procs : call'[q].m = call[q].m /\ (q # p => call'[q] = call[q])
    BY <1>1, <1>2 DEF Call, NoCall
  <1>4. call'[p].at = "answered" /\ call'[p].verdict = verdict
    BY <1>1, <1>2 DEF Call, NoCall
  <1>5. \A n \in Messages : rows'[n] >= rows[n] /\ (n # m => rows'[n] = rows[n])
    BY <1>1, <1>2 DEF IInv, TypeOK
  <1>6. \/ p = m /\ told[m] = "sending"
        \/ p \notin Messages /\ told[m] = "queued" /\ call[m] = NoCall
    <2>1. CASE p \in Messages
      BY <2>1, SendsSending DEF Serve
    <2>2. CASE p \in Ticks
      BY <1>1, <2>2, RunsQueued, RunsApart
    <2> QED
      BY <2>1, <2>2 DEF Procs
  <1>7. SendsOwn'
    BY <1>1, <1>3, <1>6 DEF IInv, SendsOwn, Serve, Procs
  <1>8. OnlyQueued'
    BY <1>3 DEF IInv, OnlyQueued, Serve, Procs
  <1>9. AnswersTrue'
    BY <1>1, <1>2, <1>3, <1>4, <1>5 DEF IInv, TypeOK, AnswersTrue, Answered, Takes
  <1>10. FirstTry'
    <2>1. SUFFICES ASSUME NEW n \in Messages,
                          \/ told[n] \in {"none", "refused"}
                          \/ call'[n].at = "post"
                          \/ call'[n].verdict = "refused"
                   PROVE  rows'[n] = 0 /\ n \notin late
      BY DEF FirstTry, Serve
    <2>2. CASE n = m
      <3>1. p = m
        BY <1>1, <1>3, <1>6, <2>1, <2>2 DEF NoCall, Procs
      <3>2. verdict = "refused" /\ rows[m] = 0 /\ m \notin late
        BY <1>1, <1>4, <1>6, <2>1, <2>2, <3>1 DEF IInv, FirstTry, Serve
      <3> QED
        BY <1>2, <2>2, <3>2
    <2>3. CASE n # m
      <3>1. n # p
        BY <1>6, <2>3
      <3> QED
        BY <1>3, <1>5, <2>1, <2>3, <3>1 DEF IInv, FirstTry, Procs
    <2> QED
      BY <2>2, <2>3
  <1>11. StoredOnce'
    BY <1>1, <1>2 DEF IInv, TypeOK, StoredOnce, Takes
  <1>12. KeptUntilStored'
    BY <1>5 DEF IInv, TypeOK, KeptUntilStored, Serve
  <1> QED
    BY <1>1, <1>7, <1>8, <1>9, <1>10, <1>11, <1>12 DEF IInv

LEMMA ServeLateKeeps == ASSUME IInv, NEW m \in Messages, ServeLate(m) PROVE IInv'
  <1>1. TypeOK' /\ UNCHANGED <<outbox, told, call, todo>>
    BY ServeLateTypes DEF IInv, ServeLate, clientVars
  <1>2. \A n \in Messages : rows'[n] >= rows[n] /\ (n # m => rows'[n] = rows[n])
    BY DEF IInv, TypeOK, ServeLate
  <1>3. (SendsOwn /\ OnlyQueued)'
    BY <1>1 DEF IInv, SendsOwn, OnlyQueued
  <1>4. AnswersTrue'
    <2>1. \A p \in Procs : Answered(p) => call[p].m \in Messages
      BY CallTypes DEF IInv, Answered
    <2> QED
      BY <1>1, <1>2, <2>1 DEF IInv, TypeOK, AnswersTrue, Answered
  <1>5. FirstTry'
    BY <1>1, <1>2 DEF IInv, FirstTry, ServeLate
  <1>6. StoredOnce'
    BY DEF IInv, TypeOK, StoredOnce, ServeLate, Takes
  <1>7. KeptUntilStored'
    BY <1>1, <1>2 DEF IInv, TypeOK, KeptUntilStored
  <1> QED
    BY <1>1, <1>3, <1>4, <1>5, <1>6, <1>7 DEF IInv

-----------------------------------------------------------------------------
(* Faults.                                                                 *)

\* A call that hears of an error tells nothing.
LEMMA HearErrorKeeps ==
    ASSUME IInv, TypeOK', NEW p \in Procs, call[p] # NoCall, Hear(p, "error"),
           UNCHANGED <<outbox, told, todo, rows>>,
           \A m \in late' \ late : call[p].at = "post" /\ call[p].m = m
    PROVE  IInv'
  <1>1. call \in [Procs -> Call] /\ call[p].m \in Messages
    BY DEF IInv, TypeOK, Call
  <1>2. /\ \A q \in Procs : call'[q].m = call[q].m /\ (q # p => call'[q] = call[q])
        /\ call'[p].at = "answered" /\ call'[p].verdict = "error"
    BY <1>1 DEF Hear, Call, NoCall
  <1>3. SendsOwn'
    BY <1>2 DEF IInv, SendsOwn, Procs
  <1>4. OnlyQueued'
    BY <1>2 DEF IInv, OnlyQueued, Procs
  <1>5. AnswersTrue'
    BY <1>2 DEF IInv, AnswersTrue, Answered
  <1>6. FirstTry'
    <2>1. SUFFICES ASSUME NEW n \in Messages,
                          \/ told[n] \in {"none", "refused"}
                          \/ call'[n].at = "post"
                          \/ call'[n].verdict = "refused"
                   PROVE  rows[n] = 0 /\ n \notin late'
      BY DEF FirstTry
    <2>2. n # p
      <3>1. CASE n = p
        <4>1. told[n] = "sending"
          BY <3>1 DEF IInv, SendsOwn
        <4> QED
          BY <1>2, <2>1, <3>1, <4>1
      <3> QED
        BY <3>1
    <2>3. rows[n] = 0 /\ n \notin late
      BY <1>2, <2>1, <2>2 DEF IInv, FirstTry, Procs
    <2>4. told[n] \in {"none", "refused", "sending"}
      BY <1>2, <2>1, <2>2, SendsSending DEF IInv, SendsOwn, NoCall, Procs
    <2>5. call[p].m # n
      <3>1. CASE p \in Messages
        BY <2>2, <3>1 DEF IInv, SendsOwn
      <3>2. CASE p \in Ticks
        BY <2>4, <3>2 DEF IInv, OnlyQueued
      <3> QED
        BY <3>1, <3>2 DEF Procs
    <2> QED
      BY <2>3, <2>5
  <1>7. (StoredOnce /\ KeptUntilStored)'
    BY DEF IInv, StoredOnce, KeptUntilStored
  <1> QED
    BY <1>3, <1>4, <1>5, <1>6, <1>7 DEF IInv

LEMMA FailKeeps ==
    ASSUME IInv, NEW p \in Procs, NEW lost \in BOOLEAN, Fail(p, lost) PROVE IInv'
  <1>1. call[p] # NoCall /\ TypeOK'
    BY FailTypes, CallTypes DEF IInv, Fail
  <1> QED
    BY <1>1, HearErrorKeeps DEF Fail, Abandon

LEMMA IngestFailsKeeps == ASSUME IInv, NEW p \in Procs, IngestFails(p) PROVE IInv'
  <1>1. call[p] # NoCall /\ TypeOK'
    BY IngestFailsTypes, CallTypes DEF IInv, IngestFails, Answered
  <1> QED
    BY <1>1, HearErrorKeeps DEF IngestFails, serverVars

\* A send that is cut off leaves the user without news, a run its list undone.
LEMMA StopKeeps ==
    ASSUME IInv, NEW p \in Procs, NEW lost \in BOOLEAN, Stop(p, lost) PROVE IInv'
  <1>1. TypeOK' /\ call \in [Procs -> Call] /\ call' = [call EXCEPT ![p] = NoCall]
    BY StopTypes DEF IInv, TypeOK, Stop, Return
  <1>2. \A q \in Procs : call'[q] = IF q = p THEN NoCall ELSE call[q]
    BY <1>1
  <1>3. SendsOwn'
    BY <1>2 DEF IInv, SendsOwn, Stop, Procs
  <1>4. OnlyQueued'
    BY <1>2, NamesAssumption DEF IInv, OnlyQueued, Stop, NoCall, Procs
  <1>5. AnswersTrue'
    BY <1>2 DEF IInv, AnswersTrue, Answered, Stop, NoCall
  <1>6. FirstTry'
    <2>1. SUFFICES ASSUME NEW n \in Messages,
                          \/ told[n] \in {"none", "refused"}
                          \/ call'[n].at = "post"
                          \/ call'[n].verdict = "refused"
                   PROVE  rows[n] = 0 /\ n \notin late'
      BY DEF FirstTry, Stop
    <2>2. n = p => told[n] \in {"none", "refused"}
      BY <1>2, <2>1 DEF NoCall
    <2>3. rows[n] = 0 /\ n \notin late /\ (call[p].at = "post" => p # n)
      BY <1>2, <2>1, <2>2, SendsSending DEF IInv, FirstTry, Procs
    <2>4. call[p].at = "post" => call[p].m # n
      <3>1. CASE p \in Messages
        BY <2>3, <3>1, SendsSending
      <3>2. CASE p \in Ticks /\ call[p].at = "post"
        <4>1. call[p] # NoCall
          BY <3>2 DEF NoCall
        <4>2. call[p].m = n => told[n] = "queued" /\ call[n] = NoCall
          BY <3>2, <4>1, RunsQueued
        <4>3. n # p
          BY <3>2, RunsApart
        <4> QED
          BY <1>2, <2>1, <4>2, <4>3 DEF NoCall, Procs
      <3> QED
        BY <3>1, <3>2 DEF Procs
    <2> QED
      BY <2>3, <2>4 DEF Stop, Abandon
  <1>7. (StoredOnce /\ KeptUntilStored)'
    BY DEF IInv, StoredOnce, KeptUntilStored, Stop
  <1> QED
    BY <1>1, <1>3, <1>4, <1>5, <1>6, <1>7 DEF IInv

-----------------------------------------------------------------------------
(* Theorems.                                                               *)

LEMMA InvStep == IInv /\ [Next]_vars => IInv'
  <1> SUFFICES ASSUME IInv, [Next]_vars PROVE IInv'
    OBVIOUS
  <1>1. ASSUME NEW m \in Messages,
               Send(m) \/ FinishSend(m) \/ BecomeDue(m) \/ ServeLate(m)
                   \/ \E s \in Stances : Turn(m, s)
        PROVE  IInv'
    <2>1. CASE BecomeDue(m)
      BY <2>1, BecomeDueTypes, Undisturbed DEF IInv, BecomeDue, serverVars
    <2>2. ASSUME NEW s \in Stances, Turn(m, s) PROVE IInv'
      BY <2>2, TurnTypes, Undisturbed DEF IInv, Turn, clientVars
    <2> QED
      BY <1>1, <2>1, <2>2, SendKeeps, FinishSendKeeps, ServeLateKeeps
  <1>2. ASSUME NEW t \in Ticks, Run(t) PROVE IInv'
    BY <1>2, TickKeeps, ReplayKeeps, SettleKeeps, RetryKeeps DEF Run
  <1>3. ASSUME NEW p \in Procs, Serve(p) PROVE IInv'
    BY <1>3, ServeKeeps
  <1>4. CASE Fault
    BY <1>4, FailKeeps, StopKeeps, IngestFailsKeeps, QueueFailsKeeps DEF Fault
  <1>5. CASE UNCHANGED vars
    <2>1. TypeOK'
      BY <1>5 DEF IInv, TypeOK, vars, clientVars, serverVars
    <2> QED
      BY <1>5, <2>1, Undisturbed DEF vars, clientVars, serverVars
  <1> QED
    BY <1>1, <1>2, <1>3, <1>4, <1>5 DEF Next

\* The inductive invariant holds.
THEOREM Inductive == Spec => []IInv
  BY InvInit, InvStep, PTL DEF Spec

\* Every variable keeps its type, and only records there are can be due.
THEOREM TypeCorrect == Spec => []TypeOK
  <1>1. IInv => TypeOK
    BY DEF IInv
  <1> QED
    BY <1>1, Inductive, PTL

\* What the user was told is queued stays in the outbox until the server has it.
THEOREM QueuedIsKept == Spec => []KeptUntilStored
  <1>1. IInv => KeptUntilStored
    BY DEF IInv
  <1> QED
    BY <1>1, Inductive, PTL

\* A message that was refused when it was sent is never stored.
THEOREM RefusedIsNotStored == Spec => []RefusedStaysAway
  <1>1. IInv => RefusedStaysAway
    BY DEF IInv, FirstTry, RefusedStaysAway
  <1> QED
    BY <1>1, Inductive, PTL

\* A deleted record does not come back.
THEOREM DeletedStaysDeleted == Spec => NoRevival
  <1>1. ASSUME IInv, [Next]_vars, NEW n \in Messages, n \in outbox' \ outbox
        PROVE  told[n] = "sending"
    <2>1. PICK m \in Messages : FinishSend(m)
      BY <1>1 DEF Next, Run, Fault, Send, BecomeDue, ServeLate, Turn, Tick, Replay, Settle,
                  Forget, Retry, Serve, Fail, Stop, IngestFails, QueueFails, vars, clientVars
    <2>2. m = n
      BY <1>1, <2>1 DEF FinishSend
    <2> QED
      BY <1>1, <2>1, <2>2, SendsSending DEF FinishSend, Answered
  <1>2. IInv /\ [Next]_vars
            => [\A m \in Messages : m \in outbox' \ outbox => told[m] = "sending"]_vars
    BY <1>1
  <1> QED
    BY <1>2, Inductive, PTL DEF Spec, NoRevival

\* Sending implements ExactlyOnce.
THEOREM ImplementsExactlyOnce == Spec => ExactlyOnceSpec
  <1>1. Init => Exactly!Init
    BY DEF Init, Exactly!Init
  <1>2. IInv /\ [Next]_vars => [Exactly!Next]_(Exactly!vars)
    <2>1. SUFFICES ASSUME IInv, [Next]_vars PROVE [Exactly!Next]_(Exactly!vars)
      OBVIOUS
    <2>2. ASSUME NEW m \in Messages, m \in late \/ (\E p \in Procs : call[p].at = "post" /\ call[p].m = m),
                 rows' = IF Takes(m) THEN [rows EXCEPT ![m] = @ + 1] ELSE rows, told' = told
          PROVE  [Exactly!Next]_(Exactly!vars)
      <3>1. told[m] # "none"
        <4>1. CASE m \in late
          BY <2>1, <2>2, <4>1 DEF IInv, FirstTry
        <4>2. ASSUME NEW p \in Procs, call[p].at = "post", call[p].m = m PROVE told[m] # "none"
          BY <2>1, <4>2, SendsSending, RunsQueued DEF Procs, NoCall
        <4> QED
          BY <2>2, <4>1, <4>2
      <3>2. CASE Takes(m)
        <4>1. rows[m] = 0 /\ rows' = [rows EXCEPT ![m] = 1]
          BY <2>2, <3>2 DEF Takes, IInv, TypeOK
        <4>2. Exactly!Take(m)
          BY <2>2, <3>1, <4>1 DEF Exactly!Take
        <4> QED
          BY <4>2 DEF Exactly!Next
      <3>3. CASE ~Takes(m)
        BY <2>2, <3>3 DEF Exactly!vars
      <3> QED
        BY <3>2, <3>3
    <2>3. ASSUME NEW m \in Messages, Send(m) PROVE [Exactly!Next]_(Exactly!vars)
      <3>1. {n \in Messages : told'[n] # "none"} = {n \in Messages : told[n] # "none"} \cup {m}
        BY <2>1, <2>3 DEF IInv, TypeOK, Send
      <3> QED
        BY <2>3, <3>1 DEF Send, serverVars, Exactly!Next, Exactly!Offer
    <2>4. ASSUME NEW m \in Messages, FinishSend(m) \/ QueueFails(m)
          PROVE  [Exactly!Next]_(Exactly!vars)
      <3>1. told[m] = "sending"
        BY <2>1, <2>4, SendsSending DEF FinishSend, QueueFails, Answered
      <3>2. {n \in Messages : told'[n] # "none"} = {n \in Messages : told[n] # "none"}
        BY <2>1, <2>4, <3>1 DEF IInv, TypeOK, FinishSend, QueueFails
      <3> QED
        BY <2>4, <3>2 DEF FinishSend, QueueFails, serverVars, Exactly!vars
    <2>5. CASE UNCHANGED <<told, rows>>
      BY <2>5 DEF Exactly!vars
    <2>6. ASSUME NEW p \in Procs, Serve(p) PROVE [Exactly!Next]_(Exactly!vars)
      <3>1. call[p].m \in Messages
        BY <2>1, <2>6, CallTypes DEF IInv, Serve
      <3> QED
        BY <2>2, <2>6, <3>1 DEF Serve
    <2>7. ASSUME NEW m \in Messages, ServeLate(m) PROVE [Exactly!Next]_(Exactly!vars)
      BY <2>2, <2>7 DEF ServeLate, clientVars
    <2> QED
      BY <2>1, <2>3, <2>4, <2>5, <2>6, <2>7
         DEF Next, Run, Fault, BecomeDue, Turn, Tick, Replay, Settle, Retry, Fail, Stop,
             IngestFails, vars, clientVars, serverVars
  <1> QED
    BY <1>1, <1>2, Inductive, PTL DEF Spec, ExactlyOnceSpec, Exactly!Spec
=============================================================================

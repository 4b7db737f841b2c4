------------------------------- MODULE Stores -------------------------------
(***************************************************************************)
(* Where the web client keeps the threads it has shown and the messages it *)
(* has yet to send: lib/message-cache.ts and lib/outbox-queue.ts.          *)
(*                                                                         *)
(* Each call opens its database anew.  When that fails it works on a copy  *)
(* in localStorage: all that a browser without IndexedDB has, and what an  *)
(* earlier version of the page left behind.  A thread is written to the    *)
(* database and then to localStorage; one found only in localStorage is    *)
(* written to the database when it is read.  An outbox record is in one    *)
(* place or in the other.  Calls overlap, and the page is closed between   *)
(* their steps.                                                            *)
(*                                                                         *)
(* A thread is the number of the save it was written by, 0 when there is   *)
(* none.  The search over cached threads reads what readCachedMessages     *)
(* reads and is left out, as are the conversation and contact caches,      *)
(* which no component reads.                                               *)
(***************************************************************************)
EXTENDS Naturals, FiniteSets

CONSTANTS
    Chats,
    Records,      \* ids of queued messages
    MaxSaves,     \* saves of a thread, over all chats
    MaxOutCalls   \* outbox calls begun

VARIABLES
    opening,      \* whether a database opens: "always", "never" or "flaky"
    dbThread, lsThread,     \* the two copies of each thread
    lastSave,     \* the save of a chat that was written last
    overtaken,    \* chats whose save a write-back has overwritten
    cacheCalls,   \* calls of the message cache in flight
    saves,
    dbOut, lsOut, \* the two outboxes
    outCalls,     \* outbox calls in flight
    outBegun, queued, removed

cacheVars == <<dbThread, lsThread, lastSave, overtaken, cacheCalls, saves>>
outVars == <<dbOut, lsOut, outCalls, outBegun, queued, removed>>
vars == <<opening, cacheVars, outVars>>

Outcomes == CASE opening = "always" -> {TRUE} [] opening = "never" -> {FALSE}
              [] OTHER -> BOOLEAN

Init ==
    /\ opening \in {"always", "never", "flaky"}
    /\ dbThread = [c \in Chats |-> 0]
    /\ lsThread \in [Chats -> {0, 1}]
    /\ lastSave = lsThread
    /\ overtaken = {}
    /\ cacheCalls = {}
    /\ saves = 1
    /\ dbOut = {} /\ lsOut = {} /\ outCalls = {} /\ outBegun = 0
    /\ queued = {} /\ removed = {}

-----------------------------------------------------------------------------
(* The message cache *)

\* writeCachedMessages and readCachedMessages begin by opening the database.
Save(c) ==
    /\ saves =< MaxSaves
    /\ saves' = saves + 1
    /\ cacheCalls' = cacheCalls \cup {[at |-> "put", chat |-> c, thread |-> saves + 1, own |-> TRUE]}
    /\ UNCHANGED <<opening, dbThread, lsThread, lastSave, overtaken, outVars>>

Read(c) ==
    /\ cacheCalls' = cacheCalls \cup {[at |-> "get", chat |-> c, thread |-> 0, own |-> FALSE]}
    /\ UNCHANGED <<opening, dbThread, lsThread, lastSave, overtaken, saves, outVars>>

\* The history of a write: a write-back that puts an older save over a newer one.
Noted(k) ==
    /\ lastSave' = IF k.own THEN [lastSave EXCEPT ![k.chat] = k.thread] ELSE lastSave
    /\ overtaken' = IF k.own THEN overtaken \ {k.chat}
                    ELSE IF k.thread # lastSave[k.chat] THEN overtaken \cup {k.chat} ELSE overtaken

\* The database does not open: localStorage only.
WriteFallback(k) ==
    /\ k \in cacheCalls /\ k.at = "put"
    /\ FALSE \in Outcomes
    /\ lsThread' = [lsThread EXCEPT ![k.chat] = k.thread]
    /\ Noted(k)
    /\ cacheCalls' = cacheCalls \ {k}
    /\ UNCHANGED <<opening, dbThread, saves, outVars>>

\* It opens: the record is put, and when that has succeeded ...
WriteDatabase(k) ==
    /\ k \in cacheCalls /\ k.at = "put"
    /\ TRUE \in Outcomes
    /\ dbThread' = [dbThread EXCEPT ![k.chat] = k.thread]
    /\ Noted(k)
    /\ cacheCalls' = (cacheCalls \ {k}) \cup {[k EXCEPT !.at = "copy"]}
    /\ UNCHANGED <<opening, lsThread, saves, outVars>>

\* ... localStorage gets the same.
WriteCopy(k) ==
    /\ k \in cacheCalls /\ k.at = "copy"
    /\ lsThread' = [lsThread EXCEPT ![k.chat] = k.thread]
    /\ cacheCalls' = cacheCalls \ {k}
    /\ UNCHANGED <<opening, dbThread, lastSave, overtaken, saves, outVars>>

\* readLegacyCachedMessages
Legacy(c) == lsThread[c]

\* MUTANT: the copy in localStorage is preferred.
LegacyFirst(c) == IF Legacy(c) # 0 THEN Legacy(c) ELSE dbThread[c]

\* What a read finds in a database that opened.
Persisted(c) == IF dbThread[c] # 0 THEN dbThread[c] ELSE Legacy(c)

\* A read answers; a thread that only localStorage has is written back.
ReadAnswers(k) ==
    /\ k \in cacheCalls /\ k.at = "get"
    /\ \E opened \in Outcomes :
         cacheCalls' = (cacheCalls \ {k}) \cup
             IF opened /\ dbThread[k.chat] = 0 /\ Legacy(k.chat) # 0
             THEN {[k EXCEPT !.at = "put", !.thread = Legacy(k.chat)]} ELSE {}
    /\ UNCHANGED <<opening, dbThread, lsThread, lastSave, overtaken, saves, outVars>>

-----------------------------------------------------------------------------
(* The outbox *)

\* A send queues a record once; drains retry or delete the records they have listed.
CallOutbox(r, op) ==
    /\ outBegun < MaxOutCalls
    /\ outBegun' = outBegun + 1
    /\ IF op = "queue" THEN \A k \in outCalls : k.id # r ELSE r \in queued
    /\ op = "queue" => r \notin queued
    /\ outCalls' = outCalls \cup {[op |-> op, id |-> r]}
    /\ UNCHANGED <<opening, cacheVars, dbOut, lsOut, queued, removed>>

\* MUTANT: the fallback's list is replaced, not appended to.
PutAlone(records, r) == {r}

\* put: a record of the same id is replaced.
Put(records, r) == records \cup {r}

\* MUTANT: the retry's metadata is written whether or not the record is there.
RetryAnyway(records, r) == records \cup {r}

\* markOutboxRetry changes a record it finds, and does nothing without one.
RetryMark(records, r) == IF r \in records THEN Put(records, r) ELSE records

Run(records, k) ==
    CASE k.op = "queue" -> Put(records, k.id)
      [] k.op = "retry" -> RetryMark(records, k.id)
      [] k.op = "delete" -> records \ {k.id}

\* Each operation is one transaction of the database, or one change of the list
\* localStorage holds.
RunOutbox(k) ==
    /\ k \in outCalls
    /\ \E opened \in Outcomes :
         /\ dbOut' = IF opened THEN Run(dbOut, k) ELSE dbOut
         /\ lsOut' = IF opened THEN lsOut ELSE Run(lsOut, k)
    /\ queued' = IF k.op = "queue" THEN queued \cup {k.id} ELSE queued
    /\ removed' = IF k.op = "delete" THEN removed \cup {k.id} ELSE removed
    /\ outCalls' = outCalls \ {k}
    /\ UNCHANGED <<opening, cacheVars, outBegun>>

\* What a drain lists.
Listed(opened) == IF opened THEN dbOut ELSE lsOut

-----------------------------------------------------------------------------

\* The page is closed: what has not run is lost.
Close ==
    /\ cacheCalls # {} \/ outCalls # {}
    /\ cacheCalls' = {} /\ outCalls' = {}
    /\ UNCHANGED <<opening, dbThread, lsThread, lastSave, overtaken, saves,
                   dbOut, lsOut, outBegun, queued, removed>>

CacheNext ==
    \/ \E c \in Chats : Save(c) \/ Read(c)
    \/ \E k \in cacheCalls : WriteFallback(k) \/ WriteDatabase(k) \/ WriteCopy(k) \/ ReadAnswers(k)
    \/ Close

OutboxNext ==
    \/ \E r \in Records, op \in {"queue", "retry", "delete"} : CallOutbox(r, op)
    \/ \E k \in outCalls : RunOutbox(k)
    \/ Close

Next == CacheNext \/ OutboxNext

Spec == Init /\ [][Next]_vars

-----------------------------------------------------------------------------
(* Properties *)

\* Types: copies are saves that were begun, and only queued records are kept.
TypeOK ==
    /\ opening \in {"always", "never", "flaky"}
    /\ dbThread \in [Chats -> 0 .. saves] /\ lsThread \in [Chats -> 0 .. saves]
    /\ lastSave \in [Chats -> 0 .. saves]
    /\ overtaken \subseteq Chats
    /\ cacheCalls \subseteq [at : {"put", "copy", "get"}, chat : Chats, thread : 0 .. saves, own : BOOLEAN]
    /\ saves \in 1 .. MaxSaves + 1
    /\ dbOut \cup lsOut \cup removed \subseteq queued /\ queued \subseteq Records
    /\ outCalls \subseteq [op : {"queue", "retry", "delete"}, id : Records]
    /\ outBegun \in 0 .. MaxOutCalls

Steady == opening # "flaky"

\* Where the database opens always or never, the next read of a chat gives the
\* save that was written last, although the page may close between the two
\* copies; but for a chat where an older thread, found while the save was on
\* its way, has been written back over it.
ReadsLatest ==
    Steady => \A c \in Chats \ overtaken :
        (IF opening = "always" THEN Persisted(c) ELSE Legacy(c)) = lastSave[c]

\* A record that was queued and not deleted is kept, even where some calls
\* find the database and others do not; where all do, or none does, a drain
\* lists it.
QueuedIsKept ==
    \A r \in queued \ removed :
        /\ r \in dbOut \cup lsOut
        /\ Steady => r \in Listed(opening = "always")

\* Where the database opens always or never, a record that was deleted is not
\* listed again, although another drain may mark it for a retry afterwards.
DeletedStaysAway ==
    Steady => removed \cap Listed(opening = "always") = {}

-----------------------------------------------------------------------------
(* What makes them inductive. *)

\* A call that puts a thread has one.  Where the database always opens, a copy
\* is of a thread the database has got, localStorage is the only copy of a chat
\* the database has nothing of, and the database has the last save of the others.
CallsPut == \A k \in cacheCalls : k.at = "put" => k.thread # 0

DatabaseLeads ==
    opening = "always" =>
        /\ \A k \in cacheCalls : k.at = "copy" => dbThread[k.chat] # 0
        /\ \A c \in Chats : dbThread[c] = 0 => lsThread[c] = lastSave[c]
        /\ \A c \in Chats \ overtaken : dbThread[c] # 0 => dbThread[c] = lastSave[c]

\* Where it never opens, localStorage has the saves of the page and no others.
FallbackLeads ==
    opening = "never" =>
        /\ \A k \in cacheCalls : k.at = "get" \/ (k.at = "put" /\ k.own)
        /\ lsThread = lastSave

\* A record is queued once, and only what was queued is retried or deleted.
CallsAreOfQueued == \A k \in outCalls : k.op = "queue" <=> k.id \notin queued

OnePlace ==
    /\ opening = "always" => lsOut = {}
    /\ opening = "never" => dbOut = {}

IInv ==
    /\ TypeOK /\ CallsPut /\ DatabaseLeads /\ FallbackLeads
    /\ CallsAreOfQueued /\ OnePlace /\ QueuedIsKept /\ DeletedStaysAway
=============================================================================

------------------------------- MODULE Thread -------------------------------
(* The thread of messages a page shows for its open chat: how it is loaded,*)
(* cached, synced with the server and kept while answers arrive late, and  *)
(* the plaintext caches that keep a message readable although its key can  *)
(* be used only once.                                                      *)
(*                                                                         *)
(* A message's revision counts its edits.  Projections of one chat exclude *)
(* each other; which of those that wait comes next is left open, and syncs *)
(* of one chat that wait for the one in flight are one.                    *)
EXTENDS Naturals, Sequences, FiniteSets, FiniteSetsExt, Functions

CONSTANTS
    Chats, First,  \* chats, and the one that is open first
    Theirs, Mine,  \* messages of others, and of this page's user
    ChatOf,        \* the chat of each message
    PageSize,      \* messages in an answer of the server
    None,          \* no chat, no text, no request
    Most           \* edits, what the user does, failures and lost links, in all

Msgs == Theirs \cup Mine

ASSUME MsgAssumption == First \in Chats /\ Theirs \cap Mine = {} /\ ChatOf \in [Msgs -> Chats]
ASSUME NoneAssumption == None \notin Chats \cup Nat \cup [rev: Nat, txt: Nat]
ASSUME PageAssumption == PageSize \in Nat \ {0} /\ Most \in Nat

VARIABLES
    log, rev,   \* the server: messages in order, and each one's revision
    out,        \* own messages: draft, sending, sent, failed
    \* the page: activeChatIdRef, the chat whose thread was loaded, its thread
    ref, chat, items, more,
    mem, disk,  \* threads kept in memory and in IndexedDB
    used,       \* message keys the ratchet has consumed
    plain, kept,  \* texts known by message, in memory and in localStorage
    late,       \* messages of which an older revision was read after a newer one
    \* what is on its way
    reading, wish, sync, answers, older, timer, events, online,
    moves, fails, drops

server == <<log, rev>>
thread == <<ref, chat, items, more, mem, disk>>
keys == <<used, plain, kept, late>>
requests == <<reading, wish, sync, answers, older>>
stream == <<timer, events, online>>
spent == <<moves, fails, drops>>
vars == <<server, out, thread, keys, requests, stream, spent>>

NoAnswer == [at |-> FALSE, page |-> {}, more |-> FALSE]
NoSync == [chat |-> None, base |-> {}, got |-> NoAnswer]
NotReading == [at |-> "idle", got |-> {}]
Reading == [at |-> "asked", got |-> {}]
NoPage == [chat |-> None, got |-> {}, more |-> FALSE]

Init ==
    /\ log = <<>> /\ rev = [m \in Msgs |-> 0] /\ out = [m \in Mine |-> "draft"]
    /\ ref = First /\ chat = First /\ items = {} /\ more = FALSE
    /\ mem = [c \in Chats |-> {}] /\ disk = [c \in Chats |-> {}]
    /\ used = {} /\ plain = [m \in Msgs |-> None] /\ kept = plain /\ late = {}
    /\ reading = Reading /\ wish = {} /\ sync = NoSync /\ answers = {} /\ older = NoPage
    /\ timer = None /\ events = {} /\ online = TRUE
    /\ moves = 0 /\ fails = 0 /\ drops = 0

-----------------------------------------------------------------------------
(* Reading a message.                                                      *)

Snap(m) == [m |-> m, rev |-> rev[m]]
InChat(c) == {m \in Range(log) : ChatOf[m] = c}
Place(m) == CHOOSE i \in DOMAIN log : log[i] = m
Before(m, k) == Place(m) < Place(k)
Newest(S) == {m \in S : Cardinality({k \in S : Before(m, k)}) < PageSize}

\* A text is known for one revision.  Mutant: any revision's will do.
KnownOnce(x) == plain[x.m] # None
Known(x) == plain[x.m] # None /\ plain[x.m].rev = x.rev
Fresh(x) == <<x.m, x.rev>> \notin used

\* The text of x among messages cur, or the one cur has: a message that
\* cannot be read any more keeps what it showed.
\* Mutant: it shows nothing.
Gone(x, cur) == {}
Existing(x, cur) == {i \in cur : i.m = x.m /\ i.txt # None}
Text(x, cur) ==
    CASE x.m \in Mine -> x.rev
      [] x.m \in Theirs /\ Known(x) -> plain[x.m].txt
      [] x.m \in Theirs /\ ~Known(x) /\ Fresh(x) -> x.rev
      [] OTHER -> IF Existing(x, cur) = {} THEN None
                  ELSE (CHOOSE i \in Existing(x, cur) : TRUE).txt

Projected(X, cur) ==
    {[m |-> x.m, opt |-> FALSE, rev |-> x.rev, txt |-> Text(x, cur)] : x \in X}

\* Projecting X uses the keys it needs; a text of another revision is dropped.
Overtaken(x) == \E k \in used : k[1] = x.m /\ k[2] > x.rev
Decrypt(X) ==
    LET new == {x \in X : x.m \in Theirs /\ ~Known(x) /\ Fresh(x)}
        bad == {x \in X : x.m \in Theirs /\ ~Known(x) /\ ~Fresh(x)}
    IN  /\ used' = used \cup {<<x.m, x.rev>> : x \in new}
        /\ plain' = [m \in Msgs |->
              IF \E x \in new : x.m = m
              THEN LET x == CHOOSE x \in new : x.m = m IN [rev |-> x.rev, txt |-> x.rev]
              ELSE IF \E x \in bad : x.m = m THEN None ELSE plain[m]]
        /\ kept' = IF new = {} THEN kept ELSE plain'
        /\ late' = late \cup {x.m : x \in {y \in X : Overtaken(y)}}

\* Texts of a thread that was cached fill the gaps.
SeedFrom(I) ==
    plain' = [m \in Msgs |->
        LET J == {i \in I : i.m = m}
        IN  IF plain[m] # None \/ J = {} THEN plain[m]
            ELSE LET i == CHOOSE i \in J : TRUE IN [rev |-> i.rev, txt |-> i.txt]]

Seed(S) == SeedFrom({i \in S : ~i.opt /\ i.txt # None})

-----------------------------------------------------------------------------
(* The thread.                                                             *)

Ids(S) == {i.m : i \in {j \in S : ~j.opt}}
Pending == {i \in items : i.opt}
Optimistic(m) == [m |-> m, opt |-> TRUE, rev |-> 0, txt |-> 0]

\* A message replaces the one with its id or its client id.
Merge(cur, x) == {i \in cur : i.m # x.m} \cup {x}

LateArrivals(base, cur, proj) ==
    {i \in cur : ~i.opt /\ i.m \notin Ids(proj) /\ i.m \notin Ids(base)}

\* Mutant: what waits to be sent is not in the server's answer, and gone.
MergeServer(base, cur, proj) == proj \cup LateArrivals(base, cur, proj)

\* What a sync that began with base makes of the thread.
MergeSynced(base, cur, proj) ==
    proj \cup {i \in cur : i.opt /\ i.m \notin Ids(proj)} \cup LateArrivals(base, cur, proj)

Replace(c, S) ==
    IF ref # c THEN UNCHANGED <<items, mem, disk>>
    ELSE /\ items' = S
         /\ mem' = [mem EXCEPT ![c] = S] /\ disk' = [disk EXCEPT ![c] = S]

\* A sync that has fetched holds its chat's projections.
Held(c) == sync.chat = c /\ sync.got.at

-----------------------------------------------------------------------------
(* The server and what it pushes for the subscribed chat.                  *)

Edits == MapThenSumSet(LAMBDA m : rev[m], Theirs)
Budget == Edits + moves + fails + drops < Most

Push(m) == events' = IF online /\ ChatOf[m] = chat THEN events \cup {m} ELSE events

Post(m) ==
    /\ m \notin Range(log) /\ log' = Append(log, m) /\ Push(m)
    /\ \/ /\ m \in Theirs /\ UNCHANGED <<out, answers>>
       \/ /\ m \in Mine /\ out[m] = "sending" /\ out' = [out EXCEPT ![m] = "sent"]
          /\ answers' = answers \cup {[m |-> m, rev |-> 0, preview |-> FALSE]}
    /\ UNCHANGED <<rev, thread, keys, reading, wish, sync, older, timer, online, spent>>

Edit(m) ==
    /\ m \in Theirs \cap Range(log)
    /\ Budget
    /\ rev' = [rev EXCEPT ![m] = @ + 1] /\ Push(m)
    /\ UNCHANGED <<log, out, thread, keys, requests, timer, online, spent>>

\* An own message that has not arrived yet is most likely what was pushed:
\* the sync waits, unless that message was sent long ago.
OnMessage(m) ==
    /\ m \in events /\ events' = events \ {m}
    /\ \/ Pending # {} /\ timer' = chat /\ wish' = wish
       \/ wish' = wish \cup {chat} /\ timer' = timer
    /\ UNCHANGED <<server, out, thread, keys, reading, sync, answers, older, online, spent>>

TimerFires ==
    /\ timer # None /\ timer' = None
    /\ wish' = IF Pending = {} THEN wish ELSE wish \cup {timer}
    /\ UNCHANGED <<server, out, thread, keys, reading, sync, answers, older, events, online, spent>>

Disconnect ==
    /\ online /\ Budget /\ drops' = drops + 1
    /\ online' = FALSE /\ events' = {}
    /\ UNCHANGED <<server, out, thread, keys, requests, timer, moves, fails>>

\* Mutants: a reconnect syncs nothing, or the chat whose sync was put off.
Silent == wish
Resynced == wish \cup {chat}

Reconnect ==
    /\ ~online /\ online' = TRUE /\ wish' = Resynced
    /\ UNCHANGED <<server, out, thread, keys, reading, sync, answers, older, timer, events, spent>>

-----------------------------------------------------------------------------
(* The sync.                                                               *)

StartSync(c) ==
    /\ c \in wish /\ sync = NoSync /\ wish' = wish \ {c}
    /\ sync' = [chat |-> c, base |-> items, got |-> NoAnswer]
    /\ UNCHANGED <<server, out, thread, keys, reading, answers, older, stream, spent>>

Fetch ==
    /\ sync.chat # None /\ ~sync.got.at
    /\ sync' = IF ref # sync.chat THEN NoSync
               ELSE [sync EXCEPT !.got =
                  [at |-> TRUE, page |-> {Snap(m) : m \in Newest(InChat(sync.chat))},
                   more |-> Newest(InChat(sync.chat)) # InChat(sync.chat)]]
    /\ UNCHANGED <<server, out, thread, keys, reading, wish, answers, older, stream, spent>>

FetchFails ==
    /\ sync.chat # None /\ ~sync.got.at /\ ref = sync.chat
    /\ Budget /\ fails' = fails + 1
    /\ sync' = NoSync
    /\ UNCHANGED <<server, out, thread, keys, reading, wish, answers, older, stream,
                   moves, drops>>

ApplySync ==
    /\ sync.got.at /\ sync' = NoSync
    /\ Decrypt(sync.got.page)
    /\ LET P == Projected(sync.got.page, items)
       IN  Replace(sync.chat, MergeSynced(sync.base, items, P))
    /\ more' = IF ref = sync.chat THEN sync.got.more ELSE more
    /\ UNCHANGED <<server, out, ref, chat, reading, wish, answers, older, stream, spent>>

-----------------------------------------------------------------------------
(* Single messages and older pages.                                        *)

\* The answer to a post, an edit, a reaction, a deletion.
Ingest(a) ==
    /\ a \in answers /\ ~a.preview /\ ~Held(ChatOf[a.m]) /\ answers' = answers \ {a}
    /\ IF ref # ChatOf[a.m] THEN UNCHANGED <<items, mem, disk, keys>>
       ELSE /\ Decrypt({a})
            /\ \E x \in Projected({a}, items) : Replace(ref, Merge(items, x))
    /\ UNCHANGED <<server, out, ref, chat, more, reading, wish, sync, older, stream, spent>>

\* The last message of a chat that is not open, for the list of chats.
Preview(a) ==
    /\ a \in answers /\ a.preview /\ ~Held(ChatOf[a.m]) /\ answers' = answers \ {a}
    /\ Decrypt({a})
    /\ UNCHANGED <<server, out, thread, reading, wish, sync, older, stream, spent>>

Moves == Budget /\ moves' = moves + 1 /\ UNCHANGED <<fails, drops>>

AskPreview(c) ==
    /\ c # ref /\ Moves
    /\ \A a \in answers : ~a.preview
    /\ \E m \in InChat(c) :
          /\ \A k \in InChat(c) : ~Before(m, k)
          /\ answers' = answers \cup {[m |-> m, rev |-> rev[m], preview |-> TRUE]}
    /\ UNCHANGED <<server, out, thread, keys, reading, wish, sync, older, stream>>

\* The server answers a reaction or a deletion with the message; a pin is
\* followed by a sync.
React(m) ==
    /\ ref = chat /\ m \in Ids(items) \cap Range(log) /\ ChatOf[m] = ref
    /\ Moves /\ Push(m)
    /\ \/ /\ answers' = answers \cup {[m |-> m, rev |-> rev[m], preview |-> FALSE]}
          /\ wish' = wish
       \/ wish' = wish \cup {ref} /\ UNCHANGED answers
    /\ UNCHANGED <<server, out, thread, keys, reading, sync, older, timer, online>>

\* Messages of the open chat before the oldest one of the thread.
AskOlder ==
    /\ more /\ older = NoPage /\ Ids(items) # {} /\ Moves
    /\ LET before == {m \in InChat(ref) : \A k \in Ids(items) : Before(m, k)}
       IN  older' = [chat |-> ref, got |-> {Snap(m) : m \in Newest(before)},
                     more |-> Newest(before) # before]
    /\ UNCHANGED <<server, out, thread, keys, reading, wish, sync, answers, stream>>

ApplyOlder ==
    /\ older # NoPage /\ ~Held(older.chat) /\ older' = NoPage
    /\ IF ref # older.chat THEN UNCHANGED <<items, mem, disk, more, keys>>
       ELSE /\ Decrypt(older.got) /\ more' = older.more
            /\ Replace(ref, items \cup Projected(older.got, items))
    /\ UNCHANGED <<server, out, ref, chat, reading, wish, sync, answers, stream, spent>>

-----------------------------------------------------------------------------
(* The user.                                                               *)

Send(m) ==
    /\ out[m] = "draft" /\ ref = ChatOf[m]
    /\ out' = [out EXCEPT ![m] = "sending"]
    /\ Replace(ref, Merge(items, Optimistic(m)))
    /\ UNCHANGED <<server, ref, chat, more, keys, requests, stream, spent>>

SendFails(m) ==
    /\ out[m] = "sending" /\ Budget /\ fails' = fails + 1
    /\ out' = [out EXCEPT ![m] = "failed"]
    /\ Replace(ChatOf[m], {i \in items : i.m # m})
    /\ UNCHANGED <<server, ref, chat, more, keys, requests, stream, moves, drops>>

\* The ref follows at once, the thread with the deferred render.
Open(c) ==
    /\ c # ref /\ ref = chat /\ Moves
    /\ ref' = c
    /\ UNCHANGED <<server, out, chat, items, more, mem, disk, keys, requests, stream>>

LoadThread ==
    /\ chat # ref /\ chat' = ref /\ more' = FALSE /\ timer' = None /\ events' = {}
    /\ LET saved == [mem EXCEPT ![chat] = IF items = {} THEN @ ELSE items] IN
       /\ mem' = saved /\ items' = saved[ref]
       /\ IF saved[ref] = {} THEN reading' = Reading /\ UNCHANGED <<wish, plain>>
          ELSE reading' = NotReading /\ wish' = wish \cup {ref} /\ Seed(saved[ref])
    /\ UNCHANGED <<server, out, ref, disk, used, kept, late, sync, answers, older, online, spent>>

ReadCached ==
    /\ reading = Reading /\ reading' = [at |-> "read", got |-> disk[chat]]
    /\ UNCHANGED <<server, out, thread, keys, wish, sync, answers, older, stream, spent>>

ShowCached ==
    /\ reading.at = "read" /\ reading' = NotReading /\ wish' = wish \cup {chat}
    /\ IF reading.got = {} THEN UNCHANGED <<items, plain>>
       ELSE items' = reading.got /\ Seed(reading.got)
    /\ UNCHANGED <<server, out, ref, chat, more, mem, disk, used, kept, late, sync, answers,
                   older, stream, spent>>

\* The page is closed and opened again.
Reload ==
    /\ ref = chat /\ Moves
    /\ out' = [m \in Mine |-> IF out[m] = "sending" THEN "failed" ELSE out[m]]
    /\ items' = {} /\ more' = FALSE /\ mem' = [c \in Chats |-> {}]
    /\ plain' = kept
    /\ reading' = Reading /\ wish' = {} /\ sync' = NoSync /\ answers' = {} /\ older' = NoPage
    /\ timer' = None /\ events' = {} /\ online' = TRUE
    /\ UNCHANGED <<server, ref, chat, disk, used, kept, late>>

-----------------------------------------------------------------------------
Next ==
    \/ \E m \in Msgs : Post(m) \/ Edit(m) \/ OnMessage(m) \/ React(m)
    \/ \E m \in Mine : Send(m) \/ SendFails(m)
    \/ \E c \in Chats : StartSync(c) \/ AskPreview(c) \/ Open(c)
    \/ \E a \in answers : Ingest(a) \/ Preview(a)
    \/ TimerFires \/ Disconnect \/ Reconnect
    \/ Fetch \/ FetchFails \/ ApplySync \/ AskOlder \/ ApplyOlder
    \/ LoadThread \/ ReadCached \/ ShowCached \/ Reload

Spec == Init /\ [][Next]_vars

\* Timers fire, requests are answered, the socket reconnects, renders happen.
Fairness ==
    /\ \A m \in Msgs : WF_vars(OnMessage(m))
    /\ \A c \in Chats : WF_vars(StartSync(c))
    /\ WF_vars(TimerFires) /\ WF_vars(Reconnect)
    /\ WF_vars(Fetch) /\ WF_vars(ApplySync)
    /\ WF_vars(LoadThread) /\ WF_vars(ReadCached) /\ WF_vars(ShowCached)

FairSpec == Spec /\ Fairness

-----------------------------------------------------------------------------
Revs == Nat
Items == [m: Msgs, opt: BOOLEAN, rev: Revs, txt: Revs \cup {None}]
Texts == [rev: Revs, txt: Revs] \cup {None}
Snaps == [m: Msgs, rev: Revs]

(* The type of every variable: what a cached text is a text of included    *)
(* (message-helpers.ts 119-140).                                           *)
TypeOK ==
    /\ log \in Seq(Msgs) /\ rev \in [Msgs -> Revs]
    /\ out \in [Mine -> {"draft", "sending", "sent", "failed"}]
    /\ {ref, chat} \subseteq Chats /\ items \subseteq Items /\ more \in BOOLEAN
    /\ mem \in [Chats -> SUBSET Items] /\ disk \in [Chats -> SUBSET Items]
    /\ used \subseteq Msgs \X Revs /\ {plain, kept} \subseteq [Msgs -> Texts]
    /\ wish \subseteq Chats /\ timer \in Chats \cup {None} /\ events \subseteq Msgs
    /\ online \in BOOLEAN /\ late \subseteq Msgs /\ {moves, fails, drops} \subseteq Nat
    /\ reading \in [at: {"idle", "asked", "read"}, got: SUBSET Items]
    /\ sync \in [chat: Chats \cup {None}, base: SUBSET Items,
                 got: [at: BOOLEAN, page: SUBSET Snaps, more: BOOLEAN]]
    /\ answers \subseteq [m: Msgs, rev: Revs, preview: BOOLEAN]
    /\ older \in [chat: Chats \cup {None}, got: SUBSET Snaps, more: BOOLEAN]

(* A message shows the text of its revision, neither an older one nor none,*)
(* although each key can be used once, unless an answer that was older than*)
(* what had been read was read after it: the plaintext caches are looked up*)
(* by revision (message-helpers.ts 142-159).                               *)
ReadsItsRevision == \A i \in items : i.m \notin late => i.txt = i.rev

(* A message that was readable stays readable while its chat is open,      *)
(* although its key is used and its text may have left the cache           *)
(* (useMessages.ts 142-166).                                               *)
TextStays ==
    [][moves' = moves /\ chat' = chat =>
        \A i \in items, j \in items' :
            i.m = j.m /\ i.txt # None /\ j.rev >= i.rev => j.txt # None]_vars

(* A message that is shown and among the chat's newest does not vanish     *)
(* from the open thread, whatever answer arrives late: a sync keeps what   *)
(* waits to be sent, and an answer never replaces it by something older    *)
(* (message-helpers.ts 276-344).                                           *)
(* What failed to be sent is taken back, and the first read of the disk    *)
(* replaces the thread.                                                    *)
Shown(m) == \E i \in items : i.m = m
Newer(m) == m \in Range(log) => m \in Newest(InChat(ref))
StaysShown ==
    [][moves' = moves /\ chat' = chat /\ reading' = reading =>
        \A m \in Msgs :
            Shown(m) /\ Newer(m) /\ ~(m \in Mine /\ out'[m] # out[m] /\ out'[m] = "failed")
            => Shown(m)']_vars

(* The open thread catches up with the server, across lost connections,    *)
(* when nothing of this page's own is on its way for good and no request   *)
(* fails: pushes, the load of the chat and the resync after a reconnect    *)
(* (useMessages.ts 301-340, 350-434, 502-510).                             *)
UpToDate ==
    \A m \in Newest(InChat(chat)) :
        \E i \in items : i.m = m /\ ~i.opt /\ i.rev = rev[m]
Converges == [](Pending = {} /\ late = {} /\ fails = 0) => <>[]UpToDate

=============================================================================

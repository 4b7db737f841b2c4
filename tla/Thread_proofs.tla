--------------------------- MODULE Thread_proofs ---------------------------
(* Theorems about Thread, for any chats and messages, pages of any length  *)
(* and any number of edits, moves, failures and lost links.                *)
EXTENDS Thread, SequenceTheorems, FiniteSetTheorems, TLAPS

-----------------------------------------------------------------------------
(* The invariant.                                                          *)

\* A page of the server has one revision of a message.
Single(X) == \A x, y \in X : x.m = y.m => x.rev = y.rev
PagesAreSingle == Single(sync.got.page) /\ Single(older.got)

\* The key of what was read is used, and the newest revision that was read
\* is the one whose text is cached.
Cached(texts) ==
    \A m \in Theirs \ late :
        /\ texts[m] # None => texts[m].txt = texts[m].rev /\ <<m, texts[m].rev>> \in used
        /\ \A r \in Nat : <<m, r>> \in used => texts[m] # None /\ texts[m].rev >= r
CachesAreNewest == Cached(plain) /\ Cached(kept)

\* In every copy of a thread a message has the text of its revision.
Sound(i) == i.m \notin late => i.txt = i.rev /\ (i.m \in Theirs => <<i.m, i.rev>> \in used)
CopiesAreSound ==
    /\ \A i \in items \cup reading.got : Sound(i)
    /\ \A c \in Chats : \A i \in mem[c] \cup disk[c] : Sound(i)

\* Nothing is shown, cached or answered that the server does not have.
NoTwice == \A i, j \in DOMAIN log : log[i] = log[j] => i = j
CopiesAreLogged ==
    /\ Ids(items) \cup Ids(reading.got) \cup Ids(sync.base) \subseteq Range(log)
    /\ \A c \in Chats : Ids(mem[c]) \cup Ids(disk[c]) \subseteq Range(log)
AnswersAreLogged ==
    \A x \in answers \cup older.got \cup sync.got.page : x.m \in Range(log)

\* A page that was fetched has every newest message that was shown before.
PageHolds ==
    sync.got.at => \A m \in Ids(sync.base) \cap Newest(InChat(sync.chat)) :
        \E x \in sync.got.page : x.m = m

IInv ==
    /\ TypeOK
    /\ PagesAreSingle /\ CachesAreNewest /\ CopiesAreSound
    /\ NoTwice /\ CopiesAreLogged /\ AnswersAreLogged /\ PageHolds

-----------------------------------------------------------------------------
(* Types.                                                                  *)

\* What is projected: snapshots, and the answers that hold one.
Snapshots(X) == \A x \in X : x.m \in Msgs /\ x.rev \in Nat

LEMMA Disjoint == \A m \in Msgs : m \in Mine \/ (m \in Theirs /\ m \notin Mine)
  BY MsgAssumption DEF Msgs
LEMMA NoneIsNoText ==
    /\ None \notin Chats /\ None \notin Nat
    /\ \A r, t \in Nat : [rev |-> r, txt |-> t] # None
  BY NoneAssumption
LEMMA TextTypes == \A x \in Texts : x # None => x.rev \in Nat /\ x.txt \in Nat
  BY DEF Texts, Revs

LEMMA TextIsTyped ==
    ASSUME TypeOK, NEW x, x.m \in Msgs, x.rev \in Nat, NEW cur, cur \subseteq Items
    PROVE  Text(x, cur) \in Nat \cup {None}
  <1>1. plain[x.m] \in Texts
    BY DEF TypeOK
  <1>2. Known(x) => plain[x.m].txt \in Nat
    BY <1>1, TextTypes DEF Known
  <1>3. \A i \in Existing(x, cur) : i.txt \in Nat \cup {None}
    BY DEF Existing, Items, Revs
  <1>4. Existing(x, cur) # {} => (CHOOSE i \in Existing(x, cur) : TRUE) \in Existing(x, cur)
    OBVIOUS
  <1> QED
    BY <1>2, <1>3, <1>4, Disjoint DEF Text

LEMMA ProjectedTypes ==
    ASSUME TypeOK, NEW X, Snapshots(X), NEW cur, cur \subseteq Items
    PROVE  Projected(X, cur) \subseteq Items
  <1>1. ASSUME NEW x \in X
        PROVE  [m |-> x.m, opt |-> FALSE, rev |-> x.rev, txt |-> Text(x, cur)] \in Items
    BY TextIsTyped DEF Snapshots, Items, Revs
  <1> QED
    BY <1>1 DEF Projected

LEMMA DecryptTypes ==
    ASSUME TypeOK, NEW X, Snapshots(X), Decrypt(X)
    PROVE  /\ used' \subseteq Msgs \X Revs /\ late' \subseteq Msgs
           /\ plain' \in [Msgs -> Texts] /\ kept' \in [Msgs -> Texts]
  <1> DEFINE new == {x \in X : x.m \in Theirs /\ ~Known(x) /\ Fresh(x)}
             bad == {x \in X : x.m \in Theirs /\ ~Known(x) /\ ~Fresh(x)}
             text(m) == IF \E x \in new : x.m = m
                        THEN LET x == CHOOSE x \in new : x.m = m IN [rev |-> x.rev, txt |-> x.rev]
                        ELSE IF \E x \in bad : x.m = m THEN None ELSE plain[m]
  <1>1. /\ used' = used \cup {<<x.m, x.rev>> : x \in new}
        /\ plain' = [m \in Msgs |-> text(m)]
        /\ kept' = IF new = {} THEN kept ELSE plain'
        /\ late' = late \cup {x.m : x \in {y \in X : Overtaken(y)}}
    BY DEF Decrypt
  <1>2. ASSUME NEW m \in Msgs PROVE text(m) \in Texts
    <2>1. CASE \E x \in new : x.m = m
      <3>1. (CHOOSE x \in new : x.m = m) \in X
        BY <2>1
      <3>2. [rev |-> (CHOOSE x \in new : x.m = m).rev, txt |-> (CHOOSE x \in new : x.m = m).rev] \in Texts
        BY <3>1 DEF Snapshots, Texts, Revs
      <3> QED
        BY <2>1, <3>2
    <2>2. CASE ~ \E x \in new : x.m = m
      BY <2>2 DEF TypeOK, Texts
    <2> QED
      BY <2>1, <2>2
  <1>3. plain' \in [Msgs -> Texts]
    BY <1>1, <1>2
  <1>4. kept' \in [Msgs -> Texts]
    BY <1>1, <1>3 DEF TypeOK
  <1>5. used' \subseteq Msgs \X Revs
    BY <1>1 DEF TypeOK, Snapshots, Revs
  <1>6. late' \subseteq Msgs
    BY <1>1 DEF TypeOK, Snapshots
  <1> QED
    BY <1>3, <1>4, <1>5, <1>6

LEMMA SeedTypes ==
    ASSUME TypeOK, NEW S, S \subseteq Items, Seed(S)
    PROVE  plain' \in [Msgs -> Texts]
  <1> DEFINE I == {i \in S : ~i.opt /\ i.txt # None}
             J(m) == {i \in I : i.m = m}
             text(m) == IF plain[m] # None \/ J(m) = {} THEN plain[m]
                        ELSE LET i == CHOOSE i \in J(m) : TRUE IN [rev |-> i.rev, txt |-> i.txt]
  <1>1. plain' = [m \in Msgs |-> text(m)]
    BY DEF Seed, SeedFrom
  <1>2. ASSUME NEW m \in Msgs PROVE text(m) \in Texts
    <2>1. CASE plain[m] # None \/ J(m) = {}
      BY <2>1 DEF TypeOK
    <2>2. CASE ~(plain[m] # None \/ J(m) = {})
      <3>1. (CHOOSE i \in J(m) : TRUE) \in J(m)
        BY <2>2
      <3>2. \A i \in J(m) : [rev |-> i.rev, txt |-> i.txt] \in Texts
        BY DEF Items, Texts, Revs
      <3> QED
        BY <2>2, <3>1, <3>2
    <2> QED
      BY <2>1, <2>2
  <1> QED
    BY <1>1, <1>2

LEMMA ReplaceTypes ==
    ASSUME TypeOK, NEW c \in Chats, NEW S, S \subseteq Items, Replace(c, S)
    PROVE  /\ items' \subseteq Items
           /\ mem' \in [Chats -> SUBSET Items] /\ disk' \in [Chats -> SUBSET Items]
  <1>1. CASE ref # c
    BY <1>1 DEF Replace, TypeOK
  <1>2. CASE ref = c
    <2>1. items' = S /\ mem' = [mem EXCEPT ![c] = S] /\ disk' = [disk EXCEPT ![c] = S]
      BY <1>2 DEF Replace
    <2>2. S \in SUBSET Items /\ mem \in [Chats -> SUBSET Items] /\ disk \in [Chats -> SUBSET Items]
      BY DEF TypeOK
    <2> QED
      BY <2>1, <2>2
  <1> QED
    BY <1>1, <1>2

LEMMA SnapTypes == ASSUME TypeOK, NEW m \in Msgs PROVE Snap(m) \in Snaps
  BY DEF Snap, TypeOK, Snaps
LEMMA InChatTypes == ASSUME TypeOK, NEW c PROVE InChat(c) \subseteq Msgs /\ Range(log) \subseteq Msgs
  BY DEF InChat, TypeOK, Range
LEMMA NewestIsPart == ASSUME NEW S PROVE Newest(S) \subseteq S
  BY DEF Newest
LEMMA PageTypes == ASSUME TypeOK, NEW S, S \subseteq Msgs
                   PROVE  {Snap(m) : m \in Newest(S)} \subseteq Snaps
  BY SnapTypes, NewestIsPart
LEMMA StartTypes ==
    /\ NoSync \in [chat: Chats \cup {None}, base: SUBSET Items,
                   got: [at: BOOLEAN, page: SUBSET Snaps, more: BOOLEAN]]
    /\ NoPage \in [chat: Chats \cup {None}, got: SUBSET Snaps, more: BOOLEAN]
    /\ NotReading \in [at: {"idle", "asked", "read"}, got: SUBSET Items]
    /\ Reading \in [at: {"idle", "asked", "read"}, got: SUBSET Items]
    /\ [m \in Msgs |-> None] \in [Msgs -> Texts]
    /\ {} \in SUBSET Items
  BY DEF NoSync, NoAnswer, NoPage, NotReading, Reading, Texts
LEMMA OpenChats == First \in Chats /\ ChatOf \in [Msgs -> Chats] /\ Mine \subseteq Msgs /\ Theirs \subseteq Msgs
  BY MsgAssumption DEF Msgs
LEMMA ItemTypes == ASSUME TypeOK, NEW c \in Chats
                   PROVE  mem[c] \subseteq Items /\ disk[c] \subseteq Items
  BY DEF TypeOK

LEMMA TypeInit == Init => TypeOK
  <1> SUFFICES ASSUME Init PROVE TypeOK
    OBVIOUS
  <1>1. log \in Seq(Msgs)
    BY DEF Init
  <1>2. reading \in [at: {"idle", "asked", "read"}, got: SUBSET Items]
    BY StartTypes DEF Init
  <1>3. rev \in [Msgs -> Revs] /\ mem \in [Chats -> SUBSET Items] /\ disk \in [Chats -> SUBSET Items]
    BY StartTypes DEF Init, Revs
  <1>4. out \in [Mine -> {"draft", "sending", "sent", "failed"}]
    BY DEF Init
  <1>5. {ref, chat} \subseteq Chats /\ items \subseteq Items /\ more \in BOOLEAN
    BY OpenChats DEF Init
  <1>6. used \subseteq Msgs \X Revs /\ {plain, kept} \subseteq [Msgs -> Texts]
    BY StartTypes DEF Init
  <1>7. /\ wish \subseteq Chats /\ timer \in Chats \cup {None} /\ events \subseteq Msgs
        /\ online \in BOOLEAN /\ late \subseteq Msgs /\ {moves, fails, drops} \subseteq Nat
        /\ answers \subseteq [m: Msgs, rev: Revs, preview: BOOLEAN]
    BY DEF Init
  <1>8. /\ sync \in [chat: Chats \cup {None}, base: SUBSET Items,
                     got: [at: BOOLEAN, page: SUBSET Snaps, more: BOOLEAN]]
        /\ older \in [chat: Chats \cup {None}, got: SUBSET Snaps, more: BOOLEAN]
    BY StartTypes DEF Init
  <1> QED
    BY <1>1, <1>2, <1>3, <1>4, <1>5, <1>6, <1>7, <1>8 DEF TypeOK

LEMMA PostTypes == ASSUME TypeOK, NEW m \in Msgs, Post(m) PROVE TypeOK'
  <1>1. log' \in Seq(Msgs)
    BY DEF Post, TypeOK
  <1>2. [m |-> m, rev |-> 0, preview |-> FALSE] \in [m: Msgs, rev: Revs, preview: BOOLEAN]
    BY DEF Revs
  <1>3. out' \in [Mine -> {"draft", "sending", "sent", "failed"}]
    BY DEF Post, TypeOK
  <1>4. answers' \subseteq [m: Msgs, rev: Revs, preview: BOOLEAN]
    <2>1. answers' = answers \/ answers' = answers \cup {[m |-> m, rev |-> 0, preview |-> FALSE]}
      BY DEF Post
    <2> QED
      BY ZenonT(60), <1>2, <2>1 DEF TypeOK
  <1>5. events' \subseteq Msgs
    BY DEF Post, Push, TypeOK
  <1> QED
    BY <1>1, <1>3, <1>4, <1>5 DEF Post, TypeOK, thread, keys, spent
LEMMA EditTypes == ASSUME TypeOK, NEW m \in Msgs, Edit(m) PROVE TypeOK'
  <1>1. rev' \in [Msgs -> Revs]
    BY DEF Edit, TypeOK, Revs
  <1>2. events' \subseteq Msgs
    BY DEF Edit, Push, TypeOK
  <1> QED
    BY <1>1, <1>2 DEF Edit, TypeOK, thread, keys, requests, spent
LEMMA OnMessageTypes == ASSUME TypeOK, NEW m \in Msgs, OnMessage(m) PROVE TypeOK'
  BY DEF OnMessage, TypeOK, server, thread, keys, spent
LEMMA TimerFiresTypes == ASSUME TypeOK, TimerFires PROVE TypeOK'
  BY DEF TimerFires, TypeOK, server, thread, keys, spent
LEMMA DisconnectTypes == ASSUME TypeOK, Disconnect PROVE TypeOK'
  <1>1. drops \in Nat
    BY DEF TypeOK
  <1>3. drops' = drops + 1 /\ online' = FALSE /\ events' = {}
    BY DEF Disconnect
  <1>2. drops' \in Nat /\ events' \subseteq Msgs
    BY <1>1, <1>3
  <1>4. online' \in BOOLEAN
    BY <1>3
  <1> QED
    BY <1>2, <1>4 DEF Disconnect, TypeOK, server, thread, keys, requests
LEMMA ReconnectTypes == ASSUME TypeOK, Reconnect PROVE TypeOK'
  BY DEF Reconnect, Resynced, TypeOK, server, thread, keys, spent
LEMMA StartSyncTypes == ASSUME TypeOK, NEW c \in Chats, StartSync(c) PROVE TypeOK'
  <1>1. sync' \in [chat: Chats \cup {None}, base: SUBSET Items,
                   got: [at: BOOLEAN, page: SUBSET Snaps, more: BOOLEAN]]
    BY DEF StartSync, NoAnswer, TypeOK
  <1> QED
    BY <1>1 DEF StartSync, TypeOK, server, thread, keys, stream, spent
LEMMA FetchTypes == ASSUME TypeOK, Fetch PROVE TypeOK'
  <1> DEFINE got == [at |-> TRUE, page |-> {Snap(m) : m \in Newest(InChat(sync.chat))},
                     more |-> Newest(InChat(sync.chat)) # InChat(sync.chat)]
  <1>1. {Snap(m) : m \in Newest(InChat(sync.chat))} \in SUBSET Snaps
    BY PageTypes, InChatTypes
  <1>2. got \in [at: BOOLEAN, page: SUBSET Snaps, more: BOOLEAN]
    BY <1>1
  <1>3. sync' = NoSync \/ sync' = [sync EXCEPT !.got = got]
    BY DEF Fetch
  <1>4. sync' \in [chat: Chats \cup {None}, base: SUBSET Items,
                   got: [at: BOOLEAN, page: SUBSET Snaps, more: BOOLEAN]]
    BY <1>2, <1>3, StartTypes DEF TypeOK
  <1> QED
    BY <1>4 DEF Fetch, TypeOK, server, thread, keys, stream, spent
LEMMA FetchFailsTypes == ASSUME TypeOK, FetchFails PROVE TypeOK'
  BY StartTypes DEF FetchFails, TypeOK, server, thread, keys, stream

LEMMA PagesAreSnapshots ==
    ASSUME TypeOK
    PROVE  Snapshots(sync.got.page) /\ Snapshots(older.got) /\ \A a \in answers : Snapshots({a})
  BY DEF TypeOK, Snapshots, Snaps, Revs
LEMMA MergeTypes == ASSUME NEW S \in SUBSET Items, NEW x \in Items PROVE Merge(S, x) \in SUBSET Items
  BY DEF Merge
LEMMA ApplySyncTypes == ASSUME TypeOK, ApplySync PROVE TypeOK'
  <1> DEFINE P == Projected(sync.got.page, items)
  <1>1. P \subseteq Items
    BY ProjectedTypes, PagesAreSnapshots DEF TypeOK
  <1>2. MergeSynced(sync.base, items, P) \subseteq Items
    BY <1>1 DEF MergeSynced, LateArrivals, TypeOK
  <1>3. used' \subseteq Msgs \X Revs /\ late' \subseteq Msgs /\ plain' \in [Msgs -> Texts] /\ kept' \in [Msgs -> Texts]
    BY DecryptTypes, PagesAreSnapshots DEF ApplySync
  <1>4. Replace(sync.chat, MergeSynced(sync.base, items, P))
    BY DEF ApplySync
  <1>5. /\ items' \subseteq Items
        /\ mem' \in [Chats -> SUBSET Items] /\ disk' \in [Chats -> SUBSET Items]
    <2>1. CASE sync.chat = ref
      BY <1>2, <1>4, <2>1, ReplaceTypes DEF TypeOK
    <2>2. CASE sync.chat # ref
      BY <1>4, <2>2 DEF Replace, TypeOK
    <2> QED
      BY <2>1, <2>2
  <1>6. more' \in BOOLEAN
    BY DEF ApplySync, TypeOK
  <1>7. UNCHANGED <<log, rev, out, ref, chat, reading, wish, answers, older, timer, events, online, moves, fails, drops>>
    BY DEF ApplySync, server, stream, spent
  <1>8. sync' \in [chat: Chats \cup {None}, base: SUBSET Items,
                   got: [at: BOOLEAN, page: SUBSET Snaps, more: BOOLEAN]]
    BY StartTypes DEF ApplySync
  <1> QED
    BY <1>3, <1>5, <1>6, <1>7, <1>8 DEF TypeOK
LEMMA IngestTypes == ASSUME TypeOK, NEW a \in answers, Ingest(a) PROVE TypeOK'
  <1>1. UNCHANGED <<log, rev, out, ref, chat, more, reading, wish, sync, older, timer, events, online, moves, fails, drops>>
    BY DEF Ingest, server, stream, spent
  <1>2. answers' \subseteq [m: Msgs, rev: Revs, preview: BOOLEAN]
    BY DEF Ingest, TypeOK
  <1>3. CASE ref # ChatOf[a.m]
    BY <1>1, <1>2, <1>3 DEF Ingest, TypeOK, keys
  <1>4. CASE ref = ChatOf[a.m]
    <2>1. PICK x \in Projected({a}, items) : Replace(ref, Merge(items, x))
      BY <1>4 DEF Ingest
    <2>2. Decrypt({a})
      BY <1>4 DEF Ingest
    <2>3. x \in Items
      BY ProjectedTypes, PagesAreSnapshots DEF TypeOK
    <2>4. Merge(items, x) \subseteq Items /\ ref \in Chats
      BY <2>3 DEF Merge, TypeOK
    <2>5. /\ items' \subseteq Items
          /\ mem' \in [Chats -> SUBSET Items] /\ disk' \in [Chats -> SUBSET Items]
      BY <2>1, <2>4, ReplaceTypes
    <2>6. used' \subseteq Msgs \X Revs /\ late' \subseteq Msgs /\ plain' \in [Msgs -> Texts] /\ kept' \in [Msgs -> Texts]
      BY <2>2, DecryptTypes, PagesAreSnapshots
    <2> QED
      BY <1>1, <1>2, <2>5, <2>6 DEF TypeOK
  <1> QED
    BY <1>3, <1>4
LEMMA PreviewTypes == ASSUME TypeOK, NEW a \in answers, Preview(a) PROVE TypeOK'
  <1>1. used' \subseteq Msgs \X Revs /\ late' \subseteq Msgs /\ plain' \in [Msgs -> Texts] /\ kept' \in [Msgs -> Texts]
    BY DecryptTypes, PagesAreSnapshots DEF Preview
  <1>2. answers' \subseteq [m: Msgs, rev: Revs, preview: BOOLEAN]
    BY DEF Preview, TypeOK
  <1> QED
    BY <1>1, <1>2 DEF Preview, TypeOK, server, thread, stream, spent
LEMMA MovesTypes == ASSUME TypeOK, Moves PROVE {moves, fails, drops}' \subseteq Nat
  BY DEF Moves, TypeOK
LEMMA AskPreviewTypes == ASSUME TypeOK, NEW c \in Chats, AskPreview(c) PROVE TypeOK'
  <1>1. PICK m \in InChat(c) : answers' = answers \cup {[m |-> m, rev |-> rev[m], preview |-> TRUE]}
    BY DEF AskPreview
  <1>2. [m |-> m, rev |-> rev[m], preview |-> TRUE] \in [m: Msgs, rev: Revs, preview: BOOLEAN]
    BY InChatTypes DEF TypeOK
  <1>3. answers' \subseteq [m: Msgs, rev: Revs, preview: BOOLEAN]
    BY <1>1, <1>2 DEF TypeOK
  <1> QED
    BY <1>3, MovesTypes DEF AskPreview, TypeOK, server, thread, keys, stream
LEMMA ReactTypes == ASSUME TypeOK, NEW m \in Msgs, React(m) PROVE TypeOK'
  <1>1. [m |-> m, rev |-> rev[m], preview |-> FALSE] \in [m: Msgs, rev: Revs, preview: BOOLEAN]
    BY DEF TypeOK
  <1>2. answers' \subseteq [m: Msgs, rev: Revs, preview: BOOLEAN]
    <2>1. answers' = answers \/ answers' = answers \cup {[m |-> m, rev |-> rev[m], preview |-> FALSE]}
      BY DEF React
    <2> QED
      BY ZenonT(60), <1>1, <2>1 DEF TypeOK
  <1>3. wish' \subseteq Chats /\ events' \subseteq Msgs
    BY DEF React, Push, TypeOK
  <1> QED
    BY <1>2, <1>3, MovesTypes DEF React, TypeOK, server, thread, keys
LEMMA AskOlderTypes == ASSUME TypeOK, AskOlder PROVE TypeOK'
  <1> DEFINE before == {m \in InChat(ref) : \A k \in Ids(items) : Before(m, k)}
  <1>1. {Snap(m) : m \in Newest(before)} \in SUBSET Snaps
    BY PageTypes, InChatTypes
  <1>2. older' = [chat |-> ref, got |-> {Snap(m) : m \in Newest(before)}, more |-> Newest(before) # before]
    BY DEF AskOlder
  <1>3. older' \in [chat: Chats \cup {None}, got: SUBSET Snaps, more: BOOLEAN]
    BY <1>1, <1>2 DEF TypeOK
  <1> QED
    BY <1>3, MovesTypes DEF AskOlder, TypeOK, server, thread, keys, stream
LEMMA ApplyOlderTypes == ASSUME TypeOK, ApplyOlder PROVE TypeOK'
  <1>1. UNCHANGED <<log, rev, out, ref, chat, reading, wish, sync, answers, timer, events, online, moves, fails, drops>>
    BY DEF ApplyOlder, server, stream, spent
  <1>2. older' \in [chat: Chats \cup {None}, got: SUBSET Snaps, more: BOOLEAN]
    BY StartTypes DEF ApplyOlder
  <1>3. CASE ref # older.chat
    BY <1>1, <1>2, <1>3 DEF ApplyOlder, TypeOK, keys
  <1>4. CASE ref = older.chat
    <2>1. Decrypt(older.got) /\ Replace(ref, items \cup Projected(older.got, items)) /\ more' = older.more
      BY <1>4 DEF ApplyOlder
    <2>2. items \cup Projected(older.got, items) \subseteq Items /\ ref \in Chats
      BY ProjectedTypes, PagesAreSnapshots DEF TypeOK
    <2>3. /\ items' \subseteq Items
          /\ mem' \in [Chats -> SUBSET Items] /\ disk' \in [Chats -> SUBSET Items]
      BY <2>1, <2>2, ReplaceTypes
    <2>4. used' \subseteq Msgs \X Revs /\ late' \subseteq Msgs /\ plain' \in [Msgs -> Texts] /\ kept' \in [Msgs -> Texts]
      BY <2>1, DecryptTypes, PagesAreSnapshots
    <2> QED
      BY <1>1, <1>2, <2>1, <2>3, <2>4 DEF TypeOK
  <1> QED
    BY <1>3, <1>4
LEMMA SendTypes == ASSUME TypeOK, NEW m \in Mine, Send(m) PROVE TypeOK'
  <1>1. Optimistic(m) \in Items
    BY OpenChats DEF Optimistic, Items, Revs
  <1>2. Merge(items, Optimistic(m)) \subseteq Items /\ ref \in Chats
    BY <1>1 DEF Merge, TypeOK
  <1>3. /\ items' \subseteq Items
        /\ mem' \in [Chats -> SUBSET Items] /\ disk' \in [Chats -> SUBSET Items]
    BY <1>2, ReplaceTypes DEF Send
  <1>4. out' \in [Mine -> {"draft", "sending", "sent", "failed"}]
    BY DEF Send, TypeOK
  <1> QED
    BY <1>3, <1>4 DEF Send, TypeOK, server, keys, requests, stream, spent
LEMMA SendFailsTypes == ASSUME TypeOK, NEW m \in Mine, SendFails(m) PROVE TypeOK'
  <1>1. {i \in items : i.m # m} \subseteq Items /\ ChatOf[m] \in Chats
    BY OpenChats DEF TypeOK
  <1>2. /\ items' \subseteq Items
        /\ mem' \in [Chats -> SUBSET Items] /\ disk' \in [Chats -> SUBSET Items]
    BY <1>1, ReplaceTypes DEF SendFails
  <1>3. out' \in [Mine -> {"draft", "sending", "sent", "failed"}]
    BY DEF SendFails, TypeOK
  <1> QED
    BY <1>2, <1>3 DEF SendFails, TypeOK, server, keys, requests, stream
LEMMA OpenTypes == ASSUME TypeOK, NEW c \in Chats, Open(c) PROVE TypeOK'
  BY MovesTypes DEF Open, TypeOK, server, keys, requests, stream
LEMMA LoadThreadTypes == ASSUME TypeOK, LoadThread PROVE TypeOK'
  <1> DEFINE saved == [mem EXCEPT ![chat] = IF items = {} THEN @ ELSE items]
  <1>1. saved \in [Chats -> SUBSET Items] /\ saved[ref] \in SUBSET Items
    BY DEF TypeOK
  <1>2. /\ mem' = saved /\ items' = saved[ref]
        /\ IF saved[ref] = {} THEN reading' = Reading /\ UNCHANGED <<wish, plain>>
           ELSE reading' = NotReading /\ wish' = wish \cup {ref} /\ Seed(saved[ref])
    BY DEF LoadThread
  <1>3. plain' \in [Msgs -> Texts]
    BY <1>1, <1>2, SeedTypes DEF TypeOK
  <1>4. wish' \subseteq Chats /\ reading' \in [at: {"idle", "asked", "read"}, got: SUBSET Items]
    BY <1>2, StartTypes DEF TypeOK
  <1>5. mem' \in [Chats -> SUBSET Items] /\ items' \subseteq Items
    BY <1>1, <1>2
  <1>6. /\ chat' = ref /\ more' = FALSE /\ timer' = None /\ events' = {}
        /\ UNCHANGED <<log, rev, out, ref, disk, used, kept, late, sync, answers, older, online, moves, fails, drops>>
    BY DEF LoadThread, server, spent
  <1>8. more' \in BOOLEAN
    BY <1>6
  <1>9. chat' \in Chats /\ timer' \in Chats \cup {None} /\ events' \subseteq Msgs
    BY <1>6 DEF TypeOK
  <1>10. UNCHANGED <<log, rev, out, ref, disk, used, kept, late, sync, answers, older, online, moves, fails, drops>>
    BY <1>6
  <1> QED
    BY <1>3, <1>4, <1>5, <1>8, <1>9, <1>10 DEF TypeOK
LEMMA ReadCachedTypes == ASSUME TypeOK, ReadCached PROVE TypeOK'
  <1>1. reading' \in [at: {"idle", "asked", "read"}, got: SUBSET Items]
    BY DEF ReadCached, TypeOK
  <1> QED
    BY <1>1 DEF ReadCached, TypeOK, server, thread, keys, stream, spent
LEMMA ShowCachedTypes == ASSUME TypeOK, ShowCached PROVE TypeOK'
  <1>1. reading.got \subseteq Items
    BY DEF TypeOK
  <1>2. items' \subseteq Items /\ plain' \in [Msgs -> Texts]
    BY <1>1, SeedTypes DEF ShowCached, TypeOK
  <1>3. reading' \in [at: {"idle", "asked", "read"}, got: SUBSET Items]
    BY StartTypes DEF ShowCached
  <1>4. wish' \subseteq Chats
    BY DEF ShowCached, TypeOK
  <1> QED
    BY <1>2, <1>3, <1>4 DEF ShowCached, TypeOK, server, stream, spent
LEMMA ReloadTypes == ASSUME TypeOK, Reload PROVE TypeOK'
  <1>1. out' \in [Mine -> {"draft", "sending", "sent", "failed"}]
    BY DEF Reload, TypeOK
  <1>2. mem' \in [Chats -> SUBSET Items] /\ plain' \in [Msgs -> Texts]
    BY DEF Reload, TypeOK
  <1>3. sync' = NoSync /\ older' = NoPage /\ reading' = Reading
    BY DEF Reload
  <1> QED
    BY <1>1, <1>2, <1>3, StartTypes, MovesTypes DEF Reload, TypeOK, server

-----------------------------------------------------------------------------
(* What is read, and the texts it leaves behind.                           *)

\* After a projection every message that was never overtaken is cached in the
\* newest revision that was read, and what was projected has its own text.
LEMMA KeysInvariant ==
    ASSUME TypeOK, CachesAreNewest, NEW X, Snapshots(X), Single(X), Decrypt(X)
    PROVE  /\ CachesAreNewest' /\ used \subseteq used' /\ late \subseteq late'
           /\ \A cur : \A i \in Projected(X, cur) : Sound(i)'
  <1> DEFINE new == {x \in X : x.m \in Theirs /\ ~Known(x) /\ Fresh(x)}
             bad == {x \in X : x.m \in Theirs /\ ~Known(x) /\ ~Fresh(x)}
             text(m) == IF \E x \in new : x.m = m
                        THEN LET x == CHOOSE x \in new : x.m = m IN [rev |-> x.rev, txt |-> x.rev]
                        ELSE IF \E x \in bad : x.m = m THEN None ELSE plain[m]
  <1>1. /\ used' = used \cup {<<x.m, x.rev>> : x \in new}
        /\ plain' = [m \in Msgs |-> text(m)]
        /\ kept' = IF new = {} THEN kept ELSE plain'
        /\ late' = late \cup {x.m : x \in {y \in X : Overtaken(y)}}
    BY DEF Decrypt
  <1>2. used \subseteq used' /\ late \subseteq late'
    BY <1>1
  <1>3. ASSUME NEW x \in new PROVE text(x.m) = [rev |-> x.rev, txt |-> x.rev]
    <2>1. (CHOOSE y \in new : y.m = x.m) \in new /\ (CHOOSE y \in new : y.m = x.m).m = x.m
      BY <1>3
    <2>2. (CHOOSE y \in new : y.m = x.m).rev = x.rev
      BY <1>3, <2>1 DEF Single
    <2> QED
      BY <1>3, <2>2
  \* A key that is used is one of a text that is known, or the message is overtaken.
  <1>4. ASSUME NEW x \in bad PROVE x.m \in late'
    <2> SUFFICES ASSUME x.m \notin late PROVE Overtaken(x)
      BY <1>1, <1>4
    <2>1. x.m \in Theirs \ late /\ x.rev \in Nat /\ <<x.m, x.rev>> \in used /\ x.m \in Msgs
      BY <1>4 DEF Fresh, Snapshots
    <2>2. /\ plain[x.m] # None /\ plain[x.m].rev >= x.rev
          /\ <<x.m, plain[x.m].rev>> \in used
      BY <2>1 DEF CachesAreNewest, Cached
    <2>3. plain[x.m].rev # x.rev
      BY <1>4, <2>2 DEF Known
    <2>4. plain[x.m].rev \in Nat
      BY <2>1, <2>2, TextTypes DEF TypeOK
    <2>5. plain[x.m].rev > x.rev
      BY <2>1, <2>2, <2>3, <2>4
    <2> QED
      BY <2>2, <2>5 DEF Overtaken
  <1>5. ASSUME NEW m \in Theirs \ late', NEW r \in Nat, <<m, r>> \in used'
        PROVE  <<m, r>> \in used \/ \E x \in new : x.m = m /\ x.rev = r
    BY <1>1, <1>5
  <1>6. Cached(plain)'
    <2>1. SUFFICES ASSUME NEW m \in Theirs \ late'
                   PROVE  /\ text(m) # None => text(m).txt = text(m).rev /\ <<m, text(m).rev>> \in used'
                          /\ \A r \in Nat : <<m, r>> \in used' => text(m) # None /\ text(m).rev >= r
      BY <1>1, OpenChats DEF Cached
    <2>2. m \in Theirs \ late /\ m \in Msgs
      BY <1>2, OpenChats
    <2>3. /\ plain[m] # None => plain[m].txt = plain[m].rev /\ <<m, plain[m].rev>> \in used
          /\ \A r \in Nat : <<m, r>> \in used => plain[m] # None /\ plain[m].rev >= r
      BY <2>2 DEF CachesAreNewest, Cached
    <2>4. CASE \E x \in new : x.m = m
      <3>1. PICK x \in new : x.m = m
        BY <2>4
      <3>2. text(m) = [rev |-> x.rev, txt |-> x.rev] /\ x.rev \in Nat /\ x \in X
        BY <1>3, <3>1 DEF Snapshots
      <3>3. text(m) # None /\ text(m).txt = text(m).rev /\ text(m).rev = x.rev
        BY <3>2, NoneIsNoText
      <3>4. <<m, x.rev>> \in used'
        BY <1>1, <3>1
      <3>5. ASSUME NEW r \in Nat, <<m, r>> \in used' PROVE x.rev >= r
        <4>1. CASE <<m, r>> \in used
          <5>1. ~Overtaken(x)
            BY <1>1, <2>1, <3>1, <3>2
          <5>2. ~(r > x.rev)
            BY <4>1, <5>1, <3>1 DEF Overtaken
          <5> QED
            BY <5>2, <3>2
        <4>2. CASE \E y \in new : y.m = m /\ y.rev = r
          BY <4>2, <3>1, <3>2 DEF Single
        <4> QED
          BY <3>5, <1>5, <4>1, <4>2
      <3> QED
        BY <3>3, <3>4, <3>5
    <2>5. CASE ~ \E x \in new : x.m = m
      <3>1. ~ \E x \in bad : x.m = m
        BY <1>4
      <3>2. text(m) = plain[m]
        BY <2>5, <3>1
      <3>3. \A r \in Nat : <<m, r>> \in used' => <<m, r>> \in used
        BY <1>5, <2>5
      <3> QED
        BY <1>2, <2>3, <3>2, <3>3
    <2> QED
      BY <2>4, <2>5
  <1>7. Cached(kept)'
    <2>1. CASE new = {}
      <3>1. kept' = kept /\ used' = used
        BY <1>1, <2>1
      <3> QED
        BY <1>2, <3>1 DEF Cached, CachesAreNewest
    <2>2. CASE new # {}
      BY ZenonT(60), <1>1, <1>6, <2>2 DEF Cached
    <2> QED
      BY <2>1, <2>2
  <1>8. ASSUME NEW cur, NEW i \in Projected(X, cur) PROVE Sound(i)'
    <2>1. PICK x \in X : i = [m |-> x.m, opt |-> FALSE, rev |-> x.rev, txt |-> Text(x, cur)]
      BY <1>8 DEF Projected
    <2>2. i.m = x.m /\ i.rev = x.rev /\ i.txt = Text(x, cur) /\ x.m \in Msgs /\ x.rev \in Nat
      BY <2>1 DEF Snapshots
    <2>3. SUFFICES ASSUME x.m \notin late'
                   PROVE  Text(x, cur) = x.rev /\ (x.m \in Theirs => <<x.m, x.rev>> \in used')
      BY <2>2 DEF Sound
    <2>4. CASE x.m \in Mine
      BY <2>2, <2>4, Disjoint, MsgAssumption DEF Text
    <2>5. CASE x.m \in Theirs /\ Known(x)
      <3>1. x.m \notin Mine /\ x.m \in Theirs \ late
        BY <1>2, <2>3, <2>5, MsgAssumption
      <3>2. Text(x, cur) = plain[x.m].txt
        BY <2>5, <3>1 DEF Text
      <3>3. plain[x.m].txt = x.rev /\ <<x.m, x.rev>> \in used
        BY <2>5, <3>1 DEF CachesAreNewest, Cached, Known
      <3> QED
        BY <1>2, <3>2, <3>3
    <2>6. CASE x.m \in Theirs /\ ~Known(x)
      <3>1. x \notin bad
        BY <1>4, <2>3
      <3>2. x \in new /\ Fresh(x) /\ x.m \notin Mine
        BY <2>6, <3>1, MsgAssumption
      <3>3. Text(x, cur) = x.rev
        BY <2>6, <3>2 DEF Text
      <3> QED
        BY <1>1, <3>2, <3>3
    <2> QED
      BY <2>2, <2>4, <2>5, <2>6, Disjoint
  <1> QED
    BY <1>2, <1>6, <1>7, <1>8 DEF CachesAreNewest

\* Sound copies bring back no text that was not the newest.
LEMMA SeedInvariant ==
    ASSUME TypeOK, CachesAreNewest, NEW S, S \subseteq Items, \A i \in S : Sound(i), Seed(S),
           used' = used, kept' = kept, late' = late
    PROVE  CachesAreNewest'
  <1> DEFINE I == {i \in S : ~i.opt /\ i.txt # None}
             J(m) == {i \in I : i.m = m}
             text(m) == IF plain[m] # None \/ J(m) = {} THEN plain[m]
                        ELSE LET i == CHOOSE i \in J(m) : TRUE IN [rev |-> i.rev, txt |-> i.txt]
  <1>1. plain' = [m \in Msgs |-> text(m)]
    BY DEF Seed, SeedFrom
  <1>2. ASSUME NEW m \in Theirs \ late PROVE plain'[m] = plain[m]
    <2>1. m \in Msgs
      BY OpenChats
    <2>2. ASSUME NEW i \in J(m) PROVE plain[m] # None
      <3>1. <<m, i.rev>> \in used /\ i.rev \in Nat
        BY <1>2, <2>2 DEF Sound, Items, Revs
      <3> QED
        BY <1>2, <3>1 DEF CachesAreNewest, Cached
    <2>3. plain[m] # None \/ J(m) = {}
      BY <2>2
    <2> QED
      BY <1>1, <2>1, <2>3
  <1> QED
    BY <1>2 DEF CachesAreNewest, Cached

LEMMA SoundStays ==
    ASSUME NEW S, \A i \in S : Sound(i), used \subseteq used', late \subseteq late'
    PROVE  \A i \in S : Sound(i)'
  BY DEF Sound

LEMMA ReplaceSound ==
    ASSUME TypeOK, CopiesAreSound, used \subseteq used', late \subseteq late',
           reading'.got \subseteq reading.got,
           NEW c, NEW S, ref = c => \A i \in S : Sound(i)', Replace(c, S)
    PROVE  CopiesAreSound'
  <1>1. \A i \in items \cup reading.got : Sound(i)'
    BY SoundStays DEF CopiesAreSound
  <1>2. \A d \in Chats : \A i \in mem[d] \cup disk[d] : Sound(i)'
    BY SoundStays DEF CopiesAreSound
  <1>3. CASE ref # c
    BY <1>1, <1>2, <1>3 DEF Replace, CopiesAreSound
  <1>4. CASE ref = c
    <2>1. items' = S /\ mem' = [mem EXCEPT ![c] = S] /\ disk' = [disk EXCEPT ![c] = S]
      BY <1>4 DEF Replace
    <2>2. \A d \in Chats : mem'[d] \in {mem[d], S} /\ disk'[d] \in {disk[d], S}
      BY <2>1 DEF TypeOK
    <2>3. \A i \in S : Sound(i)'
      BY <1>4
    <2>4. \A d \in Chats : \A i \in mem'[d] \cup disk'[d] : Sound(i)'
      BY <1>2, <2>2, <2>3
    <2>5. \A i \in items' \cup reading'.got : Sound(i)'
      BY <1>1, <2>1, <2>3
    <2> QED
      BY <2>4, <2>5 DEF CopiesAreSound
  <1> QED
    BY <1>3, <1>4

-----------------------------------------------------------------------------
(* The log, and what a message after it leaves as it was.                  *)

LEMMA LogIsFinite == ASSUME TypeOK PROVE IsFiniteSet(Range(log))
  <1>1. IsFiniteSet(DOMAIN log)
    BY FS_Interval DEF TypeOK
  <1>2. log \in Surjection(DOMAIN log, Range(log))
    BY DEF TypeOK, Range, Surjection
  <1> QED
    BY <1>1, <1>2, FS_Surjection

LEMMA PlaceIs ==
    ASSUME TypeOK, NoTwice, NEW i \in DOMAIN log
    PROVE  Place(log[i]) = i
  BY DEF NoTwice, Place

\* A message is added at the end, where it comes after all others.
LEMMA Appended ==
    ASSUME TypeOK, NoTwice, NEW x \in Msgs, x \notin Range(log), log' = Append(log, x)
    PROVE  /\ NoTwice' /\ Range(log') = Range(log) \cup {x}
           /\ \A m \in Range(log) : Place(m)' = Place(m)
  <1>1. log \in Seq(Msgs) /\ Len(log) \in Nat /\ DOMAIN log = 1 .. Len(log)
    BY DEF TypeOK
  <1>2. /\ DOMAIN log' = 1 .. Len(log) + 1
        /\ \A i \in DOMAIN log : log'[i] = log[i]
        /\ log'[Len(log) + 1] = x
    BY <1>1, AppendProperties
  <1>3. Range(log') = Range(log) \cup {x}
    BY <1>1, <1>2 DEF Range
  <1>4. NoTwice'
    <2>1. SUFFICES ASSUME NEW i \in DOMAIN log', NEW j \in DOMAIN log', log'[i] = log'[j]
                   PROVE  i = j
      BY DEF NoTwice
    <2>2. CASE i \in DOMAIN log /\ j \in DOMAIN log
      BY <1>2, <2>1, <2>2 DEF NoTwice
    <2>3. CASE i \in DOMAIN log /\ j = Len(log) + 1
      BY <1>2, <2>1, <2>3 DEF Range
    <2>4. CASE j \in DOMAIN log /\ i = Len(log) + 1
      BY <1>2, <2>1, <2>4 DEF Range
    <2> QED
      BY <1>1, <1>2, <2>2, <2>3, <2>4
  <1>5. ASSUME NEW m \in Range(log) PROVE Place(m)' = Place(m)
    <2>1. PICK i \in DOMAIN log : log[i] = m
      BY DEF Range
    <2>2. i \in DOMAIN log' /\ log'[i] = m
      BY <1>1, <1>2, <2>1
    <2>3. \A j \in DOMAIN log' : log'[j] = m => j = i
      BY <1>4, <2>2 DEF NoTwice
    <2>4. Place(m)' = i
      BY <2>2, <2>3 DEF Place
    <2>5. Place(m) = i
      BY <2>1, PlaceIs
    <2> QED
      BY <2>4, <2>5
  <1> QED
    BY <1>3, <1>4, <1>5

\* A message that is among the newest afterwards was among them before.
LEMMA NewestOnlyLeave ==
    ASSUME TypeOK, NoTwice, NEW x \in Msgs, x \notin Range(log), log' = Append(log, x),
           NEW c, NEW m \in Range(log), m \in Newest(InChat(c))'
    PROVE  m \in Newest(InChat(c))
  <1> DEFINE S == {k \in InChat(c) : Before(m, k)}
             T == {k \in InChat(c)' : Before(m, k)'}
  <1>1. InChat(c) \subseteq InChat(c)' /\ m \in InChat(c) /\ InChat(c) \subseteq Range(log)
    BY Appended, NewestIsPart DEF InChat, Newest
  <1>2. S \subseteq T
    <2>1. ASSUME NEW k \in S PROVE Before(m, k)'
      BY <1>1, Appended DEF Before
    <2> QED
      BY <1>1, <2>1
  <1>3. IsFiniteSet(T)
    <2>1. IsFiniteSet(Range(log) \cup {x})
      BY LogIsFinite, FS_AddElement
    <2>2. T \subseteq Range(log) \cup {x}
      BY Appended DEF InChat
    <2> QED
      BY <2>1, <2>2, FS_Subset
  <1>4. Cardinality(S) <= Cardinality(T) /\ Cardinality(S) \in Nat /\ Cardinality(T) \in Nat
    BY <1>2, <1>3, FS_Subset, FS_CardinalityType
  <1>5. Cardinality(T) < PageSize
    BY DEF Newest
  <1> QED
    BY <1>1, <1>4, <1>5, PageAssumption DEF Newest

LEMMA ProjectedIds ==
    ASSUME NEW X, NEW cur
    PROVE  /\ \A x \in X : \E i \in Projected(X, cur) : i.m = x.m /\ ~i.opt
           /\ \A i \in Projected(X, cur) : ~i.opt /\ \E x \in X : i.m = x.m
  <1> DEFINE entry(x) == [m |-> x.m, opt |-> FALSE, rev |-> x.rev, txt |-> Text(x, cur)]
  <1>1. \A x \in X : entry(x).m = x.m /\ entry(x).opt = FALSE
    OBVIOUS
  <1>2. \A x \in X : ~entry(x).opt
    BY <1>1, Zenon
  <1>3. Projected(X, cur) = {entry(x) : x \in X}
    BY DEF Projected
  <1> HIDE DEF entry
  <1> QED
    BY <1>1, <1>2, <1>3

-----------------------------------------------------------------------------
(* Every action keeps the invariant.                                       *)

Readable == CachesAreNewest /\ CopiesAreSound
Logged == NoTwice /\ CopiesAreLogged /\ AnswersAreLogged /\ PageHolds

LEMMA ReadableUnchanged ==
    ASSUME Readable, UNCHANGED <<items, mem, disk, used, plain, kept, late>>,
           reading'.got \subseteq reading.got
    PROVE  Readable'
  BY DEF Readable, CachesAreNewest, Cached, CopiesAreSound, Sound

LEMMA SameLog ==
    ASSUME log' = log
    PROVE  /\ Range(log)' = Range(log) /\ (NoTwice => NoTwice')
           /\ \A c : InChat(c)' = InChat(c) /\ Newest(InChat(c))' = Newest(InChat(c))
  BY DEF NoTwice, InChat, Newest, Before, Place

LEMMA Nothing ==
    /\ NoSync.got.page = {} /\ NoSync.base = {} /\ NoSync.got.at = FALSE /\ NoPage.got = {}
    /\ NotReading.got = {} /\ Reading.got = {} /\ Ids({}) = {} /\ NoSync.chat = None
  BY DEF NoSync, NoAnswer, NoPage, NotReading, Reading, Ids
LEMMA PageHoldsNothing == ASSUME sync' = NoSync PROVE PageHolds'
  <1>1. sync'.got.at = FALSE
    BY Nothing
  <1> QED
    BY <1>1, Zenon DEF PageHolds

LEMMA IdsOfParts ==
    /\ \A S, T : S \subseteq T => Ids(S) \subseteq Ids(T)
    /\ \A S, T : Ids(S \cup T) = Ids(S) \cup Ids(T)
  BY DEF Ids

LEMMA ReplaceLogged ==
    ASSUME TypeOK, CopiesAreLogged, log' = log, NEW c, NEW S,
           ref = c => Ids(S) \subseteq Range(log), Replace(c, S),
           Ids(reading.got)' \subseteq Range(log), Ids(sync.base)' \subseteq Range(log)
    PROVE  CopiesAreLogged'
  <1>1. CASE ref # c
    BY <1>1, SameLog DEF Replace, CopiesAreLogged, Ids
  <1>2. CASE ref = c
    <2>1. items' = S /\ mem' = [mem EXCEPT ![c] = S] /\ disk' = [disk EXCEPT ![c] = S]
      BY <1>2 DEF Replace
    <2>2. \A d \in Chats : mem'[d] \in {mem[d], S} /\ disk'[d] \in {disk[d], S}
      BY <2>1 DEF TypeOK
    <2>3. \A d \in Chats : Ids(mem'[d]) \cup Ids(disk'[d]) \subseteq Range(log)
      <3>1. ASSUME NEW d \in Chats PROVE Ids(mem[d]) \cup Ids(disk[d]) \subseteq Range(log)
        BY DEF CopiesAreLogged
      <3> QED
        BY <1>2, <2>2, <3>1
    <2>4. Ids(items') \subseteq Range(log)
      BY <1>2, <2>1
    <2>5. /\ Ids(items') = Ids(items)' /\ Range(log)' = Range(log)
          /\ \A d \in Chats : Ids(mem'[d]) = Ids(mem[d])' /\ Ids(disk'[d]) = Ids(disk[d])'
      BY SameLog DEF Ids
    <2> QED
      BY <2>3, <2>4, <2>5 DEF CopiesAreLogged
  <1> QED
    BY <1>1, <1>2

\* What touches neither a thread nor what was asked for it.
LEMMA QuietInvariant ==
    ASSUME IInv, UNCHANGED <<log, items, mem, disk, used, plain, kept, late, reading, sync, older>>,
           \A a \in answers' : a.m \in Range(log)
    PROVE  PagesAreSingle' /\ Readable' /\ Logged'
  <1>1. Readable'
    BY ReadableUnchanged DEF IInv, Readable
  <1>2. PagesAreSingle'
    BY DEF IInv, PagesAreSingle, Single
  <1>3. NoTwice' /\ CopiesAreLogged' /\ AnswersAreLogged' /\ PageHolds'
    BY SameLog DEF IInv, CopiesAreLogged, AnswersAreLogged, PageHolds, Ids
  <1> QED
    BY <1>1, <1>2, <1>3 DEF Logged
LEMMA AnswersLogged == ASSUME IInv PROVE \A a \in answers : a.m \in Range(log)
  BY DEF IInv, AnswersAreLogged

LEMMA EditKeeps == ASSUME IInv, NEW m \in Msgs, Edit(m) PROVE PagesAreSingle' /\ Readable' /\ Logged'
  BY QuietInvariant, AnswersLogged DEF Edit, thread, keys, requests
LEMMA OnMessageKeeps == ASSUME IInv, NEW m \in Msgs, OnMessage(m) PROVE PagesAreSingle' /\ Readable' /\ Logged'
  BY QuietInvariant, AnswersLogged DEF OnMessage, server, thread, keys
LEMMA TimerFiresKeeps == ASSUME IInv, TimerFires PROVE PagesAreSingle' /\ Readable' /\ Logged'
  BY QuietInvariant, AnswersLogged DEF TimerFires, server, thread, keys
LEMMA DisconnectKeeps == ASSUME IInv, Disconnect PROVE PagesAreSingle' /\ Readable' /\ Logged'
  BY QuietInvariant, AnswersLogged DEF Disconnect, server, thread, keys, requests
LEMMA ReconnectKeeps == ASSUME IInv, Reconnect PROVE PagesAreSingle' /\ Readable' /\ Logged'
  BY QuietInvariant, AnswersLogged DEF Reconnect, server, thread, keys
LEMMA OpenKeeps == ASSUME IInv, NEW c \in Chats, Open(c) PROVE PagesAreSingle' /\ Readable' /\ Logged'
  BY QuietInvariant, AnswersLogged DEF Open, server, keys, requests
LEMMA ReactKeeps == ASSUME IInv, NEW m \in Msgs, React(m) PROVE PagesAreSingle' /\ Readable' /\ Logged'
  <1>1. \A a \in answers' : a \in answers \/ a.m = m
    BY DEF React
  <1>2. m \in Range(log)
    BY DEF React
  <1>3. \A a \in answers' : a.m \in Range(log)
    BY <1>1, <1>2, AnswersLogged
  <1> QED
    BY <1>3, QuietInvariant DEF React, server, thread, keys
LEMMA AskPreviewKeeps == ASSUME IInv, NEW c \in Chats, AskPreview(c) PROVE PagesAreSingle' /\ Readable' /\ Logged'
  <1>1. \A a \in answers' : a \in answers \/ a.m \in InChat(c)
    BY DEF AskPreview
  <1>2. \A a \in answers' : a.m \in Range(log)
    BY <1>1, AnswersLogged DEF InChat
  <1> QED
    BY <1>2, QuietInvariant DEF AskPreview, server, thread, keys

LEMMA PostKeeps == ASSUME IInv, NEW m \in Msgs, Post(m) PROVE PagesAreSingle' /\ Readable' /\ Logged'
  <1>1. m \notin Range(log) /\ log' = Append(log, m) /\ NoTwice /\ TypeOK
    BY DEF Post, IInv
  <1>2. NoTwice' /\ Range(log') = Range(log) \cup {m}
    BY <1>1, Appended
  <1>3. Readable'
    BY ReadableUnchanged DEF IInv, Readable, Post, thread, keys
  <1>4. PagesAreSingle'
    BY DEF IInv, PagesAreSingle, Single, Post
  <1>5. CopiesAreLogged'
    BY <1>2 DEF IInv, CopiesAreLogged, Ids, Post, thread
  <1>6. AnswersAreLogged'
    <2>1. \A a \in answers' : a \in answers \/ a.m = m
      BY DEF Post
    <2>2. sync' = sync /\ older' = older
      BY DEF Post
    <2> QED
      BY <1>2, <2>1, <2>2 DEF IInv, AnswersAreLogged
  <1>7. PageHolds'
    <2>1. sync' = sync
      BY DEF Post
    <2>2. SUFFICES ASSUME sync.got.at, NEW c, c = sync.chat,
                          NEW k \in Ids(sync.base), k \in Newest(InChat(c))'
                   PROVE  \E x \in sync.got.page : x.m = k
      BY <2>1 DEF PageHolds, Ids, InChat, Newest, Before, Place
    <2>3. k \in Range(log)
      BY DEF IInv, CopiesAreLogged
    <2>4. k \in Newest(InChat(c))
      BY <1>1, <2>2, <2>3, NewestOnlyLeave
    <2> QED
      BY <2>2, <2>4 DEF IInv, PageHolds
  <1> QED
    BY <1>2, <1>3, <1>4, <1>5, <1>6, <1>7 DEF Logged

\* A sync: it starts with the thread as it is, fetches a page, and ends.
LEMMA SnapsAreSingle ==
    ASSUME NEW S
    PROVE  /\ Single({Snap(m) : m \in S})
           /\ \A x \in {Snap(m) : m \in S} : x.m \in S
           /\ \A m \in S : \E x \in {Snap(k) : k \in S} : x.m = m
  <1>1. \A m : Snap(m).m = m
    BY DEF Snap
  <1>2. Single({Snap(m) : m \in S}) /\ \A x \in {Snap(m) : m \in S} : x.m \in S
    BY DEF Snap, Single
  <1>3. ASSUME NEW m \in S PROVE \E x \in {Snap(k) : k \in S} : x.m = m
    <2>1. Snap(m) \in {Snap(k) : k \in S}
      OBVIOUS
    <2> QED
      BY <1>1, <2>1
  <1> QED
    BY <1>2, <1>3
LEMMA StartSyncKeeps == ASSUME IInv, NEW c \in Chats, StartSync(c) PROVE PagesAreSingle' /\ Readable' /\ Logged'
  <1>1. sync' = [chat |-> c, base |-> items, got |-> NoAnswer]
    BY DEF StartSync
  <1>2. sync'.base = items /\ sync'.got.page = {} /\ sync'.got.at = FALSE
    BY <1>1 DEF NoAnswer
  <1>3. Readable'
    BY ReadableUnchanged DEF IInv, Readable, StartSync, thread, keys
  <1>4. PagesAreSingle'
    BY <1>2 DEF IInv, PagesAreSingle, Single, StartSync
  <1>5. log' = log /\ reading' = reading /\ answers' = answers /\ older' = older
    BY DEF StartSync, server
  <1>6. CopiesAreLogged' /\ AnswersAreLogged' /\ NoTwice'
    BY <1>2, <1>5, SameLog DEF IInv, CopiesAreLogged, AnswersAreLogged, Ids, StartSync, thread
  <1>7. PageHolds'
    BY <1>2, Zenon DEF PageHolds
  <1> QED
    BY <1>3, <1>4, <1>6, <1>7 DEF Logged
LEMMA FetchKeeps == ASSUME IInv, Fetch PROVE PagesAreSingle' /\ Readable' /\ Logged'
  <1> DEFINE N == Newest(InChat(sync.chat))
             got == [at |-> TRUE, page |-> {Snap(m) : m \in N}, more |-> N # InChat(sync.chat)]
  <1>1. /\ log' = log /\ rev' = rev /\ reading' = reading /\ answers' = answers /\ older' = older
        /\ UNCHANGED <<items, mem, disk, used, plain, kept, late>>
    BY DEF Fetch, server, thread, keys
  <1>2. Readable'
    BY <1>1, ReadableUnchanged DEF IInv, Readable
  <1>3. CASE sync' = NoSync
    <2>1. PagesAreSingle' /\ AnswersAreLogged'
      BY <1>1, <1>3, Nothing, SameLog DEF IInv, PagesAreSingle, Single, AnswersAreLogged
    <2>2. CopiesAreLogged' /\ NoTwice'
      BY <1>1, <1>3, Nothing, SameLog DEF IInv, CopiesAreLogged, Ids
    <2> QED
      BY <1>2, <1>3, <2>1, <2>2, PageHoldsNothing DEF Logged
  <1>4. CASE sync' = [sync EXCEPT !.got = got]
    <2>1. sync'.chat = sync.chat /\ sync'.base = sync.base /\ sync'.got.page = {Snap(m) : m \in N}
      BY <1>4 DEF IInv, TypeOK
    <2>2. Single(sync'.got.page) /\ \A x \in sync'.got.page : x.m \in N
      BY <2>1, SnapsAreSingle
    <2>3. PagesAreSingle'
      BY <1>1, <2>2 DEF IInv, PagesAreSingle, Single
    <2>4. N \subseteq Range(log)
      BY NewestIsPart DEF InChat
    <2>5. NoTwice' /\ CopiesAreLogged'
      BY <1>1, <2>1, SameLog DEF IInv, CopiesAreLogged, Ids
    <2>6. AnswersAreLogged'
      BY <1>1, <2>2, <2>4, SameLog DEF IInv, AnswersAreLogged
    <2>7. \A m \in N : \E x \in sync'.got.page : x.m = m
      BY <2>1, SnapsAreSingle
    <2>8. PageHolds'
      <3>1. SUFFICES ASSUME NEW c, c = sync.chat, NEW m \in Newest(InChat(c))'
                     PROVE  \E x \in sync'.got.page : x.m = m
        BY ZenonT(60), <2>1 DEF PageHolds, InChat, Newest, Before, Place
      <3> QED
        BY <1>1, <2>7, <3>1, SameLog
    <2> QED
      BY <1>2, <2>3, <2>5, <2>6, <2>8 DEF Logged
  <1> QED
    BY <1>3, <1>4 DEF Fetch
LEMMA FetchFailsKeeps == ASSUME IInv, FetchFails PROVE PagesAreSingle' /\ Readable' /\ Logged'
  <1>1. /\ log' = log /\ reading' = reading /\ answers' = answers /\ older' = older /\ sync' = NoSync
        /\ UNCHANGED <<items, mem, disk, used, plain, kept, late>>
    BY DEF FetchFails, server, thread, keys
  <1>2. Readable'
    BY <1>1, ReadableUnchanged DEF IInv, Readable
  <1>3. PagesAreSingle' /\ AnswersAreLogged'
    BY <1>1, Nothing, SameLog DEF IInv, PagesAreSingle, Single, AnswersAreLogged
  <1>4. CopiesAreLogged' /\ NoTwice'
    BY <1>1, Nothing, SameLog DEF IInv, CopiesAreLogged, Ids
  <1> QED
    BY <1>1, <1>2, <1>3, <1>4, PageHoldsNothing DEF Logged
LEMMA ApplySyncKeeps == ASSUME IInv, ApplySync PROVE PagesAreSingle' /\ Readable' /\ Logged'
  <1> DEFINE P == Projected(sync.got.page, items)
             S == MergeSynced(sync.base, items, P)
  <1>1. /\ log' = log /\ reading' = reading /\ answers' = answers /\ older' = older /\ sync' = NoSync
        /\ Decrypt(sync.got.page) /\ Replace(sync.chat, S)
    BY DEF ApplySync, server
  <1>2. Snapshots(sync.got.page) /\ Single(sync.got.page)
    BY PagesAreSnapshots DEF IInv, PagesAreSingle
  <1>3. /\ CachesAreNewest' /\ used \subseteq used' /\ late \subseteq late'
        /\ \A i \in P : Sound(i)'
    BY <1>1, <1>2, KeysInvariant DEF IInv
  <1>4. S \subseteq P \cup items
    BY DEF MergeSynced, LateArrivals
  <1>5. \A i \in items : Sound(i)'
    BY <1>3, SoundStays DEF IInv, CopiesAreSound
  <1>6. \A i \in S : Sound(i)'
    BY <1>3, <1>4, <1>5
  <1>7. CopiesAreSound'
    BY <1>1, <1>3, <1>6, ReplaceSound DEF IInv
  <1>8. PagesAreSingle' /\ AnswersAreLogged'
    BY <1>1, Nothing, SameLog DEF IInv, PagesAreSingle, Single, AnswersAreLogged
  <1>9. Ids(S) \subseteq Range(log)
    <2>1. Ids(P) \subseteq Range(log)
      BY ProjectedIds DEF Ids, IInv, AnswersAreLogged
    <2>2. Ids(S) \subseteq Ids(P) \cup Ids(items)
      BY <1>4 DEF Ids
    <2> QED
      BY <2>1, <2>2 DEF IInv, CopiesAreLogged
  <1>10. Ids(reading.got)' \subseteq Range(log) /\ Ids(sync.base)' \subseteq Range(log)
    BY <1>1, Nothing DEF IInv, CopiesAreLogged, Ids
  <1>11. CopiesAreLogged'
    BY <1>1, <1>9, <1>10, ReplaceLogged DEF IInv
  <1> QED
    BY <1>1, <1>3, <1>7, <1>8, <1>11, PageHoldsNothing, SameLog DEF IInv, Readable, Logged

\* Single messages, and older ones.
LEMMA RequestsKeep ==
    ASSUME IInv, log' = log, sync' = sync, CopiesAreLogged',
           \A a \in answers' : a.m \in Range(log), older' = older \/ older' = NoPage
    PROVE  PagesAreSingle' /\ Logged'
  <1>1. PagesAreSingle'
    BY Nothing DEF IInv, PagesAreSingle, Single
  <1>2. AnswersAreLogged'
    BY Nothing, SameLog DEF IInv, AnswersAreLogged
  <1>3. PageHolds'
    BY SameLog DEF IInv, PageHolds, Ids
  <1> QED
    BY <1>1, <1>2, <1>3, SameLog DEF IInv, Logged
LEMMA SameCopies ==
    ASSUME IInv, UNCHANGED <<log, items, mem, disk, reading, sync>>
    PROVE  CopiesAreLogged'
  BY SameLog DEF IInv, CopiesAreLogged, Ids
LEMMA IngestKeeps == ASSUME IInv, NEW a \in answers, Ingest(a) PROVE PagesAreSingle' /\ Readable' /\ Logged'
  <1>1. log' = log /\ reading' = reading /\ older' = older /\ sync' = sync /\ answers' \subseteq answers
    BY DEF Ingest, server
  <1>2. CASE ref # ChatOf[a.m]
    <2>1. UNCHANGED <<items, mem, disk, used, plain, kept, late>>
      BY <1>2 DEF Ingest, keys
    <2>2. Readable'
      BY <1>1, <2>1, ReadableUnchanged DEF IInv, Readable
    <2> QED
      BY <1>1, <2>1, <2>2, SameCopies, RequestsKeep, AnswersLogged
  <1>3. CASE ref = ChatOf[a.m]
    <2>1. PICK x \in Projected({a}, items) : Replace(ref, Merge(items, x))
      BY <1>3 DEF Ingest
    <2>2. Decrypt({a}) /\ Snapshots({a}) /\ Single({a})
      BY <1>3, PagesAreSnapshots DEF Ingest, IInv, Single
    <2>3. CachesAreNewest' /\ used \subseteq used' /\ late \subseteq late' /\ Sound(x)'
      BY <2>1, <2>2, KeysInvariant DEF IInv
    <2>4. Merge(items, x) \subseteq items \cup {x}
      BY DEF Merge
    <2>5. \A i \in items : Sound(i)'
      BY <2>3, SoundStays DEF IInv, CopiesAreSound
    <2>6. \A i \in Merge(items, x) : Sound(i)'
      BY <2>3, <2>4, <2>5
    <2>7. CopiesAreSound'
      BY <1>1, <2>1, <2>3, <2>6, ReplaceSound DEF IInv
    <2>8. Ids(Merge(items, x)) \subseteq Range(log)
      <3>1. x.m = a.m /\ a.m \in Range(log)
        BY <2>1, ProjectedIds, AnswersLogged
      <3> QED
        BY <2>4, <3>1 DEF Ids, IInv, CopiesAreLogged
    <2>9. CopiesAreLogged'
      BY <1>1, <2>1, <2>8, ReplaceLogged DEF IInv, CopiesAreLogged, Ids
    <2> QED
      BY <1>1, <2>3, <2>7, <2>9, RequestsKeep, AnswersLogged DEF Readable
  <1> QED
    BY <1>2, <1>3
LEMMA PreviewKeeps == ASSUME IInv, NEW a \in answers, Preview(a) PROVE PagesAreSingle' /\ Readable' /\ Logged'
  <1>1. /\ log' = log /\ reading' = reading /\ older' = older /\ sync' = sync /\ answers' \subseteq answers
        /\ items' = items /\ mem' = mem /\ disk' = disk /\ Decrypt({a})
    BY DEF Preview, server, thread
  <1>2. Snapshots({a}) /\ Single({a})
    BY PagesAreSnapshots DEF IInv, Single
  <1>3. CachesAreNewest' /\ used \subseteq used' /\ late \subseteq late'
    BY <1>1, <1>2, KeysInvariant DEF IInv
  <1>4. CopiesAreSound'
    <2>1. \A i \in items \cup reading.got : Sound(i)'
      BY <1>3, SoundStays DEF IInv, CopiesAreSound
    <2>2. \A c \in Chats : \A i \in mem[c] \cup disk[c] : Sound(i)'
      BY <1>3, SoundStays DEF IInv, CopiesAreSound
    <2> QED
      BY <1>1, <2>1, <2>2 DEF CopiesAreSound
  <1> QED
    BY <1>1, <1>3, <1>4, SameCopies, RequestsKeep, AnswersLogged DEF Readable
LEMMA AskOlderKeeps == ASSUME IInv, AskOlder PROVE PagesAreSingle' /\ Readable' /\ Logged'
  <1> DEFINE before == {m \in InChat(ref) : \A k \in Ids(items) : Before(m, k)}
  <1>1. /\ log' = log /\ reading' = reading /\ answers' = answers /\ sync' = sync
        /\ UNCHANGED <<items, mem, disk, used, plain, kept, late>>
        /\ older'.got = {Snap(m) : m \in Newest(before)}
    BY DEF AskOlder, server, thread, keys
  <1>2. Newest(before) \subseteq Range(log)
    BY NewestIsPart DEF InChat
  <1>3. Single(older'.got) /\ \A x \in older'.got : x.m \in Range(log)
    BY <1>1, <1>2, SnapsAreSingle
  <1>4. Readable'
    BY <1>1, ReadableUnchanged DEF IInv, Readable
  <1>5. PagesAreSingle'
    BY <1>1, <1>3 DEF IInv, PagesAreSingle, Single
  <1>6. AnswersAreLogged'
    BY <1>1, <1>3, SameLog DEF IInv, AnswersAreLogged
  <1>7. PageHolds' /\ NoTwice' /\ CopiesAreLogged'
    BY <1>1, SameLog, SameCopies DEF IInv, PageHolds, Ids
  <1> QED
    BY <1>4, <1>5, <1>6, <1>7 DEF Logged
LEMMA ApplyOlderKeeps == ASSUME IInv, ApplyOlder PROVE PagesAreSingle' /\ Readable' /\ Logged'
  <1> DEFINE P == Projected(older.got, items)
  <1>1. log' = log /\ reading' = reading /\ answers' = answers /\ older' = NoPage /\ sync' = sync
    BY DEF ApplyOlder, server
  <1>2. CASE ref # older.chat
    <2>1. UNCHANGED <<items, mem, disk, used, plain, kept, late>>
      BY <1>2 DEF ApplyOlder, keys
    <2>2. Readable'
      BY <1>1, <2>1, ReadableUnchanged DEF IInv, Readable
    <2> QED
      BY <1>1, <2>1, <2>2, SameCopies, RequestsKeep, AnswersLogged
  <1>3. CASE ref = older.chat
    <2>1. Decrypt(older.got) /\ Replace(ref, items \cup P)
      BY <1>3 DEF ApplyOlder
    <2>2. Snapshots(older.got) /\ Single(older.got)
      BY PagesAreSnapshots DEF IInv, PagesAreSingle
    <2>3. /\ CachesAreNewest' /\ used \subseteq used' /\ late \subseteq late'
          /\ \A i \in P : Sound(i)'
      BY <2>1, <2>2, KeysInvariant DEF IInv
    <2>4. \A i \in items : Sound(i)'
      BY <2>3, SoundStays DEF IInv, CopiesAreSound
    <2>5. \A i \in items \cup P : Sound(i)'
      BY <2>3, <2>4
    <2>6. CopiesAreSound'
      BY <1>1, <2>1, <2>3, <2>5, ReplaceSound DEF IInv
    <2>7. Ids(items \cup P) \subseteq Range(log)
      <3>1. Ids(P) \subseteq Range(log)
        BY ProjectedIds DEF Ids, IInv, AnswersAreLogged
      <3> QED
        BY <3>1, IdsOfParts DEF IInv, CopiesAreLogged
    <2>8. CopiesAreLogged'
      BY <1>1, <2>1, <2>7, ReplaceLogged DEF IInv, CopiesAreLogged, Ids
    <2> QED
      BY <1>1, <2>3, <2>6, <2>8, RequestsKeep, AnswersLogged DEF Readable
  <1> QED
    BY <1>2, <1>3

\* The user and the caches.
LEMMA SendKeeps == ASSUME IInv, NEW m \in Mine, Send(m) PROVE PagesAreSingle' /\ Readable' /\ Logged'
  <1>1. /\ log' = log /\ reading' = reading /\ answers' = answers /\ older' = older /\ sync' = sync
        /\ used' = used /\ late' = late /\ plain' = plain /\ kept' = kept
        /\ Replace(ref, Merge(items, Optimistic(m)))
    BY DEF Send, server, requests, keys
  <1>2. /\ Optimistic(m).m = m /\ Optimistic(m).opt = TRUE
        /\ Optimistic(m).txt = Optimistic(m).rev
    BY DEF Optimistic
  <1>3. Merge(items, Optimistic(m)) \subseteq items \cup {Optimistic(m)}
    BY DEF Merge
  <1>4. Sound(Optimistic(m))'
    BY <1>2, MsgAssumption DEF Sound, Optimistic
  <1>5. \A i \in items : Sound(i)'
    BY <1>1, SoundStays DEF IInv, CopiesAreSound
  <1>6. CopiesAreSound'
    BY <1>1, <1>3, <1>4, <1>5, ReplaceSound DEF IInv
  <1>7. Optimistic(m).opt
    BY <1>2, Zenon
  <1>8. Ids(Merge(items, Optimistic(m))) \subseteq Range(log)
    BY <1>3, <1>7 DEF Ids, IInv, CopiesAreLogged
  <1>9. CopiesAreLogged'
    BY <1>1, <1>8, ReplaceLogged DEF IInv, CopiesAreLogged, Ids
  <1>10. CachesAreNewest'
    BY <1>1 DEF IInv, CachesAreNewest, Cached
  <1> QED
    BY <1>1, <1>6, <1>9, <1>10, RequestsKeep, AnswersLogged DEF Readable
LEMMA SendFailsKeeps == ASSUME IInv, NEW m \in Mine, SendFails(m) PROVE PagesAreSingle' /\ Readable' /\ Logged'
  <1> DEFINE S == {i \in items : i.m # m}
  <1>1. /\ log' = log /\ reading' = reading /\ answers' = answers /\ older' = older /\ sync' = sync
        /\ used' = used /\ late' = late /\ plain' = plain /\ kept' = kept
        /\ Replace(ChatOf[m], S)
    BY DEF SendFails, server, requests, keys
  <1>2. \A i \in S : Sound(i)'
    BY <1>1, SoundStays DEF IInv, CopiesAreSound
  <1>3. CopiesAreSound'
    BY <1>1, <1>2, ReplaceSound DEF IInv
  <1>4. Ids(S) \subseteq Range(log)
    BY DEF Ids, IInv, CopiesAreLogged
  <1>5. CopiesAreLogged'
    BY <1>1, <1>4, ReplaceLogged DEF IInv, CopiesAreLogged, Ids
  <1>6. CachesAreNewest'
    BY <1>1 DEF IInv, CachesAreNewest, Cached
  <1> QED
    BY <1>1, <1>3, <1>5, <1>6, RequestsKeep, AnswersLogged DEF Readable
LEMMA LoadThreadKeeps == ASSUME IInv, LoadThread PROVE PagesAreSingle' /\ Readable' /\ Logged'
  <1> DEFINE saved == [mem EXCEPT ![chat] = IF items = {} THEN @ ELSE items]
  <1>1. /\ mem' = saved /\ items' = saved[ref]
        /\ IF saved[ref] = {} THEN reading' = Reading /\ UNCHANGED <<wish, plain>>
           ELSE reading' = NotReading /\ wish' = wish \cup {ref} /\ Seed(saved[ref])
    BY DEF LoadThread
  <1>2. /\ log' = log /\ answers' = answers /\ older' = older /\ sync' = sync
        /\ used' = used /\ late' = late /\ kept' = kept /\ disk' = disk
    BY DEF LoadThread, server
  <1>3. reading'.got = {}
    BY <1>1, Nothing
  <1>4. \A d \in Chats : saved[d] \in {mem[d], items}
    BY DEF IInv, TypeOK
  <1>5. ref \in Chats /\ items \subseteq Items /\ \A d \in Chats : mem[d] \subseteq Items
    BY DEF IInv, TypeOK
  <1> HIDE DEF saved
  <1>6. \A d \in Chats : \A i \in saved[d] : Sound(i)
    BY <1>4 DEF IInv, CopiesAreSound
  <1>7. CachesAreNewest'
    <2>1. CASE saved[ref] = {}
      BY <1>1, <1>2, <2>1 DEF IInv, CachesAreNewest, Cached
    <2>2. CASE saved[ref] # {}
      <3>1. Seed(saved[ref]) /\ saved[ref] \subseteq Items /\ \A i \in saved[ref] : Sound(i)
        BY <1>1, <1>4, <1>5, <1>6, <2>2
      <3> QED
        BY <1>2, <3>1, SeedInvariant DEF IInv
    <2> QED
      BY <2>1, <2>2
  <1>8. CopiesAreSound'
    <2>1. \A d \in Chats : \A i \in saved[d] \cup disk[d] : Sound(i)'
      BY <1>2, <1>6 DEF IInv, CopiesAreSound, Sound
    <2> QED
      BY <1>1, <1>2, <1>3, <1>5, <2>1 DEF CopiesAreSound
  <1>9. CopiesAreLogged'
    <2>1. \A d \in Chats : Ids(saved[d]) \subseteq Range(log)
      BY <1>4 DEF IInv, CopiesAreLogged
    <2> QED
      BY <1>1, <1>2, <1>3, <1>5, <2>1, SameLog DEF IInv, CopiesAreLogged, Ids
  <1> QED
    BY <1>2, <1>7, <1>8, <1>9, RequestsKeep, AnswersLogged DEF Readable
LEMMA ReadCachedKeeps == ASSUME IInv, ReadCached PROVE PagesAreSingle' /\ Readable' /\ Logged'
  <1>1. /\ log' = log /\ answers' = answers /\ older' = older /\ sync' = sync /\ reading'.got = disk[chat]
        /\ UNCHANGED <<items, mem, disk, used, plain, kept, late>>
    BY DEF ReadCached, server, thread, keys
  <1>2. chat \in Chats
    BY DEF IInv, TypeOK
  <1>3. Readable'
    BY <1>1, <1>2 DEF IInv, Readable, CachesAreNewest, Cached, CopiesAreSound, Sound
  <1>4. CopiesAreLogged'
    BY <1>1, <1>2, SameLog DEF IInv, CopiesAreLogged, Ids
  <1> QED
    BY <1>1, <1>3, <1>4, RequestsKeep, AnswersLogged
LEMMA ShowCachedKeeps == ASSUME IInv, ShowCached PROVE PagesAreSingle' /\ Readable' /\ Logged'
  <1>1. /\ log' = log /\ answers' = answers /\ older' = older /\ sync' = sync
        /\ used' = used /\ late' = late /\ kept' = kept /\ mem' = mem /\ disk' = disk
        /\ reading' = NotReading
        /\ IF reading.got = {} THEN UNCHANGED <<items, plain>>
           ELSE items' = reading.got /\ Seed(reading.got)
    BY DEF ShowCached, server
  <1>2. reading'.got = {}
    BY <1>1, Nothing
  <1>3. items' = items \/ items' = reading.got
    BY <1>1
  <1>4. CachesAreNewest'
    <2>1. CASE reading.got = {}
      BY <1>1, <2>1 DEF IInv, CachesAreNewest, Cached
    <2>2. CASE reading.got # {}
      <3>1. reading.got \subseteq Items /\ \A i \in reading.got : Sound(i)
        BY DEF IInv, TypeOK, CopiesAreSound
      <3> QED
        BY <1>1, <2>2, <3>1, SeedInvariant DEF IInv
    <2> QED
      BY <2>1, <2>2
  <1>5. CopiesAreSound'
    BY <1>1, <1>2, <1>3 DEF IInv, CopiesAreSound, Sound
  <1>6. CopiesAreLogged'
    BY <1>1, <1>2, <1>3, SameLog DEF IInv, CopiesAreLogged, Ids
  <1> QED
    BY <1>1, <1>4, <1>5, <1>6, RequestsKeep, AnswersLogged DEF Readable
LEMMA ReloadKeeps == ASSUME IInv, Reload PROVE PagesAreSingle' /\ Readable' /\ Logged'
  <1>1. /\ log' = log /\ answers' = {} /\ older' = NoPage /\ sync' = NoSync /\ reading' = Reading
        /\ used' = used /\ late' = late /\ kept' = kept /\ plain' = kept /\ disk' = disk
        /\ items' = {} /\ mem' = [c \in Chats |-> {}]
    BY DEF Reload, server
  <1>2. Readable'
    BY <1>1, Nothing DEF IInv, Readable, CachesAreNewest, Cached, CopiesAreSound, Sound
  <1>3. PagesAreSingle' /\ AnswersAreLogged'
    BY <1>1, Nothing DEF PagesAreSingle, Single, AnswersAreLogged
  <1>4. CopiesAreLogged'
    BY <1>1, Nothing, SameLog DEF IInv, CopiesAreLogged, Ids
  <1> QED
    BY <1>1, <1>2, <1>3, <1>4, PageHoldsNothing, SameLog DEF IInv, Logged

LEMMA InitKeeps == Init => IInv
  <1> SUFFICES ASSUME Init PROVE IInv
    OBVIOUS
  <1>1. /\ log = <<>> /\ items = {} /\ answers = {} /\ used = {} /\ sync = NoSync /\ older = NoPage
        /\ reading = Reading /\ mem = [c \in Chats |-> {}] /\ disk = [c \in Chats |-> {}]
        /\ plain = [m \in Msgs |-> None] /\ kept = plain
    BY DEF Init
  <1>2. CachesAreNewest
    BY <1>1, OpenChats DEF CachesAreNewest, Cached
  <1>3. CopiesAreSound /\ PagesAreSingle /\ AnswersAreLogged
    BY <1>1, Nothing DEF CopiesAreSound, PagesAreSingle, Single, AnswersAreLogged
  <1>4. NoTwice /\ CopiesAreLogged
    BY <1>1, Nothing DEF NoTwice, CopiesAreLogged, Ids
  <1>5. PageHolds
    <2>1. sync.got.at = FALSE
      BY <1>1, Nothing
    <2> QED
      BY <2>1, Zenon DEF PageHolds
  <1> QED
    BY <1>2, <1>3, <1>4, <1>5, TypeInit DEF IInv

LEMMA NextTypes == ASSUME TypeOK, [Next]_vars PROVE TypeOK'
  <1>1. CASE UNCHANGED vars
    BY <1>1 DEF TypeOK, vars, server, thread, keys, requests, stream, spent
  <1>2. ASSUME NEW m \in Msgs, Post(m) \/ Edit(m) \/ OnMessage(m) \/ React(m) PROVE TypeOK'
    BY <1>2, PostTypes, EditTypes, OnMessageTypes, ReactTypes
  <1>3. ASSUME NEW m \in Mine, Send(m) \/ SendFails(m) PROVE TypeOK'
    BY <1>3, SendTypes, SendFailsTypes
  <1>4. ASSUME NEW c \in Chats, StartSync(c) \/ AskPreview(c) \/ Open(c) PROVE TypeOK'
    BY <1>4, StartSyncTypes, AskPreviewTypes, OpenTypes
  <1>5. ASSUME NEW a \in answers, Ingest(a) \/ Preview(a) PROVE TypeOK'
    BY <1>5, IngestTypes, PreviewTypes
  <1>6. CASE TimerFires \/ Disconnect \/ Reconnect \/ Fetch \/ FetchFails \/ ApplySync
    BY <1>6, TimerFiresTypes, DisconnectTypes, ReconnectTypes, FetchTypes, FetchFailsTypes, ApplySyncTypes
  <1>7. CASE AskOlder \/ ApplyOlder \/ LoadThread \/ ReadCached \/ ShowCached \/ Reload
    BY <1>7, AskOlderTypes, ApplyOlderTypes, LoadThreadTypes, ReadCachedTypes, ShowCachedTypes, ReloadTypes
  <1> QED
    BY <1>1, <1>2, <1>3, <1>4, <1>5, <1>6, <1>7 DEF Next

LEMMA NextKeeps == ASSUME IInv, [Next]_vars PROVE PagesAreSingle' /\ Readable' /\ Logged'
  <1>1. CASE UNCHANGED vars
    BY <1>1, QuietInvariant, AnswersLogged DEF vars, server, thread, keys, requests
  <1>2. ASSUME NEW m \in Msgs, Post(m) \/ Edit(m) \/ OnMessage(m) \/ React(m) PROVE PagesAreSingle' /\ Readable' /\ Logged'
    BY <1>2, PostKeeps, EditKeeps, OnMessageKeeps, ReactKeeps
  <1>3. ASSUME NEW m \in Mine, Send(m) \/ SendFails(m) PROVE PagesAreSingle' /\ Readable' /\ Logged'
    BY <1>3, SendKeeps, SendFailsKeeps
  <1>4. ASSUME NEW c \in Chats, StartSync(c) \/ AskPreview(c) \/ Open(c) PROVE PagesAreSingle' /\ Readable' /\ Logged'
    BY <1>4, StartSyncKeeps, AskPreviewKeeps, OpenKeeps
  <1>5. ASSUME NEW a \in answers, Ingest(a) \/ Preview(a) PROVE PagesAreSingle' /\ Readable' /\ Logged'
    BY <1>5, IngestKeeps, PreviewKeeps
  <1>6. CASE TimerFires \/ Disconnect \/ Reconnect \/ Fetch \/ FetchFails \/ ApplySync
    BY <1>6, TimerFiresKeeps, DisconnectKeeps, ReconnectKeeps, FetchKeeps, FetchFailsKeeps, ApplySyncKeeps
  <1>7. CASE AskOlder \/ ApplyOlder \/ LoadThread \/ ReadCached \/ ShowCached \/ Reload
    BY <1>7, AskOlderKeeps, ApplyOlderKeeps, LoadThreadKeeps, ReadCachedKeeps, ShowCachedKeeps, ReloadKeeps
  <1> QED
    BY <1>1, <1>2, <1>3, <1>4, <1>5, <1>6, <1>7 DEF Next

-----------------------------------------------------------------------------
(* What is proved.                                                         *)

(* The inductive invariant: types, one revision of a message in a page, the*)
(* newest text that was read in both caches, no outdated text in any copy  *)
(* of a thread, and copies and answers of what the server has              *)
(* (message-helpers.ts 142-207, 276-344).                                  *)
THEOREM Inductive == Spec => []IInv
  <1>1. IInv /\ [Next]_vars => IInv'
    <2>1. SUFFICES ASSUME IInv, [Next]_vars PROVE IInv'
      OBVIOUS
    <2>2. TypeOK'
      BY <2>1, NextTypes DEF IInv
    <2> QED
      BY <2>1, <2>2, NextKeeps DEF IInv, Readable, Logged
  <1> QED
    BY <1>1, InitKeeps, PTL DEF Spec

(* The type of every variable (message-helpers.ts 119-140).                *)
THEOREM TypeCorrect == Spec => []TypeOK
  <1>1. IInv => TypeOK
    BY DEF IInv
  <1> QED
    BY <1>1, Inductive, PTL

(* Without an overtaken answer a message shows the text of its revision,   *)
(* however often a key could be used (message-helpers.ts 142-159).         *)
THEOREM TextsAreCurrent == Spec => []ReadsItsRevision
  <1>1. IInv => ReadsItsRevision
    BY DEF IInv, CopiesAreSound, Sound, ReadsItsRevision
  <1> QED
    BY <1>1, Inductive, PTL

-----------------------------------------------------------------------------
(* What a step leaves in the thread.                                       *)

Undisturbed == moves' = moves /\ chat' = chat /\ reading' = reading
TakenBack(m) == m \in Mine /\ out'[m] # out[m] /\ out'[m] = "failed"

\* A sync keeps what its page lacks if it came later or waits to be sent.
LEMMA SyncKeepsShown ==
    ASSUME IInv, ApplySync, NEW m \in Msgs, Shown(m), Newer(m)
    PROVE  Shown(m)'
  <1> DEFINE P == Projected(sync.got.page, items)
             S == MergeSynced(sync.base, items, P)
  <1>1. sync.got.at /\ Replace(sync.chat, S)
    BY DEF ApplySync
  <1>2. CASE ref # sync.chat
    BY <1>1, <1>2 DEF Replace, Shown
  <1>3. CASE ref = sync.chat
    <2>1. items' = S
      BY <1>1, <1>3 DEF Replace
    <2>2. SUFFICES ASSUME m \notin Ids(P) PROVE \E i \in S : i.m = m
      BY <2>1 DEF Shown, Ids, MergeSynced
    <2>3. PICK i \in items : i.m = m
      BY DEF Shown
    <2>4. CASE i.opt
      BY <2>2, <2>3, <2>4 DEF MergeSynced
    <2>5. CASE ~i.opt
      <3>1. m \in Range(log)
        BY <2>3, <2>5 DEF IInv, CopiesAreLogged, Ids
      <3>2. m \in Newest(InChat(sync.chat))
        BY <1>3, <3>1 DEF Newer
      <3>3. m \notin Ids(sync.base)
        <4>1. SUFFICES ASSUME m \in Ids(sync.base) PROVE FALSE
          OBVIOUS
        <4>2. PICK x \in sync.got.page : x.m = m
          BY <1>1, <3>2, <4>1 DEF IInv, PageHolds
        <4> QED
          BY <2>2, <4>2, ProjectedIds DEF Ids
      <3>4. i \in LateArrivals(sync.base, items, P)
        BY <2>2, <2>3, <2>5, <3>3 DEF LateArrivals
      <3> QED
        BY <2>3, <3>4 DEF MergeSynced
    <2> QED
      BY <2>4, <2>5
  <1> QED
    BY <1>2, <1>3

LEMMA MergeKeepsShown ==
    ASSUME NEW S, NEW x, NEW i \in S
    PROVE  \E j \in Merge(S, x) : j.m = i.m
  BY DEF Merge

\* Only messages, pages, syncs and what the user does change the thread.
LEMMA ShownStays ==
    ASSUME IInv, [Next]_vars, Undisturbed, NEW m \in Msgs, Shown(m), Newer(m), ~TakenBack(m)
    PROVE  Shown(m)'
  <1> USE DEF Undisturbed
  <1>1. CASE items' = items
    BY <1>1 DEF Shown
  <1>2. ASSUME NEW a \in answers, Ingest(a) PROVE Shown(m)'
    <2>1. CASE ref # ChatOf[a.m]
      BY <1>1, <1>2, <2>1 DEF Ingest
    <2>2. CASE ref = ChatOf[a.m]
      <3>1. PICK x \in Projected({a}, items) : Replace(ref, Merge(items, x))
        BY <1>2, <2>2 DEF Ingest
      <3>2. items' = Merge(items, x)
        BY <3>1 DEF Replace
      <3> QED
        BY <3>2, MergeKeepsShown DEF Shown
    <2> QED
      BY <2>1, <2>2
  <1>3. CASE ApplySync
    BY <1>3, SyncKeepsShown
  <1>4. CASE ApplyOlder
    <2>1. CASE ref # older.chat
      BY <1>1, <1>4, <2>1 DEF ApplyOlder
    <2>2. CASE ref = older.chat
      BY <1>4, <2>2 DEF ApplyOlder, Replace, Shown
    <2> QED
      BY <2>1, <2>2
  <1>5. ASSUME NEW k \in Mine, Send(k) PROVE Shown(m)'
    <2>1. items' = Merge(items, Optimistic(k))
      BY <1>5 DEF Send, Replace
    <2> QED
      BY <2>1, MergeKeepsShown DEF Shown
  <1>6. ASSUME NEW k \in Mine, SendFails(k) PROVE Shown(m)'
    <2>1. out[k] = "sending" /\ out' = [out EXCEPT ![k] = "failed"] /\ Replace(ChatOf[k], {i \in items : i.m # k})
      BY <1>6 DEF SendFails
    <2>2. m # k
      BY <2>1 DEF TakenBack, IInv, TypeOK
    <2> QED
      BY <2>1, <2>2 DEF Replace, Shown
  <1>7. ~LoadThread
    BY DEF LoadThread
  <1>8. ~ShowCached
    BY DEF ShowCached, NotReading
  <1>9. ~Reload
    <2>1. moves \in Nat
      BY DEF IInv, TypeOK
    <2> QED
      BY <2>1 DEF Reload, Moves
  <1>10. ASSUME NEW k \in Msgs, Post(k) \/ Edit(k) \/ OnMessage(k) \/ React(k) PROVE Shown(m)'
    BY <1>1, <1>10 DEF Post, Edit, OnMessage, React, thread
  <1>11. ASSUME NEW c \in Chats, StartSync(c) \/ AskPreview(c) \/ Open(c) PROVE Shown(m)'
    BY <1>1, <1>11 DEF StartSync, AskPreview, Open, thread
  <1>12. ASSUME NEW a \in answers, Preview(a) PROVE Shown(m)'
    BY <1>1, <1>12 DEF Preview, thread
  <1>13. CASE TimerFires \/ Disconnect \/ Reconnect \/ Fetch \/ FetchFails \/ AskOlder \/ ReadCached
    BY <1>1, <1>13 DEF TimerFires, Disconnect, Reconnect, Fetch, FetchFails, AskOlder, ReadCached, thread
  <1>14. CASE UNCHANGED vars
    BY <1>1, <1>14 DEF vars, thread
  <1> QED
    BY <1>2, <1>3, <1>4, <1>5, <1>6, <1>7, <1>8, <1>9, <1>10, <1>11, <1>12, <1>13, <1>14 DEF Next

(* A newest message of the open thread does not vanish from it, whatever   *)
(* answers late (message-helpers.ts 276-344).                              *)
THEOREM NewestStayShown == Spec => StaysShown
  <1> DEFINE Keeps == Undisturbed => \A m \in Msgs : Shown(m) /\ Newer(m) /\ ~TakenBack(m) => Shown(m)'
  <1>1. IInv /\ [Next]_vars => [Keeps]_vars
    BY ShownStays
  <1>2. Keeps <=> (moves' = moves /\ chat' = chat /\ reading' = reading =>
          \A m \in Msgs :
              Shown(m) /\ Newer(m) /\ ~(m \in Mine /\ out'[m] # out[m] /\ out'[m] = "failed")
              => Shown(m)')
    BY DEF Undisturbed, TakenBack
  <1>3. Spec => [][Keeps]_vars
    <2> HIDE DEF Keeps
    <2> QED
      BY <1>1, Inductive, PTL DEF Spec
  <1> QED
    BY <1>2, <1>3, PTL DEF StaysShown
=============================================================================

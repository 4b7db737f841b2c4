------------------------------ MODULE MCClient ------------------------------
(* Thirteen parts of the web client's pages, for model checking in one    *)
(* run: the sessions between devices (extended here), drafts, groups, the  *)
(* typing indicator, the realtime hooks, the stores of a browser, backups, *)
(* profile photos, notifications, synced settings, the events of a call,   *)
(* attachments and links.  They do not interact; each is checked by itself,*)
(* and part says which moves.                                              *)
EXTENDS Sessions

CONSTANTS
    None, Chats, FirstChat,
    Texts, MaxKeys,
    Users, Me, Titles, MaxGroupActs,
    Typists, MaxTyping,
    MaxTokens, MaxOutages, MaxSent,
    OutRecords, MaxSaves, MaxOutCalls,
    Pages, LifetimeDays, ExpiryWarnDays, OverdueDays, LastHalfDay, MaxExports,
    Persons, Avatars, MaxShows,
    Notes, Own, MaxLooks,
    Options, MaxChanges,
    Peers, QueueLimit, DedupeWindow, CriticalWindow, RealtimeWindow, PollDelay, RoomMoves, MaxDrops,
    Files, Parts, MaxAttempts, MaxActs, MaxLosses, MaxTroubles,
    Servers, LinkAt, MaxUses, MaxAsks, MaxClicks

VARIABLES
    draftChat, composer, last, timer, ops, drafts, draftListed, sending, wrote, rushed, keys,
    groups, list, group, roster, title, load, reqs, refused, crossed, gActs,
    watched, shown, clears, visit, typist, wire, tActs,
    rt, net, callbacks, toks, subs, chat, hasty, outages,
    opening, dbThread, lsThread, lastSave, overtaken, cacheCalls, saves,
    dbOut, lsOut, outCalls, outBegun, queued, removed,
    halfDay, backup, copies, reminders, exporting, files, writer,
    pictured, photoCache, fetching, asked, failed, avatarOf, waits, resolved, drawn, loops,
    photoListed, photos, noPhoto, noPhotoTimer, shows,
    focused, granted, wanted, viewing, loaded, threads, items, known, first, told, seen, looks,
    heldSettings, storedSettings, fetched, syncTimer, syncs, serverSettings, chosen, latest,
    kept, changes,
    room, chan, poll, page, view, roomMoves, drops,
    open, rec, thumb, send, bubbles, up, stored, outbox, acts, losses, troubles,
    active, selected, scope, synced, picked, path, query, validating, listed, joined, uses,
    asks, clicks,
    part        \* the part that moves

D == INSTANCE Drafts WITH chat <- draftChat, listed <- draftListed
G == INSTANCE Groups
T == INSTANCE Typing WITH Start <- FirstChat
R == INSTANCE Realtime
S == INSTANCE Stores WITH Records <- OutRecords
B == INSTANCE Backups
P == INSTANCE Photos WITH Users <- Persons, listed <- photoListed
N == INSTANCE Notices
O == INSTANCE Settings
E == INSTANCE CallEvents WITH moves <- roomMoves, MaxMoves <- RoomMoves
A == INSTANCE Attachments WITH Start <- FirstChat, Sends <- Files
L == INSTANCE Navigation

ASSUME DraftsAssumption ==
    MaxKeys \in Nat /\ None \notin Chats /\ None \notin [chat: Chats, text: D!Text]
ASSUME StoresAssumption == MaxSaves \in Nat /\ MaxOutCalls \in Nat
ASSUME SettingsAssumption ==
    MaxChanges \in Nat /\ None \notin Devices /\ None \notin O!Partial
ASSUME BackupsAssumption ==
    Pages # {} /\ {LifetimeDays, ExpiryWarnDays, OverdueDays, LastHalfDay} \subseteq Nat
ASSUME GroupsAssumption ==
    /\ MaxGroupActs \in Nat /\ IsFiniteSet(Users) /\ Me \in Users /\ Titles # {}
    /\ None \notin Chats /\ None \notin G!Roles /\ None \notin G!Rosters /\ None \notin G!Loads
ASSUME TypingAssumption == FirstChat \in Chats /\ None \notin Chats
ASSUME RealtimeAssumption == MaxTokens \in Nat \ {0}
ASSUME PhotosAssumption == MaxShows \in Nat /\ Persons \cap {None, P!NoPhoto, P!Unknown} = {}
ASSUME NoticesAssumption == MaxLooks \in Nat /\ Notes \ Own # {} /\ None \notin Chats
ASSUME AttachmentsAssumption ==
    FirstChat \in Chats /\ None \notin Files /\ Parts \subseteq Nat /\ MaxAttempts \in Nat \ {0}
ASSUME NavigationAssumption ==
    LinkAt \in Servers /\ MaxUses \in Nat /\ MaxAsks \in Nat /\ MaxClicks \in Nat

drVars == <<draftChat, composer, last, timer, ops, drafts, draftListed, sending, wrote, rushed, keys>>
grVars == <<groups, list, group, roster, title, load, reqs, refused, crossed, gActs>>
tyVars == <<watched, shown, clears, visit, typist, wire, tActs>>
rtVars == <<rt, net, callbacks, toks, subs, chat, hasty, outages>>
stVars == <<opening, dbThread, lsThread, lastSave, overtaken, cacheCalls, saves,
            dbOut, lsOut, outCalls, outBegun, queued, removed>>
baVars == <<halfDay, backup, copies, reminders, exporting, files, writer>>
phVars == <<pictured, photoCache, fetching, asked, failed, avatarOf, waits, resolved, drawn, loops,
            photoListed, photos, noPhoto, noPhotoTimer, shows>>
noVars == <<focused, granted, wanted, viewing, loaded, threads, items, known, first, told, seen,
            looks>>
seVars == <<heldSettings, storedSettings, fetched, syncTimer, syncs, serverSettings, chosen, latest,
            kept, changes>>
evVars == <<room, chan, poll, page, view, roomMoves, drops>>
atVars == <<open, rec, thumb, send, bubbles, up, stored, outbox, acts, losses, troubles>>
navVars == <<active, selected, scope, synced, picked, path, query, validating, listed, joined, uses,
             asks, clicks>>
clientVars == <<vars, drVars, grVars, tyVars, rtVars, stVars, baVars, phVars, noVars, seVars, evVars,
                atVars, navVars, part>>

\* The message cache and the outbox of a browser are two parts: they share
\* only whether a database opens.
PartNames == {"sessions", "drafts", "groups", "typing", "realtime", "cache", "outbox", "backups",
              "photos", "notices", "settings", "events", "attachments", "navigation"}
Stored == part \in {"cache", "outbox"}

\* A part that does not move has one initial state.
ClientInit ==
    /\ part \in PartNames
    /\ Init /\ D!Init /\ T!Init /\ R!Init /\ B!Init
    /\ G!Init
    /\ \A c \in Chats, u \in Users \ {Me} :
          groups[c].roles[u] # None => part = "groups" /\ (c = FirstChat \/ G!Members(c) = {Me, u})
    /\ S!Init /\ (Stored \/ opening = "always")
    /\ (part = "cache" \/ \A c \in Chats : lsThread[c] = 0)
    /\ P!Init /\ (part = "photos" \/ pictured = {})
    /\ N!Init /\ (part = "notices" \/ (focused /\ \A c \in Chats : threads[c] = {}))
    /\ E!Init /\ (part = "events" \/ room.in = {})
    /\ A!Init
    /\ L!Init
    /\ (part = "navigation" \/ (active = L!NoChat /\ selected = LinkAt /\ path = None
                                /\ query = L!NoChat))
    /\ O!Init /\ (part = "settings" \/ storedSettings = [d \in Devices |-> O!Nothing])

\* A step of one part leaves the others alone.
InPart(name, step) ==
    /\ part = name /\ step /\ part' = part
    /\ IF name = "sessions" THEN TRUE ELSE UNCHANGED vars
    /\ IF name = "drafts" THEN TRUE ELSE UNCHANGED drVars
    /\ IF name = "groups" THEN TRUE ELSE UNCHANGED grVars
    /\ IF name = "typing" THEN TRUE ELSE UNCHANGED tyVars
    /\ IF name = "realtime" THEN TRUE ELSE UNCHANGED rtVars
    /\ IF name \in {"cache", "outbox"} THEN TRUE ELSE UNCHANGED stVars
    /\ IF name = "backups" THEN TRUE ELSE UNCHANGED baVars
    /\ IF name = "photos" THEN TRUE ELSE UNCHANGED phVars
    /\ IF name = "notices" THEN TRUE ELSE UNCHANGED noVars
    /\ IF name = "settings" THEN TRUE ELSE UNCHANGED seVars
    /\ IF name = "events" THEN TRUE ELSE UNCHANGED evVars
    /\ IF name = "attachments" THEN TRUE ELSE UNCHANGED atVars
    /\ IF name = "navigation" THEN TRUE ELSE UNCHANGED navVars

ClientNext ==
    \/ InPart("sessions", Next)
    \/ InPart("drafts", D!Next)
    \/ InPart("groups", G!Next)
    \/ InPart("typing", T!Next)
    \/ InPart("realtime", R!Next)
    \/ InPart("cache", S!CacheNext)
    \/ InPart("outbox", S!OutboxNext)
    \/ InPart("backups", B!Next)
    \/ InPart("photos", P!Next)
    \/ InPart("notices", N!Next)
    \/ InPart("settings", O!Next)
    \/ InPart("events", E!Next)
    \/ InPart("attachments", A!Next)
    \/ InPart("navigation", L!Next)

ClientSpec == ClientInit /\ [][ClientNext]_clientVars

-----------------------------------------------------------------------------
\* A part that does not move stays in an initial state, which the moving one has too.
Of(name, promise) == part = name => promise

\* What a page or a device keeps, it keeps, and uses as often as it may
\* (useDrafts.ts, message-cache.ts, outbox-queue.ts, useSettings.ts,
\* useBackupState.ts, signal-bridge.ts, useMediaCapture.ts): the database and the
\* sidebar have the drafts the user left, the next read of a chat gives the save
\* written last, a queued record stays until it is deleted and does not come
\* back, a choice stays on its device and reaches the server, a dismissed
\* reminder returns with the next band only and no changed file is imported, a
\* one-time key serves one session, for want of which alone a first message is
\* refused, and the lost parts of an upload are made up for, while a user who is
\* told of a failure makes no second message by trying again.
KeptOnDevice ==
    /\ Of("drafts", D!TypeOK /\ D!DraftsAreKept)
    /\ Of("cache", S!TypeOK /\ S!ReadsLatest)
    /\ Of("outbox", S!TypeOK /\ S!QueuedIsKept /\ S!DeletedStaysAway)
    /\ Of("settings", O!TypeOK /\ O!ChoicesStay /\ O!ServerHasLatest)
    /\ Of("backups", B!TypeOK /\ B!HoldersAgree /\ B!RemindsOncePerBand /\ B!OnlyWholeFiles)
    /\ Of("sessions", TypeOK /\ OneTimeKeysAreOneTime /\ OnlySpentAreRefused)
    /\ Of("attachments", A!TypeOK /\ A!LossesAreMadeUp /\ A!FailureIsTrue)

\* What a page shows of others is so (useGroupChat.ts, useTypingIndicator.ts,
\* realtime.ts, useProfilePhotos.ts, useNotifications.ts, App.tsx): roster,
\* title and offers are the server's after one action after the other, nobody is
\* shown as typing where he never typed and each new typist is timed, hooks,
\* status and thread follow the current socket, an avatar shows its own user's
\* photo, asked for once, no message is told of twice, and the page's requests
\* go to the server of the open chat, under which alone the chat is filed.
ShownIsTrue ==
    /\ Of("groups", G!TypeOK /\ G!PageAgrees /\ G!OffersAreGranted /\ G!OneOwner)
    /\ Of("typing", T!TypeOK /\ T!TypedHere /\ T!FreshIsTimed /\ T!StopFollows)
    /\ Of("realtime", R!TypeOK /\ R!HooksFollow /\ R!StatusIsSockets /\ R!CaughtUp)
    /\ Of("photos", P!TypeOK /\ P!AskedOnce /\ P!ShowsOwn /\ P!PhotosAppear)
    /\ Of("notices", N!TypeOK /\ N!ToldOnce)
    /\ Of("navigation", L!TypeOK /\ L!ScopeFollowsChat /\ L!FiledAtHome)

\* Each event of a call's room (useCall.ts) is handled though the channel lost it
\* or brought it twice, the view is the room's, and the page makes one offer when
\* the room asks for one.
EventsAreShown == Of("events", E!TypeOK /\ E!NothingIsLost /\ E!ViewIsRoom /\ E!OneOfferEach)

\* What was seen in focus is not told of later, and what arrives out of focus in
\* the open chat is told of at once (useNotifications.ts 44-99).
NoticesTell == N!SeenIsNotTold /\ N!NewIsTold
=============================================================================

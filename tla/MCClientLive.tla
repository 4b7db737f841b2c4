---------------------------- MODULE MCClientLive ----------------------------
(* Six parts of the web client that must come to an end, for model checking*)
(* in one run: the quality of a call (extended here) and its media, the    *)
(* events of its room, downloads, attachments, and links.  They do not     *)
(* interact; each is checked by itself, and part says which one moves.     *)
EXTENDS CallQuality

CONSTANTS
    Tracks, SenderIds, Streams, Slots, MostMedia,
    Peers, QueueLimit, DedupeWindow, CriticalWindow, RealtimeWindow, PollDelay, RoomMoves, MaxDrops,
    MaxConcurrent, MaxReady, MaxTaps,
    Chats, FirstChat, Files, Parts, MaxAttempts, MaxActs, MaxLosses, MaxTroubles,
    Servers, LinkAt, MaxUses, MaxAsks, MaxClicks

VARIABLES
    onCall, link, media, ops, queue, mediaMoves, faults, blurred,
    room, chan, poll, page, view, roomMoves, drops,
    dl, token, taps,
    open, rec, thumb, send, bubbles, up, stored, outbox, acts, losses, troubles,
    activeChat, selected, scope, synced, picked, path, query, validating, listed, joined, uses,
    asks, clicks,
    part        \* the part that moves

\* A sample of each recommendation, with every statistic the reason once.
Fine == [loss |-> 0, rtt |-> 40, jitter |-> None, rate |-> 100, reason |-> None]
Busy == [loss |-> 0, rtt |-> None, jitter |-> 10, rate |-> None, reason |-> "cpu"]
Slow == [loss |-> 20, rtt |-> 100, jitter |-> 10, rate |-> 300, reason |-> None]
Bad  == [loss |-> 0, rtt |-> 700, jitter |-> None, rate |-> None, reason |-> None]
All == {Fine, Busy, Slow, Bad}

\* The thread's attachments: what each is, and those that download by themselves.
Thread == <<"p", "v", "f", "q">>
Kind == [p |-> "photo", v |-> "voice", f |-> "file", q |-> "photo"]
Auto == {"p", "v", "q"}

M == INSTANCE CallMedia WITH call <- onCall, moves <- mediaMoves, Most <- MostMedia, Ids <- SenderIds
E == INSTANCE CallEvents WITH moves <- roomMoves, MaxMoves <- RoomMoves
D == INSTANCE Downloads
A == INSTANCE Attachments WITH Start <- FirstChat, Sends <- Files
N == INSTANCE Navigation WITH active <- activeChat

meVars == <<onCall, link, media, ops, queue, mediaMoves, faults, blurred>>
evVars == <<room, chan, poll, page, view, roomMoves, drops>>
dlVars == <<dl, token, taps>>
atVars == <<open, rec, thumb, send, bubbles, up, stored, outbox, acts, losses, troubles>>
navVars == <<activeChat, selected, scope, synced, picked, path, query, validating, listed, joined,
             uses, asks, clicks>>
liveVars == <<vars, meVars, evVars, dlVars, atVars, navVars, part>>

PartNames == {"quality", "media", "events", "downloads", "attachments", "navigation"}

\* The state a call is in once it has started and its client has connected,
\* with one move left.
InCall ==
    /\ active = TRUE /\ conn = TRUE /\ ice = "connected" /\ net \in Samples
    /\ profile = High /\ hyst = Calm /\ ind = "good" /\ polls = [p \in Polls |-> Idle]
    /\ status = "connected" /\ since = "none" /\ moves = MaxMoves - 1

\* A part that does not move has one initial state.
LiveInit ==
    /\ part \in PartNames
    /\ M!Init /\ D!Init /\ A!Init
    /\ \/ part = "quality" /\ (Init \/ InCall)
       \/ part # "quality" /\ Init /\ net = Fine
    /\ E!Init /\ (part = "events" \/ room.in = {})
    /\ N!Init
    /\ (part = "navigation" \/ (activeChat = N!NoChat /\ selected = LinkAt /\ path = None
                                /\ query = N!NoChat))

\* A step of one part leaves the others alone.
InPart(name, step) ==
    /\ part = name /\ step /\ part' = part
    /\ IF name = "quality" THEN TRUE ELSE UNCHANGED vars
    /\ IF name = "media" THEN TRUE ELSE UNCHANGED meVars
    /\ IF name = "events" THEN TRUE ELSE UNCHANGED evVars
    /\ IF name = "downloads" THEN TRUE ELSE UNCHANGED dlVars
    /\ IF name = "attachments" THEN TRUE ELSE UNCHANGED atVars
    /\ IF name = "navigation" THEN TRUE ELSE UNCHANGED navVars

LiveNext ==
    \/ InPart("quality", Next)
    \/ InPart("media", M!Next)
    \/ InPart("events", E!Next)
    \/ InPart("downloads", D!Next)
    \/ InPart("attachments", A!Next)
    \/ InPart("navigation", N!Next)

\* Requests end and are answered, the outbox is replayed, the open chat is
\* synced, pages render, a poll of the quality goes on.
Progress ==
    \/ InPart("quality", \E p \in Polls : PollStart(p) \/ PollReads(p) \/ PollApplied(p))
    \/ InPart("events", E!Answers \/ E!TimerFires \/ E!RealtimeEvent \/ \E d \in Peers : E!OnTrack(d))
    \/ InPart("downloads", \E r \in D!Runs : D!Ends(r))
    \/ InPart("attachments", A!Sync \/ \E s \in Files : A!Goes(s))
    \/ InPart("navigation", N!Render \/ \E i \in 1..MaxAsks : N!Ends(i))

\* The effects of a call run, and time passes.
Passing == InPart("quality", Sync) \/ InPart("events", E!Elapse)

\* Timers fire, and the room is polled.
Timers == InPart("quality", SixSeconds)
          \/ InPart("events", E!PollAsks \/ E!PollAnswered \/ E!Tick)

\* No more fairness than the parts' own specifications have: as part never
\* changes, each of the three is one condition on the part that moves.
LiveSpec ==
    /\ LiveInit /\ [][LiveNext]_liveVars
    /\ WF_liveVars(Progress) /\ WF_liveVars(Passing) /\ WF_liveVars(Timers)
    /\ M!Fairness

-----------------------------------------------------------------------------
\* A part that does not move stays in an initial state, which the moving one has too.
Of(name, promise) == part = name => promise

\* What must hold on the way (download-manager.ts, useCall.ts): no download slot
\* is lost for good and the ready downloads are bounded, and a call sends what it
\* shows: at rest the client sends the local stream's tracks and no other, a
\* muted page is silent, and every capture can still be stopped.  (MCClient has
\* what attachments and links keep.)
PartsAreSafe ==
    /\ Of("quality", TypeOK) /\ Of("events", E!TypeOK)
    /\ Of("media", M!TypeOK /\ M!SentIsShown /\ M!MutedIsSilent /\ M!NothingLeaks)
    /\ Of("downloads", D!TypeOK /\ D!SlotsComeBack /\ D!ReadyIsBounded)

\* What must come about: a call's profile recovers or falls back with its
\* connection and a loss is shown, the page stops changing its tracks, an offer
\* is answered, a queued download leaves the queue, what is sent is stored or the
\* user is told and its bubble goes, the open chat stays open and an invite
\* link leaves the address bar.
PartsEnd ==
    /\ Recovers /\ FallsBack /\ LossIsShown
    /\ M!Settles /\ E!OffersAreAnswered
    /\ D!QueueMoves /\ A!Settles /\ A!BubblesGo
    /\ N!OpenStays /\ N!LinkGoes
=============================================================================

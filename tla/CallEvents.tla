----------------------------- MODULE CallEvents -----------------------------
(* How a page in a call comes to know who else is in it: the room's media  *)
(* events, pushed on the call's channel and queued for the next poll as    *)
(* well, sorted out by age, handled to the media client, and its view of   *)
(* the others shown a few times a second.                                  *)
(*                                                                         *)
(* Time passes in steps of a second or so.  What the channel brings is     *)
(* there within one, a poll is answered within PollDelay; polls that take  *)
(* longer make the page offer twice.  The call, its client and the         *)
(* connection last (WebCall has their ends); TURN lists change nothing.    *)
EXTENDS Integers, Sequences, FiniteSets, SequencesExt

CONSTANTS
    Peers,              \* who else may come
    QueueLimit,         \* events the room keeps for a poll
    DedupeWindow,       \* steps an event counts as seen,
    CriticalWindow,     \* a critical one,
    RealtimeWindow,     \* and the channel as alive
    PollDelay,
    MaxMoves, MaxDrops  \* what the others do, and losses of the channel

VARIABLES
    room,       \* the server: who is there, who publishes, the negotiation, the events;
                \* history: offers asked for, whether a peer came back in a hurry, and
                \* the events that were still under way when their peer left
    chan,       \* the channel: whether it is joined, what is on its way, who is offered
    poll,       \* syncMembraneWebRtcQueue
    page,       \* the page's refs and its media client; history: what was handled,
                \* whether an answer was set aside that alone held an event, and
                \* whether one overtook the channel
    view,       \* the state that is shown, and its throttle
    moves, drops

evVars == <<room, chan, poll, page, view, moves, drops>>

Never == 9
Nobody == [ends |-> {}, ready |-> {}]

\* Those who are there already were told with the client's connection.
Init ==
    /\ \E there \in SUBSET Peers :
          /\ room = [in |-> there, pub |-> {}, nego |-> "idle", queue |-> <<>>,
                     sent |-> 0, asked |-> 0, hurried |-> FALSE, moot |-> {}]
          /\ page = [seen |-> <<>>, critical |-> <<>>, rt |-> Never, ends |-> there, tracks |-> {},
                     mapped |-> {}, media |-> [d \in Peers |-> "none"], sig |-> "stable",
                     offers |-> 0, handled |-> {}, aside |-> FALSE, overtaken |-> FALSE]
          /\ view = [shown |-> [Nobody EXCEPT !.ends = there], held |-> Nobody, timer |-> FALSE,
                     recent |-> FALSE]
    /\ chan = [up |-> TRUE, wire |-> <<>>, posts |-> 0]
    /\ poll = [at |-> "due", wait |-> 0, answer |-> <<>>]
    /\ moves = 0 /\ drops = 0

-----------------------------------------------------------------------------
(* The room.                                                               *)

Ids(events) == {e.id : e \in events}

\* push_outbound_media_event and maybe_broadcast_media_event.
Kept(q) == IF Len(q) > QueueLimit THEN Tail(q) ELSE q

Emit(r, c, kinds, d) ==
    LET events == [i \in 1 .. Len(kinds) |->
            [id |-> r.sent + i, kind |-> kinds[i], dev |-> d,
             maps |-> IF kinds[i] = "answer" THEN r.pub ELSE {}]]
    IN  /\ room' = [r EXCEPT !.sent = @ + Len(kinds),
                            !.asked = @ + Cardinality({i \in 1 .. Len(kinds) : kinds[i] = "offerData"}),
                            !.queue = FoldLeft(LAMBDA q, e : Kept(Append(q, e)), @, events)]
        /\ chan' = [c EXCEPT !.wire = IF c.up THEN @ \o events ELSE @]

Moves == moves < MaxMoves /\ moves' = moves + 1 /\ UNCHANGED <<poll, page, view, drops>>

Events == Range(chan.wire) \cup Range(room.queue) \cup Range(poll.answer)
Hurry(d) == \/ \E e \in Events : e.dev = d
            \/ \E i \in DOMAIN page.seen : page.seen[i].key.dev = d

Comes(d) ==
    /\ Moves /\ d \notin room.in
    /\ Emit([room EXCEPT !.in = @ \cup {d}, !.hurried = @ \/ Hurry(d)], chan, <<"endpointAdded">>, d)

\* The engine negotiates once at a time; who publishes meanwhile waits.
Publishes(d) ==
    /\ Moves /\ d \in room.in \ room.pub /\ room.nego = "idle"
    /\ Emit([room EXCEPT !.pub = @ \cup {d}, !.nego = "offered"], chan, <<"tracksAdded", "offerData">>, d)

Leaves(d) ==
    /\ Moves /\ d \in room.in
    /\ Emit([room EXCEPT !.in = @ \ {d}, !.pub = @ \ {d},
                 !.moot = @ \cup Ids({e \in Events : e.dev = d /\ e.kind # "offerData"})],
            chan, <<"endpointRemoved">>, d)

Answers ==
    /\ chan.posts > 0
    /\ Emit([room EXCEPT !.nego = "idle"], [chan EXCEPT !.posts = @ - 1], <<"answer">>, "own")
    /\ UNCHANGED <<poll, page, view, moves, drops>>

\* The channel is left and joined again, what was on its way is lost.
Drop ==
    /\ drops < MaxDrops /\ chan.up /\ drops' = drops + 1
    /\ chan' = [chan EXCEPT !.up = FALSE, !.wire = <<>>]
    /\ page' = [page EXCEPT !.aside = @ \/
          ~(Ids(Range(chan.wire)) \subseteq page.handled \cup Ids(Range(room.queue) \cup Range(poll.answer)))]
    /\ UNCHANGED <<room, poll, view, moves>>

Rejoin ==
    /\ ~chan.up /\ chan' = [chan EXCEPT !.up = TRUE]
    /\ UNCHANGED <<room, poll, page, view, moves, drops>>

-----------------------------------------------------------------------------
(* The view: syncRemoteState after each event the client emits, thrown away*)
(* but for the last within REMOTE_STATE_THROTTLE_MS.                       *)

State(p) == [ends |-> p.ends, ready |-> {d \in p.tracks : p.media[d] = "ready"}]

Held(v, s) == [v EXCEPT !.held = s, !.timer = TRUE]
Schedule(v, s) ==
    IF v.recent THEN Held(v, s)
    ELSE [shown |-> s, held |-> Nobody, timer |-> FALSE, recent |-> TRUE]

Elapse ==
    /\ view.recent /\ view' = [view EXCEPT !.recent = FALSE]
    /\ UNCHANGED <<room, chan, poll, page, moves, drops>>

TimerFires ==
    /\ view.timer /\ ~view.recent
    /\ view' = [shown |-> view.held, held |-> Nobody, timer |-> FALSE, recent |-> TRUE]
    /\ UNCHANGED <<room, chan, poll, page, moves, drops>>

-----------------------------------------------------------------------------
(* One event on the media client.                                          *)

NoPending(p) == p
\* applyPendingTracks: media that came before its track was known.
ApplyPending(p) ==
    [p EXCEPT !.media = [d \in Peers |->
        IF @[d] = "pending" /\ d \in p.mapped \cap p.tracks THEN "ready" ELSE @[d]]]

Synced(s) == LET p == ApplyPending(s.page) IN [s EXCEPT !.page = p, !.view = Schedule(@, State(p))]

\* receiveMediaEvent; what is known of a peer begins again with endpointAdded.
Receive(s, e) ==
    CASE e.kind = "endpointAdded" ->
            Synced([s EXCEPT !.page.ends = @ \cup {e.dev}, !.page.tracks = @ \ {e.dev}])
      [] e.kind = "tracksAdded" ->
            Synced([s EXCEPT !.page.tracks = @ \cup {e.dev}])
      [] e.kind = "endpointRemoved" ->
            Synced([s EXCEPT !.page.ends = @ \ {e.dev}, !.page.tracks = @ \ {e.dev},
                             !.page.media[e.dev] = "none"])
      [] e.kind = "offerData" ->
            [s EXCEPT !.page.sig = "offering", !.page.offers = @ + 1, !.posts = @ + 1]
      [] e.kind = "answer" ->
            [s EXCEPT !.page.sig = "stable", !.page.mapped = e.maps,
                      !.page.media = [d \in Peers |-> IF d \in e.maps /\ @[d] = "none"
                                                      THEN "arriving" ELSE @[d]]]

\* installSafeOnTrackHandler: with its track known the media is shown.
OnTrack(d) ==
    LET p == [page EXCEPT !.media[d] = IF d \in page.mapped \cap page.tracks THEN "ready" ELSE "pending"]
        s == Synced([page |-> p, view |-> view, posts |-> 0])
    IN  /\ page.media[d] = "arriving"
        /\ IF p.media[d] = "ready" THEN page' = s.page /\ view' = s.view
           ELSE page' = p /\ view' = view
        /\ UNCHANGED <<room, chan, poll, moves, drops>>

-----------------------------------------------------------------------------
(* handleMembraneQueueBatch.                                               *)

Critical(e) == e.kind \in {"offerData", "answer"}
KeyOfKind(e) == [kind |-> e.kind, dev |-> "own", n |-> 0]
\* normalizeMembraneEventKey: the event's whole text.  No two answers are
\* alike, and an offer is asked for the number of all tracks there were.
Key(e) == [kind |-> e.kind, dev |-> e.dev, n |-> IF Critical(e) THEN e.id ELSE 0]

Age(ages, e) ==
    LET of == SelectSeq(ages, LAMBDA a : a.key = Key(e))
    IN  IF of = <<>> THEN Never ELSE Last(of).age
Mark(ages, e) == Append(SelectSeq(ages, LAMBDA a : a.key # Key(e)), [key |-> Key(e), age |-> 0])

SeenRecently(p, e) == Age(p.seen, e) <= DedupeWindow
SkipNone(p, e) == FALSE
SkipPolled(p, e) == Age(p.critical, e) <= CriticalWindow
Fresh(p, e, source) ==
    IF Critical(e) THEN ~(source = "poll" /\ SkipPolled(p, e)) ELSE ~SeenRecently(p, e)

StaleSwapped(p, e) == e.kind = "answer" /\ p.sig # "stable"
Stale(p, e) ==
    \/ e.kind = "answer" /\ p.sig = "stable"
    \/ e.kind = "endpointRemoved" /\ e.dev \notin p.ends

\* The client throws on the tracks of a peer it does not know.
Throws(p, e) == e.kind = "tracksAdded" /\ e.dev \notin p.ends

Noted(s, e, source) ==
    IF Critical(e) /\ source = "channel" THEN [s EXCEPT !.page.critical = Mark(@, e)] ELSE s

\* What throws is not marked as seen.
Apply(s, e) ==
    IF Stale(s.page, e)
    THEN [s EXCEPT !.page.seen = Mark(@, e), !.page.handled = @ \cup {e.id}]
    ELSE IF Throws(s.page, e) THEN s
    ELSE LET t == Receive(s, e)
         IN  [t EXCEPT !.page.seen = Mark(@, e), !.page.handled = @ \cup {e.id}]

\* The events are sifted first and handled afterwards.
Batch(s, events, source) ==
    LET fresh == SelectSeq(events, LAMBDA e : Fresh(s.page, e, source))
        noted == FoldLeft(LAMBDA t, e : Noted(t, e, source), s, fresh)
    IN  FoldLeft(Apply, noted, fresh)

Handle(p, events, source) ==
    LET s == Batch([page |-> p, view |-> view, posts |-> chan.posts], events, source)
    IN  page' = s.page /\ view' = s.view /\ chan' = [chan EXCEPT
            !.posts = s.posts, !.wire = IF source = "channel" THEN Tail(@) ELSE @]

RealtimeEvent ==
    /\ chan.wire # <<>> /\ Handle([page EXCEPT !.rt = 0], <<Head(chan.wire)>>, "channel")
    /\ UNCHANGED <<room, poll, moves, drops>>

-----------------------------------------------------------------------------
(* The poll, every second unless one is in flight.                         *)

PollAsks ==
    /\ poll.at = "due" /\ poll' = [at |-> "answered", wait |-> 0, answer |-> room.queue]
    /\ room' = [room EXCEPT !.queue = <<>>]
    /\ UNCHANGED <<chan, page, view, moves, drops>>

ChannelAlive(p) == p.rt <= RealtimeWindow

\* An answer that comes while the channel is alive is set aside, all of it.
PollAnswered ==
    /\ poll.at = "answered" /\ poll' = [at |-> "idle", wait |-> 0, answer |-> <<>>]
    /\ IF ChannelAlive(page)
       THEN /\ page' = [page EXCEPT !.aside = @ \/
                  ~(Ids(Range(poll.answer)) \subseteq page.handled \cup Ids(Range(chan.wire)))]
            /\ UNCHANGED <<view, chan>>
       ELSE Handle([page EXCEPT !.overtaken = @ \/ Ids(Range(poll.answer)) \cap Ids(Range(chan.wire)) # {}],
                   poll.answer, "poll")
    /\ UNCHANGED <<room, moves, drops>>

Older(ages) == SelectSeq([i \in DOMAIN ages |-> [ages[i] EXCEPT !.age = @ + 1]],
                         LAMBDA a : a.age <= CriticalWindow)

Tick ==
    /\ chan.wire = <<>> /\ poll.at # "due" /\ poll.wait < PollDelay
    /\ page' = [page EXCEPT !.seen = SelectSeq(Older(@), LAMBDA a : a.age <= DedupeWindow),
                            !.critical = Older(@),
                            !.rt = IF @ > RealtimeWindow THEN Never ELSE @ + 1]
    /\ poll' = IF poll.at = "idle" THEN [poll EXCEPT !.at = "due"] ELSE [poll EXCEPT !.wait = @ + 1]
    /\ UNCHANGED <<room, chan, view, moves, drops>>

-----------------------------------------------------------------------------
Next ==
    \/ \E d \in Peers : Comes(d) \/ Publishes(d) \/ Leaves(d) \/ OnTrack(d)
    \/ Answers \/ Drop \/ Rejoin \/ Elapse \/ TimerFires \/ RealtimeEvent
    \/ PollAsks \/ PollAnswered \/ Tick

Spec == Init /\ [][Next]_evVars

\* What is sent arrives or is lost, polls are answered, time passes.
FairSpec ==
    /\ Spec /\ WF_evVars(Answers) /\ WF_evVars(Elapse) /\ WF_evVars(TimerFires)
    /\ WF_evVars(RealtimeEvent) /\ WF_evVars(PollAsks) /\ WF_evVars(PollAnswered)
    /\ WF_evVars(Tick) /\ \A d \in Peers : WF_evVars(OnTrack(d))

-----------------------------------------------------------------------------
\* The type of every variable; the room's queue and the ages are bounded.
TypeOK ==
    /\ room.pub \subseteq room.in /\ room.in \subseteq Peers /\ Len(room.queue) <= QueueLimit
    /\ room.nego \in {"idle", "offered"} /\ {room.hurried, chan.up} \subseteq BOOLEAN
    /\ poll.at \in {"idle", "due", "answered"} /\ poll.wait \in 0 .. PollDelay
    /\ page.sig \in {"stable", "offering"} /\ page.ends \cup page.tracks \subseteq Peers
    /\ page.media \in [Peers -> {"none", "arriving", "pending", "ready"}]
    /\ \A i \in DOMAIN page.seen : page.seen[i].age <= DedupeWindow
    /\ view.shown.ready \subseteq Peers /\ {view.timer, view.recent} \subseteq BOOLEAN

\* Nothing is under way.
Rest ==
    /\ chan.up /\ Events = {} /\ chan.posts = 0 /\ room.nego = "idle" /\ ~view.timer
    /\ \A d \in Peers : page.media[d] # "arriving"

Lost == (1 .. room.sent) \ (page.handled \cup room.moot \cup Ids(Events))

\* An event is handled although the channel lost it, or what came twice was
\* sorted out, unless its peer left meanwhile: it is lost only if a poll's answer that alone held it was set
\* aside, or a peer came back before his last events were forgotten.
NothingIsLost == ~page.aside /\ ~room.hurried => Lost = {}

\* With nothing lost and nobody back in a hurry, a page at rest shows who is
\* in the room and the media of all who publish: no late copy of an event
\* brings back what has gone, no media waits for its track, the last state is
\* not thrown away.
ViewIsRoom ==
    Rest /\ Lost = {} /\ ~room.hurried => view.shown = [ends |-> room.in, ready |-> room.pub]

\* The page makes one offer when the room asks for one, though it is asked
\* on the channel and in the poll's answer, unless the poll was the first.
OneOfferEach == ~page.overtaken => page.offers <= room.asked

\* An offer is answered, unless its events are lost.
OffersAreAnswered == []<>(page.sig = "stable" \/ page.aside)
=============================================================================

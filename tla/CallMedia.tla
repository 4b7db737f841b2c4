----------------------------- MODULE CallMedia -----------------------------
(* What a page in a call captures and what it sends: the local stream, the *)
(* tracks in it, the senders of the media client, and the bindings in      *)
(* which the page keeps which sender carries which track.  Every handler   *)
(* waits for the browser or the client between reading these and writing   *)
(* them, and only one of the handlers waits for another.                   *)
(*                                                                         *)
(* The media state is one record; the operators on it are the hook's       *)
(* helpers.  Tracks, senders and streams are numbered; 0 is none.          *)
EXTENDS Naturals, Sequences, FiniteSetsExt

CONSTANTS
    Tracks, Ids, Streams,  \* 1..n each: captures, senders, stream objects
    Slots,                 \* handlers and effects on their way
    Most                   \* clicks, links lost and refused devices, in all

VARIABLES
    call,   \* whether the page shows an active call
    link,   \* the media client: c, its number, and mut, whether its connection takes changes
    media,  \* see NoMedia
    ops,    \* what each slot does
    queue,  \* the slots whose call waits at the client, in order
    moves, faults,
    blurred \* whether a binding may name a sender of another track: tracks were
            \* changed while the client took no change, a screen was shared, or a new
            \* stream was refused, or asked for while another handler or effect waited

vars == <<call, link, media, ops, queue, moves, faults, blurred>>

Kinds == {"audio", "video"}
NoTrack == [kind |-> "none", ph |-> FALSE, live |-> FALSE, on |-> FALSE]
NoBind == [id |-> 0, track |-> 0, ph |-> FALSE]
NoBinds == [k \in Kinds |-> NoBind]
NoMedia == [
    trk |-> [t \in Tracks |-> NoTrack],    \* what is captured (ph: a black canvas)
    obj |-> [s \in Streams |-> {}],        \* the tracks of each stream object
    cur |-> 0,                             \* localMediaStreamRef
    canvas |-> 0,                          \* the placeholder whose cleanup is kept
    bind |-> NoBinds,                      \* membraneLocalTrackBindingsRef
    snd |-> {},                            \* the client's senders
    src |-> [k \in Kinds |-> "none"],      \* localAudioSource, localVideoSource
    muted |-> TRUE,
    share |-> {}, screen |-> 0]            \* screenShareTrackIdsRef, the screen's track
Idle == [by |-> "none", at |-> "idle", c |-> 0, mut |-> FALSE, sid |-> 0, id |-> 0,
         k |-> "none", old |-> {}, ts |-> {}, again |-> FALSE]

Init ==
    /\ call = FALSE /\ link = [c |-> 0, mut |-> FALSE] /\ media = NoMedia
    /\ ops = [s \in Slots |-> Idle] /\ queue = <<>> /\ moves = 0 /\ faults = 0
    /\ blurred = FALSE

-----------------------------------------------------------------------------
(* The helpers.                                                            *)

Of(m, S, k) == {t \in S : m.trk[t].kind = k}
The(m, S, k) == IF Of(m, S, k) = {} THEN 0 ELSE Min(Of(m, S, k))
Now(m, k) == IF m.cur = 0 THEN 0 ELSE The(m, m.obj[m.cur], k)
Snaps(m, k) == {x \in m.snd : x.kind = k}
Name(ph) == IF ph THEN "placeholder" ELSE "browser"
Stop(m, S) == [m EXCEPT !.trk = [t \in Tracks |-> [@[t] EXCEPT !.live = @ /\ t \notin S]]]
First(X) == CHOOSE x \in X : \A y \in X : x.id <= y.id
Either(X, Y) == First(IF X = {} THEN Y ELSE X)

\* Of two tracks of a kind the one that is bound, sent, real, enabled stays.
Score(m, t) ==
    LET k == m.trk[t].kind
        Pts(b, n) == IF b THEN n ELSE 0
    IN  Pts(m.bind[k].track = t, 100) + Pts(\E x \in Snaps(m, k) : x.track = t, 80)
            + Pts(~m.trk[t].ph, 40) + Pts(m.trk[t].on, 10)
Best(m, C) ==
    CHOOSE t \in C : \A u \in C \ {t} :
        Score(m, t) > Score(m, u) \/ (Score(m, t) = Score(m, u) /\ t <= u)
Kept(m, S) == {Best(m, Of(m, S, k)) : k \in {j \in Kinds : Of(m, S, j) # {}}}

\* Mutant: the binding follows the track whatever is sent.
Renamed(m, K, k) == [m.bind[k] EXCEPT !.track = The(m, K, k)]
\* Mutant: a canvas counts as a camera.
Real(m, t, said) == FALSE
Black(m, t, said) == said \/ m.trk[t].ph

\* A kept track keeps its binding; else the sender that fits best is its own.
Bound(m, K, k) ==
    LET t == The(m, K, k)
        own == {x \in Snaps(m, k) : x.track = t}
        like == {x \in Snaps(m, k) : x.src = Name(m.trk[t].ph)}
    IN  IF t = 0 THEN NoBind
        ELSE IF m.bind[k].track = t THEN [m.bind[k] EXCEPT !.ph = Black(m, t, @)]
        ELSE IF Snaps(m, k) = {} THEN NoBind
        ELSE LET x == Either(own, IF like = {} THEN Snaps(m, k) ELSE like)
             IN  [id |-> x.id, track |-> t, ph |-> Black(m, t, x.src = "placeholder")]

Normal(m, s) ==
    IF s = 0 THEN [m EXCEPT !.bind = NoBinds]
    ELSE LET K == Kept(m, m.obj[s])
         IN  [Stop(m, m.obj[s] \ K) EXCEPT !.obj[s] = K,
                 !.bind = [k \in Kinds |-> Bound(m, K, k)]]

\* What the page shows of track t, and of a stream.
Source(m, k, t) ==
    IF t = 0 THEN "none"
    ELSE Name(IF m.bind[k].id # 0 THEN m.bind[k].ph ELSE m.trk[t].ph)
Shown(m, s) ==
    [m EXCEPT !.src = [k \in Kinds |-> Source(m, k, IF s = 0 THEN 0 ELSE The(m, m.obj[s], k))]]
Show(m, s) == Shown(Normal(m, s), s)

\* Mutant: the tracks keep what the browser gave them.
Unmuted(m, s) == m
Mute(m, s) ==
    IF s = 0 THEN m
    ELSE [m EXCEPT !.trk = [t \in Tracks |-> [@[t] EXCEPT !.on =
             IF t \in Of(m, m.obj[s], "audio") THEN ~m.muted ELSE @]]]

\* Senders of a kind beyond the one that carries the active track.
Surplus(m) ==
    LET Extra(k) ==
            LET X == Snaps(m, k)
                own == {x \in X : x.track = Now(m, k) /\ x.track # 0}
                real == {x \in X : x.src = "browser"}
            IN  IF Cardinality(X) <= 1 THEN {}
                ELSE X \ {Either(own, IF real = {} THEN X ELSE real)}
    IN  UNION {Extra(k) : k \in Kinds}

-----------------------------------------------------------------------------
(* ensureLocalSenderIntegrity: its results are what becomes of the media   *)
(* and of the slot that runs it.                                           *)

Then(m, op) == [m |-> m, op |-> op]
Done(m) == Then(m, Idle)

\* Every active track has a binding: the one there is, or a sender's.
Written(m, ts) ==
    LET Rule(k) ==
            LET t == The(m, ts, k)
                own == {x \in Snaps(m, k) : x.track = t}
            IN  IF t = 0 \/ (m.bind[k].id = 0 /\ Snaps(m, k) = {}) THEN NoBind
                ELSE [id |-> IF m.bind[k].id # 0 THEN m.bind[k].id
                             ELSE Either(own, Snaps(m, k)).id,
                      track |-> t, ph |-> m.trk[t].ph]
    IN  [m EXCEPT !.bind = [k \in Kinds |-> Rule(k)]]

Unsent(m, ts) == {t \in ts : LET k == m.trk[t].kind IN m.bind[k].id = 0 /\ Snaps(m, k) = {}}

\* The rest of the check, once surplus senders are gone: once more, if need be.
Recheck(n, r) ==
    IF r.again /\ (Surplus(n) # {} \/ Unsent(n, n.obj[r.sid]) # {})
    THEN Then(n, [r EXCEPT !.at = "again", !.again = FALSE])
    ELSE Done(n)
Rest(m, r) ==
    IF Unsent(m, r.ts) # {} /\ link.mut THEN Then(m, [r EXCEPT !.at = "join"])
    ELSE Recheck(Show(Written(m, r.ts), r.sid), r)

Sift(n, r) ==
    IF Surplus(n) # {} THEN Then(n, [r EXCEPT !.at = "prune"]) ELSE Rest(n, r)
Checked(n, r) ==
    IF n.cur = 0 \/ link.c = 0 THEN Done(n)
    ELSE Sift(n, [r EXCEPT !.sid = n.cur, !.ts = {Now(n, k) : k \in Kinds} \ {0}, !.c = link.c])
Check(m, r) == Checked(Normal(m, m.cur), r)

\* Mutant: no check follows.
Settled(m, r) == Done(Show(Mute([m EXCEPT !.cur = r.sid], r.sid), r.sid))
\* What every handler ends with: stream r.sid is the local stream.
Settle(m, r) ==
    LET n == [m EXCEPT !.cur = r.sid]
    IN  Check(Show(Mute(n, r.sid), r.sid), [r EXCEPT !.again = TRUE])

\* The client does what it is called for in order.
AtClient == {"prune", "join", "swap", "add", "drop", "mend"}
Goes(s, x) ==
    /\ media' = x.m /\ ops' = [ops EXCEPT ![s] = x.op]
    /\ LET others == SelectSeq(queue, LAMBDA t : t # s)
       IN  queue' = IF x.op.at \in AtClient THEN Append(others, s) ELSE others
Turn(s) ==
    \/ ops[s].c # link.c
    \/ \A i \in DOMAIN queue : queue[i] = s =>
          \A j \in 1 .. i - 1 : ops[queue[j]].c # link.c
Free(s) == ops[s] = Idle /\ \A t \in Slots : t < s => ops[t] # Idle
By(name) == \E s \in Slots : ops[s].by = name
CanChange == link.c # 0 /\ link.mut
Budget == moves + faults < Most
Clicks == call /\ Budget /\ moves' = moves + 1 /\ UNCHANGED <<call, link, faults>>
Fault == Budget /\ faults' = faults + 1
Unspent == UNCHANGED <<call, link, moves, faults>>
Skips(b) ==
    blurred' = (blurred \/ (b /\ link.c # 0) \/ \E t \in Slots :
                    ops[t].at \in {"drop", "askNew"} \/ (ops[t].at = "add" /\ ops[t].by # "sync"))

Prune(s) ==
    LET r == ops[s]
        gone == IF r.c = link.c THEN Surplus([media EXCEPT !.cur = r.sid]) ELSE {}
    IN  /\ r.at = "prune" /\ Turn(s) /\ Unspent /\ UNCHANGED blurred
        /\ Goes(s, Rest([media EXCEPT !.snd = @ \ gone], r))

Again(s) ==
    /\ ops[s].at = "again" /\ Unspent /\ UNCHANGED blurred
    /\ Goes(s, Check(media, ops[s]))

\* New senders for the tracks ts, under any names.
NewIds(n) ==
    LET named == {x.id : x \in media.snd} \cup {media.bind[k].id : k \in Kinds}
                    \cup {ops[s].id : s \in Slots} \cup media.share
    IN  {I \in SUBSET (Ids \ named) : Cardinality(I) = n}
Senders(m, ts, f) ==
    {[id |-> f[t], kind |-> m.trk[t].kind, src |-> Name(m.trk[t].ph), track |-> t] : t \in ts}
Takes(r, ts) == r.c = link.c /\ \A t \in ts : \A x \in media.snd : x.track # t
Adding(ts) == {f \in [ts -> Ids] : {f[t] : t \in ts} \in NewIds(Cardinality(ts))}

Join(s) ==
    LET r == ops[s]
        ts == Unsent(media, r.ts)
    IN  /\ r.at = "join" /\ Turn(s) /\ Unspent /\ UNCHANGED blurred
        /\ IF Takes(r, ts)
           THEN \E f \in Adding(ts) :
                    Goes(s, Rest([media EXCEPT !.snd = @ \cup Senders(media, ts, f)], r))
           ELSE Goes(s, Done(media))

-----------------------------------------------------------------------------
(* Microphone and camera.                                                  *)

Unused == {t \in Tracks : media.trk[t].kind = "none"}
New(k, ph) == [kind |-> k, ph |-> ph, live |-> TRUE, on |-> TRUE]
Capture(m, t, k) == [m EXCEPT !.trk[t] = New(k, FALSE)]

\* A new canvas; the one before it stops.
Canvas(m, t) == [Stop(m, {m.canvas}) EXCEPT !.trk[t] = New("video", TRUE), !.canvas = t]

\* Mutant: the track that is replaced is not stopped.
Replaced(m, r, t) == [m EXCEPT !.obj[r.sid] = (@ \ r.old) \cup {t}]
Replace(m, r, t) == [Stop(m, r.old) EXCEPT !.obj[r.sid] = (@ \ r.old) \cup {t}]

\* Track t takes the place of r.old; a camera also ends the canvas.
Swapped(m, r, t) ==
    LET n == Replace(m, r, t)
    IN  Settle(IF r.by = "attach" /\ ~m.trk[t].ph
               THEN [Stop(n, {m.canvas}) EXCEPT !.canvas = 0] ELSE n, r)

\* A new stream for the old one, if any: replaceLocalMediaStream.
Anew(s, n, r) ==
    /\ IF n.cur # 0 /\ r.mut THEN Goes(s, Then(n, [r EXCEPT !.at = "drop"]))
       ELSE Goes(s, Then(IF n.cur = 0 THEN n ELSE Stop(n, n.obj[n.cur]),
                         [r EXCEPT !.at = "askNew"]))
    /\ blurred' = (blurred \/ (link.c # 0 /\ ~r.mut) \/ By("attach") \/ By("switch"))

\* The toggle's handler, in its cases; mode says whether video is wanted.
Attach(s, mode) ==
    LET n == Normal(media, media.cur)
        has(k) == Now(n, k) # 0
        black == n.bind["video"].id # 0 /\ n.bind["video"].ph
        r == [Idle EXCEPT !.by = "attach", !.mut = CanChange, !.sid = n.cur,
                          !.c = link.c, !.k = mode]
        video == [r EXCEPT !.k = "video", !.id = n.bind["video"].id]
    IN  /\ Clicks /\ Free(s) /\ ~By("attach")
        /\ \/ /\ n.cur # 0
              /\ \/ mode = "audio" /\ has("audio") /\ (~has("video") \/ black)
                 \/ mode = "video" /\ has("audio") /\ has("video") /\ ~black
                 \/ mode = "audio" /\ has("video") /\ black
              /\ Goes(s, Settle(n, r)) /\ Skips(FALSE)
           \/ /\ n.cur # 0 /\ mode = "audio" /\ has("video") /\ ~black
              /\ Unused # {}
              /\ LET t == Min(Unused)
                     q == [video EXCEPT !.old = {Now(n, "video")}, !.ts = {t}, !.at = "swap"]
                 IN  IF r.mut /\ video.id # 0
                     THEN Goes(s, Then(Canvas(n, t), q)) /\ Skips(FALSE)
                     ELSE Goes(s, Swapped(Canvas(n, t), q, t)) /\ Skips(TRUE)
           \/ /\ n.cur # 0 /\ mode = "video" /\ has("video") /\ black
              /\ Goes(s, Then(n, [video EXCEPT !.at = "askSwap"])) /\ Skips(FALSE)
           \/ /\ n.cur # 0 /\ mode = "video" /\ ~has("video")
              /\ Goes(s, Then(n, [video EXCEPT !.at = "askAdd"])) /\ Skips(FALSE)
           \/ /\ n.cur = 0 \/ (mode = "audio" /\ ~has("audio") /\ ~has("video"))
              /\ Anew(s, n, r)

\* Another microphone or camera is chosen.
SwitchDevice(s, k) ==
    LET n == Normal(media, media.cur)
        r == [Idle EXCEPT !.by = "switch", !.mut = CanChange, !.sid = n.cur, !.c = link.c, !.k = k]
    IN  /\ Clicks /\ Free(s) /\ ~By("switch")
        /\ IF Now(n, k) # 0
           THEN /\ Goes(s, Then(n, [r EXCEPT !.at = "askSwap", !.old = {Now(n, k)}]))
                /\ Skips(FALSE)
           ELSE Anew(s, n, [r EXCEPT !.k =
                    IF k = "video" \/ n.src["video"] = "browser" THEN "video" ELSE "audio"])

\* The browser gives a track; the client is asked to send it instead.
GotSwap(s) ==
    LET r == ops[s]
        t == Min(Unused)
        n == Capture(media, t, r.k)
        q == IF r.by = "switch" THEN [r EXCEPT !.id = n.bind[r.k].id, !.mut = CanChange]
             ELSE [r EXCEPT !.old = {The(n, n.obj[r.sid], "video")}]
    IN  /\ r.at = "askSwap" /\ Unused # {} /\ Unspent
        /\ IF link.c # 0 /\ q.mut /\ q.id # 0
           THEN /\ Goes(s, Then(n, [q EXCEPT !.at = "swap", !.ts = {t}, !.c = link.c]))
                /\ UNCHANGED blurred
           ELSE Goes(s, Swapped(n, q, t)) /\ Skips(TRUE)

Resent(snd, id, m, t) ==
    {IF x.id = id THEN [x EXCEPT !.track = t, !.src = Name(m.trk[t].ph)] ELSE x : x \in snd}

\* The client sends it; a client that is gone, or has no such sender, throws.
Swap(s) ==
    LET r == ops[s]
        t == Max(r.ts)
        had == r.c = link.c /\ \E x \in media.snd : x.id = r.id
        n == [media EXCEPT !.snd = Resent(@, r.id, media, t),
                 !.bind[r.k] = IF @.id = r.id THEN [@ EXCEPT !.track = t, !.ph = media.trk[t].ph]
                               ELSE @]
    IN  /\ r.at = "swap" /\ Turn(s) /\ UNCHANGED blurred
        /\ \/ had /\ Goes(s, Swapped(n, r, t)) /\ Unspent
           \/ ~had /\ Goes(s, Done(media)) /\ Unspent

\* A camera for a stream that has none.
GotAdd(s) ==
    LET r == ops[s]
        t == Min(Unused)
        n == [Capture(media, t, "video") EXCEPT !.obj[r.sid] = @ \cup {t}]
    IN  /\ r.at = "askAdd" /\ Unused # {} /\ Unspent
        /\ IF link.c # 0 /\ r.mut
           THEN /\ Goes(s, Then(n, [r EXCEPT !.at = "add", !.ts = {t}, !.c = link.c]))
                /\ UNCHANGED blurred
           ELSE Goes(s, Settle(n, r)) /\ Skips(TRUE)

\* The old stream ends; a new one is asked for.
Drop(s) ==
    LET r == ops[s]
        ids == IF \E k \in Kinds : media.bind[k].id # 0
               THEN {media.bind[k].id : k \in Kinds} ELSE {x.id : x \in media.snd}
        gone == IF r.c = link.c THEN {x \in media.snd : x.id \in ids} ELSE {}
    IN  /\ r.at = "drop" /\ Turn(s) /\ Unspent /\ UNCHANGED blurred
        /\ Goes(s, Then([Stop(media, media.obj[r.sid]) EXCEPT !.snd = @ \ gone],
                        [r EXCEPT !.at = "askNew"]))

Fresh == {i \in Streams : media.obj[i] = {}}
GotNew(s) ==
    LET r == ops[s]
        a == Min(Unused)
        both == IF r.k = "video" THEN {a, Min(Unused \ {a})} ELSE {a}
        q == [r EXCEPT !.sid = Min(Fresh), !.ts = both]
        n == [media EXCEPT !.trk = [t \in Tracks |-> IF t = a THEN New("audio", FALSE)
                                       ELSE IF t \in both THEN New("video", FALSE) ELSE @[t]],
                 !.obj[Min(Fresh)] = both]
    IN  /\ r.at = "askNew" /\ Fresh # {} /\ Cardinality(Unused) >= 2 /\ Unspent
        /\ IF r.c # 0 /\ r.mut
           THEN Goes(s, Then(n, [q EXCEPT !.at = "add"])) /\ UNCHANGED blurred
           ELSE Goes(s, Settle([n EXCEPT !.bind = NoBinds], q)) /\ Skips(TRUE)

\* The client takes the tracks: of a new stream, of a camera, of the effect.
Added(s) ==
    LET r == ops[s] IN
    /\ r.at = "add" /\ Turn(s) /\ Unspent /\ UNCHANGED blurred
    /\ IF ~Takes(r, r.ts) THEN Goes(s, Done(media))
       ELSE \E f \in Adding(r.ts) :
            LET n == [media EXCEPT !.snd = @ \cup Senders(media, r.ts, f)]
                new == [k \in Kinds |-> LET t == The(n, r.ts, k) IN
                           IF t = 0 THEN NoBind ELSE [id |-> f[t], track |-> t, ph |-> n.trk[t].ph]]
                more == [k \in Kinds |-> IF n.bind[k].id = 0 THEN new[k] ELSE n.bind[k]]
            IN  \/ r.by = "sync" /\ Goes(s, Done([n EXCEPT !.bind = new]))
                \/ r.by = "sync" /\ Goes(s, Done(n)) \* Its effect was cancelled.
                \/ /\ r.by # "sync"
                   /\ Goes(s, Settle([n EXCEPT !.bind =
                          IF n.obj[r.sid] = r.ts THEN new ELSE more], r))

\* The user refuses, or there is no device.
Refused(s) ==
    /\ ops[s].at \in {"askSwap", "askAdd", "askNew"} /\ Fault
    /\ Goes(s, Done(media)) /\ blurred' = (blurred \/ ops[s].at = "askNew")
    /\ UNCHANGED <<call, link, moves>>

\* Muting, and unmuting while there is a stream.
SetMuted(b) ==
    /\ Clicks /\ media.muted # b /\ media' = Mute([media EXCEPT !.muted = b], media.cur)
    /\ UNCHANGED <<ops, queue, blurred>>

-----------------------------------------------------------------------------
(* The effects of a render.                                                *)

\* The tracks of a stream that has no binding are given to the client, or are
\* bound to the senders there are.
Attaches(m, c) ==
    IF m.cur = 0 \/ m.bind # NoBinds \/ m.obj[m.cur] = {} THEN Done(m)
    ELSE IF m.snd # {} THEN Done(Show(m, m.cur))
    ELSE Then(m, [Idle EXCEPT !.by = "sync", !.at = "add", !.c = c, !.sid = m.cur,
                              !.ts = m.obj[m.cur]])

SyncTracks(s) ==
    /\ call /\ link.c # 0 /\ ~By("sync") /\ Free(s)
    /\ Attaches(media, link.c) # Done(media) /\ Goes(s, Attaches(media, link.c))
    /\ Unspent /\ Skips(FALSE)

\* Kinds whose binding does not say what the stream holds.
Awry(m) ==
    {k \in Kinds : LET t == Now(m, k)
                       b == m.bind[k]
                   IN  t # 0 /\ IF b.id = 0 THEN ~m.trk[t].ph
                                ELSE b.track # t \/ b.ph # m.trk[t].ph}

Reconcile(s) ==
    /\ call /\ CanChange /\ media.cur # 0 /\ ~By("reconcile") /\ ~By("attach") /\ Free(s)
    /\ Awry(media) # {} /\ (media.bind = NoBinds => media.snd = {})
    /\ Goes(s, Then(media, [Idle EXCEPT !.by = "reconcile", !.at = "mend", !.c = link.c,
               !.sid = media.cur, !.ts = {Now(media, k) : k \in Awry(media)},
               !.old = {Now(media, k) : k \in {j \in Awry(media) : media.bind[j].id # 0}}]))
    /\ Unspent /\ UNCHANGED blurred

\* A bound sender gets the track, a track that no sender has gets a sender.
Mend(s) ==
    LET r == ops[s]
        bound == r.old
        of(t) == media.bind[media.trk[t].kind].id
        found == {t \in r.ts \ bound : \E x \in media.snd : x.track = t}
        new == (r.ts \ bound) \ found
    IN  /\ r.at = "mend" /\ Turn(s) /\ Unspent /\ UNCHANGED blurred
        /\ IF r.c # link.c THEN Goes(s, Done(media))
           ELSE \E f \in Adding(new) :
                LET snd == {IF \E t \in bound : of(t) = x.id
                            THEN LET t == CHOOSE t \in bound : of(t) = x.id
                                 IN  [x EXCEPT !.track = t, !.src = Name(media.trk[t].ph)]
                            ELSE x : x \in media.snd} \cup Senders(media, new, f)
                    n == [media EXCEPT !.snd = snd, !.bind = [k \in Kinds |->
                            LET t == The(media, r.ts, k) IN
                            IF t = 0 THEN @[k]
                            ELSE [id |-> IF t \in bound THEN of(t)
                                         ELSE First({x \in snd : x.track = t}).id,
                                  track |-> t, ph |-> media.trk[t].ph]]]
                IN  \/ Goes(s, Check(Show(n, r.sid), [r EXCEPT !.again = TRUE]))
                    \/ Goes(s, Done(n)) \* Its effect was cancelled.

-----------------------------------------------------------------------------
(* The call and the client.                                                *)

Start ==
    /\ ~call /\ call' = TRUE /\ Budget /\ moves' = moves + 1
    /\ UNCHANGED <<link, media, ops, queue, faults, blurred>>

\* The client is connected: the check runs, over a client that sends nothing,
\* and the render that follows gives it the tracks.
Connect(s) ==
    /\ call /\ link.c = 0 /\ Free(s) /\ link' = [c |-> faults + 1, mut |-> FALSE]
    /\ LET n == Show(Normal(media, media.cur), media.cur)
       IN  Goes(s, IF By("sync") THEN Done(n) ELSE Attaches(n, faults + 1))
    /\ UNCHANGED <<call, moves, faults, blurred>>

\* Its connection is there once the first offer is.
Offered ==
    /\ link.c # 0 /\ ~link.mut /\ link' = [link EXCEPT !.mut = TRUE]
    /\ UNCHANGED <<call, media, ops, queue, moves, faults, blurred>>

\* resetMembraneClient: the client goes, with its senders and the canvas.
Reset(m) ==
    [Stop(m, {m.canvas}) EXCEPT !.snd = {}, !.bind = NoBinds, !.canvas = 0]
Lose ==
    /\ link.c # 0 /\ Fault /\ link' = [c |-> 0, mut |-> FALSE]
    /\ media' = Reset(media) /\ UNCHANGED <<call, ops, queue, moves, blurred>>

\* resetWebRtcLab: the stream stops too.
Ends ==
    /\ call /\ Fault /\ call' = FALSE /\ link' = [c |-> 0, mut |-> FALSE]
    /\ media' = [Stop(Reset(media), IF media.cur = 0 THEN {} ELSE media.obj[media.cur]) EXCEPT
                    !.cur = 0, !.muted = TRUE, !.src = [k \in Kinds |-> "none"]]
    /\ UNCHANGED <<ops, queue, moves, blurred>>

\* The screen is captured, and sent if the client takes it; whoever ends the
\* call leaves it.
Share ==
    /\ Clicks /\ media.screen = 0 /\ Unused # {}
    /\ LET t == Min(Unused)
           n == [Capture(media, t, "video") EXCEPT !.screen = t]
           x(i) == [id |-> i, kind |-> "video", src |-> "screenshare", track |-> t]
       IN  IF CanChange
           THEN \E i \in UNION NewIds(1) :
                    media' = [n EXCEPT !.share = {i}, !.snd = @ \cup {x(i)}]
           ELSE media' = [n EXCEPT !.share = {}]
    /\ blurred' = TRUE /\ UNCHANGED <<ops, queue>>

Unshare ==
    /\ call /\ media.screen # 0
    /\ media' = [Stop(media, {media.screen}) EXCEPT !.share = {}, !.screen = 0,
                    !.snd = {x \in @ : x.id \notin media.share}]
    /\ UNCHANGED <<ops, queue, blurred>> /\ Unspent

-----------------------------------------------------------------------------
\* The browser and the client answer.
Answers(s) ==
    \/ GotSwap(s) \/ Swap(s) \/ GotAdd(s) \/ Drop(s) \/ GotNew(s) \/ Added(s)
    \/ Prune(s) \/ Again(s) \/ Join(s) \/ Mend(s)

OfSlot(s) ==
    \/ \E mode \in Kinds : Attach(s, mode) \/ SwitchDevice(s, mode)
    \/ Answers(s) \/ Refused(s) \/ Connect(s) \/ SyncTracks(s) \/ Reconcile(s)

Next ==
    \/ \E s \in Slots : OfSlot(s)
    \/ \E b \in BOOLEAN : SetMuted(b)
    \/ Start \/ Offered \/ Lose \/ Ends \/ Share \/ Unshare

Spec == Init /\ [][Next]_vars

\* As long as a handler waits or an effect is due, some handler or effect goes on.
Waits(s) == ops[s].at # "idle" /\ (ops[s].at \in AtClient => Turn(s))
Due == call /\ link.c # 0 /\ (Attaches(media, link.c) # Done(media) \/ (link.mut /\ Awry(media) # {}))
Fairness == []<>~(Due \/ \E s \in Slots : Waits(s)) \/ []<><<ops' # ops>>_vars
FairSpec == Spec /\ Fairness

-----------------------------------------------------------------------------
Sends == [id: Ids, kind: Kinds, src: {"browser", "placeholder", "screenshare"}, track: Tracks]

(* The type of every variable; a binding names a sender when it has a      *)
(* track (useCall.ts 205-211, 1173-1266).                                  *)
TypeOK ==
    /\ call \in BOOLEAN /\ link \in [c: 0 .. Most + 1, mut: BOOLEAN]
    /\ media.trk \in [Tracks -> [kind: Kinds \cup {"none"}, ph: BOOLEAN, live: BOOLEAN, on: BOOLEAN]]
    /\ media.obj \in [Streams -> SUBSET Tracks] /\ media.cur \in {0} \cup Streams
    /\ media.canvas \in {0} \cup Tracks /\ media.snd \subseteq Sends
    /\ media.bind \in [Kinds -> [id: {0} \cup Ids, track: {0} \cup Tracks, ph: BOOLEAN]]
    /\ \A k \in Kinds : (media.bind[k].id = 0) = (media.bind[k].track = 0)
    /\ media.src \in [Kinds -> {"none", "browser", "placeholder"}]
    /\ media.share \subseteq Ids /\ media.screen \in {0} \cup Tracks
    /\ queue \in Seq(Slots) /\ moves \in 0 .. Most /\ faults \in 0 .. Most /\ blurred \in BOOLEAN

Quiet == \A s \in Slots : ops[s] = Idle
Sent(k) == {x \in media.snd : x.kind = k /\ x.src # "screenshare"}

(* When nothing is on its way and nothing is due, the client sends the     *)
(* local stream's tracks and no other, through every loss of the link, as  *)
(* long as tracks were changed only while the client took changes          *)
(* (useCall.ts 1268-1368, 2726-2962, 3602-4040).                           *)
SentIsShown ==
    call /\ CanChange /\ Quiet /\ media.cur # 0 /\ Awry(media) = {} /\ media.bind # NoBinds /\ ~blurred =>
        \A k \in Kinds :
            LET t == Now(media, k) IN
            /\ {x.track : x \in Sent(k)} \subseteq {t} \ {0}
            /\ t # 0 /\ ~media.trk[t].ph => Sent(k) # {}

(* A muted page sends no sound once its handlers are through, as long as   *)
(* tracks were changed only while the client took changes: a microphone    *)
(* that is changed while a link is attached may stay on (useCall.ts        *)
(* 1064-1077, 3673-3833).  While a handler runs it may send: a new         *)
(* microphone is sent before it is muted.                                  *)
MutedIsSilent ==
    media.muted /\ Quiet /\ ~blurred => \A x \in media.snd : x.kind = "audio" =>
        ~(media.trk[x.track].on /\ media.trk[x.track].live)

(* Everything that is captured can still be stopped: it is in the local    *)
(* stream, the canvas or the shared screen, as long as no link and no      *)
(* device fails (useCall.ts 3640-3800, 3940-3980).                         *)
NothingLeaks ==
    faults = 0 /\ Quiet /\ ~blurred =>
        \A t \in Tracks : media.trk[t].live =>
            t \in {media.canvas, media.screen} \/ (media.cur # 0 /\ t \in media.obj[media.cur])

(* The page stops changing its tracks once nothing happens to it: no check *)
(* and no effect finds for ever that something is not as it should be      *)
(* (useCall.ts 1268-1368, 2787-2962).                                      *)
Settles == <>[]Quiet
=============================================================================

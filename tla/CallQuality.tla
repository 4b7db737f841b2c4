---------------------------- MODULE CallQuality ----------------------------
(* How a call adapts to its network: every two seconds a poll reads the    *)
(* connection's statistics, recommends a profile and moves towards it one  *)
(* step at a time; every second the page derives what it says of the       *)
(* transport.                                                              *)
(*                                                                         *)
(* Nothing keeps a poll from starting while another waits for statistics   *)
(* or for the senders: each has read the profile before, and reads the     *)
(* counters after, its wait.                                               *)
EXTENDS Integers, CallAtRest

CONSTANTS
    Polls,      \* polls that may be in flight at once
    None,       \* no value
    Samples,    \* what the statistics may say
    MaxMoves    \* what happens to the call, its connection and the network

\* Packet loss in per mille, times in milliseconds, rate in kbit/s.
Statistics ==
    [loss: Nat, rtt: Nat \cup {None}, jitter: Nat \cup {None},
     rate: Nat \cup {None}, reason: {None, "bandwidth", "cpu"}]

ASSUME NoneAssumption == None \notin Nat \cup {"bandwidth", "cpu"}
ASSUME SampleAssumption == Samples \subseteq Statistics
ASSUME MaxMovesAssumption == MaxMoves \in Nat

VARIABLES
    ice,        \* the connection's ICE state; None without a connection
    net,        \* what the statistics say of the network
    hyst, ind,            \* the refs beside callQualityProfileRef
    polls,
    status, since,        \* callTransportStatusRef, ...DisconnectedSinceRef
    moves

call == <<active, conn, ice, net, moves>>
quality == <<profile, hyst, ind, polls>>
transport == <<status, since>>
vars == <<call, quality, transport>>

-----------------------------------------------------------------------------
(* The policy.                                                             *)

Profiles == 0 .. 3            \* audio_fallback, low, medium, high

\* A statistic is at or over a limit; a missing one is under every limit.
Over(x, limit) == x # None /\ x >= limit

\* The rate says something only when another statistic says so too.
Constrained(s) ==
    /\ s.rate # None
    /\ s.reason = "bandwidth" \/ s.loss >= 20 \/ Over(s.rtt, 200) \/ Over(s.jitter, 20)
Below(s, limit) == Constrained(s) /\ s.rate < limit

Worse(s, loss, rtt, jitter, rate) ==
    s.loss >= loss \/ Over(s.rtt, rtt) \/ Over(s.jitter, jitter) \/ Below(s, rate)

Recommend(i, s) ==
    IF i = "failed" THEN 0
    ELSE IF i \in {"disconnected", "checking"} THEN 1
    ELSE IF Worse(s, 120, 650, 80, 140) THEN 0
    ELSE IF Worse(s, 70, 450, 50, 320) THEN 1
    ELSE IF Worse(s, 30, 250, 30, 700) \/ s.reason \in {"bandwidth", "cpu"} THEN 2
    ELSE High

Calm == [down |-> 0, up |-> 0]

\* A lower profile needs two samples, the lowest one, a higher one three.
Patience(to) == IF to = 0 THEN 1 ELSE 2
PatienceOneMore == 4
PatienceUp == 3

StartsOver(n) == 1
OneMore(n) == n + 1

\* The next profile and counters.
Choose(cur, to, h) ==
    LET down == OneMore(h.down)
        up == OneMore(h.up)
    IN  IF to < cur
        THEN IF down < Patience(to)
             THEN [profile |-> cur, hyst |-> [down |-> down, up |-> 0]]
             ELSE [profile |-> cur - 1, hyst |-> Calm]
        ELSE IF to > cur
        THEN IF up < PatienceUp
             THEN [profile |-> cur, hyst |-> [down |-> 0, up |-> up]]
             ELSE [profile |-> cur + 1, hyst |-> Calm]
        ELSE [profile |-> cur, hyst |-> Calm]

IndicatorOfTwo(p) == IF p = High THEN "good" ELSE "fair"
Indicator(p) == IF p = High THEN "good" ELSE IF p = 0 THEN "poor" ELSE "fair"

\* deriveCallTransportStatus; late: disconnected for six seconds.
Status(i, connected, late) ==
    IF i \in {"failed", "closed"} THEN "disconnected"
    ELSE IF i \in {"new", "checking"} THEN "reconnecting"
    ELSE IF i = "disconnected" \/ ~connected
    THEN IF late THEN "disconnected" ELSE "reconnecting"
    ELSE "connected"

-----------------------------------------------------------------------------
Idle == [at |-> "idle", cur |-> High, ice |-> None, live |-> FALSE]

Init ==
    /\ active = FALSE /\ conn = FALSE /\ ice = None /\ net \in Samples
    /\ profile = High /\ hyst = Calm /\ ind = "good"
    /\ polls = [p \in Polls |-> Idle]
    /\ status = "connected" /\ since = "none" /\ moves = 0

-----------------------------------------------------------------------------
(* Polls.                                                                  *)

PollStart(p) ==
    /\ polls[p] = Idle /\ active /\ conn /\ ice # None
    /\ polls' = [polls EXCEPT ![p] = [at |-> "stats", cur |-> profile, ice |-> ice,
                                      live |-> TRUE]]
    /\ UNCHANGED <<call, profile, hyst, ind, transport>>

\* The statistics are there; a poll that was cancelled meanwhile goes on.
PollReads(p) ==
    LET q == polls[p]
        d == Choose(q.cur, Recommend(q.ice, net), hyst)
    IN  /\ q.at = "stats"
        /\ hyst' = d.hyst
        /\ IF d.profile = q.cur
           THEN polls' = [polls EXCEPT ![p] = Idle] /\ ind' = Indicator(q.cur)
           ELSE /\ polls' = [polls EXCEPT ![p].at = "applying", ![p].cur = d.profile]
                /\ ind' = ind
        /\ UNCHANGED <<call, profile, transport>>

PollFails(p) ==
    /\ moves < MaxMoves /\ moves' = moves + 1
    /\ polls[p].at = "stats"
    /\ polls' = [polls EXCEPT ![p] = Idle]
    /\ UNCHANGED <<active, conn, ice, net, profile, hyst, ind, transport>>

Anyone(q) == TRUE
NotCancelled(q) == q.live

\* The senders have the new settings, or have refused them.
PollApplied(p) ==
    LET q == polls[p] IN
    /\ q.at = "applying"
    /\ polls' = [polls EXCEPT ![p] = Idle]
    /\ IF NotCancelled(q) THEN profile' = q.cur /\ ind' = Indicator(q.cur)
       ELSE UNCHANGED <<profile, ind>>
    /\ UNCHANGED <<call, hyst, transport>>

-----------------------------------------------------------------------------
(* The transport status, by an interval and when what it depends on moves. *)

Lost == ~conn \/ ice \in {"disconnected", "failed", "closed"}
SinceJustNow == IF ~Lost THEN "none" ELSE "fresh"
Since == IF ~Lost THEN "none" ELSE IF since = "none" THEN "fresh" ELSE since

Sync ==
    /\ active
    /\ since' = Since
    /\ status' = Status(ice, conn, Since = "late")
    /\ UNCHANGED <<call, quality>>

SixSeconds ==
    /\ since = "fresh" /\ since' = "late"
    /\ UNCHANGED <<call, quality, status>>

-----------------------------------------------------------------------------
(* The call and its connection.                                            *)

Cancelled == [p \in Polls |-> [polls[p] EXCEPT !.live = FALSE]]
Moves == moves < MaxMoves /\ moves' = moves + 1

CallStarts ==
    /\ Moves /\ ~active /\ active' = TRUE
    /\ UNCHANGED <<conn, ice, net, quality, transport>>

CallEnds ==
    /\ Moves /\ active /\ active' = FALSE
    /\ conn' = FALSE /\ ice' = None
    /\ profile' = High /\ hyst' = Calm /\ ind' = "good" /\ polls' = Cancelled
    /\ status' = "connected" /\ since' = "none"
    /\ UNCHANGED net

\* A push or an answer replaces the call by an equal one.
CallRenewed ==
    /\ Moves /\ active
    /\ polls' = Cancelled
    /\ UNCHANGED <<active, conn, ice, net, profile, hyst, ind, transport>>

ClientMade ==
    /\ Moves /\ active /\ ice = None /\ ice' = "new"
    /\ UNCHANGED <<active, conn, net, quality, transport>>

ClientConnects ==
    /\ Moves /\ ice # None /\ ~conn /\ conn' = TRUE
    /\ UNCHANGED <<active, ice, net, quality, transport>>

IceMoves(i) ==
    /\ Moves /\ ice # None /\ i # ice /\ ice' = i
    /\ UNCHANGED <<active, conn, net, quality, transport>>

\* requestTransportReconnect drops the client; the profile is kept.
ClientLost ==
    /\ Moves /\ ice # None /\ ice' = None /\ conn' = FALSE
    /\ polls' = Cancelled /\ hyst' = Calm
    /\ UNCHANGED <<active, net, profile, ind, transport>>

NetworkMoves(s) ==
    /\ Moves /\ s # net /\ net' = s
    /\ UNCHANGED <<active, conn, ice, quality, transport>>

-----------------------------------------------------------------------------
IceStates == {"new", "checking", "connected", "disconnected", "failed", "closed"}

Next ==
    \/ \E p \in Polls : PollStart(p) \/ PollReads(p) \/ PollFails(p) \/ PollApplied(p)
    \/ Sync \/ SixSeconds
    \/ CallStarts \/ CallEnds \/ CallRenewed
    \/ ClientMade \/ ClientConnects \/ ClientLost
    \/ \E i \in IceStates : IceMoves(i)
    \/ \E s \in Samples : NetworkMoves(s)

Spec == Init /\ [][Next]_vars

\* Intervals fire, statistics come and senders answer.
Fairness ==
    /\ \A p \in Polls : WF_vars(PollStart(p)) /\ WF_vars(PollReads(p))
                         /\ WF_vars(PollApplied(p))
    /\ WF_vars(Sync) /\ WF_vars(SixSeconds)

FairSpec == Spec /\ Fairness

-----------------------------------------------------------------------------
\* The type of every variable; the counters stay under what they count to.
Counters == [down: 0 .. 1, up: 0 .. 2]

TypeOK ==
    /\ active \in BOOLEAN /\ conn \in BOOLEAN /\ ice \in IceStates \cup {None}
    /\ net \in Samples
    /\ profile \in Profiles /\ hyst \in Counters /\ ind \in {"good", "fair", "poor"}
    /\ polls \in [Polls -> [at: {"idle", "stats", "applying"}, cur: Profiles,
                            ice: IceStates \cup {None}, live: BOOLEAN]]
    /\ status \in {"connected", "reconnecting", "disconnected"}
    /\ since \in {"none", "fresh", "late"} /\ moves \in 0 .. MaxMoves

Steady(i) == active /\ conn /\ ice = i

\* On a connection that stays up in a network that stays good, the call comes
\* back to full quality and says so, whatever polls of worse times still wait.
Recovers ==
    <>[](Steady("connected") /\ Recommend("connected", net) = High)
        => <>[](profile = High /\ ind = "good")

\* In a network that stays unusable it ends up in audio-priority mode.
FallsBack ==
    <>[](Steady("connected") /\ Recommend("connected", net) = 0)
        => <>[](profile = 0 /\ ind = "poor")

\* A transport that is gone for good is shown as such, unless its connection
\* never leaves the states it begins in; one that is back is shown as back.
LossIsShown ==
    /\ <>[](active /\ Lost /\ ice \notin {"new", "checking"}) => <>[](status = "disconnected")
    /\ <>[]Steady("connected") => <>[](status = "connected")
=============================================================================

------------------------------ MODULE WebCall ------------------------------
(* One browser tab in a call: which call the page shows, how it learns of  *)
(* it (realtime pushes, the chat's own request, the background scan, the   *)
(* user's clicks), and the transport it builds for it (bootstrap, client,  *)
(* reconnect).  The server is what other devices make of it.               *)
(*                                                                         *)
(* A step that changes the shown call includes the effects of the render   *)
(* that follows it.  Every request may be answered from an older state of  *)
(* the server, and every wait may see anything else happen.                *)
EXTENDS Naturals, Sequences, FiniteSets, FiniteSetsExt

CONSTANTS
    Calls,      \* 1..n, in the order they are started
    Chats,      \* chats of the user
    ChatOf,     \* the chat of each call
    Boots,      \* slots 1..n for transport bootstraps in flight
    None,       \* no call, no chat, no slot, no client, no request
    MaxPushes,  \* pushes on their way to the page
    MaxMoves,   \* what the user does: clicks, chats opened, windows focused
    MaxFaults   \* failing requests and links

ASSUME SlotAssumption == None \notin Calls \cup Chats \cup Boots
ASSUME OrderAssumption ==
    /\ IsFiniteSet(Calls) /\ Calls = 1 .. Cardinality(Calls)
    /\ IsFiniteSet(Boots) /\ Boots = 1 .. Cardinality(Boots)
ASSUME ChatAssumption == ChatOf \in [Calls -> Chats]
ASSUME BoundAssumption == {MaxPushes, MaxMoves, MaxFaults} \subseteq Nat

VARIABLES
    srv,        \* each call's status at the server
    joined,     \* calls whose participants at the server include this device
    pushes,     \* call:state messages on the subscribed topic
    \* the hook's state and the refs behind it
    cur,        \* the call that is shown
    focus,      \* the open chat; None when the page does not show chats
    ending,     \* isEndingCall
    known,      \* what the page believes of its own participant and endpoint
    net,        \* client, connected, want, reconnect state, timer, bootstrap
    \* its requests
    load,       \* the open chat's call
    scan,       \* the user's calls
    boots,      \* bootstraps
    op,         \* a click's handler
    moves, faults, breaks

server == <<srv, joined>>
shown == <<cur, focus, ending, known, load, pushes>>
spent == <<moves, faults, breaks>>
vars == <<server, shown, net, scan, boots, op, spent>>

Live == {"ringing", "active"}
Seen(c) == [id |-> c, st |-> srv[c]]

\* The first call of the answer to "which calls are there": the latest.
LiveIn(S) == {c \in Calls : srv[c] \in Live /\ ChatOf[c] \in S}
Latest(S) == IF LiveIn(S) = {} THEN None ELSE Seen(Max(LiveIn(S)))

MayFail == faults + breaks < MaxFaults

\* A request has not been answered, or its answer is on the way.
Idle == [at |-> "idle", got |-> None]
Asking == [at |-> "asking", got |-> None]
Answer(r) == [at |-> "answered", got |-> r]

NoClient == [call |-> None, asked |-> FALSE, up |-> FALSE]
Quiet == [client |-> NoClient, conn |-> FALSE, want |-> None, rc |-> "idle",
          timer |-> FALSE, ref |-> None, stale |-> FALSE]
NoBoot == [call |-> None, join |-> FALSE, prov |-> FALSE, did |-> FALSE,
           conn |-> FALSE, want |-> None]
NoOp == [kind |-> None, on |-> None, answer |-> Idle]
Unknown == [in |-> FALSE, ep |-> FALSE]

Init ==
    /\ srv = [c \in Calls |-> "none"] /\ joined = {} /\ pushes = <<>>
    /\ cur = None /\ focus \in Chats /\ ending = FALSE
    /\ known = Unknown /\ net = Quiet /\ load = "asking" /\ scan = Idle
    /\ boots = [b \in Boots |-> NoBoot] /\ op = NoOp
    /\ moves = 0 /\ faults = 0 /\ breaks = 0

-----------------------------------------------------------------------------
(* The transport, as operators on net.                                     *)

ResetNoTimer(n) == [n EXCEPT !.ref = None, !.want = None, !.rc = "idle"]
ResetTransport(n) ==
    [n EXCEPT !.ref = None, !.want = None, !.timer = FALSE, !.rc = "idle"]

\* A client that was asked to connect may still call back after this.
ResetClient(n) ==
    [n EXCEPT !.client = NoClient, !.conn = FALSE, !.want = None,
              !.stale = n.stale \/ n.client.asked]

ResetLab(n) == ResetClient(ResetTransport(n))

Bootstraps(c) == c # None /\ c.st = "active"

AlreadyReconnecting(n) == n.rc = "reconnecting" /\ (n.timer \/ n.ref # None)

\* Drop the client now and bootstrap again after a backoff.
Reconnect(n) ==
    IF Bootstraps(cur) /\ ~ending /\ focus # None /\ ~AlreadyReconnecting(n)
    THEN [ResetClient(n) EXCEPT !.rc = "reconnecting", !.timer = TRUE]
    ELSE n

\* The client for the call the bootstrap began with, whatever is shown by
\* now; it is asked to connect unless the bootstrap had seen one that was.
WithClient(n, b) ==
    LET m == IF n.client.call = b.call THEN n
             ELSE [ResetClient(n) EXCEPT !.client = [NoClient EXCEPT !.call = b.call]]
    IN  IF ~b.conn /\ b.want # b.call
        THEN [m EXCEPT !.client.asked = TRUE, !.want = b.call]
        ELSE [m EXCEPT !.want = b.want]

\* A bootstrap of call c begins with what the page believes, unless one runs.
Launch(n, c, k, wanted) ==
    IF wanted /\ Bootstraps(c) /\ n.ref = None
    THEN /\ \E b \in Boots : boots[b] = NoBoot
         /\ LET b == Min({x \in Boots : boots[x] = NoBoot}) IN
           /\ boots' = [boots EXCEPT ![b] =
                [call |-> c.id, join |-> ~k.in, prov |-> ~k.ep, did |-> FALSE,
                 conn |-> n.conn, want |-> n.want]]
           /\ net' = [n EXCEPT !.ref = b]
    ELSE boots' = boots /\ net' = n

-----------------------------------------------------------------------------
(* The shown call changes, and the effects that depend on it run.          *)

Topic(c, f) == IF c # None THEN ChatOf[c.id] ELSE f

\* What the chat-scoped effect does for call c and chat f.
ScopedLoad(c, f) ==
    IF f = None \/ (c # None /\ ChatOf[c.id] # f) THEN "idle" ELSE "asking"

IdOf(c) == IF c = None THEN None ELSE c.id
StOf(c) == IF c = None THEN None ELSE c.st

\* A call that is set is a new object even when it is equal: the effects run
\* again and cancel the request for the chat's call.  Without the chat view
\* nothing is shown.
EndsAnyway(c, e) == e
StaysEnding(c, e) == e /\ IdOf(c) = IdOf(cur)

Effects(call, f, n, e, q) ==
    LET c == IF f = None THEN None ELSE call
        m == IF IdOf(c) = IdOf(cur) THEN n ELSE ResetTransport(n)
        k == IF c = None THEN Unknown ELSE known
    IN  /\ cur' = c /\ focus' = f
        /\ ending' = StaysEnding(c, e)
        /\ known' = k
        /\ load' = ScopedLoad(c, f)
        /\ pushes' = IF Topic(c, f) = Topic(cur, focus) THEN q ELSE <<>>
        /\ Launch(IF c = None THEN ResetLab(m) ELSE m, c, k,
                  /\ ~ending'
                  /\ \/ IdOf(c) # IdOf(cur) \/ StOf(c) # StOf(cur) \/ ending)

ShowIfAny(call, l) ==
    IF call = None
    THEN /\ load' = l /\ UNCHANGED <<cur, focus, ending, known, pushes, net, boots>>
    ELSE Effects(call, focus, net, ending, pushes)

\* setActiveCall(call) by an answer: no call after no call changes nothing.
Show(call, l) ==
    IF call = None /\ cur = None
    THEN /\ load' = l /\ UNCHANGED <<cur, focus, ending, known, pushes, net, boots>>
    ELSE Effects(call, focus, net, ending, pushes)

-----------------------------------------------------------------------------
(* The server, and what it pushes on the subscribed topic.                 *)

Publish(c) ==
    IF focus # None /\ Topic(cur, focus) = ChatOf[c]
    THEN /\ Len(pushes) < MaxPushes
         /\ pushes' = Append(pushes, [id |-> c, st |-> srv'[c]])
    ELSE pushes' = pushes

Turn(c, st) == srv' = [srv EXCEPT ![c] = st] /\ Publish(c)

Starts(c) ==
    /\ srv[c] = "none" /\ \A d \in Calls : d < c => srv[d] # "none"
    /\ LiveIn({ChatOf[c]}) = {}
    /\ Turn(c, "ringing")

Others(c) ==
    /\ \/ Starts(c)
       \/ srv[c] = "ringing" /\ Turn(c, "active")
       \/ srv[c] \in Live /\ Turn(c, "ended")
    /\ UNCHANGED <<joined, cur, focus, ending, known, load, net, scan, boots,
                   op, spent>>

\* A push that says "ended" resets the page, whichever call has ended.
Push ==
    /\ pushes # <<>>
    /\ LET p == Head(pushes) IN
       IF p.st = "ended" /\ cur = None
       THEN /\ ending' = FALSE /\ known' = Unknown /\ net' = ResetLab(net)
            /\ pushes' = Tail(pushes)
            /\ UNCHANGED <<cur, focus, load, boots>>
       ELSE Effects(IF p.st = "ended" THEN None ELSE p, focus, net, FALSE, Tail(pushes))
    /\ UNCHANGED <<server, scan, op, spent>>

-----------------------------------------------------------------------------
(* The page asks which call there is.                                      *)

\* An answer that another change of the call has overtaken is cancelled, so
\* it is read and applied at once.
Load ==
    /\ load = "asking"
    /\ Show(Latest({focus}), "idle")
    /\ UNCHANGED <<server, scan, op, spent>>

LoadFails ==
    /\ load = "asking" /\ MayFail
    /\ faults' = faults + 1
    /\ Show(None, "idle")
    /\ UNCHANGED <<server, scan, op, moves, breaks>>

\* The background scan, one at a time: by the interval, on every change of
\* the shown call and when the window comes back.
AskScan == scan' = IF focus # None /\ scan = Idle THEN Answer(Latest(Chats)) ELSE scan

Scan ==
    /\ focus # None /\ scan = Idle /\ AskScan
    /\ UNCHANGED <<server, shown, net, boots, op, spent>>

\* Nothing cancels it: its answer is applied whatever is shown by now.
ApplyScan ==
    /\ scan # Idle /\ scan' = Idle
    /\ IF scan.got = cur THEN UNCHANGED <<shown, net, boots>>
       ELSE Show(scan.got, load)
    /\ UNCHANGED <<server, op, spent>>

ScanFails ==
    /\ scan # Idle /\ MayFail
    /\ scan' = Idle /\ faults' = faults + 1
    /\ UNCHANGED <<server, shown, net, boots, op, moves, breaks>>

\* Participants and endpoint of the shown call, loaded or pushed; a missing
\* endpoint does not overwrite the one a bootstrap has left.
StateLoaded ==
    /\ cur # None
    /\ \/ /\ known' = [in |-> cur.id \in joined, ep |-> known.ep \/ cur.id \in joined]
          /\ faults' = faults
       \/ /\ MayFail /\ faults' = faults + 1
          /\ known' = Unknown
    /\ UNCHANGED <<server, cur, focus, ending, load, pushes, net, scan, boots,
                   op, moves, breaks>>

-----------------------------------------------------------------------------
(* Bootstraps, the client and reconnects.                                  *)

BootStep(b) ==
    LET t == boots[b] IN
    /\ t # NoBoot /\ (t.join \/ t.prov)
    /\ srv[t.call] = "active" \/ (t.join /\ srv[t.call] = "ringing")
    /\ joined' = IF t.join THEN joined \cup {t.call} ELSE joined
    /\ boots' = [boots EXCEPT ![b] = IF t.join THEN [t EXCEPT !.join = FALSE, !.did = TRUE]
                                     ELSE [t EXCEPT !.prov = FALSE]]
    /\ UNCHANGED <<srv, shown, net, scan, op, spent>>

\* The catch runs before the finally: it still finds the bootstrap's promise.
BootEnds(b, n) ==
    /\ boots' = [boots EXCEPT ![b] = NoBoot]
    /\ net' = [n EXCEPT !.ref = None]

BootFails(b) ==
    /\ boots[b] # NoBoot
    /\ \/ srv[boots[b].call] \notin Live /\ (boots[b].join \/ boots[b].prov)
          /\ faults' = faults
       \/ MayFail /\ faults' = faults + 1
    /\ BootEnds(b, Reconnect(net))
    /\ UNCHANGED <<server, shown, scan, op, moves, breaks>>

BootDone(b) ==
    LET t == boots[b] IN
    /\ t # NoBoot /\ ~t.join /\ ~t.prov
    /\ BootEnds(b, WithClient(net, t))
    /\ known' = [known EXCEPT !.in = known.in \/ t.did, !.ep = TRUE]
    /\ UNCHANGED <<server, cur, focus, ending, load, pushes, scan, op, spent>>

TimerFires ==
    /\ net.timer
    /\ Launch([net EXCEPT !.timer = FALSE], cur, known, ~ending)
    /\ UNCHANGED <<server, shown, scan, op, spent>>

Connected(n) == [n EXCEPT !.conn = TRUE, !.rc = "idle", !.timer = FALSE]

FromAny(isStale) == TRUE

\* A callback counts only when it comes from the client the page holds.
FromCurrent(isStale) == ~isStale

\* While the page reconnects it queues every event, the one that would connect
\* the new client included, and only a client that connects empties the queue.
LinkOpens == net.client.asked /\ ~net.client.up
LinkOpensHeard == LinkOpens /\ net.rc # "reconnecting"

LinkUp ==
    /\ \/ /\ LinkOpensHeard
          /\ srv[net.client.call] = "active" /\ net.client.call \in joined
          /\ net' = Connected([net EXCEPT !.client.up = TRUE])
       \/ /\ net.stale
          /\ net' = LET n == [net EXCEPT !.stale = FALSE]
                    IN  IF FromCurrent(TRUE) THEN Connected(n) ELSE n
    /\ UNCHANGED <<server, shown, scan, boots, op, spent>>

\* The connection fails for good, or ends with the call.
LinkDown ==
    /\ net.client.asked
    /\ \/ srv[net.client.call] = "ended" /\ net.client.up /\ breaks' = breaks
       \/ MayFail /\ breaks' = breaks + 1
    /\ net' = Reconnect([net EXCEPT !.client.up = FALSE, !.client.asked = FALSE,
                                    !.conn = FALSE, !.want = None])
    /\ UNCHANGED <<server, shown, scan, boots, op, moves, faults>>

-----------------------------------------------------------------------------
(* The user.                                                               *)

Click ==
    /\ op = NoOp /\ focus # None /\ moves < MaxMoves /\ moves' = moves + 1
    /\ \/ /\ op' = [NoOp EXCEPT !.kind = "start", !.on = focus, !.answer = Asking]
          /\ ending' = FALSE /\ net' = ResetTransport(net)
       \/ /\ cur # None /\ cur.st = "ringing"
          /\ op' = [kind |-> "accept", on |-> cur.id, answer |-> Asking]
          /\ UNCHANGED <<ending, net>>
       \/ /\ cur # None
          /\ op' = [kind |-> "end", on |-> cur.id, answer |-> Asking]
          /\ ending' = TRUE /\ net' = net
    /\ UNCHANGED <<server, cur, focus, known, load, pushes, scan, boots, faults, breaks>>

Replies(r) == op' = [op EXCEPT !.answer = Answer(r)]

ServeOp ==
    /\ op.answer = Asking
    /\ \/ /\ op.kind = "start" /\ LiveIn({op.on}) # {}
          /\ Replies(Latest({op.on})) /\ UNCHANGED <<srv, pushes>>
       \/ /\ op.kind = "start"
          /\ \E c \in Calls : ChatOf[c] = op.on /\ Starts(c)
                              /\ Replies([id |-> c, st |-> "ringing"])
       \/ /\ op.kind = "accept" /\ srv[op.on] \in Live
          /\ Turn(op.on, "active") /\ Replies([id |-> op.on, st |-> "active"])
       \/ /\ op.kind = "end" /\ Turn(op.on, "ended") /\ Replies(None)
    /\ UNCHANGED <<joined, cur, focus, ending, known, load, net, scan, boots, spent>>

OpRefused ==
    /\ op.answer = Asking
    /\ \/ MayFail /\ faults' = faults + 1
       \/ op.kind = "accept" /\ srv[op.on] \notin Live /\ faults' = faults
       \/ op.kind = "start" /\ LiveIn({op.on}) = {} /\ faults' = faults
          /\ ~\E c \in Calls : ChatOf[c] = op.on /\ srv[c] = "none"
    /\ op' = NoOp
    /\ ending' = (ending /\ op.kind # "end")
    /\ Launch(net, cur, known, ending # ending')
    /\ UNCHANGED <<server, cur, focus, known, load, pushes, scan, moves, breaks>>

FinishOp ==
    /\ op.answer.at = "answered"
    /\ op' = NoOp
    /\ Show(op.answer.got, load)
    /\ UNCHANGED <<server, scan, spent>>

OpenChat(f) ==
    /\ f # focus /\ moves < MaxMoves /\ moves' = moves + 1
    /\ IF f = None THEN Effects(None, None, net, FALSE, <<>>)
       ELSE /\ focus' = f /\ load' = ScopedLoad(cur, f)
            /\ pushes' = IF Topic(cur, f) = Topic(cur, focus) THEN pushes ELSE <<>>
            /\ UNCHANGED <<cur, ending, known, net, boots>>
    /\ UNCHANGED <<server, scan, op, faults, breaks>>

\* The page is closed and opened again; on its way out it ends its call, if
\* the request gets through.
Reload ==
    /\ moves < MaxMoves /\ moves' = moves + 1
    /\ \/ srv' = [c \in Calls |-> IF IdOf(cur) = c THEN "ended" ELSE srv[c]]
          /\ faults' = faults
       \/ cur # None /\ MayFail /\ faults' = faults + 1 /\ srv' = srv
    /\ cur' = None /\ focus' \in Chats /\ ending' = FALSE /\ known' = Unknown
    /\ net' = Quiet /\ load' = "asking" /\ scan' = Idle /\ pushes' = <<>>
    /\ boots' = [b \in Boots |-> NoBoot] /\ op' = NoOp
    /\ UNCHANGED <<joined, breaks>>

\* The window is visible or online again.
Refocus ==
    /\ moves < MaxMoves /\ moves' = moves + 1
    /\ AskScan
    /\ Launch(net, cur, known, focus # None)
    /\ UNCHANGED <<server, shown, op, faults, breaks>>

-----------------------------------------------------------------------------
Answers ==
    \/ Push \/ Load \/ Scan \/ ApplyScan \/ StateLoaded
    \/ \E b \in Boots : BootStep(b) \/ BootFails(b) \/ BootDone(b)
    \/ TimerFires \/ LinkUp \/ LinkDown \/ ServeOp \/ OpRefused \/ FinishOp

Next ==
    \/ Answers \/ LoadFails \/ ScanFails
    \/ \E c \in Calls : Others(c)
    \/ Click \/ Refocus \/ Reload
    \/ \E f \in Chats \cup {None} : OpenChat(f)

Spec == Init /\ [][Next]_vars

\* Requests are answered or fail, timers fire, links come up when the server
\* admits them and go down when the call is over.
Fairness ==
    /\ WF_vars(Push) /\ WF_vars(Load)
    /\ WF_vars(Scan) /\ WF_vars(ApplyScan) /\ WF_vars(StateLoaded)
    /\ \A b \in Boots : WF_vars(BootStep(b) \/ BootFails(b) \/ BootDone(b))
    /\ WF_vars(TimerFires) /\ WF_vars(LinkUp)
    /\ WF_vars(breaks' = breaks /\ LinkDown)
    /\ WF_vars(ServeOp \/ OpRefused) /\ WF_vars(FinishOp)

FairSpec == Spec /\ Fairness

-----------------------------------------------------------------------------
\* The type of every variable; what the page shows is ringing or active.
Statuses == {"none", "ringing", "active", "ended"}
ShownCalls == [id: Calls, st: Live] \cup {None}
Pushed == [id: Calls, st: Live \cup {"ended"}]
Beliefs == [in: BOOLEAN, ep: BOOLEAN]
Clients == [call: Calls \cup {None}, asked: BOOLEAN, up: BOOLEAN]
Nets == [client: Clients, conn: BOOLEAN, want: Calls \cup {None},
         rc: {"idle", "reconnecting"}, timer: BOOLEAN,
         ref: Boots \cup {None}, stale: BOOLEAN]
Bootstrap == [call: Calls \cup {None}, join: BOOLEAN, prov: BOOLEAN,
              did: BOOLEAN, conn: BOOLEAN, want: Calls \cup {None}]
Requests == {Idle, Asking} \cup {Answer(r) : r \in ShownCalls}
Ops == [kind: {None, "start", "accept", "end"}, on: Calls \cup Chats \cup {None},
        answer: Requests]

TypeOK ==
    /\ srv \in [Calls -> Statuses] /\ joined \subseteq Calls
    /\ pushes \in Seq(Pushed) /\ Len(pushes) <= MaxPushes
    /\ cur \in ShownCalls /\ focus \in Chats \cup {None} /\ ending \in BOOLEAN
    /\ known \in Beliefs /\ net \in Nets
    /\ load \in {"idle", "asking"} /\ scan \in Requests
    /\ boots \in [Boots -> Bootstrap] /\ op \in Ops
    /\ moves \in 0 .. MaxMoves
    /\ faults \in Nat /\ breaks \in Nat /\ faults + breaks <= MaxFaults

\* The page says it is connected only while the client it holds has a link:
\* a callback of a client that was replaced does not count (useCall.ts
\* onConnected, onError), and every reset of the client clears the flag.
ConnectedIsLinked == net.conn => net.client.up

\* A reconnect is pending only for a call that is shown and a transport that
\* is down: each way a call can leave the page stops the timer, so that the
\* retry never bootstraps what the user has left (useCall.ts
\* resetTransportOrchestration, scheduleTransportReconnect).
TimerMeansReconnecting ==
    net.timer => net.rc = "reconnecting" /\ cur # None /\ ~net.conn

StatusIsTrue == ConnectedIsLinked /\ TimerMeansReconnecting

\* isEndingCall keeps the page from bootstrapping; it is set only while the
\* End handler that will clear it still runs, for the call that is shown,
\* whatever pushes and answers replace the call meanwhile.
EndingHasHandler == ending => op.kind = "end" /\ cur # None

\* The inductive invariant: every bootstrap and every handler that answers or
\* ends a call names one, and the answer to "end" shows no call, so that what
\* clears isEndingCall does find a shown call to leave.
BootsNameCalls == \A b \in Boots : boots[b] # NoBoot => boots[b].call \in Calls
OpNamesCall ==
    /\ op # NoOp /\ op.kind \in {"accept", "end"} => op.on \in Calls
    /\ op.kind = "end" /\ op.answer.at = "answered" => op.answer.got = None
EndingIsUnderWay == ending => op # NoOp

IInv ==
    /\ TypeOK /\ BootsNameCalls /\ OpNamesCall /\ EndingIsUnderWay
    /\ StatusIsTrue /\ EndingHasHandler

\* When the server has no call left for good, the page ends up without one
\* and disconnected, however stale the answers, bootstraps and callbacks are
\* that were under way (useCall.ts, the background scan).
Converges ==
    (<>[](\A c \in Calls : srv[c] \notin Live)) => <>[](cur = None /\ ~net.conn)

-----------------------------------------------------------------------------
(* What the code sets out to do, and does not.                             *)

\* A page that reconnects gets its link while it goes on showing an active call: it
\* does not say "reconnecting" for ever (useCall.ts 1441-1460, onConnected: a client
\* that connects while the page reconnects makes it stable and is logged as
\* "reconnect-recovered").
LossRecovers ==
    \A c \in Calls : ~<>[](net.rc = "reconnecting" /\ cur = Seen(c) /\ srv[c] = "active")
=============================================================================

--------------------------- MODULE WebCall_proofs ---------------------------
(* Theorems about WebCall, for any calls and chats, any number of requests *)
(* in flight, and any number of faults.                                    *)
(* At its end, those about the quality of a call (CallQuality), which the  *)
(* page adapts by itself.                                                  *)
EXTENDS WebCall, CallAtRest, WellFoundedInduction, FiniteSetTheorems, TLAPS

CONSTANTS Polls, Samples

VARIABLES ice, network, hyst, ind, polls, status, since, netMoves

Q == INSTANCE CallQuality WITH net <- network, moves <- netMoves

-----------------------------------------------------------------------------
(* The latest call and the first free slot.                                *)

Less == {ss \in Nat \X Nat : ss[1] < ss[2]}

LEMMA LessIsOpToRel == Less = OpToRel(<, Nat)
  BY DEF OpToRel, Less

\* A nonempty set of numbers has a least element, which Min is.
LEMMA MinIsLeast ==
    ASSUME NEW S \in SUBSET Nat, S # {}
    PROVE  Min(S) \in S /\ \A y \in S : Min(S) <= y
  <1>1. IsWellFoundedOn(Less, Nat)
    BY LessIsOpToRel, NatLessThanWellFounded
  <1>2. PICK x \in S : \A y \in S : <<y, x>> \notin Less
    BY <1>1, WFMin
  <1>3. ASSUME NEW y \in S
        PROVE  x <= y
    <2>1. x \in Nat /\ y \in Nat
      OBVIOUS
    <2>2. <<y, x>> \in Nat \X Nat /\ <<y, x>>[1] = y /\ <<y, x>>[2] = x
      BY <2>1
    <2>3. ~(y < x)
      BY <1>2, <2>2 DEF Less
    <2> QED
      BY <2>1, <2>3
  <1> QED
    BY <1>3 DEF Min

\* A bounded one has a greatest, which Max is.
LEMMA MaxIsGreatest ==
    ASSUME NEW n \in Nat, NEW S \in SUBSET (1 .. n), S # {}
    PROVE  Max(S) \in S /\ \A y \in S : Max(S) >= y
  <1> DEFINE D == {m \in 0 .. n : \E x \in S : m = n - x}
  <1>1. D \in SUBSET Nat
    OBVIOUS
  <1>2. \A x \in S : n - x \in D
    OBVIOUS
  <1>3. D # {}
    BY <1>2
  <1>4. Min(D) \in D /\ \A d \in D : Min(D) <= d
    BY <1>1, <1>3, MinIsLeast
  <1>5. PICK x \in S : Min(D) = n - x
    BY <1>4
  <1>6. \A y \in S : x >= y
    BY <1>2, <1>4, <1>5
  <1> QED
    BY <1>6 DEF Max

\* The answer to "which calls are there" is a call the page can show.
LEMMA LatestIsShown ==
    ASSUME TypeOK, NEW S
    PROVE  Latest(S) \in ShownCalls
  <1>1. CASE LiveIn(S) = {}
    BY <1>1 DEF Latest, ShownCalls
  <1>2. CASE LiveIn(S) # {}
    <2>1. Cardinality(Calls) \in Nat
      BY OrderAssumption, FS_CardinalityType
    <2>2. LiveIn(S) \in SUBSET (1 .. Cardinality(Calls))
      BY OrderAssumption DEF LiveIn
    <2>3. Max(LiveIn(S)) \in LiveIn(S)
      BY <1>2, <2>1, <2>2, MaxIsGreatest
    <2> QED
      BY <1>2, <2>3 DEF Latest, LiveIn, Seen, ShownCalls
  <1> QED
    BY <1>1, <1>2

\* The slot a bootstrap takes is free.
LEMMA FreeSlot ==
    ASSUME NEW x \in Boots, boots[x] = NoBoot
    PROVE  LET b == Min({y \in Boots : boots[y] = NoBoot})
           IN  b \in Boots /\ boots[b] = NoBoot
  <1> DEFINE S == {y \in Boots : boots[y] = NoBoot}
  <1>1. Cardinality(Boots) \in Nat
    BY OrderAssumption, FS_CardinalityType
  <1>2. S \in SUBSET Nat /\ S # {}
    BY <1>1, OrderAssumption
  <1>3. Min(S) \in S
    BY <1>2, MinIsLeast
  <1> QED
    BY <1>3

-----------------------------------------------------------------------------
(* What the operators on the transport keep.                               *)

\* The flags the invariants relate: connected, linked, reconnecting, retrying.
Calm(n) == n.conn => n.client.up
Retrying(n, c) == n.timer => n.rc = "reconnecting" /\ c # None /\ ~n.conn

LEMMA NetTypes ==
    ASSUME NEW n \in Nets
    PROVE  /\ ResetTransport(n) \in Nets /\ ~ResetTransport(n).timer
           /\ ResetTransport(n).conn = n.conn /\ ResetTransport(n).client = n.client
           /\ ResetClient(n) \in Nets /\ ~ResetClient(n).conn
           /\ ResetClient(n).timer = n.timer /\ ResetClient(n).rc = n.rc
           /\ ResetLab(n) \in Nets /\ ~ResetLab(n).conn /\ ~ResetLab(n).timer
           /\ Quiet \in Nets /\ ~Quiet.conn /\ ~Quiet.timer
  <1>1. NoClient \in Clients /\ None \in Calls \cup {None} /\ None \in Boots \cup {None}
    BY DEF NoClient, Clients
  <1>2. n.client \in Clients /\ n.client.asked \in BOOLEAN /\ n.stale \in BOOLEAN
    BY DEF Nets, Clients
  <1>3. (n.stale \/ n.client.asked) \in BOOLEAN
    BY <1>2
  <1>4. \A m \in Nets : ResetTransport(m) \in Nets /\ ~ResetTransport(m).timer
                        /\ ResetTransport(m).conn = m.conn
                        /\ ResetTransport(m).client = m.client
    BY <1>1 DEF Nets, ResetTransport
  <1>5. \A m \in Nets : ResetClient(m) \in Nets /\ ~ResetClient(m).conn
                        /\ ResetClient(m).timer = m.timer /\ ResetClient(m).rc = m.rc
    <2> TAKE m \in Nets
    <2>1. m.client \in Clients /\ m.client.asked \in BOOLEAN /\ m.stale \in BOOLEAN
      BY DEF Nets, Clients
    <2>2. (m.stale \/ m.client.asked) \in BOOLEAN
      BY <2>1
    <2> QED
      BY <1>1, <2>2 DEF Nets, ResetClient
  <1>6. ResetLab(n) \in Nets /\ ~ResetLab(n).conn /\ ~ResetLab(n).timer
    BY <1>4, <1>5 DEF ResetLab
  <1>7. Quiet \in Nets /\ ~Quiet.conn /\ ~Quiet.timer
    BY <1>1 DEF Nets, Quiet
  <1> QED
    BY <1>4, <1>5, <1>6, <1>7

\* Dropping the client for a retry: only for a shown call, and disconnected.
LEMMA ReconnectKeeps ==
    ASSUME NEW n \in Nets, Calm(n), Retrying(n, cur)
    PROVE  /\ Reconnect(n) \in Nets
           /\ Calm(Reconnect(n)) /\ Retrying(Reconnect(n), cur)
           /\ n.rc = "reconnecting" => Reconnect(n).rc = "reconnecting"
  <1>1. ResetClient(n) \in Nets /\ ~ResetClient(n).conn
    BY NetTypes
  <1>2. [ResetClient(n) EXCEPT !.rc = "reconnecting", !.timer = TRUE] \in Nets
    BY <1>1 DEF Nets
  <1>3. CASE Bootstraps(cur) /\ ~ending /\ focus # None /\ ~AlreadyReconnecting(n)
    <2>1. Reconnect(n) = [ResetClient(n) EXCEPT !.rc = "reconnecting", !.timer = TRUE]
      BY <1>3 DEF Reconnect
    <2>2. Reconnect(n).rc = "reconnecting" /\ ~Reconnect(n).conn /\ cur # None
      BY <1>1, <1>3, <2>1 DEF Bootstraps, Nets
    <2> QED
      BY <1>2, <2>1, <2>2 DEF Calm, Retrying
  <1>4. CASE ~(Bootstraps(cur) /\ ~ending /\ focus # None /\ ~AlreadyReconnecting(n))
    <2>1. Reconnect(n) = n
      BY <1>4 DEF Reconnect
    <2> QED
      BY <2>1
  <1> QED
    BY <1>3, <1>4

LEMMA WithClientKeeps ==
    ASSUME NEW n \in Nets, NEW b \in Bootstrap, b.call \in Calls, Calm(n)
    PROVE  /\ WithClient(n, b) \in Nets /\ Calm(WithClient(n, b))
           /\ WithClient(n, b).rc = n.rc /\ WithClient(n, b).timer = n.timer
           /\ WithClient(n, b).conn => n.conn
  <1> DEFINE fresh == [ResetClient(n) EXCEPT !.client = [NoClient EXCEPT !.call = b.call]]
             m == IF n.client.call = b.call THEN n ELSE fresh
  <1>1. [NoClient EXCEPT !.call = b.call] \in Clients
    BY DEF NoClient, Clients
  <1>2. fresh \in Nets /\ ~fresh.conn /\ fresh.rc = n.rc /\ fresh.timer = n.timer
    BY <1>1, NetTypes DEF Nets
  <1>3. m \in Nets /\ Calm(m) /\ m.rc = n.rc /\ m.timer = n.timer /\ (m.conn => n.conn)
    BY <1>2 DEF Calm
  <1>4. [m EXCEPT !.client.asked = TRUE, !.want = b.call]
            = [m EXCEPT !.client = [m.client EXCEPT !.asked = TRUE], !.want = b.call]
    BY <1>3 DEF Nets
  <1>5. m.client \in Clients
    BY <1>3 DEF Nets
  <1>6. [m.client EXCEPT !.asked = TRUE] \in Clients
        /\ [m.client EXCEPT !.asked = TRUE].up = m.client.up
    BY <1>5 DEF Clients
  <1>7. b.want \in Calls \cup {None}
    BY DEF Bootstrap
  <1> HIDE DEF m
  <1>8. CASE ~b.conn /\ b.want # b.call
    <2>1. WithClient(n, b)
            = [m EXCEPT !.client = [m.client EXCEPT !.asked = TRUE], !.want = b.call]
      BY <1>4, <1>8 DEF WithClient, m
    <2> QED
      BY <1>3, <1>6, <2>1 DEF Nets, Calm
  <1>9. CASE ~(~b.conn /\ b.want # b.call)
    <2>1. WithClient(n, b) = [m EXCEPT !.want = b.want]
      BY <1>9 DEF WithClient, m
    <2> QED
      BY <1>3, <1>7, <2>1 DEF Nets, Calm
  <1> QED
    BY <1>8, <1>9

\* A bootstrap that is launched names the shown call, in a slot of its own, and
\* leaves the transport as it is.
LEMMA LaunchKeeps ==
    ASSUME TypeOK, BootsNameCalls,
           NEW n \in Nets, NEW c \in ShownCalls, NEW k \in Beliefs,
           NEW wanted \in BOOLEAN, Launch(n, c, k, wanted)
    PROVE  /\ boots' \in [Boots -> Bootstrap] /\ BootsNameCalls'
           /\ net' \in Nets
           /\ net'.conn = n.conn /\ net'.client = n.client
           /\ net'.rc = n.rc /\ net'.timer = n.timer
  <1>1. CASE wanted /\ Bootstraps(c) /\ n.ref = None
    <2> DEFINE b == Min({x \in Boots : boots[x] = NoBoot})
               t == [call |-> c.id, join |-> ~k.in, prov |-> ~k.ep, did |-> FALSE,
                     conn |-> n.conn, want |-> n.want]
    <2>1. boots' = [boots EXCEPT ![b] = t] /\ net' = [n EXCEPT !.ref = b]
      BY <1>1 DEF Launch
    <2>2. b \in Boots
      BY <1>1, FreeSlot DEF Launch
    <2>3. c.id \in Calls
      BY <1>1 DEF ShownCalls, Bootstraps
    <2>4. t \in Bootstrap
      BY <2>3 DEF Bootstrap, Nets, Beliefs
    <2> HIDE DEF b, t
    <2>5. boots' \in [Boots -> Bootstrap]
      BY <2>1, <2>2, <2>4 DEF TypeOK
    <2>6. t.call \in Calls
      BY <2>3 DEF t
    <2>7. BootsNameCalls'
      BY <2>1, <2>2, <2>6 DEF TypeOK, BootsNameCalls, NoBoot
    <2> QED
      BY <2>1, <2>2, <2>5, <2>7 DEF Nets
  <1>2. CASE ~(wanted /\ Bootstraps(c) /\ n.ref = None)
    <2>1. boots' = boots /\ net' = n
      BY <1>2 DEF Launch
    <2> QED
      BY <2>1 DEF TypeOK, BootsNameCalls, NoBoot
  <1> QED
    BY <1>1, <1>2

-----------------------------------------------------------------------------
(* The effects of a render keep the invariant, whichever call they show.   *)

\* What the page shows and how it is connected, with the waits behind it.
PageOK ==
    /\ pushes \in Seq(Pushed) /\ Len(pushes) <= MaxPushes
    /\ cur \in ShownCalls /\ focus \in Chats \cup {None} /\ ending \in BOOLEAN
    /\ known \in Beliefs /\ net \in Nets /\ load \in {"idle", "asking"}
    /\ boots \in [Boots -> Bootstrap] /\ BootsNameCalls
    /\ StatusIsTrue

LEMMA EffectsKeep ==
    ASSUME TypeOK, BootsNameCalls, StatusIsTrue,
           NEW call \in ShownCalls, NEW f \in Chats \cup {None}, NEW e \in BOOLEAN,
           NEW q \in Seq(Pushed), Len(q) <= MaxPushes,
           Effects(call, f, net, e, q)
    PROVE  /\ PageOK'
           /\ ending' => e /\ IdOf(cur') = IdOf(cur)
           /\ cur' = IF f = None THEN None ELSE call
  <1> DEFINE c == IF f = None THEN None ELSE call
             m == IF IdOf(c) = IdOf(cur) THEN net ELSE ResetTransport(net)
             n == IF c = None THEN ResetLab(m) ELSE m
             k == IF c = None THEN Unknown ELSE known
             w == /\ ~ending'
                  /\ \/ IdOf(c) # IdOf(cur) \/ StOf(c) # StOf(cur) \/ ending
  <1>1. c \in ShownCalls
    BY DEF ShownCalls
  <1>2. /\ cur' = c /\ focus' = f /\ ending' = StaysEnding(c, e)
        /\ known' = k /\ load' = ScopedLoad(c, f)
        /\ pushes' = IF Topic(c, f) = Topic(cur, focus) THEN q ELSE <<>>
        /\ Launch(n, c, k, w)
    BY DEF Effects
  <1>3. ending' = (e /\ IdOf(c) = IdOf(cur)) /\ ending' \in BOOLEAN
    BY <1>2 DEF StaysEnding
  <1>4. k \in Beliefs
    BY DEF TypeOK, Unknown, Beliefs
  <1>5. m \in Nets /\ (m = net \/ (~m.timer /\ m.conn = net.conn /\ m.client = net.client))
    BY NetTypes DEF TypeOK
  <1>6. n \in Nets /\ (n.conn => n.client.up)
        /\ (n.timer => n.rc = "reconnecting" /\ c # None /\ ~n.conn)
    <2>1. CASE c = None
      BY <1>5, <2>1, NetTypes
    <2>2. CASE c # None
      BY <1>5, <2>2 DEF StatusIsTrue, ConnectedIsLinked, TimerMeansReconnecting
    <2> QED
      BY <2>1, <2>2
  <1> HIDE DEF n, k, m, c
  <1>8. w \in BOOLEAN
    BY <1>3 DEF TypeOK
  <1> HIDE DEF w
  <1>9. /\ boots' \in [Boots -> Bootstrap] /\ BootsNameCalls' /\ net' \in Nets
        /\ net'.conn = n.conn /\ net'.client = n.client
        /\ net'.rc = n.rc /\ net'.timer = n.timer
    BY <1>1, <1>2, <1>4, <1>6, <1>8, LaunchKeeps
  <1>10. StatusIsTrue'
    BY <1>2, <1>6, <1>9 DEF StatusIsTrue, ConnectedIsLinked, TimerMeansReconnecting
  <1>11. load' \in {"idle", "asking"}
    BY <1>2 DEF ScopedLoad
  <1>12. pushes' \in Seq(Pushed) /\ Len(pushes') <= MaxPushes
    <2>1. <<>> \in Seq(Pushed) /\ Len(<<>>) = 0 /\ MaxPushes \in Nat
      BY BoundAssumption
    <2> QED
      BY <1>2, <2>1
  <1>13. PageOK'
    BY <1>1, <1>2, <1>3, <1>4, <1>9, <1>10, <1>11, <1>12 DEF PageOK
  <1> QED
    BY <1>2, <1>3, <1>13 DEF c

-----------------------------------------------------------------------------
(* What is outside the page, and putting the invariant together.           *)

OutsideOK ==
    /\ srv \in [Calls -> Statuses] /\ joined \subseteq Calls
    /\ scan \in Requests /\ moves \in 0 .. MaxMoves
    /\ faults \in Nat /\ breaks \in Nat /\ faults + breaks <= MaxFaults

OpOK == op \in Ops /\ OpNamesCall /\ EndingIsUnderWay /\ EndingHasHandler

LEMMA Parts == IInv <=> PageOK /\ OutsideOK /\ OpOK
  BY DEF IInv, TypeOK, PageOK, OutsideOK, OpOK

LEMMA PartsNext == IInv' <=> PageOK' /\ OutsideOK' /\ OpOK'
  BY DEF IInv, TypeOK, PageOK, OutsideOK, OpOK

LEMMA Identities == \A c \in ShownCalls : IdOf(c) = None <=> c = None
  BY SlotAssumption DEF ShownCalls, IdOf

LEMMA RequestTypes ==
    /\ Idle \in Requests /\ Asking \in Requests
    /\ \A r \in ShownCalls : Answer(r) \in Requests /\ Answer(r).got = r
                             /\ Answer(r).at = "answered"
    /\ \A r \in Requests : r.got \in ShownCalls
    /\ None \in ShownCalls
  <1>1. \A r : Answer(r).got = r /\ Answer(r).at = "answered"
    BY DEF Answer
  <1>2. None \in ShownCalls /\ Idle.got = None /\ Asking.got = None
    BY DEF ShownCalls, Idle, Asking
  <1>3. Idle \in Requests /\ Asking \in Requests
        /\ \A r \in ShownCalls : Answer(r) \in Requests
    BY DEF Requests
  <1>4. \A r \in Requests : r = Idle \/ r = Asking \/ \E s \in ShownCalls : r = Answer(s)
    BY DEF Requests
  <1> QED
    BY <1>1, <1>2, <1>3, <1>4

\* An answer that is shown: the page stays in order, and what was being ended
\* stays so only while it is shown.
LEMMA ShowKeeps ==
    ASSUME IInv, NEW call \in ShownCalls, NEW l \in {"idle", "asking"}, Show(call, l)
    PROVE  /\ PageOK'
           /\ ending' => ending /\ cur' # None /\ (call = None => FALSE)
  <1>1. TypeOK /\ BootsNameCalls /\ StatusIsTrue /\ EndingHasHandler
    BY DEF IInv
  <1>2. CASE call = None /\ cur = None
    <2>1. load' = l /\ UNCHANGED <<cur, focus, ending, known, pushes, net, boots>>
      BY <1>2 DEF Show
    <2>2. PageOK'
      BY <1>1, <2>1 DEF PageOK, TypeOK, BootsNameCalls, StatusIsTrue, ConnectedIsLinked,
                        TimerMeansReconnecting
    <2>4. ~ending'
      BY <1>1, <1>2, <2>1 DEF EndingHasHandler
    <2> QED
      BY <2>2, <2>4
  <1>3. CASE ~(call = None /\ cur = None)
    <2>1. Effects(call, focus, net, ending, pushes)
      BY <1>3 DEF Show
    <2>2. /\ PageOK'
          /\ ending' => ending /\ IdOf(cur') = IdOf(cur)
          /\ cur' = IF focus = None THEN None ELSE call
      <3>1. focus \in Chats \cup {None} /\ ending \in BOOLEAN
            /\ pushes \in Seq(Pushed) /\ Len(pushes) <= MaxPushes
        BY <1>1 DEF TypeOK
      <3> QED
        BY <1>1, <2>1, <3>1, EffectsKeep
    <2>3. ASSUME ending' PROVE cur # None /\ cur \in ShownCalls /\ cur' \in ShownCalls
      BY <1>1, <2>2, <2>3 DEF EndingHasHandler, TypeOK, PageOK
    <2>4. ending' => cur' # None
      BY <2>2, <2>3, Identities
    <2> QED
      BY <2>2, <2>4
  <1> QED
    BY <1>2, <1>3

\* A push names a call and a status that can be pushed.
LEMMA TurnTypes ==
    ASSUME IInv, NEW c \in Calls, NEW st \in Live \cup {"ended"}, Turn(c, st)
    PROVE  /\ srv' \in [Calls -> Statuses]
           /\ pushes' \in Seq(Pushed) /\ Len(pushes') <= MaxPushes
  <1>1. srv \in [Calls -> Statuses] /\ pushes \in Seq(Pushed) /\ Len(pushes) <= MaxPushes
        /\ MaxPushes \in Nat
    BY BoundAssumption DEF IInv, TypeOK
  <1>2. srv' = [srv EXCEPT ![c] = st] /\ st \in Statuses
    BY DEF Turn, Live, Statuses
  <1>3. [id |-> c, st |-> srv'[c]] \in Pushed
    BY <1>1, <1>2 DEF Pushed
  <1>4. pushes' = pushes \/ (Len(pushes) < MaxPushes
                             /\ pushes' = Append(pushes, [id |-> c, st |-> srv'[c]]))
    BY DEF Turn, Publish
  <1> QED
    BY <1>1, <1>2, <1>3, <1>4

-----------------------------------------------------------------------------
(* The actions, one by one.                                                *)

\* A handler under way goes on, and what it ends is shown or not being ended.
LEMMA OpUntouched ==
    ASSUME IInv, op' = op, ending' => ending /\ cur' # None
    PROVE  OpOK'
  BY DEF IInv, TypeOK, OpOK, OpNamesCall, EndingIsUnderWay, EndingHasHandler

LEMMA PageUntouched ==
    ASSUME IInv, UNCHANGED <<cur, focus, ending, known, load, pushes, net, boots>>
    PROVE  PageOK' /\ (ending' => ending /\ cur' # None)
  BY DEF IInv, TypeOK, PageOK, StatusIsTrue, ConnectedIsLinked, TimerMeansReconnecting,
         BootsNameCalls, EndingHasHandler

\* A step that shows an answer, or nothing new, and spends a fault or a move.
LEMMA StepFrom ==
    ASSUME PageOK', OutsideOK', OpOK'
    PROVE  IInv'
  BY PartsNext

\* The chance to fail leaves room for one failure.
LEMMA FaultTypes ==
    ASSUME IInv, MayFail
    PROVE  /\ faults + 1 \in Nat /\ breaks + 1 \in Nat
           /\ (faults + 1) + breaks <= MaxFaults /\ faults + (breaks + 1) <= MaxFaults
  BY BoundAssumption DEF IInv, TypeOK, MayFail

LEMMA InitKept == Init => IInv
  <1> SUFFICES ASSUME Init PROVE IInv
    OBVIOUS
  <1>1. NoBoot \in Bootstrap /\ Unknown \in Beliefs /\ NoOp \in Ops
    BY RequestTypes DEF NoBoot, Bootstrap, Unknown, Beliefs, NoOp, Ops
  <1>2. Quiet \in Nets /\ ~Quiet.conn /\ ~Quiet.timer
    <2>1. NoClient \in Clients
      BY DEF NoClient, Clients
    <2> QED
      BY <2>1 DEF Quiet, Nets
  <1>3. PageOK
    <2>1. pushes \in Seq(Pushed) /\ Len(pushes) <= MaxPushes
      BY BoundAssumption DEF Init
    <2>2. boots \in [Boots -> Bootstrap] /\ BootsNameCalls
      BY <1>1 DEF Init, BootsNameCalls
    <2>3. cur \in ShownCalls /\ focus \in Chats \cup {None} /\ ending \in BOOLEAN
          /\ known \in Beliefs /\ net \in Nets /\ load \in {"idle", "asking"}
      BY <1>1, <1>2 DEF Init, ShownCalls
    <2>4. StatusIsTrue
      BY <1>2 DEF Init, StatusIsTrue, ConnectedIsLinked, TimerMeansReconnecting
    <2> QED
      BY <2>1, <2>2, <2>3, <2>4 DEF PageOK
  <1>4. OutsideOK
    BY RequestTypes, BoundAssumption DEF Init, OutsideOK, Statuses
  <1>5. OpOK
    BY <1>1 DEF Init, OpOK, OpNamesCall, EndingIsUnderWay, EndingHasHandler, NoOp, Idle
  <1> QED
    BY <1>3, <1>4, <1>5, Parts

LEMMA OthersKept == ASSUME IInv, NEW c \in Calls, Others(c) PROVE IInv'
  <1>1. PICK st \in Live \cup {"ended"} : Turn(c, st)
    BY DEF Others, Starts, Live
  <1>2. /\ srv' \in [Calls -> Statuses]
        /\ pushes' \in Seq(Pushed) /\ Len(pushes') <= MaxPushes
    BY <1>1, TurnTypes
  <1>3. UNCHANGED <<joined, cur, focus, ending, known, load, net, scan, boots, op, moves,
                    faults, breaks>>
    BY DEF Others, spent
  <1>4. PageOK'
    BY <1>2, <1>3 DEF IInv, TypeOK, PageOK, StatusIsTrue, ConnectedIsLinked,
                      TimerMeansReconnecting, BootsNameCalls
  <1>5. OutsideOK'
    BY <1>2, <1>3 DEF IInv, TypeOK, OutsideOK
  <1>6. OpOK'
    BY <1>3 DEF IInv, TypeOK, OpOK, OpNamesCall, EndingIsUnderWay, EndingHasHandler
  <1> QED
    BY <1>3, <1>4, <1>5, <1>6, PartsNext

LEMMA PushKept == ASSUME IInv, Push PROVE IInv'
  <1> DEFINE p == Head(pushes)
  <1>1. p \in Pushed /\ Tail(pushes) \in Seq(Pushed) /\ Len(Tail(pushes)) <= MaxPushes
    BY BoundAssumption DEF Push, IInv, TypeOK
  <1>2. UNCHANGED <<srv, joined, scan, op, moves, faults, breaks>>
    BY DEF Push, server, spent
  <1>3. PageOK' /\ ~ending'
    <2>1. CASE p.st = "ended" /\ cur = None
      <3>1. /\ ending' = FALSE /\ known' = Unknown /\ net' = ResetLab(net)
            /\ pushes' = Tail(pushes)
            /\ UNCHANGED <<cur, focus, load, boots>>
        BY <2>1 DEF Push
      <3>2. net' \in Nets /\ ~net'.conn /\ ~net'.timer
        BY <3>1, NetTypes DEF IInv, TypeOK
      <3>3. PageOK'
        BY <1>1, <3>1, <3>2 DEF IInv, TypeOK, PageOK, StatusIsTrue, ConnectedIsLinked,
               TimerMeansReconnecting, BootsNameCalls, Unknown, Beliefs
      <3> QED
        BY <2>1, <3>1, <3>3
    <2>2. CASE ~(p.st = "ended" /\ cur = None)
      <3> DEFINE call == IF p.st = "ended" THEN None ELSE p
      <3>1. Effects(call, focus, net, FALSE, Tail(pushes))
        BY <2>2 DEF Push
      <3>2. call \in ShownCalls
        BY <1>1 DEF Pushed, ShownCalls
      <3> HIDE DEF call
      <3>3. TypeOK /\ BootsNameCalls /\ StatusIsTrue /\ focus \in Chats \cup {None}
        BY DEF IInv, TypeOK
      <3> QED
        BY <1>1, <3>1, <3>2, <3>3, EffectsKeep
    <2> QED
      BY <2>1, <2>2
  <1>4. OutsideOK'
    BY <1>2 DEF IInv, TypeOK, OutsideOK
  <1>5. OpOK'
    BY <1>2, <1>3 DEF IInv, TypeOK, OpOK, OpNamesCall, EndingIsUnderWay, EndingHasHandler
  <1> QED
    BY <1>3, <1>4, <1>5, PartsNext

LEMMA LoadKept == ASSUME IInv, Load \/ LoadFails PROVE IInv'
  <1>1. PICK call \in ShownCalls : Show(call, "idle")
    BY LatestIsShown, RequestTypes DEF IInv, Load, LoadFails
  <1>2. PageOK' /\ (ending' => ending /\ cur' # None)
    BY <1>1, ShowKeeps
  <1>3. UNCHANGED <<srv, joined, scan, op, moves, breaks>>
        /\ (faults' = faults \/ (MayFail /\ faults' = faults + 1))
    BY DEF Load, LoadFails, server, spent
  <1>4. OutsideOK'
    BY <1>3, FaultTypes DEF IInv, TypeOK, OutsideOK
  <1> QED
    BY <1>2, <1>3, <1>4, OpUntouched, StepFrom

LEMMA AskTypes == ASSUME IInv, AskScan PROVE scan' \in Requests
  BY LatestIsShown, RequestTypes DEF IInv, TypeOK, AskScan

LEMMA ScanKept == ASSUME IInv, Scan \/ ApplyScan \/ ScanFails PROVE IInv'
  <1>1. PageOK' /\ (ending' => ending /\ cur' # None)
    <2>1. CASE UNCHANGED <<cur, focus, ending, known, load, pushes, net, boots>>
      BY <2>1, PageUntouched
    <2>2. CASE Show(scan.got, load)
      BY <2>2, ShowKeeps, RequestTypes DEF IInv, TypeOK
    <2> QED
      BY <2>1, <2>2 DEF Scan, ApplyScan, ScanFails, shown
  <1>2. UNCHANGED <<srv, joined, op, moves, breaks>>
        /\ (faults' = faults \/ (MayFail /\ faults' = faults + 1))
    BY DEF Scan, ApplyScan, ScanFails, server, spent
  <1>3. scan' \in Requests
    BY AskTypes, RequestTypes DEF Scan, ApplyScan, ScanFails
  <1>4. OutsideOK'
    BY <1>2, <1>3, FaultTypes DEF IInv, TypeOK, OutsideOK
  <1> QED
    BY <1>1, <1>2, <1>4, OpUntouched, StepFrom

LEMMA StateLoadedKept == ASSUME IInv, StateLoaded PROVE IInv'
  <1>1. known' \in Beliefs
    <2>1. (cur.id \in joined) \in BOOLEAN /\ (known.ep \/ cur.id \in joined) \in BOOLEAN
      OBVIOUS
    <2>2. [in |-> cur.id \in joined, ep |-> known.ep \/ cur.id \in joined] \in Beliefs
      BY <2>1, Zenon DEF Beliefs
    <2>3. Unknown \in Beliefs
      BY DEF Unknown, Beliefs
    <2> QED
      BY <2>2, <2>3, Zenon DEF StateLoaded
  <1>2. UNCHANGED <<srv, joined, cur, focus, ending, load, pushes, net, scan, boots,
                    op, moves, breaks>>
        /\ (faults' = faults \/ (MayFail /\ faults' = faults + 1))
    BY DEF StateLoaded, server
  <1>3. PageOK' /\ (ending' => ending /\ cur' # None)
    BY <1>1, <1>2 DEF IInv, TypeOK, PageOK, StatusIsTrue, ConnectedIsLinked,
       TimerMeansReconnecting, BootsNameCalls, EndingHasHandler
  <1>4. OutsideOK'
    BY <1>2, FaultTypes DEF IInv, TypeOK, OutsideOK
  <1> QED
    BY <1>2, <1>3, <1>4, OpUntouched, StepFrom

LEMMA BootStepKept == ASSUME IInv, NEW b \in Boots, BootStep(b) PROVE IInv'
  <1>1. boots[b] \in Bootstrap /\ boots[b] # NoBoot /\ boots[b].call \in Calls
    BY DEF IInv, TypeOK, BootStep, BootsNameCalls
  <1>2. PICK t \in Bootstrap : t.call = boots[b].call /\ boots' = [boots EXCEPT ![b] = t]
    <2>1. [boots[b] EXCEPT !.join = FALSE, !.did = TRUE] \in Bootstrap
          /\ [boots[b] EXCEPT !.join = FALSE, !.did = TRUE].call = boots[b].call
          /\ [boots[b] EXCEPT !.prov = FALSE] \in Bootstrap
          /\ [boots[b] EXCEPT !.prov = FALSE].call = boots[b].call
      BY <1>1 DEF Bootstrap
    <2> QED
      BY <2>1 DEF BootStep
  <1>3. UNCHANGED <<srv, cur, focus, ending, known, load, pushes, net, scan, op, moves,
                    faults, breaks>>
        /\ joined' \subseteq Calls
    BY <1>1 DEF BootStep, shown, spent, IInv, TypeOK
  <1>4. boots' \in [Boots -> Bootstrap] /\ BootsNameCalls'
    BY <1>1, <1>2 DEF IInv, TypeOK, BootsNameCalls, NoBoot
  <1>5. PageOK' /\ (ending' => ending /\ cur' # None)
    BY <1>3, <1>4 DEF IInv, TypeOK, PageOK, StatusIsTrue, ConnectedIsLinked,
       TimerMeansReconnecting, EndingHasHandler
  <1>6. OutsideOK'
    BY <1>3 DEF IInv, TypeOK, OutsideOK
  <1> QED
    BY <1>3, <1>5, <1>6, OpUntouched, StepFrom

\* A bootstrap that ends frees its slot and leaves a transport that is in order.
LEMMA BootEndsKeeps ==
    ASSUME IInv, NEW b \in Boots, NEW n \in Nets, BootEnds(b, n), Calm(n), Retrying(n, cur),
           net.rc = "reconnecting" => n.rc = "reconnecting",
           known' \in Beliefs, UNCHANGED <<cur, focus, ending, load, pushes>>
    PROVE  PageOK' /\ (ending' => ending /\ cur' # None)
  <1>1. boots' = [boots EXCEPT ![b] = NoBoot] /\ net' = [n EXCEPT !.ref = None]
    BY DEF BootEnds
  <1>2. NoBoot \in Bootstrap
    BY DEF NoBoot, Bootstrap
  <1>3. boots' \in [Boots -> Bootstrap] /\ BootsNameCalls'
    BY <1>1, <1>2 DEF IInv, TypeOK, BootsNameCalls, NoBoot
  <1>4. net' \in Nets /\ net'.conn = n.conn /\ net'.client = n.client
        /\ net'.rc = n.rc /\ net'.timer = n.timer
    BY <1>1 DEF Nets
  <1>5. StatusIsTrue'
    BY <1>4 DEF Calm, Retrying, StatusIsTrue, ConnectedIsLinked, TimerMeansReconnecting
  <1> QED
    BY <1>3, <1>4, <1>5 DEF IInv, TypeOK, PageOK, EndingHasHandler

LEMMA NetInOrder == ASSUME IInv PROVE net \in Nets /\ Calm(net) /\ Retrying(net, cur)
  BY DEF IInv, TypeOK, StatusIsTrue, ConnectedIsLinked, TimerMeansReconnecting, Calm,
         Retrying

LEMMA BootEndKept == ASSUME IInv, NEW b \in Boots, BootFails(b) \/ BootDone(b) PROVE IInv'
  <1>1. boots[b] \in Bootstrap /\ boots[b] # NoBoot /\ boots[b].call \in Calls
    BY DEF IInv, TypeOK, BootFails, BootDone, BootsNameCalls
  <1>2. UNCHANGED <<srv, joined, cur, focus, ending, load, pushes, scan, op, moves, breaks>>
        /\ (faults' = faults \/ (MayFail /\ faults' = faults + 1))
    BY DEF BootFails, BootDone, server, shown, spent
  <1>3. known' \in Beliefs
    BY <1>1 DEF BootFails, BootDone, shown, IInv, TypeOK, Beliefs, Bootstrap
  <1>4. PageOK' /\ (ending' => ending /\ cur' # None)
    <2>1. CASE BootEnds(b, Reconnect(net))
      BY <1>2, <1>3, <2>1, NetInOrder, ReconnectKeeps, BootEndsKeeps
    <2>2. CASE BootEnds(b, WithClient(net, boots[b]))
      <3> DEFINE n == WithClient(net, boots[b])
      <3>1. n \in Nets /\ Calm(n) /\ n.rc = net.rc /\ n.timer = net.timer
            /\ (n.conn => net.conn)
        BY <1>1, NetInOrder, WithClientKeeps
      <3>2. Retrying(n, cur)
        BY <3>1, NetInOrder DEF Retrying
      <3> HIDE DEF n
      <3>3. BootEnds(b, n)
        BY <2>2 DEF n
      <3> QED
        BY <1>2, <1>3, <3>1, <3>2, <3>3, BootEndsKeeps
    <2> QED
      BY <2>1, <2>2 DEF BootFails, BootDone
  <1>5. OutsideOK'
    BY <1>2, FaultTypes DEF IInv, TypeOK, OutsideOK
  <1> QED
    BY <1>2, <1>4, <1>5, OpUntouched, StepFrom

LEMMA TimerFiresKept == ASSUME IInv, TimerFires PROVE IInv'
  <1> DEFINE n == [net EXCEPT !.timer = FALSE]
             w == ~ending
  <1>1. n \in Nets /\ n.conn = net.conn /\ n.client = net.client /\ n.rc = net.rc
        /\ n.timer = FALSE
    BY NetInOrder DEF Nets
  <1>2. w \in BOOLEAN /\ cur \in ShownCalls /\ known \in Beliefs
    BY DEF IInv, TypeOK
  <1>3. Launch(n, cur, known, w)
    BY DEF TimerFires
  <1> HIDE DEF n, w
  <1>4. /\ boots' \in [Boots -> Bootstrap] /\ BootsNameCalls' /\ net' \in Nets
        /\ net'.conn = net.conn /\ net'.client = net.client
        /\ net'.rc = net.rc /\ net'.timer = FALSE
    BY <1>1, <1>2, <1>3, LaunchKeeps DEF IInv
  <1>5. UNCHANGED <<srv, joined, cur, focus, ending, known, load, pushes, scan, op, moves,
                    faults, breaks>>
    BY DEF TimerFires, server, shown, spent
  <1>6. PageOK' /\ (ending' => ending /\ cur' # None)
    BY <1>4, <1>5 DEF IInv, TypeOK, PageOK, StatusIsTrue, ConnectedIsLinked,
       TimerMeansReconnecting, EndingHasHandler
  <1>7. OutsideOK'
    BY <1>5 DEF IInv, TypeOK, OutsideOK
  <1> QED
    BY <1>5, <1>6, <1>7, OpUntouched, StepFrom

\* A link that opens is heard only by a page that is not reconnecting.
LEMMA LinkUpKept == ASSUME IInv, LinkUp PROVE IInv'
  <1>1. net \in Nets /\ net.client \in Clients
    BY NetInOrder DEF Nets
  <1>2. net' \in Nets /\ (net.rc = "reconnecting" => net'.rc = "reconnecting")
        /\ Calm(net') /\ Retrying(net', cur)
    <2>1. CASE LinkOpensHeard /\ net' = Connected([net EXCEPT !.client.up = TRUE])
      <3> DEFINE n == [net EXCEPT !.client = [net.client EXCEPT !.up = TRUE]]
      <3>1. [net EXCEPT !.client.up = TRUE] = n
        BY <1>1 DEF Nets
      <3>2. [net.client EXCEPT !.up = TRUE] \in Clients
            /\ [net.client EXCEPT !.up = TRUE].up = TRUE
        BY <1>1 DEF Clients
      <3>3. n \in Nets /\ n.client.up = TRUE
        BY <1>1, <3>2 DEF Nets
      <3> HIDE DEF n
      <3>4. net' \in Nets /\ net'.client.up = TRUE /\ net'.timer = FALSE
        BY <2>1, <3>1, <3>3 DEF Connected, Nets
      <3> QED
        BY <2>1, <3>4 DEF LinkOpensHeard, Calm, Retrying
    <2>2. CASE net' = [net EXCEPT !.stale = FALSE]
      BY <1>1, <2>2, NetInOrder DEF Nets, Calm, Retrying
    <2> QED
      BY <2>1, <2>2 DEF LinkUp, FromCurrent
  <1>3. UNCHANGED <<srv, joined, cur, focus, ending, known, load, pushes, scan, boots, op,
                    moves, faults, breaks>>
    BY DEF LinkUp, server, shown, spent
  <1>4. PageOK' /\ (ending' => ending /\ cur' # None)
    BY <1>2, <1>3 DEF IInv, TypeOK, PageOK, StatusIsTrue, ConnectedIsLinked,
       TimerMeansReconnecting, EndingHasHandler, BootsNameCalls, Calm, Retrying
  <1>5. OutsideOK'
    BY <1>3 DEF IInv, TypeOK, OutsideOK
  <1> QED
    BY <1>3, <1>4, <1>5, OpUntouched, StepFrom

LEMMA LinkDownKept == ASSUME IInv, LinkDown PROVE IInv'
  <1> DEFINE client == [net.client EXCEPT !.up = FALSE, !.asked = FALSE]
             n == [net EXCEPT !.client = client, !.conn = FALSE, !.want = None]
  <1>1. net \in Nets /\ net.client \in Clients /\ Retrying(net, cur)
    BY NetInOrder DEF Nets
  <1>2. [net EXCEPT !.client.up = FALSE, !.client.asked = FALSE, !.conn = FALSE,
                    !.want = None] = n
    BY <1>1 DEF Nets, Clients
  <1>3. client \in Clients
    BY <1>1 DEF Clients
  <1>4. n \in Nets /\ n.conn = FALSE /\ n.rc = net.rc /\ n.timer = net.timer
    BY <1>1, <1>3 DEF Nets
  <1>5. net' = Reconnect(n)
    BY <1>2 DEF LinkDown
  <1> HIDE DEF n
  <1>6. Calm(n) /\ Retrying(n, cur)
    BY <1>1, <1>4 DEF Calm, Retrying
  <1>7. net' \in Nets /\ Calm(net') /\ Retrying(net', cur)
        /\ (net.rc = "reconnecting" => net'.rc = "reconnecting")
    BY <1>4, <1>5, <1>6, ReconnectKeeps
  <1>8. UNCHANGED <<srv, joined, cur, focus, ending, known, load, pushes, scan, boots, op,
                    moves, faults>>
        /\ (breaks' = breaks \/ (MayFail /\ breaks' = breaks + 1))
    BY DEF LinkDown, server, shown
  <1>9. PageOK' /\ (ending' => ending /\ cur' # None)
    BY <1>7, <1>8 DEF IInv, TypeOK, PageOK, StatusIsTrue, ConnectedIsLinked,
       TimerMeansReconnecting, EndingHasHandler, BootsNameCalls, Calm, Retrying
  <1>10. OutsideOK'
    BY <1>8, FaultTypes DEF IInv, TypeOK, OutsideOK
  <1> QED
    BY <1>8, <1>9, <1>10, OpUntouched, StepFrom

\* A handler that has begun: it names what it is for.
LEMMA ClickOps ==
    ASSUME IInv, Click
    PROVE  /\ op' \in Ops /\ OpNamesCall' /\ op' # NoOp
           /\ ending' => op'.kind = "end" \/ (op'.kind = "accept" /\ ending)
  <1>1. /\ op = NoOp /\ focus \in Chats /\ cur \in ShownCalls
        /\ (cur # None => cur.id \in Calls)
        /\ NoOp.on = None /\ NoOp.kind = None
    BY DEF Click, IInv, TypeOK, ShownCalls, NoOp
  <1>2. Asking \in Requests /\ Asking # Idle /\ Asking.at = "asking"
    BY RequestTypes DEF Asking, Idle
  <1>3. CASE op' = [NoOp EXCEPT !.kind = "start", !.on = focus, !.answer = Asking]
             /\ ending' = FALSE
    <2>1. op' = [kind |-> "start", on |-> focus, answer |-> Asking]
      BY <1>3 DEF NoOp
    <2> QED
      BY <1>1, <1>2, <1>3, <2>1 DEF Ops, OpNamesCall, NoOp
  <1>4. CASE cur # None /\ op' = [kind |-> "accept", on |-> cur.id, answer |-> Asking]
             /\ ending' = ending
    BY <1>1, <1>2, <1>4 DEF Ops, OpNamesCall, NoOp
  <1>5. CASE cur # None /\ op' = [kind |-> "end", on |-> cur.id, answer |-> Asking]
    BY <1>1, <1>2, <1>5 DEF Ops, OpNamesCall, NoOp
  <1> QED
    BY <1>3, <1>4, <1>5 DEF Click

LEMMA ClickKept == ASSUME IInv, Click PROVE IInv'
  <1>1. UNCHANGED <<srv, joined, cur, focus, known, load, pushes, scan, boots, faults,
                    breaks>>
        /\ moves' \in 0 .. MaxMoves
    BY BoundAssumption DEF Click, server, IInv, TypeOK
  <1>2. \/ ending' = FALSE /\ net' = ResetTransport(net) /\ op'.kind = "start"
        \/ UNCHANGED <<ending, net>>
        \/ cur # None /\ ending' = TRUE /\ net' = net
    <2>1. [NoOp EXCEPT !.kind = "start", !.on = focus, !.answer = Asking].kind = "start"
      BY DEF NoOp
    <2>2. \/ ending' = FALSE /\ net' = ResetTransport(net)
             /\ op' = [NoOp EXCEPT !.kind = "start", !.on = focus, !.answer = Asking]
          \/ UNCHANGED <<ending, net>>
          \/ cur # None /\ ending' = TRUE /\ net' = net
      BY Zenon DEF Click
    <2> QED
      BY <2>1, <2>2, Zenon
  <1>3. net' \in Nets /\ StatusIsTrue' /\ ending' \in BOOLEAN
    <2>1. CASE net' = net
      BY <1>1, <1>2, <2>1 DEF IInv, TypeOK, StatusIsTrue, ConnectedIsLinked,
                              TimerMeansReconnecting
    <2>2. CASE net' = ResetTransport(net) /\ ending' = FALSE
      BY <2>2, NetTypes, NetInOrder DEF StatusIsTrue, ConnectedIsLinked,
                                        TimerMeansReconnecting, Calm
    <2> QED
      BY <1>2, <2>1, <2>2
  <1>4. PageOK'
    BY <1>1, <1>3 DEF IInv, TypeOK, PageOK, BootsNameCalls
  <1>5. OutsideOK'
    BY <1>1 DEF IInv, TypeOK, OutsideOK
  <1>6. ~ending
    \* a handler that ends a call would still be there
    BY DEF Click, IInv, EndingIsUnderWay
  <1>7. OpOK'
    BY <1>1, <1>2, <1>6, ClickOps DEF OpOK, EndingIsUnderWay, EndingHasHandler
  <1> QED
    BY <1>4, <1>5, <1>7, PartsNext

\* An answer keeps what its handler is for, and "end" is answered by no call.
LEMMA ServeOpKept == ASSUME IInv, ServeOp PROVE IInv'
  <1>1. op \in Ops /\ op # NoOp /\ (op.kind \in {"accept", "end"} => op.on \in Calls)
    BY DEF ServeOp, IInv, TypeOK, OpNamesCall, NoOp, Asking, Idle
  <1>2. UNCHANGED <<joined, cur, focus, ending, known, load, net, scan, boots, moves, faults,
                    breaks>>
    BY DEF ServeOp, spent
  <1>3. PICK r \in ShownCalls : Replies(r) /\ (op.kind = "end" => r = None)
    <2>1. \A c \in Calls : [id |-> c, st |-> "ringing"] \in ShownCalls
                           /\ [id |-> c, st |-> "active"] \in ShownCalls
      BY DEF ShownCalls, Live
    <2> QED
      BY <1>1, <2>1, LatestIsShown, RequestTypes DEF ServeOp, IInv
  <1>4. op' = [op EXCEPT !.answer = Answer(r)]
    BY <1>3 DEF Replies
  <1>5. op' \in Ops /\ op'.kind = op.kind /\ op'.on = op.on /\ op'.answer = Answer(r)
    BY <1>1, <1>4, RequestTypes DEF Ops
  <1>6. op' # NoOp /\ OpNamesCall'
    BY <1>1, <1>3, <1>5, RequestTypes DEF OpNamesCall, NoOp, Answer, Idle
  <1>7. OpOK'
    BY <1>2, <1>5, <1>6 DEF OpOK, EndingIsUnderWay, EndingHasHandler, IInv
  <1>8. srv' \in [Calls -> Statuses] /\ pushes' \in Seq(Pushed) /\ Len(pushes') <= MaxPushes
    <2>1. CASE UNCHANGED <<srv, pushes>>
      BY <2>1 DEF IInv, TypeOK
    <2>2. CASE \E c \in Calls, st \in Live \cup {"ended"} : Turn(c, st)
      BY <2>2, TurnTypes
    <2> QED
      BY <1>1, <2>1, <2>2 DEF ServeOp, Starts, Live
  <1>9. PageOK'
    BY <1>2, <1>8 DEF IInv, TypeOK, PageOK, StatusIsTrue, ConnectedIsLinked,
                      TimerMeansReconnecting, BootsNameCalls
  <1>10. OutsideOK'
    BY <1>2, <1>8 DEF IInv, TypeOK, OutsideOK
  <1> QED
    BY <1>7, <1>9, <1>10, StepFrom

LEMMA NoOpOK == ~ending' /\ op' = NoOp => OpOK'
  <1>1. NoOp \in Ops /\ NoOp.on = None /\ NoOp.answer = Idle
    BY RequestTypes DEF NoOp, Ops
  <1> QED
    BY <1>1 DEF OpOK, OpNamesCall, EndingIsUnderWay, EndingHasHandler, Idle

LEMMA OpRefusedKept == ASSUME IInv, OpRefused PROVE IInv'
  <1> DEFINE w == ending # ending'
  <1>1. op' = NoOp /\ ending' = (ending /\ op.kind # "end")
    BY DEF OpRefused
  <1>2. ~ending' /\ ending' \in BOOLEAN
    BY <1>1 DEF IInv, EndingHasHandler
  <1>3. w \in BOOLEAN /\ cur \in ShownCalls /\ known \in Beliefs
    BY DEF IInv, TypeOK
  <1>4. Launch(net, cur, known, w)
    BY DEF OpRefused
  <1> HIDE DEF w
  <1>5. /\ boots' \in [Boots -> Bootstrap] /\ BootsNameCalls' /\ net' \in Nets
        /\ net'.conn = net.conn /\ net'.client = net.client
        /\ net'.rc = net.rc /\ net'.timer = net.timer
    BY <1>3, <1>4, LaunchKeeps DEF IInv, TypeOK
  <1>6. UNCHANGED <<srv, joined, cur, focus, known, load, pushes, scan, moves, breaks>>
        /\ (faults' = faults \/ (MayFail /\ faults' = faults + 1))
    BY DEF OpRefused, server
  <1>7. PageOK'
    BY <1>2, <1>5, <1>6 DEF IInv, TypeOK, PageOK, StatusIsTrue, ConnectedIsLinked,
       TimerMeansReconnecting
  <1>8. OutsideOK'
    BY <1>6, FaultTypes DEF IInv, TypeOK, OutsideOK
  <1> QED
    BY <1>1, <1>2, <1>7, <1>8, NoOpOK, StepFrom

\* The handler that ends a call shows no call when it is done.
LEMMA FinishOpKept == ASSUME IInv, FinishOp PROVE IInv'
  <1>1. op.answer.got \in ShownCalls /\ load \in {"idle", "asking"}
    BY RequestTypes DEF IInv, TypeOK, Ops
  <1>2. PageOK' /\ (ending' => ending /\ (op.answer.got = None => FALSE))
    BY <1>1, ShowKeeps DEF FinishOp
  <1>3. ending => op.answer.got = None
    BY DEF FinishOp, IInv, EndingHasHandler, OpNamesCall
  <1>4. ~ending' /\ op' = NoOp
    BY <1>2, <1>3 DEF FinishOp
  <1>5. OutsideOK'
    BY DEF FinishOp, server, spent, IInv, TypeOK, OutsideOK
  <1> QED
    BY <1>2, <1>4, <1>5, NoOpOK, StepFrom

LEMMA OpenChatKept == ASSUME IInv, NEW f \in Chats \cup {None}, OpenChat(f) PROVE IInv'
  <1>1. UNCHANGED <<srv, joined, scan, op, faults, breaks>> /\ moves' \in 0 .. MaxMoves
    BY BoundAssumption DEF OpenChat, server, IInv, TypeOK
  <1>2. PageOK' /\ (ending' => ending /\ cur' # None)
    <2>1. CASE f = None
      <3>1. Effects(None, f, net, FALSE, <<>>)
        BY <2>1 DEF OpenChat
      <3>2. <<>> \in Seq(Pushed) /\ Len(<<>>) <= MaxPushes
        BY BoundAssumption
      <3> QED
        BY <3>1, <3>2, RequestTypes, EffectsKeep DEF IInv
    <2>2. CASE f # None
      <3>1. /\ focus' = f /\ load' = ScopedLoad(cur, f)
            /\ pushes' = IF Topic(cur, f) = Topic(cur, focus) THEN pushes ELSE <<>>
            /\ UNCHANGED <<cur, ending, known, net, boots>>
        BY <2>2 DEF OpenChat
      <3>2. load' \in {"idle", "asking"}
        BY <3>1 DEF ScopedLoad
      <3>3. pushes' \in Seq(Pushed) /\ Len(pushes') <= MaxPushes
        BY <3>1, BoundAssumption DEF IInv, TypeOK
      <3> QED
        BY <3>1, <3>2, <3>3
           DEF IInv, TypeOK, PageOK, StatusIsTrue, ConnectedIsLinked,
               TimerMeansReconnecting, BootsNameCalls, EndingHasHandler
    <2> QED
      BY <2>1, <2>2
  <1>3. OutsideOK'
    BY <1>1 DEF IInv, TypeOK, OutsideOK
  <1> QED
    BY <1>1, <1>2, <1>3, OpUntouched, StepFrom

LEMMA ReloadKept == ASSUME IInv, Reload PROVE IInv'
  <1>1. /\ cur' = None /\ focus' \in Chats /\ ending' = FALSE /\ known' = Unknown
        /\ net' = Quiet /\ load' = "asking" /\ scan' = Idle /\ pushes' = <<>>
        /\ boots' = [b \in Boots |-> NoBoot] /\ op' = NoOp
        /\ UNCHANGED <<joined, breaks>> /\ moves' = moves + 1 /\ moves < MaxMoves
    BY DEF Reload
  <1>2. srv' \in [Calls -> Statuses]
    BY DEF Reload, IInv, TypeOK, Statuses
  <1>3. faults' = faults \/ (MayFail /\ faults' = faults + 1)
    BY DEF Reload
  <1>4. Quiet \in Nets /\ ~Quiet.conn /\ ~Quiet.timer /\ Unknown \in Beliefs
        /\ NoBoot \in Bootstrap
    BY NetInOrder, NetTypes DEF Unknown, Beliefs, NoBoot, Bootstrap
  <1>5. PageOK'
    <2>1. <<>> \in Seq(Pushed) /\ Len(<<>>) <= MaxPushes
      BY BoundAssumption
    <2>2. boots' \in [Boots -> Bootstrap] /\ BootsNameCalls'
      BY <1>1, <1>4 DEF BootsNameCalls
    <2>3. StatusIsTrue'
      BY <1>1, <1>4 DEF StatusIsTrue, ConnectedIsLinked, TimerMeansReconnecting
    <2> QED
      BY <1>1, <1>4, <2>1, <2>2, <2>3, RequestTypes DEF PageOK
  <1>6. OutsideOK'
    BY <1>1, <1>2, <1>3, FaultTypes, RequestTypes, BoundAssumption
       DEF IInv, TypeOK, OutsideOK
  <1> QED
    BY <1>1, <1>5, <1>6, NoOpOK, StepFrom

LEMMA RefocusKept == ASSUME IInv, Refocus PROVE IInv'
  <1> DEFINE w == focus # None
  <1>1. Launch(net, cur, known, w) /\ w \in BOOLEAN
    BY DEF Refocus
  <1> HIDE DEF w
  <1>2. /\ boots' \in [Boots -> Bootstrap] /\ BootsNameCalls' /\ net' \in Nets
        /\ net'.conn = net.conn /\ net'.client = net.client
        /\ net'.rc = net.rc /\ net'.timer = net.timer
    BY <1>1, LaunchKeeps DEF IInv, TypeOK
  <1>3. UNCHANGED <<srv, joined, cur, focus, ending, known, load, pushes, op, faults, breaks>>
        /\ moves' \in 0 .. MaxMoves
    BY BoundAssumption DEF Refocus, server, shown, IInv, TypeOK
  <1>4. PageOK' /\ (ending' => ending /\ cur' # None)
    BY <1>2, <1>3 DEF IInv, TypeOK, PageOK, StatusIsTrue, ConnectedIsLinked,
       TimerMeansReconnecting, EndingHasHandler
  <1>5. OutsideOK'
    BY <1>3, AskTypes DEF Refocus, IInv, TypeOK, OutsideOK
  <1> QED
    BY <1>3, <1>4, <1>5, OpUntouched, StepFrom

-----------------------------------------------------------------------------
(* The invariant, and what follows from it.                                *)

LEMMA NextKept == ASSUME IInv, [Next]_vars PROVE IInv'
  <1>1. CASE Next
    BY <1>1, LoadKept, ScanKept, StateLoadedKept, BootStepKept, BootEndKept, PushKept,
       OthersKept, TimerFiresKept, LinkUpKept, LinkDownKept, ClickKept, ServeOpKept,
       OpRefusedKept, FinishOpKept, OpenChatKept, ReloadKept, RefocusKept
       DEF Next, Answers
  <1>2. CASE UNCHANGED vars
    <2>1. PageOK' /\ (ending' => ending /\ cur' # None)
      BY <1>2, PageUntouched DEF vars, shown
    <2>2. OutsideOK' /\ op' = op
      BY <1>2 DEF vars, server, spent, IInv, TypeOK, OutsideOK
    <2> QED
      BY <1>2, <2>1, <2>2, OpUntouched, StepFrom
  <1> QED
    BY <1>1, <1>2

\* In every reachable state of the page, with any number of calls, requests and
\* faults, the inductive invariant holds.
THEOREM Inductive == Spec => []IInv
  <1>1. IInv /\ [Next]_vars => IInv'
    BY NextKept
  <1> QED
    BY <1>1, InitKept, PTL DEF Spec

\* Every variable keeps its type: what is shown is a call that rings or is active.
THEOREM TypeCorrect == Spec => []TypeOK
  <1>1. IInv => TypeOK
    BY DEF IInv
  <1> QED
    BY <1>1, Inductive, PTL

\* "Connected" is said only of a client that has a link, and a retry waits only
\* for a call that is shown and not connected.
THEOREM StatusShown == Spec => []StatusIsTrue
  <1>1. IInv => StatusIsTrue
    BY DEF IInv
  <1> QED
    BY <1>1, Inductive, PTL

\* isEndingCall is set only while the handler that clears it is under way.
THEOREM EndingIsHandled == Spec => []EndingHasHandler
  <1>1. IInv => EndingHasHandler
    BY DEF IInv
  <1> QED
    BY <1>1, Inductive, PTL

-----------------------------------------------------------------------------
(* The quality of a call: what holds of the policy for all statistics, and *)
(* of the polls for any number of them.                                    *)

LEMMA RecommendsProfile ==
    ASSUME NEW i, NEW s
    PROVE  Q!Recommend(i, s) \in Q!Profiles
  BY DEF Q!Recommend, Q!Profiles, Q!High

LEMMA ShowsIndicator ==
    ASSUME NEW p PROVE Q!Indicator(p) \in {"good", "fair", "poor"}
  BY DEF Q!Indicator

\* Every sample keeps the counters under what they count to, and moves the
\* profile by at most one step, never away from what the sample asks for.
THEOREM OneStep ==
    ASSUME NEW now \in Q!Profiles, NEW to \in Q!Profiles, NEW h \in Q!Counters
    PROVE  LET d == Q!Choose(now, to, h) IN
           /\ d.hyst \in Q!Counters
           /\ d.profile \in Q!Profiles
           /\ to < now => d.profile \in {now - 1, now}
           /\ to > now => d.profile \in {now, now + 1}
           /\ to = now => d.profile = now
<1> USE DEF Q!Profiles, Q!Counters, Q!OneMore, Q!Calm
<1>1. CASE to < now
  <2>1. Q!Patience(to) \in {1, 2}
    BY DEF Q!Patience
  <2>2. CASE Q!OneMore(h.down) < Q!Patience(to)
    BY <1>1, <2>1, <2>2 DEF Q!Choose
  <2>3. CASE ~(Q!OneMore(h.down) < Q!Patience(to))
    BY <1>1, <2>1, <2>3 DEF Q!Choose
  <2> QED BY <2>2, <2>3
<1>2. CASE to > now
  <2>1. CASE Q!OneMore(h.up) < Q!PatienceUp
    BY <1>2, <2>1 DEF Q!Choose, Q!PatienceUp
  <2>2. CASE ~(Q!OneMore(h.up) < Q!PatienceUp)
    BY <1>2, <2>2 DEF Q!Choose, Q!PatienceUp
  <2> QED BY <2>1, <2>2
<1>3. CASE to = now
  BY <1>3 DEF Q!Choose
<1> QED BY <1>1, <1>2, <1>3

\* An absent statistic is none of the present ones, as CallQuality assumes.
NoNumber == None \notin Nat \cup {"bandwidth", "cpu"}

\* Sample t is no better than sample s in any statistic.
NoBetter(t, s) ==
    /\ t.loss >= s.loss
    /\ s.rtt = None \/ (t.rtt # None /\ t.rtt >= s.rtt)
    /\ s.jitter = None \/ (t.jitter # None /\ t.jitter >= s.jitter)
    /\ s.rate = None \/ (t.rate # None /\ t.rate <= s.rate)
    /\ s.reason = None \/ t.reason = s.reason \/ t.reason = "bandwidth"

LEMMA OverGrows ==
    ASSUME NEW x \in Nat \cup {None}, NEW y \in Nat \cup {None}, NEW limit \in Nat,
           x = None \/ (y # None /\ y >= x), Q!Over(x, limit), NoNumber
    PROVE  Q!Over(y, limit)
  BY DEF Q!Over, NoNumber

LEMMA WorseStays ==
    ASSUME NEW s \in Q!Statistics, NEW t \in Q!Statistics, NoBetter(t, s),
           NEW l \in Nat, NEW r \in Nat, NEW j \in Nat, NEW b \in Nat,
           Q!Worse(s, l, r, j, b), NoNumber
    PROVE  Q!Worse(t, l, r, j, b)
<1>1. \A limit \in Nat : /\ Q!Over(s.rtt, limit) => Q!Over(t.rtt, limit)
                         /\ Q!Over(s.jitter, limit) => Q!Over(t.jitter, limit)
  BY OverGrows DEF NoBetter, Q!Statistics
<1>2. Q!Constrained(s) => Q!Constrained(t)
  BY <1>1 DEF Q!Constrained, NoBetter, NoNumber, Q!Statistics
<1>3. Q!Below(s, b) => Q!Below(t, b)
  BY <1>2 DEF Q!Below, Q!Constrained, NoBetter, NoNumber, Q!Statistics
<1>4. s.loss >= l => t.loss >= l
  BY DEF NoBetter, Q!Statistics
<1> QED BY <1>1, <1>3, <1>4 DEF Q!Worse

\* A sample that is worse in some statistics and better in none never asks for
\* a higher profile, as long as the connection's ICE state is the same.
THEOREM WorseIsNoHigher ==
    ASSUME NEW s \in Q!Statistics, NEW t \in Q!Statistics, NEW i, NoBetter(t, s), NoNumber
    PROVE  Q!Recommend(i, t) <= Q!Recommend(i, s)
<1>1. Q!Worse(s, 120, 650, 80, 140) => Q!Worse(t, 120, 650, 80, 140)
  BY WorseStays
<1>2. Q!Worse(s, 70, 450, 50, 320) => Q!Worse(t, 70, 450, 50, 320)
  BY WorseStays
<1>3. Q!Worse(s, 30, 250, 30, 700) => Q!Worse(t, 30, 250, 30, 700)
  BY WorseStays
<1>4. s.reason \in {"bandwidth", "cpu"} => t.reason \in {"bandwidth", "cpu"}
  BY DEF NoBetter, NoNumber, Q!Statistics
<1> QED BY <1>1, <1>2, <1>3, <1>4 DEF Q!Recommend, Q!High

-----------------------------------------------------------------------------
(* Its polls.                                                              *)

\* Without a call there is no client, and every poll that waits is cancelled.
NoCallNoPoll == ~active => ice = None /\ \A p \in Polls : ~polls[p].live

QualityInv == Q!TypeOK /\ Q!FreshWithoutCall /\ NoCallNoPoll

LEMMA CancelledType ==
    ASSUME Q!TypeOK
    PROVE  /\ Q!Cancelled \in [Polls -> [at: {"idle", "stats", "applying"}, cur: Q!Profiles,
                                        ice: Q!IceStates \cup {None}, live: BOOLEAN]]
           /\ \A x \in Polls : ~Q!Cancelled[x].live
<1>1. \A x \in Polls :
          /\ [polls[x] EXCEPT !.live = FALSE]
                \in [at: {"idle", "stats", "applying"}, cur: Q!Profiles,
                    ice: Q!IceStates \cup {None}, live: BOOLEAN]
          /\ ~[polls[x] EXCEPT !.live = FALSE].live
  BY DEF Q!TypeOK
<1> QED BY <1>1, Zenon DEF Q!Cancelled

LEMMA StartValues == Q!High \in Q!Profiles /\ Q!Calm \in Q!Counters
  BY DEF Q!High, Q!Profiles, Q!Calm, Q!Counters

LEMMA QualityInitInv == ASSUME Q!Init PROVE QualityInv
<1>1. Q!Idle \in [at: {"idle", "stats", "applying"}, cur: Q!Profiles,
                ice: Q!IceStates \cup {None}, live: BOOLEAN] /\ Q!Idle.live = FALSE
  BY DEF Q!Idle, Q!Profiles, Q!High
<1>2. polls \in [Polls -> [at: {"idle", "stats", "applying"}, cur: Q!Profiles,
                          ice: Q!IceStates \cup {None}, live: BOOLEAN]]
  BY <1>1 DEF Q!Init
<1>3. hyst \in Q!Counters /\ profile \in Q!Profiles
  BY DEF Q!Init, Q!Counters, Q!Calm, Q!Profiles, Q!High
<1>4. netMoves \in 0 .. MaxMoves
  BY BoundAssumption DEF Q!Init
<1>5. Q!TypeOK
  BY <1>2, <1>3, <1>4 DEF Q!Init, Q!TypeOK
<1> QED BY <1>1, <1>5 DEF Q!Init, QualityInv, Q!FreshWithoutCall, NoCallNoPoll

LEMMA QualityStartInv ==
    ASSUME QualityInv, NEW p \in Polls, Q!PollStart(p) PROVE QualityInv'
  BY DEF Q!PollStart, QualityInv, Q!TypeOK, Q!FreshWithoutCall, NoCallNoPoll, Q!call, Q!transport, Q!Idle

LEMMA QualityReadInv ==
    ASSUME QualityInv, NEW p \in Polls, Q!PollReads(p) PROVE QualityInv'
<1> DEFINE q == polls[p]
           d == Q!Choose(q.cur, Q!Recommend(q.ice, network), hyst)
<1>1. /\ q.cur \in Q!Profiles /\ hyst \in Q!Counters
  BY DEF QualityInv, Q!TypeOK
<1>2. /\ d.hyst \in Q!Counters /\ d.profile \in Q!Profiles
  BY <1>1, RecommendsProfile, OneStep
<1>3. Q!Indicator(q.cur) \in {"good", "fair", "poor"}
  BY ShowsIndicator
<1>4. /\ polls' \in [Polls -> [at: {"idle", "stats", "applying"}, cur: Q!Profiles,
                             ice: Q!IceStates \cup {None}, live: BOOLEAN]]
      /\ \A x \in Polls : polls'[x].live => polls[x].live
  <2>1. CASE polls' = [polls EXCEPT ![p] = Q!Idle]
    BY <2>1 DEF QualityInv, Q!TypeOK, Q!Idle, Q!Profiles, Q!High
  <2>2. CASE polls' = [polls EXCEPT ![p].at = "applying", ![p].cur = d.profile]
    BY <2>2, <1>2 DEF QualityInv, Q!TypeOK
  <2> QED BY <2>1, <2>2 DEF Q!PollReads
<1>5. hyst' = d.hyst /\ ind' \in {"good", "fair", "poor"} /\ UNCHANGED <<Q!call, profile, Q!transport>>
  BY <1>3 DEF Q!PollReads, QualityInv, Q!TypeOK
<1> QED BY <1>2, <1>4, <1>5 DEF QualityInv, Q!TypeOK, Q!FreshWithoutCall, NoCallNoPoll, Q!call, Q!transport

LEMMA QualityFailInv ==
    ASSUME QualityInv, NEW p \in Polls, Q!PollFails(p) PROVE QualityInv'
  BY BoundAssumption DEF Q!PollFails, QualityInv, Q!TypeOK, Q!FreshWithoutCall, NoCallNoPoll,
     Q!transport, Q!Idle, Q!Profiles, Q!High

\* A poll that may still change the profile waits for a call that is there.
LEMMA QualityAppliedInv ==
    ASSUME QualityInv, NEW p \in Polls, Q!PollApplied(p) PROVE QualityInv'
<1>1. polls[p].cur \in Q!Profiles /\ Q!Indicator(polls[p].cur) \in {"good", "fair", "poor"}
  BY ShowsIndicator DEF QualityInv, Q!TypeOK
<1>2. polls[p].live => active
  BY DEF QualityInv, NoCallNoPoll
<1>3. /\ polls' \in [Polls -> [at: {"idle", "stats", "applying"}, cur: Q!Profiles,
                             ice: Q!IceStates \cup {None}, live: BOOLEAN]]
      /\ \A x \in Polls : polls'[x].live => polls[x].live
  BY DEF Q!PollApplied, QualityInv, Q!TypeOK, Q!Idle, Q!Profiles, Q!High
<1> QED
  BY <1>1, <1>2, <1>3 DEF Q!PollApplied, Q!NotCancelled, QualityInv, Q!TypeOK, Q!FreshWithoutCall,
     NoCallNoPoll, Q!call, Q!transport

LEMMA QualityStatusInv ==
    ASSUME QualityInv, Q!Sync \/ Q!SixSeconds PROVE QualityInv'
<1>1. Q!Since \in {"none", "fresh", "late"}
  BY DEF Q!Since, QualityInv, Q!TypeOK
<1>2. \A late \in BOOLEAN : Q!Status(ice, conn, late) \in {"connected", "reconnecting", "disconnected"}
  BY DEF Q!Status
<1>3. status' \in {"connected", "reconnecting", "disconnected"} /\ since' \in {"none", "fresh", "late"}
  BY <1>1, <1>2 DEF Q!Sync, Q!SixSeconds, QualityInv, Q!TypeOK
<1> QED BY <1>3 DEF Q!Sync, Q!SixSeconds, QualityInv, Q!TypeOK, Q!FreshWithoutCall, NoCallNoPoll, Q!call, Q!quality

LEMMA QualityCallInv ==
    ASSUME QualityInv, Q!CallStarts \/ Q!CallEnds \/ Q!CallRenewed PROVE QualityInv'
<1>1. netMoves' \in 0 .. MaxMoves
  BY BoundAssumption DEF Q!CallStarts, Q!CallEnds, Q!CallRenewed, Q!Moves, QualityInv, Q!TypeOK
<1>2. CASE Q!CallStarts
  BY <1>1, <1>2 DEF Q!CallStarts, QualityInv, Q!TypeOK, Q!FreshWithoutCall, NoCallNoPoll, Q!quality, Q!transport
<1>3. CASE Q!CallEnds \/ Q!CallRenewed
  <2>1. /\ polls' \in [Polls -> [at: {"idle", "stats", "applying"}, cur: Q!Profiles,
                               ice: Q!IceStates \cup {None}, live: BOOLEAN]]
        /\ \A x \in Polls : ~polls'[x].live
    BY <1>3, CancelledType DEF Q!CallEnds, Q!CallRenewed, QualityInv
  <2> QED
    BY <1>1, <1>3, <2>1, StartValues DEF Q!CallEnds, Q!CallRenewed, QualityInv, Q!TypeOK,
       Q!FreshWithoutCall, NoCallNoPoll, Q!transport
<1> QED BY <1>2, <1>3

LEMMA QualityClientInv ==
    ASSUME QualityInv, Q!ClientMade \/ Q!ClientConnects \/ Q!ClientLost PROVE QualityInv'
<1>1. netMoves' \in 0 .. MaxMoves
  BY BoundAssumption DEF Q!ClientMade, Q!ClientConnects, Q!ClientLost, Q!Moves, QualityInv, Q!TypeOK
<1>2. CASE Q!ClientMade \/ Q!ClientConnects
  BY <1>1, <1>2 DEF Q!ClientMade, Q!ClientConnects, QualityInv, Q!TypeOK, Q!FreshWithoutCall, NoCallNoPoll,
     Q!quality, Q!transport, Q!IceStates
<1>3. CASE Q!ClientLost
  <2>1. /\ polls' \in [Polls -> [at: {"idle", "stats", "applying"}, cur: Q!Profiles,
                               ice: Q!IceStates \cup {None}, live: BOOLEAN]]
        /\ \A x \in Polls : ~polls'[x].live
    BY <1>3, CancelledType DEF Q!ClientLost, QualityInv
  <2> QED
    BY <1>1, <1>3, <2>1, StartValues DEF Q!ClientLost, QualityInv, Q!TypeOK, Q!FreshWithoutCall,
       NoCallNoPoll, Q!transport
<1> QED BY <1>2, <1>3

LEMMA QualityNetInv ==
    ASSUME QualityInv, (\E i \in Q!IceStates : Q!IceMoves(i)) \/ (\E s \in Samples : Q!NetworkMoves(s))
    PROVE  QualityInv'
  BY BoundAssumption DEF Q!IceMoves, Q!NetworkMoves, Q!Moves, QualityInv, Q!TypeOK, Q!FreshWithoutCall,
     NoCallNoPoll, Q!quality, Q!transport

LEMMA QualityStutterInv == ASSUME QualityInv, UNCHANGED Q!vars PROVE QualityInv'
  BY DEF Q!vars, Q!call, Q!quality, Q!transport, QualityInv, Q!TypeOK, Q!FreshWithoutCall, NoCallNoPoll

THEOREM QualityInductive == Q!Spec => []QualityInv
<1>1. Q!Init => QualityInv
  BY QualityInitInv
<1>2. QualityInv /\ [Q!Next]_(Q!vars) => QualityInv'
  <2> SUFFICES ASSUME QualityInv, [Q!Next]_(Q!vars) PROVE QualityInv'
    OBVIOUS
  <2>1. CASE \E p \in Polls : Q!PollStart(p) \/ Q!PollReads(p) \/ Q!PollFails(p) \/ Q!PollApplied(p)
    BY <2>1, QualityStartInv, QualityReadInv, QualityFailInv, QualityAppliedInv
  <2>2. CASE Q!Sync \/ Q!SixSeconds
    BY <2>2, QualityStatusInv
  <2>3. CASE Q!CallStarts \/ Q!CallEnds \/ Q!CallRenewed
    BY <2>3, QualityCallInv
  <2>4. CASE Q!ClientMade \/ Q!ClientConnects \/ Q!ClientLost
    BY <2>4, QualityClientInv
  <2>5. CASE (\E i \in Q!IceStates : Q!IceMoves(i)) \/ (\E s \in Samples : Q!NetworkMoves(s))
    BY <2>5, QualityNetInv
  <2>6. CASE UNCHANGED Q!vars
    BY <2>6, QualityStutterInv
  <2> QED BY <2>1, <2>2, <2>3, <2>4, <2>5, <2>6 DEF Q!Next
<1> QED BY <1>1, <1>2, PTL DEF Q!Spec

\* Every variable stays in its type, with any number of overlapping polls: the
\* counters never pass what they count to.
THEOREM QualityTypeCorrect == Q!Spec => []Q!TypeOK
<1>1. QualityInv => Q!TypeOK
  BY DEF QualityInv
<1> QED BY <1>1, QualityInductive, PTL

\* No poll, however late, hands the profile of a call that is over to the next.
THEOREM FreshCalls == Q!Spec => []FreshWithoutCall
<1>1. QualityInv => FreshWithoutCall
  BY DEF QualityInv, Q!FreshWithoutCall, FreshWithoutCall, Q!High, High
<1> QED BY <1>1, QualityInductive, PTL
=============================================================================

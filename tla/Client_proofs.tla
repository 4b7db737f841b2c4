--------------------------- MODULE Client_proofs ---------------------------
(* Theorems about the parts of the web client's pages (MCClient), for any    *)
(* devices, chats, texts, records, users and settings, and any number of     *)
(* steps: what a page and a device keep, and what a page shows of others.    *)
(* Each part has an inductive invariant of its own; a step of another part   *)
(* leaves it alone.                                                          *)
EXTENDS MCClient, Sequences, FiniteSetTheorems, TLAPS

-----------------------------------------------------------------------------
(* Sessions.  A record's current session is one of its sessions; one-time   *)
(* keys are spent once; an answered session is held by both devices, and a   *)
(* sealed message belongs to a session its sender holds.                     *)

RecordTypes ==
    /\ recs \in [Devices -> [Devices -> [all : SUBSET SessionType, now : 0 .. made]]]
    /\ oneTime \in [Devices -> SUBSET (Keys \ {NoKey})]
    /\ made \in Nat

\* No session is lost.
BasesStay ==
    /\ \A d, p \in Devices, b \in Nat : HasBase(d, p, b) => HasBase(d, p, b)'
    /\ \A d, p \in Devices : recs[d][p].all # {} => recs'[d][p].all # {}

LEMMA KeyFacts == NoKey \notin {FirstKey, FirstKey + 1} /\ Keys \ {NoKey} = {FirstKey, FirstKey + 1}
  BY DevicesAssumption DEF Keys, FirstKey

\* What a function of functions is after one value is replaced.
LEMMA UpdatedTwice ==
    ASSUME NEW X, NEW U, NEW V, NEW W, NEW f \in [X -> [U -> V]], V \subseteq W,
           NEW d \in X, NEW u \in U, NEW v \in W
    PROVE  /\ [f EXCEPT ![d][u] = v] \in [X -> [U -> W]]
           /\ \A x \in X, y \in U :
                  [f EXCEPT ![d][u] = v][x][y] = IF x = d /\ y = u THEN v ELSE f[x][y]
  OBVIOUS

\* The record of p becomes r at d.
RecordIs(d, p, r) == recs' = [recs EXCEPT ![d][p] = r]

LEMMA RecsUpdated ==
    ASSUME RecordTypes, NEW d \in Devices, NEW p \in Devices, NEW W, NEW v \in W,
           [all : SUBSET SessionType, now : 0 .. made] \subseteq W,
           RecordIs(d, p, v)
    PROVE  /\ recs' \in [Devices -> [Devices -> W]]
           /\ \A x, y \in Devices : recs'[x][y] = IF x = d /\ y = p THEN v ELSE recs[x][y]
<1> DEFINE V == [all : SUBSET SessionType, now : 0 .. made]
<1>1. recs \in [Devices -> [Devices -> V]] /\ V \subseteq W
  BY DEF RecordTypes
<1> HIDE DEF V
<1> QED BY <1>1, UpdatedTwice DEF RecordIs

\* Building a session keeps the record sound: its base key is new, and the one-time
\* key of the peer is not spent by it.
LEMMA BuiltInv ==
    ASSUME NEW d \in Devices, NEW p \in Devices, RecordTypes, RecordsInv,
           Built(d, p), UNCHANGED oneTime
    PROVE  /\ RecordTypes' /\ RecordsInv' /\ BasesStay /\ recs'[d][p].all # {}
           /\ made' = made + 1
<1> DEFINE new == [base |-> made + 1, offered |-> FirstKey, key |-> FirstKey, mine |-> TRUE]
<1>1. /\ recs' = [recs EXCEPT ![d][p] = [all |-> recs[d][p].all \cup {new}, now |-> made + 1]]
      /\ made' = made + 1 /\ oneTime' = oneTime
  BY DEF Built, Archive, RecordTypes
<1>2. new \in SessionType' /\ SessionType \subseteq SessionType'
  BY <1>1 DEF SessionType, Keys, RecordTypes
<1>3. recs' \in [Devices -> [Devices -> [all : SUBSET SessionType', now : 0 .. made']]]
  <2> DEFINE V == [all : SUBSET SessionType, now : 0 .. made]
             W == [all : SUBSET SessionType', now : 0 .. made']
             v == [all |-> recs[d][p].all \cup {new}, now |-> made + 1]
  <2>1. V \subseteq W
    BY <1>1, <1>2 DEF RecordTypes
  <2>2. v \in W
    <3>1. recs[d][p].all \subseteq SessionType /\ made + 1 \in 0 .. made'
      BY <1>1 DEF RecordTypes
    <3>2. recs[d][p].all \cup {new} \subseteq SessionType'
      BY <1>2, <3>1
    <3> HIDE DEF new
    <3> QED BY <3>1, <3>2
  <2>3. RecordIs(d, p, v)
    BY <1>1 DEF RecordIs
  <2> HIDE DEF W, v, new
  <2>4. recs' \in [Devices -> [Devices -> W]]
    BY <2>1, <2>2, <2>3, RecsUpdated
  <2> QED BY <2>4 DEF W
<1>4. RecordTypes'
  BY <1>1, <1>3 DEF RecordTypes
<1>5. \A x, y \in Devices : recs'[x][y].all = recs[x][y].all \cup (IF x = d /\ y = p THEN {new} ELSE {})
  BY <1>1 DEF RecordTypes
<1>6. \A x, y \in Devices : \A t \in recs[x][y].all : t \in SessionType /\ t.base \in 1 .. made
  BY DEF RecordTypes, SessionType
<1>7. BasesStay
  BY <1>5 DEF BasesStay, HasBase
<1>8. RecordsAreSound'
  <2> SUFFICES ASSUME NEW x \in Devices, NEW y \in Devices
               PROVE /\ \A s, t \in recs'[x][y].all : s.base = t.base => s = t
                     /\ recs'[x][y].all # {} => \E t \in recs'[x][y].all : t.base = recs'[x][y].now
    BY DEF RecordsAreSound
  <2>1. CASE x = d /\ y = p
    <3>1. recs'[x][y].now = new.base /\ new \in recs'[x][y].all
      BY <1>1, <1>5, <2>1 DEF RecordTypes
    <3>2. \A s \in recs[x][y].all : s.base # new.base
      BY <1>6 DEF RecordTypes
    <3>3. recs'[x][y].all = recs[x][y].all \cup {new}
      BY <1>5, <2>1
    <3>4. \A s, t \in recs[x][y].all : s.base = t.base => s = t
      BY DEF RecordsInv, RecordsAreSound
    <3> HIDE DEF new
    <3> QED BY <3>1, <3>2, <3>3, <3>4
  <2>2. CASE ~(x = d /\ y = p)
    <3>1. recs'[x][y] = recs[x][y]
      BY <1>1, <2>2 DEF RecordTypes
    <3> QED BY <3>1 DEF RecordsInv, RecordsAreSound
  <2> QED BY <2>1, <2>2
<1>9. \A k : \A x \in Devices : MadeFrom(x, k)' = MadeFrom(x, k)
  <2> SUFFICES ASSUME NEW x \in Devices, NEW k PROVE MadeFrom(x, k)' = MadeFrom(x, k)
    OBVIOUS
  <2>1. \A t : t \in MadeFrom(x, k)
               <=> (\E y \in Devices : t \in recs[x][y].all) /\ ~t.mine /\ t.key = k
    BY DEF MadeFrom
  <2>2. \A t : t \in MadeFrom(x, k)'
               <=> (\E y \in Devices : t \in recs'[x][y].all) /\ ~t.mine /\ t.key = k
    BY DEF MadeFrom
  <2>3. new.mine
    OBVIOUS
  <2> HIDE DEF new
  <2>4. \A t : t \in MadeFrom(x, k)' <=> t \in MadeFrom(x, k)
    BY <1>5, <2>1, <2>2, <2>3
  <2> QED BY <2>4
<1>10. SpentOnce'
  <2>1. \A x, y \in Devices : \A t \in recs'[x][y].all :
          ~ t.mine => t.offered = NoKey /\ t.key \notin oneTime'[x]
    BY <1>1, <1>5 DEF RecordsInv, SpentOnce
  <2> QED BY <1>1, <1>9, <2>1 DEF RecordsInv, SpentOnce
<1>11. AnsweredAreShared'
  <2>1. new.offered # NoKey
    BY KeyFacts
  <2>2. \A x, y \in Devices : \A t \in recs'[x][y].all : t.offered = NoKey => t \in recs[x][y].all
    BY <1>5, <2>1
  <2> QED BY <1>6, <1>7, <2>2 DEF RecordsInv, AnsweredAreShared, BasesStay
<1>12. recs'[d][p].all # {}
  BY <1>5
<1> QED BY <1>1, <1>4, <1>7, <1>8, <1>10, <1>11, <1>12 DEF RecordsInv

\* A session that opened a message stays the same but for its prekey.
Turned(t, base) == IF t.base = base THEN [t EXCEPT !.offered = NoKey] ELSE t

LEMMA TurnedKeeps ==
    ASSUME NEW t \in SessionType, NEW base
    PROVE  /\ Turned(t, base) \in SessionType
           /\ Turned(t, base).base = t.base /\ Turned(t, base).key = t.key
           /\ Turned(t, base).mine = t.mine
           /\ t.base # base => Turned(t, base) = t
           /\ t.offered = NoKey => Turned(t, base) = t
           /\ t.base = base => Turned(t, base).offered = NoKey
  BY DEF Turned, SessionType, Keys

\* Opening in a session the record holds makes it the current one, and answers it.
LEMMA PromoteInv ==
    ASSUME NEW d \in Devices, NEW p \in Devices, NEW base \in Nat, RecordTypes, RecordsInv,
           HasBase(d, p, base), HasBase(p, d, base),
           RecordIs(d, p, Promote(recs[d][p], base)), UNCHANGED <<oneTime, made>>
    PROVE  RecordTypes' /\ RecordsInv' /\ BasesStay
<1> DEFINE X == recs[d][p].all
           Y == {Turned(t, base) : t \in X}
           v == [all |-> Y, now |-> base]
<1>1. RecordIs(d, p, v) /\ oneTime' = oneTime /\ made' = made
  BY Zenon DEF Promote, Turned, RecordTypes
<1>2. X \subseteq SessionType /\ \A x, y \in Devices : recs[x][y].all \subseteq SessionType
  BY DEF RecordTypes
<1>3. Y \subseteq SessionType
  BY <1>2, TurnedKeeps
<1>4. base \in 0 .. made
  BY <1>2 DEF HasBase, SessionType, RecordTypes
<1>5. SessionType' = SessionType
  BY <1>1 DEF SessionType, Keys
<1>6. /\ recs' \in [Devices -> [Devices -> [all : SUBSET SessionType, now : 0 .. made]]]
      /\ \A x, y \in Devices : recs'[x][y] = IF x = d /\ y = p THEN v ELSE recs[x][y]
  <2> DEFINE V == [all : SUBSET SessionType, now : 0 .. made]
  <2>1. v \in V
    BY <1>3, <1>4
  <2>2. [all : SUBSET SessionType, now : 0 .. made] \subseteq V
    OBVIOUS
  <2> HIDE DEF V, v
  <2>3. /\ recs' \in [Devices -> [Devices -> V]]
        /\ \A x, y \in Devices : recs'[x][y] = IF x = d /\ y = p THEN v ELSE recs[x][y]
    BY <1>1, <2>1, <2>2, RecsUpdated
  <2> QED BY <2>3 DEF V
<1>7. RecordTypes'
  BY <1>1, <1>5, <1>6 DEF RecordTypes
<1>8. recs'[d][p].all = Y /\ recs'[d][p].now = base
  <2>1. v.all = Y /\ v.now = base
    OBVIOUS
  <2> HIDE DEF v, X, Y
  <2> QED BY <1>6, <2>1
<1>9. \A x, y \in Devices : ~(x = d /\ y = p) => recs'[x][y] = recs[x][y]
  BY <1>6
<1> HIDE DEF v
<1>10. \A t \in X : Turned(t, base) \in Y
  OBVIOUS
<1>11. \A t \in Y : \E s \in X : t = Turned(s, base)
  OBVIOUS
<1> HIDE DEF X, Y
<1>a. X = recs[d][p].all
  BY DEF X
<1>12. BasesStay
  <2>1. ASSUME NEW x \in Devices, NEW y \in Devices, NEW b \in Nat, HasBase(x, y, b)
        PROVE  HasBase(x, y, b)'
    <3>1. CASE x = d /\ y = p
      <4>1. PICK t \in X : t.base = b
        BY <2>1, <3>1, <1>a DEF HasBase
      <4>2. Turned(t, base) \in Y /\ Turned(t, base).base = b
        BY <4>1, <1>2, <1>10, TurnedKeeps
      <4> QED BY <3>1, <4>2, <1>8 DEF HasBase
    <3>2. CASE ~(x = d /\ y = p)
      BY <2>1, <3>2, <1>9 DEF HasBase
    <3> QED BY <3>1, <3>2
  <2>2. ASSUME NEW x \in Devices, NEW y \in Devices, recs[x][y].all # {}
        PROVE  recs'[x][y].all # {}
    BY <2>2, <1>8, <1>9, <1>10, <1>a
  <2> QED BY <2>1, <2>2 DEF BasesStay
<1>13. RecordsAreSound'
  <2> SUFFICES ASSUME NEW x \in Devices, NEW y \in Devices
               PROVE /\ \A s, t \in recs'[x][y].all : s.base = t.base => s = t
                     /\ recs'[x][y].all # {} => \E t \in recs'[x][y].all : t.base = recs'[x][y].now
    BY DEF RecordsAreSound
  <2>1. CASE x = d /\ y = p
    <3>1. ASSUME NEW s \in Y, NEW t \in Y, s.base = t.base PROVE s = t
      <4>1. PICK s0 \in X : s = Turned(s0, base)
        BY <1>11
      <4>2. PICK t0 \in X : t = Turned(t0, base)
        BY <1>11
      <4>3. s0.base = t0.base
        BY <3>1, <4>1, <4>2, <1>2, TurnedKeeps
      <4>4. s0 = t0
        BY <4>3, <1>a DEF RecordsInv, RecordsAreSound
      <4> QED BY <4>1, <4>2, <4>4
    <3>2. PICK t \in X : t.base = base
      BY <1>a DEF HasBase
    <3>3. Turned(t, base) \in Y /\ Turned(t, base).base = base
      BY <3>2, <1>2, <1>10, TurnedKeeps
    <3> QED BY <2>1, <3>1, <3>3, <1>8
  <2>2. CASE ~(x = d /\ y = p)
    BY <2>2, <1>9 DEF RecordsInv, RecordsAreSound
  <2> QED BY <2>1, <2>2
\* X session of the peer's has offered nothing and is not turned.
<1>14. \A t \in X : ~ t.mine => Turned(t, base) = t
  BY <1>2, <1>a, TurnedKeeps DEF RecordsInv, SpentOnce
<1>15. \A t : ~ t.mine => (t \in X <=> t \in Y)
  BY <1>2, <1>10, <1>11, <1>14, TurnedKeeps
<1>16. \A k : \A x \in Devices : MadeFrom(x, k)' = MadeFrom(x, k)
  <2> SUFFICES ASSUME NEW x \in Devices, NEW k PROVE MadeFrom(x, k)' = MadeFrom(x, k)
    OBVIOUS
  <2>1. \A t : t \in MadeFrom(x, k)
               <=> (\E y \in Devices : t \in recs[x][y].all) /\ ~t.mine /\ t.key = k
    BY DEF MadeFrom
  <2>2. \A t : t \in MadeFrom(x, k)'
               <=> (\E y \in Devices : t \in recs'[x][y].all) /\ ~t.mine /\ t.key = k
    BY DEF MadeFrom
  <2>3. \A t : t \in MadeFrom(x, k)' <=> t \in MadeFrom(x, k)
    BY <1>8, <1>9, <1>15, <1>a, <2>1, <2>2
  <2> QED BY <2>3
<1>17. SpentOnce'
  <2>1. ASSUME NEW x \in Devices, NEW y \in Devices, NEW t \in recs'[x][y].all, ~ t.mine
        PROVE  t.offered = NoKey /\ t.key \notin oneTime'[x]
    <3>1. t \in recs[x][y].all
      BY <2>1, <1>8, <1>9, <1>15, <1>a
    <3> QED BY <1>1, <2>1, <3>1 DEF RecordsInv, SpentOnce
  <2> QED BY <1>1, <1>16, <2>1 DEF RecordsInv, SpentOnce
<1>18. AnsweredAreShared'
  <2> SUFFICES ASSUME NEW x \in Devices, NEW y \in Devices, NEW t \in recs'[x][y].all,
                      t.offered = NoKey
               PROVE  HasBase(y, x, t.base)'
    BY DEF AnsweredAreShared
  <2>1. \A s \in SessionType : s.base \in Nat
    BY DEF SessionType
  <2>2. CASE ~(x = d /\ y = p)
    BY <2>1, <2>2, <1>2, <1>9, <1>12 DEF RecordsInv, AnsweredAreShared, BasesStay
  <2>3. CASE x = d /\ y = p
    <3>1. PICK s \in X : t = Turned(s, base)
      BY <2>3, <1>8, <1>11
    <3>2. CASE s.base = base
      <4>1. t.base = base
        BY <3>1, <3>2, <1>2, TurnedKeeps
      <4> QED BY <2>3, <4>1, <1>12 DEF BasesStay
    <3>3. CASE s.base # base
      <4>1. t = s /\ s \in recs[x][y].all /\ s.base \in Nat
        BY <2>1, <2>3, <3>1, <3>3, <1>2, <1>a, TurnedKeeps
      <4>2. HasBase(y, x, t.base)
        BY <4>1 DEF RecordsInv, AnsweredAreShared
      <4> QED BY <4>1, <4>2, <1>12 DEF BasesStay
    <3> QED BY <3>2, <3>3
  <2> QED BY <2>2, <2>3
<1> QED BY <1>7, <1>12, <1>13, <1>17, <1>18 DEF RecordsInv

LEMMA MadeIff ==
    ASSUME NEW x \in Devices, NEW k
    PROVE  \A t : t \in MadeFrom(x, k) <=> (\E y \in Devices : t \in recs[x][y].all) /\ ~t.mine /\ t.key = k
  BY DEF MadeFrom

\* Opening a first message adds a session and spends the one-time key it was made
\* from: no other session of the device was made from that key.
LEMMA OpenFirstInv ==
    ASSUME NEW d \in Devices, NEW p \in Devices, NEW base \in 1 .. made, NEW key \in Keys \ {NoKey},
           RecordTypes, RecordsInv,
           ~ HasBase(d, p, base), HasBase(p, d, base), Holds(d, key),
           RecordIs(d, p, Archive(recs[d][p], [base |-> base, offered |-> NoKey,
                                               key |-> key, mine |-> FALSE])),
           oneTime' = Spend(d, key), made' = made
    PROVE  RecordTypes' /\ RecordsInv' /\ BasesStay
<1> DEFINE new == [base |-> base, offered |-> NoKey, key |-> key, mine |-> FALSE]
           v == [all |-> recs[d][p].all \cup {new}, now |-> base]
<1>1. RecordIs(d, p, v)
  BY DEF Archive
<1>2. new \in SessionType /\ new.base = base /\ new.offered = NoKey /\ new.key = key /\ ~ new.mine
  BY DEF SessionType, Keys, RecordTypes
<1>3. SessionType' = SessionType
  BY DEF SessionType, Keys
<1>4. \A x, y \in Devices : recs[x][y].all \subseteq SessionType
  BY DEF RecordTypes
<1>5. /\ recs' \in [Devices -> [Devices -> [all : SUBSET SessionType, now : 0 .. made]]]
      /\ \A x, y \in Devices : recs'[x][y] = IF x = d /\ y = p THEN v ELSE recs[x][y]
  <2> DEFINE V == [all : SUBSET SessionType, now : 0 .. made]
  <2>1. v \in V
    <3>1. recs[d][p].all \cup {new} \subseteq SessionType
      BY <1>2, <1>4
    <3>2. base \in 0 .. made
      BY DEF RecordTypes
    <3> HIDE DEF new
    <3> QED BY <3>1, <3>2
  <2>2. [all : SUBSET SessionType, now : 0 .. made] \subseteq V
    OBVIOUS
  <2> HIDE DEF V, v
  <2>3. /\ recs' \in [Devices -> [Devices -> V]]
        /\ \A x, y \in Devices : recs'[x][y] = IF x = d /\ y = p THEN v ELSE recs[x][y]
    BY <1>1, <2>1, <2>2, RecsUpdated
  <2> QED BY <2>3 DEF V
<1>6. /\ oneTime' \in [Devices -> SUBSET (Keys \ {NoKey})]
      /\ \A x \in Devices : oneTime'[x] = oneTime[x] \ (IF x = d THEN {key} ELSE {})
  BY DEF Spend, RecordTypes
<1>7. RecordTypes'
  BY <1>3, <1>5, <1>6 DEF RecordTypes, Keys
<1>v. v.all = recs[d][p].all \cup {new} /\ v.now = base
  OBVIOUS
<1> HIDE DEF new, v
<1>8. /\ recs'[d][p].all = recs[d][p].all \cup {new} /\ recs'[d][p].now = base
      /\ \A x, y \in Devices : ~(x = d /\ y = p) => recs'[x][y] = recs[x][y]
  BY <1>5, <1>v
<1>s. \A x, y \in Devices : \A t : t \in recs'[x][y].all <=>
          t \in recs[x][y].all \/ (x = d /\ y = p /\ t = new)
  <2>1. \A t : t \in recs'[d][p].all <=> t \in recs[d][p].all \/ t = new
    BY <1>8
  <2>2. \A x, y \in Devices : ~(x = d /\ y = p) => recs'[x][y] = recs[x][y]
    BY <1>8
  <2> QED BY <2>1, <2>2
<1>9. BasesStay
  BY <1>8 DEF BasesStay, HasBase
<1>10. RecordsAreSound'
  <2> SUFFICES ASSUME NEW x \in Devices, NEW y \in Devices
               PROVE /\ \A s, t \in recs'[x][y].all : s.base = t.base => s = t
                     /\ recs'[x][y].all # {} => \E t \in recs'[x][y].all : t.base = recs'[x][y].now
    BY DEF RecordsAreSound
  <2>1. CASE x = d /\ y = p
    <3>1. \A s \in recs[d][p].all : s.base # base
      BY DEF HasBase
    <3>2. \A s, t \in recs[d][p].all : s.base = t.base => s = t
      BY DEF RecordsInv, RecordsAreSound
    <3>3. \A s \in recs'[x][y].all : s \in recs[d][p].all \/ s = new
      BY <1>s, <2>1
    <3>4. new \in recs'[x][y].all /\ recs'[x][y].now = base
      BY <1>8, <1>s, <2>1
    <3> QED BY <1>2, <3>1, <3>2, <3>3, <3>4
  <2>2. CASE ~(x = d /\ y = p)
    BY <2>2, <1>8 DEF RecordsInv, RecordsAreSound
  <2> QED BY <2>1, <2>2
<1>11. \A k : \A x \in Devices : \A t : t \in MadeFrom(x, k)'
              <=> t \in MadeFrom(x, k) \/ (x = d /\ k = key /\ t = new)
  <2> SUFFICES ASSUME NEW x \in Devices, NEW k, NEW t
               PROVE  t \in MadeFrom(x, k)' <=> t \in MadeFrom(x, k) \/ (x = d /\ k = key /\ t = new)
    OBVIOUS
  <2>1. t \in MadeFrom(x, k) <=> (\E y \in Devices : t \in recs[x][y].all) /\ ~t.mine /\ t.key = k
    BY MadeIff
  <2>2. t \in MadeFrom(x, k)' <=> (\E y \in Devices : t \in recs'[x][y].all) /\ ~t.mine /\ t.key = k
    BY DEF MadeFrom
  <2> QED BY <1>2, <1>8, <2>1, <2>2
<1>12. SpentOnce'
  <2>1. ASSUME NEW x \in Devices, NEW y \in Devices, NEW t \in recs'[x][y].all, ~ t.mine
        PROVE  t.offered = NoKey /\ t.key \notin oneTime'[x]
    <3>1. CASE t \in recs[x][y].all
      BY <2>1, <3>1, <1>6 DEF RecordsInv, SpentOnce
    <3>2. CASE x = d /\ t = new
      BY <3>2, <1>2, <1>6
    <3>3. t \in recs[x][y].all \/ (x = d /\ y = p /\ t = new)
      BY <2>1, <1>s
    <3> QED BY <3>1, <3>2, <3>3
  <2>2. MadeFrom(d, key) = {}
    BY MadeIff DEF Holds, RecordsInv, SpentOnce
  <2>3. ASSUME NEW x \in Devices, NEW k \in Keys \ {NoKey}
        PROVE  /\ \A s, t \in MadeFrom(x, k)' : s = t
               /\ k \notin oneTime'[x] => MadeFrom(x, k)' # {}
    <3>1. CASE x = d /\ k = key
      BY <1>11, <2>2, <3>1
    <3>2. CASE ~(x = d /\ k = key)
      BY <1>6, <1>11, <3>2 DEF RecordsInv, SpentOnce
    <3> QED BY <3>1, <3>2
  <2>4. Keys' = Keys
    BY DEF Keys
  <2> QED BY <2>1, <2>3, <2>4 DEF SpentOnce
<1>13. AnsweredAreShared'
  <2> SUFFICES ASSUME NEW x \in Devices, NEW y \in Devices, NEW t \in recs'[x][y].all,
                      t.offered = NoKey
               PROVE  HasBase(y, x, t.base)'
    BY DEF AnsweredAreShared
  <2>1. \A s \in SessionType : s.base \in Nat
    BY DEF SessionType
  <2>2. CASE t \in recs[x][y].all
    BY <2>1, <2>2, <1>4, <1>9 DEF RecordsInv, AnsweredAreShared, BasesStay
  <2>3. CASE t \notin recs[x][y].all
    <3>1. x = d /\ y = p /\ t = new
      BY <2>3, <1>s
    <3> QED BY <3>1, <1>2, <1>9 DEF BasesStay
  <2> QED BY <2>2, <2>3
<1> QED BY <1>7, <1>9, <1>10, <1>12, <1>13 DEF RecordsInv

\* What is on its way and what is being sent.
PostTypes ==
    /\ Linked \subseteq linked /\ linked \subseteq Devices
    /\ posts \in [Devices -> [Purposes -> Sending]]
    /\ mail \subseteq EnvelopeType
    /\ begun \in 0 .. MaxSends /\ misses \in 0 .. MaxMisses
    /\ \A d \in Devices, u \in Purposes : IsFiniteSet(posts[d][u].sealed)

LEMMA SessionParts == IInv <=> /\ RecordTypes /\ RecordsInv /\ PostTypes /\ WrapsInSessions
                               /\ \A m \in InFlight : SealedAreShared(m)
  BY DEF IInv, RecordTypes, PostTypes, TypeOK

\* A step that makes or turns sessions, or none, leaves what is on its way as it is.
LEMMA FlightStays ==
    ASSUME RecordTypes, PostTypes, \A m \in InFlight : SealedAreShared(m), WrapsInSessions,
           made' \in Nat, made' >= made, BasesStay
    PROVE  /\ EnvelopeType \subseteq EnvelopeType'
           /\ \A m \in InFlight : SealedAreShared(m)'
           /\ \A d \in Devices : posts[d]["key"].at = "ensure" =>
                 \A p \in posts[d]["key"].bundles : recs'[d][p].all # {}
<1>1. EnvelopeType \subseteq EnvelopeType'
  BY DEF EnvelopeType, Keys, RecordTypes
<1>2. InFlight \subseteq EnvelopeType
  BY DEF InFlight, PostTypes, Sending
<1>3. \A m \in EnvelopeType : m.from \in Devices /\ m.to \in Devices /\ m.base \in Nat
  BY DEF EnvelopeType
<1>4. \A m \in InFlight : SealedAreShared(m)'
  BY <1>2, <1>3 DEF SealedAreShared, BasesStay
<1>5. \A d \in Devices : posts[d]["key"].bundles \subseteq Devices
  BY DEF PostTypes, Sending, Purposes
<1> QED BY <1>1, <1>4, <1>5 DEF BasesStay, WrapsInSessions

Bounds == /\ linked' \subseteq Devices /\ Linked \subseteq linked'
          /\ begun' \in 0 .. MaxSends /\ misses' \in 0 .. MaxMisses

\* A step in which device d goes on with a send, if r is what it is then.
LEMMA SendGoesOn ==
    ASSUME IInv, RecordTypes', RecordsInv', BasesStay, made' >= made, Bounds,
           NEW d \in Devices, NEW u \in Purposes, NEW r \in Sending', IsFiniteSet(r.sealed),
           posts' = [posts EXCEPT ![d][u] = r],
           \A m \in r.sealed : SealedAreShared(m)',
           u = "key" /\ r.at = "ensure" => \A p \in r.bundles : recs'[d][p].all # {},
           mail' \subseteq mail \cup posts[d][u].sealed
    PROVE  IInv'
<1> USE SessionParts
<1>1. made \in Nat /\ made' \in Nat
  BY DEF RecordTypes
<1>2. /\ EnvelopeType \subseteq EnvelopeType' /\ \A m \in InFlight : SealedAreShared(m)'
      /\ \A x \in Devices : posts[x]["key"].at = "ensure" =>
            \A p \in posts[x]["key"].bundles : recs'[x][p].all # {}
  BY <1>1, FlightStays
<1>3. posts \in [Devices -> [Purposes -> Sending]] /\ Sending \subseteq Sending'
  BY <1>2 DEF PostTypes, Sending
<1>4. /\ posts' \in [Devices -> [Purposes -> Sending']]
      /\ \A x \in Devices, y \in Purposes :
            posts'[x][y] = IF x = d /\ y = u THEN r ELSE posts[x][y]
  <2> DEFINE W == Sending
             Z == Sending'
  <2>1. posts \in [Devices -> [Purposes -> W]] /\ W \subseteq Z /\ r \in Z
    BY <1>3
  <2> HIDE DEF W, Z
  <2>2. /\ posts' \in [Devices -> [Purposes -> Z]]
        /\ \A x \in Devices, y \in Purposes :
              posts'[x][y] = IF x = d /\ y = u THEN r ELSE posts[x][y]
    BY <2>1, UpdatedTwice
  <2> QED BY <2>2 DEF Z
<1>5. mail' \subseteq EnvelopeType'
  BY <1>2 DEF PostTypes, Sending
<1>6. Purposes' = Purposes
  BY DEF Purposes
<1>7. PostTypes'
  BY <1>4, <1>5, <1>6 DEF PostTypes, Bounds
<1>8. ASSUME NEW m \in InFlight' PROVE m \in InFlight \/ m \in r.sealed
  BY <1>4, <1>6 DEF InFlight
<1>9. \A m \in InFlight' : SealedAreShared(m)'
  BY <1>2, <1>8
<1>10. WrapsInSessions'
  BY <1>2, <1>4 DEF WrapsInSessions, Purposes
<1>11. IInv' <=> /\ RecordTypes' /\ RecordsInv' /\ PostTypes' /\ WrapsInSessions'
                 /\ \A m \in InFlight' : SealedAreShared(m)'
  BY DEF IInv, RecordTypes, PostTypes, TypeOK
<1> QED BY <1>7, <1>9, <1>10, <1>11

\* A step in which no send goes on.
LEMMA SendsStay ==
    ASSUME IInv, RecordTypes', RecordsInv', BasesStay, made' >= made, Bounds,
           posts' = posts, mail' \subseteq mail
    PROVE  IInv'
<1> USE SessionParts
<1>1. made \in Nat /\ made' \in Nat
  BY DEF RecordTypes
<1>2. /\ EnvelopeType \subseteq EnvelopeType' /\ \A m \in InFlight : SealedAreShared(m)'
      /\ \A x \in Devices : posts[x]["key"].at = "ensure" =>
            \A p \in posts[x]["key"].bundles : recs'[x][p].all # {}
  BY <1>1, FlightStays
<1>3. posts \in [Devices -> [Purposes -> Sending]] /\ Sending \subseteq Sending'
  BY <1>2 DEF PostTypes, Sending
<1>4. posts' \in [Devices -> [Purposes -> Sending']]
  BY <1>3
<1>5. PostTypes'
  BY <1>2, <1>4 DEF PostTypes, Bounds, Purposes
<1>6. InFlight' \subseteq InFlight
  BY DEF InFlight, Purposes
<1>7. WrapsInSessions'
  BY <1>2 DEF WrapsInSessions
<1>8. IInv' <=> /\ RecordTypes' /\ RecordsInv' /\ PostTypes' /\ WrapsInSessions'
                 /\ \A m \in InFlight' : SealedAreShared(m)'
  BY DEF IInv, RecordTypes, PostTypes, TypeOK
<1> QED BY <1>2, <1>5, <1>6, <1>7, <1>8

LEMMA RecordsRest ==
    ASSUME IInv, UNCHANGED <<recs, oneTime, made>>
    PROVE  RecordTypes' /\ RecordsInv' /\ BasesStay /\ made' >= made
<1>1. RecordTypes /\ RecordsInv
  BY SessionParts
<1>2. RecordTypes'
  BY <1>1 DEF RecordTypes, SessionType, Keys
<1>3. RecordsInv'
  BY <1>1 DEF RecordsInv, RecordsAreSound, SpentOnce, AnsweredAreShared, MadeFrom, HasBase, Keys
<1> QED BY <1>1, <1>2, <1>3 DEF BasesStay, HasBase, RecordTypes

LEMMA SendFacts ==
    ASSUME IInv, NEW d \in Devices, NEW u \in Purposes
    PROVE  /\ posts[d][u] \in Sending /\ IsFiniteSet(posts[d][u].sealed)
           /\ \A m \in posts[d][u].sealed : SealedAreShared(m)
  BY SessionParts DEF PostTypes, InFlight

\* What is encrypted in the current session is of a session its sender has, and,
\* where it offers no prekey, of one both devices have.
LEMMA EnvelopeFacts ==
    ASSUME IInv, NEW d \in Devices, NEW p \in Devices, NEW u \in Purposes, recs[d][p].all # {}
    PROVE  Envelope(d, p, u) \in EnvelopeType /\ SealedAreShared(Envelope(d, p, u))
<1> DEFINE s == Current(recs[d][p])
           no == Cardinality(posts[d][u].sealed) + begun * Cardinality(Devices)
           e == [to |-> p, from |-> d, base |-> s.base, key |-> s.offered, of |-> u, no |-> no]
<1>1. RecordTypes /\ RecordsInv /\ PostTypes
  BY SessionParts
<1>2. s \in recs[d][p].all
  BY <1>1 DEF RecordsInv, RecordsAreSound, Current
<1>3. s \in SessionType
  BY <1>1, <1>2 DEF RecordTypes
<1>4. no \in Nat
  <2>1. Cardinality(posts[d][u].sealed) \in Nat
    BY SendFacts, FS_CardinalityType
  <2>2. Cardinality(Devices) \in Nat /\ begun \in Nat
    BY <1>1, DevicesAssumption, BoundsAssumption, FS_CardinalityType DEF PostTypes
  <2> QED BY <2>1, <2>2
<1>5. Envelope(d, p, u) = e
  BY DEF Envelope
<1>6. s.base \in 1 .. made /\ s.offered \in Keys
  BY <1>3 DEF SessionType
<1> HIDE DEF no
<1>7. e \in EnvelopeType
  BY <1>4, <1>6 DEF EnvelopeType
<1>8. HasBase(d, p, s.base) /\ (s.offered = NoKey => HasBase(p, d, s.base))
  BY <1>1, <1>2 DEF HasBase, RecordsInv, AnsweredAreShared
<1>9. e.from = d /\ e.to = p /\ e.base = s.base /\ e.key = s.offered
  OBVIOUS
<1> HIDE DEF e, s
<1>10. SealedAreShared(e)
  BY <1>8, <1>9 DEF SealedAreShared
<1> QED BY <1>5, <1>7, <1>10

\* While no record changes, all that was shared is.
LEMMA RestingShares ==
    ASSUME IInv, UNCHANGED <<recs, made>>
    PROVE  /\ \A m : SealedAreShared(m) => SealedAreShared(m)'
           /\ Sending' = Sending /\ EnvelopeType' = EnvelopeType
  BY DEF SealedAreShared, HasBase, Sending, EnvelopeType, Keys

LEMMA BoundsStay ==
    ASSUME IInv, UNCHANGED <<linked, begun, misses>> PROVE Bounds
  BY SessionParts DEF PostTypes, Bounds

LEMMA BeginInv ==
    ASSUME IInv, NEW d \in Devices, NEW u \in Purposes, Begin(d, u) PROVE IInv'
<1> DEFINE r == [Idle EXCEPT !.at = IF u = "message" THEN "fetch" ELSE "ensure", !.todo = linked \ {d}]
<1>1. UNCHANGED <<recs, oneTime, made, linked, misses, mail>> /\ posts' = [posts EXCEPT ![d][u] = r]
  BY SessionParts DEF Begin, PostTypes
<1>2. RecordTypes' /\ RecordsInv' /\ BasesStay /\ made' >= made
  BY <1>1, RecordsRest
<1>3. Bounds
  BY <1>1, SessionParts, BoundsAssumption DEF Begin, PostTypes, Bounds
<1>4. r \in Sending' /\ r.sealed = {} /\ r.bundles = {}
  <2>1. linked \ {d} \subseteq Devices
    BY SessionParts DEF PostTypes
  <2> QED BY <2>1 DEF Idle, Sending
<1>5. IsFiniteSet(r.sealed)
  BY <1>4, FS_EmptySet
<1> HIDE DEF r
<1> QED BY <1>1, <1>2, <1>3, <1>4, <1>5, SendGoesOn

LEMMA FetchInv ==
    ASSUME IInv, NEW d \in Devices, FetchPrekeys(d) PROVE IInv'
<1>1. PICK got \in SUBSET posts[d]["message"].todo :
        /\ misses + Cardinality(posts[d]["message"].todo \ got) =< MaxMisses
        /\ misses' = misses + Cardinality(posts[d]["message"].todo \ got)
        /\ posts' = [posts EXCEPT ![d]["message"].at = "seal", ![d]["message"].bundles = got]
  BY DEF FetchPrekeys
<1> DEFINE q == posts[d]["message"]
           r == [q EXCEPT !.at = "seal", !.bundles = got]
<1>2. "message" \in Purposes
  BY DEF Purposes
<1>3. q \in Sending /\ IsFiniteSet(q.sealed) /\ \A m \in q.sealed : SealedAreShared(m)
  BY <1>2, SendFacts
<1>4. UNCHANGED <<recs, oneTime, made, linked, begun, mail>>
  BY DEF FetchPrekeys
<1>5. posts' = [posts EXCEPT ![d]["message"] = r]
  BY <1>1, <1>2, SessionParts DEF PostTypes, Sending
<1>6. RecordTypes' /\ RecordsInv' /\ BasesStay /\ made' >= made
  BY <1>4, RecordsRest
<1>7. Cardinality(q.todo \ got) \in Nat
  <2>1. IsFiniteSet(q.todo \ got)
    BY <1>3, DevicesAssumption, FS_Subset DEF Sending
  <2> QED BY <2>1, FS_CardinalityType
<1>8. Bounds
  BY <1>1, <1>4, <1>7, SessionParts, BoundsAssumption DEF PostTypes, Bounds
<1>9. r \in Sending /\ r.sealed = q.sealed
  BY <1>1, <1>3 DEF Sending
<1>10. Sending' = Sending /\ \A m \in r.sealed : SealedAreShared(m)'
  BY <1>3, <1>4, <1>9, RestingShares
<1> HIDE DEF r
<1> QED BY <1>2, <1>3, <1>4, <1>5, <1>6, <1>8, <1>9, <1>10, SendGoesOn

LEMMA NextFacts ==
    ASSUME NEW W, W # {} PROVE Next1(W) \in W
  BY DEF Next1

LEMMA EmptySend ==
    Idle \in Sending /\ Idle.sealed = {} /\ Idle.at = "idle" /\ IsFiniteSet(Idle.sealed)
  BY FS_EmptySet DEF Idle, Sending

LEMMA BuildInv ==
    ASSUME IInv, NEW d \in Devices, BuildForMessage(d) PROVE IInv'
<1> DEFINE q == posts[d]["message"]
           p == Next1(q.todo)
           r == [q EXCEPT !.at = "encrypt"]
<1>1. "message" \in Purposes
  BY DEF Purposes
<1>2. q \in Sending /\ IsFiniteSet(q.sealed) /\ \A m \in q.sealed : SealedAreShared(m)
  BY <1>1, SendFacts
<1>3. p \in Devices
  BY <1>2, NextFacts DEF BuildForMessage, Sending
<1>4. Built(d, p) /\ UNCHANGED <<oneTime, linked, mail, begun, misses>>
  BY DEF BuildForMessage
<1>5. RecordTypes' /\ RecordsInv' /\ BasesStay /\ made' = made + 1
  BY <1>3, <1>4, SessionParts, BuiltInv
<1>6. posts' = [posts EXCEPT ![d]["message"] = r]
  BY <1>1, SessionParts DEF BuildForMessage, PostTypes, Sending
<1>7. made \in Nat /\ made' >= made
  BY <1>5, SessionParts DEF RecordTypes
<1>8. Bounds
  BY <1>4, BoundsStay
<1>9. r \in Sending /\ r.sealed = q.sealed
  BY <1>2 DEF Sending
<1>10. EnvelopeType \subseteq EnvelopeType' /\ \A m \in q.sealed : SealedAreShared(m)'
  <2>1. q.sealed \subseteq InFlight
    BY <1>1 DEF InFlight
  <2> QED BY <1>5, <1>7, <2>1, SessionParts, FlightStays DEF RecordTypes
<1>11. r \in Sending'
  BY <1>9, <1>10 DEF Sending
<1> HIDE DEF r
<1> QED BY <1>1, <1>2, <1>4, <1>5, <1>6, <1>7, <1>8, <1>9, <1>10, <1>11, SendGoesOn

LEMMA EncryptInv ==
    ASSUME IInv, NEW d \in Devices, Encrypt(d) PROVE IInv'
<1> DEFINE q == posts[d]["message"]
           p == Next1(q.todo)
           e == Envelope(d, p, "message")
           t == [q EXCEPT !.at = "seal", !.todo = q.todo \ {p}, !.sealed = q.sealed \cup {e}]
           r == IF recs[d][p].all = {} THEN Idle ELSE t
<1>1. "message" \in Purposes
  BY DEF Purposes
<1>2. q \in Sending /\ IsFiniteSet(q.sealed) /\ \A m \in q.sealed : SealedAreShared(m)
  BY <1>1, SendFacts
<1>3. p \in Devices
  BY <1>2, NextFacts DEF Encrypt, Sending
<1>4. UNCHANGED <<recs, oneTime, linked, mail, begun, made, misses>>
  BY DEF Encrypt
<1>5. RecordTypes' /\ RecordsInv' /\ BasesStay /\ made' >= made /\ Bounds
  BY <1>4, RecordsRest, BoundsStay
<1>6. posts' = [posts EXCEPT ![d]["message"] = r]
  <2> HIDE DEF p, e
  <2> QED BY <1>1 DEF Encrypt, p, e
<1>7. r \in Sending /\ IsFiniteSet(r.sealed) /\ \A m \in r.sealed : SealedAreShared(m)
  <2>1. CASE recs[d][p].all = {}
    BY <2>1, EmptySend
  <2>2. CASE recs[d][p].all # {}
    <3>1. e \in EnvelopeType /\ SealedAreShared(e)
      BY <1>1, <1>3, <2>2, EnvelopeFacts
    <3>2. IsFiniteSet(q.sealed \cup {e})
      BY <1>2, FS_AddElement
    <3> HIDE DEF e, p
    <3>3. t \in Sending /\ t.sealed = q.sealed \cup {e}
      BY <1>2, <3>1 DEF Sending
    <3>4. r = t
      BY <2>2
    <3> HIDE DEF t
    <3> QED BY <1>2, <3>1, <3>2, <3>3, <3>4
  <2> QED BY <2>1, <2>2
<1>8. Sending' = Sending /\ \A m \in r.sealed : SealedAreShared(m)'
  BY <1>4, <1>7, RestingShares
<1> HIDE DEF r
<1> QED BY <1>1, <1>4, <1>5, <1>6, <1>7, <1>8, SendGoesOn

\* A send that ends leaves what it sealed in the mail, or nothing.
LEMMA EndInv ==
    ASSUME IInv, NEW d \in Devices, NEW u \in Purposes, posts' = [posts EXCEPT ![d][u] = Idle],
           mail' \subseteq mail \cup posts[d][u].sealed, UNCHANGED <<recs, oneTime, made>>, Bounds
    PROVE  IInv'
<1>1. RecordTypes' /\ RecordsInv' /\ BasesStay /\ made' >= made
  BY RecordsRest
<1>2. Idle \in Sending'
  BY EmptySend, RestingShares
<1> QED BY <1>1, <1>2, EmptySend, SendGoesOn

LEMMA PostInv ==
    ASSUME IInv, NEW d \in Devices, Post(d) \/ PostKey(d) \/ EnsureFails(d) PROVE IInv'
<1>1. "message" \in Purposes /\ "key" \in Purposes
  BY DEF Purposes
<1>2. CASE Post(d)
  BY <1>1, <1>2, BoundsStay, EndInv DEF Post
<1>3. CASE PostKey(d)
  BY <1>1, <1>3, BoundsStay, EndInv DEF PostKey
<1>4. CASE EnsureFails(d)
  <2>1. Bounds
    BY <1>4, SessionParts, BoundsAssumption DEF EnsureFails, PostTypes, Bounds
  <2> QED BY <1>1, <1>4, <2>1, EndInv DEF EnsureFails
<1> QED BY <1>2, <1>3, <1>4

LEMMA EnsureInv ==
    ASSUME IInv, NEW d \in Devices, EnsureSession(d) PROVE IInv'
<1> DEFINE q == posts[d]["key"]
           p == Next1(q.todo)
           r == [q EXCEPT !.todo = q.todo \ {p}, !.bundles = q.bundles \cup {p}]
<1>1. "key" \in Purposes
  BY DEF Purposes
<1>2. q \in Sending /\ IsFiniteSet(q.sealed) /\ \A m \in q.sealed : SealedAreShared(m)
  BY <1>1, SendFacts
<1>3. p \in Devices /\ q.at = "ensure"
  BY <1>2, NextFacts DEF EnsureSession, Sending
<1>4. Built(d, p) /\ UNCHANGED <<oneTime, linked, mail, begun, misses>>
  BY DEF EnsureSession
<1>5. RecordTypes' /\ RecordsInv' /\ BasesStay /\ made' = made + 1 /\ recs'[d][p].all # {}
  BY <1>3, <1>4, SessionParts, BuiltInv
<1>6. posts' = [posts EXCEPT ![d]["key"] = r]
  BY <1>1, SessionParts DEF EnsureSession, PostTypes, Sending
<1>7. made \in Nat /\ made' >= made
  BY <1>5, SessionParts DEF RecordTypes
<1>8. Bounds
  BY <1>4, BoundsStay
<1>9. r \in Sending /\ r.sealed = q.sealed /\ r.bundles = q.bundles \cup {p}
  <2> HIDE DEF p
  <2> QED BY <1>2, <1>3 DEF Sending
<1>10. /\ EnvelopeType \subseteq EnvelopeType' /\ \A m \in q.sealed : SealedAreShared(m)'
       /\ \A x \in q.bundles : recs'[d][x].all # {}
  <2>1. q.sealed \subseteq InFlight
    BY <1>1 DEF InFlight
  <2> QED BY <1>3, <1>5, <1>7, <2>1, SessionParts, FlightStays DEF RecordTypes
<1>11. r \in Sending'
  BY <1>9, <1>10 DEF Sending
<1> HIDE DEF r, p
<1> QED BY <1>1, <1>2, <1>4, <1>5, <1>6, <1>7, <1>8, <1>9, <1>10, <1>11, SendGoesOn

LEMMA SkipInv ==
    ASSUME IInv, NEW d \in Devices, EnsureSkips(d) PROVE IInv'
<1> DEFINE q == posts[d]["key"]
           r == [q EXCEPT !.todo = q.todo \ {Next1(q.todo)}]
<1>1. "key" \in Purposes
  BY DEF Purposes
<1>2. q \in Sending /\ IsFiniteSet(q.sealed) /\ \A m \in q.sealed : SealedAreShared(m)
  BY <1>1, SendFacts
<1>3. UNCHANGED <<recs, oneTime, linked, mail, begun, made>> /\ q.at = "ensure"
  BY DEF EnsureSkips
<1>4. RecordTypes' /\ RecordsInv' /\ BasesStay /\ made' >= made
  BY <1>3, RecordsRest
<1>5. Bounds
  BY <1>3, SessionParts, BoundsAssumption DEF EnsureSkips, PostTypes, Bounds
<1>6. posts' = [posts EXCEPT ![d]["key"] = r]
  BY <1>1, SessionParts DEF EnsureSkips, PostTypes, Sending
<1>7. r \in Sending /\ r.sealed = q.sealed /\ r.bundles = q.bundles
  BY <1>2 DEF Sending
<1>8. Sending' = Sending /\ \A m \in r.sealed : SealedAreShared(m)'
  BY <1>2, <1>3, <1>7, RestingShares
<1>9. \A x \in q.bundles : recs'[d][x].all # {}
  BY <1>3, SessionParts DEF WrapsInSessions
<1> HIDE DEF r
<1> QED BY <1>1, <1>2, <1>3, <1>4, <1>5, <1>6, <1>7, <1>8, <1>9, SendGoesOn

LEMMA WrapInv ==
    ASSUME IInv, NEW d \in Devices, WrapKey(d) PROVE IInv'
<1> DEFINE q == posts[d]["key"]
           p == Next1(q.bundles)
           e == Envelope(d, p, "key")
           r == [q EXCEPT !.bundles = q.bundles \ {p}, !.sealed = q.sealed \cup {e}]
<1>1. "key" \in Purposes
  BY DEF Purposes
<1>2. q \in Sending /\ IsFiniteSet(q.sealed) /\ \A m \in q.sealed : SealedAreShared(m)
  BY <1>1, SendFacts
<1>3. p \in q.bundles /\ p \in Devices /\ q.at = "ensure"
  BY <1>2, NextFacts DEF WrapKey, Sending
<1>4. UNCHANGED <<recs, oneTime, linked, mail, begun, made, misses>>
  BY DEF WrapKey
<1>5. RecordTypes' /\ RecordsInv' /\ BasesStay /\ made' >= made /\ Bounds
  BY <1>4, RecordsRest, BoundsStay
<1>6. posts' = [posts EXCEPT ![d]["key"] = r]
  BY <1>1, SessionParts DEF WrapKey, PostTypes, Sending
<1>7. \A x \in q.bundles : recs[d][x].all # {}
  BY <1>3, SessionParts DEF WrapsInSessions
<1>8. e \in EnvelopeType /\ SealedAreShared(e)
  BY <1>1, <1>3, <1>7, EnvelopeFacts
<1>9. IsFiniteSet(q.sealed \cup {e})
  BY <1>2, FS_AddElement
<1> HIDE DEF e, p
<1>10. r \in Sending /\ r.sealed = q.sealed \cup {e} /\ r.bundles \subseteq q.bundles
  BY <1>2, <1>8 DEF Sending
<1>11. Sending' = Sending /\ \A m \in r.sealed : SealedAreShared(m)'
  BY <1>2, <1>4, <1>8, <1>10, RestingShares
<1>12. \A x \in r.bundles : recs'[d][x].all # {}
  BY <1>4, <1>7, <1>10
<1> HIDE DEF r
<1> QED BY <1>1, <1>4, <1>5, <1>6, <1>9, <1>10, <1>11, <1>12, SendGoesOn

LEMMA OpenInv ==
    ASSUME IInv, NEW m \in mail, OpenInSession(m) \/ OpenFirst(m) PROVE IInv'
<1>1. m \in EnvelopeType /\ SealedAreShared(m)
  BY SessionParts DEF PostTypes, InFlight
<1>2. m.to \in Devices /\ m.from \in Devices /\ m.base \in 1 .. made /\ m.base \in Nat /\ m.key \in Keys
  BY <1>1 DEF EnvelopeType
<1>3. HasBase(m.from, m.to, m.base)
  BY <1>1 DEF SealedAreShared
<1>4. UNCHANGED <<linked, posts, begun, made, misses>> /\ mail' \subseteq mail
  BY DEF OpenInSession, OpenFirst
<1>5. RecordTypes' /\ RecordsInv' /\ BasesStay
  <2>1. CASE OpenInSession(m)
    <3>1. RecordIs(m.to, m.from, Promote(recs[m.to][m.from], m.base))
      BY <2>1 DEF OpenInSession, RecordIs
    <3> QED BY <1>2, <1>3, <2>1, <3>1, SessionParts, PromoteInv DEF OpenInSession
  <2>2. CASE OpenFirst(m)
    <3>1. RecordIs(m.to, m.from, Archive(recs[m.to][m.from],
                  [base |-> m.base, offered |-> NoKey, key |-> m.key, mine |-> FALSE]))
      BY <2>2 DEF OpenFirst, RecordIs
    <3> QED BY <1>2, <1>3, <2>2, <3>1, SessionParts, OpenFirstInv DEF OpenFirst
  <2> QED BY <2>1, <2>2
<1>6. Bounds
  BY <1>4, BoundsStay
<1>7. made' >= made
  BY <1>4, SessionParts DEF RecordTypes
<1> QED BY <1>4, <1>5, <1>6, <1>7, SendsStay

LEMMA LinkInv ==
    ASSUME IInv, NEW d \in Devices, Link(d) PROVE IInv'
<1>1. UNCHANGED <<recs, oneTime, posts, mail, begun, made, misses>> /\ linked' = linked \cup {d}
  BY DEF Link
<1>2. Bounds
  BY <1>1, SessionParts DEF PostTypes, Bounds
<1>3. RecordTypes' /\ RecordsInv' /\ BasesStay /\ made' >= made
  BY <1>1, RecordsRest
<1> QED BY <1>1, <1>2, <1>3, SendsStay

LEMMA SessionsInit == ASSUME Init PROVE IInv
<1>1. RecordTypes
  <2>1. made = 0
    BY DEF Init
  <2>2. NoSession \in [all : SUBSET SessionType, now : 0 .. made]
    BY <2>1 DEF NoSession
  <2>3. {FirstKey, FirstKey + 1} \subseteq Keys \ {NoKey}
    BY KeyFacts
  <2> QED BY <2>1, <2>2, <2>3 DEF Init, RecordTypes
<1>2. \A d, p \in Devices : recs[d][p].all = {}
  BY DEF Init, NoSession
<1>3. \A k : \A d \in Devices : MadeFrom(d, k) = {}
  BY <1>2 DEF MadeFrom
<1>4. \A d \in Devices : oneTime[d] = Keys \ {NoKey}
  BY KeyFacts DEF Init
<1>5. RecordsInv
  BY <1>2, <1>3, <1>4 DEF RecordsInv, RecordsAreSound, SpentOnce, AnsweredAreShared
<1>6. \A d \in Devices, u \in Purposes : posts[d][u] = Idle
  BY DEF Init
<1>7. PostTypes
  <2>1. posts \in [Devices -> [Purposes -> Sending]]
    BY EmptySend DEF Init
  <2>2. /\ mail = {} /\ begun \in 0 .. MaxSends /\ misses \in 0 .. MaxMisses
        /\ Linked \subseteq linked /\ linked \subseteq Devices
    BY DevicesAssumption, BoundsAssumption DEF Init
  <2>3. \A d \in Devices, u \in Purposes : IsFiniteSet(posts[d][u].sealed)
    BY <1>6, EmptySend
  <2> QED BY <2>1, <2>2, <2>3 DEF PostTypes
<1>8. InFlight = {}
  BY <1>6, EmptySend DEF Init, InFlight
<1>9. WrapsInSessions
  BY <1>6, EmptySend DEF WrapsInSessions, Purposes
<1> QED BY <1>1, <1>5, <1>7, <1>8, <1>9, SessionParts

LEMMA SessionsNext == ASSUME IInv, [Next]_vars PROVE IInv'
<1>1. CASE \E d \in Devices, u \in Purposes : Begin(d, u)
  BY <1>1, BeginInv
<1>2. CASE \E d \in Devices : FetchPrekeys(d) \/ BuildForMessage(d) \/ Encrypt(d) \/ Post(d)
  BY <1>2, FetchInv, BuildInv, EncryptInv, PostInv
<1>3. CASE \E d \in Devices : EnsureSession(d) \/ EnsureSkips(d) \/ EnsureFails(d) \/ WrapKey(d) \/ PostKey(d)
  BY <1>3, EnsureInv, SkipInv, PostInv, WrapInv
<1>4. CASE \E m \in mail : OpenInSession(m) \/ OpenFirst(m)
  BY <1>4, OpenInv
<1>5. CASE \E d \in Devices : Link(d)
  BY <1>5, LinkInv
<1>6. CASE UNCHANGED vars
  <2>1. Bounds
    BY <1>6, BoundsStay DEF vars
  <2> QED BY <1>6, <2>1, RecordsRest, SendsStay DEF vars
<1> QED BY <1>1, <1>2, <1>3, <1>4, <1>5, <1>6 DEF Next

LEMMA SessionsPromises == ASSUME IInv PROVE TypeOK /\ OneTimeKeysAreOneTime /\ OnlySpentAreRefused
<1>1. OneTimeKeysAreOneTime
  <2> SUFFICES ASSUME NEW d \in Devices, NEW k \in Keys \ {NoKey}
               PROVE  Cardinality(MadeFrom(d, k)) =< 1
    BY DEF OneTimeKeysAreOneTime
  <2>1. \A s, t \in MadeFrom(d, k) : s = t
    BY SessionParts DEF RecordsInv, SpentOnce
  <2>2. CASE MadeFrom(d, k) = {}
    <3>1. Cardinality({}) = 0
      BY FS_EmptySet
    <3> QED BY <2>2, <3>1
  <2>3. CASE MadeFrom(d, k) # {}
    <3>1. PICK t : MadeFrom(d, k) = {t}
      BY <2>1, <2>3
    <3>2. Cardinality({t}) = 1
      BY FS_Singleton
    <3> QED BY <3>1, <3>2
  <2> QED BY <2>2, <2>3
<1>2. OnlySpentAreRefused
  <2> SUFFICES ASSUME NEW m \in mail, ~ Opens(m)
               PROVE  m.key # NoKey /\ MadeFrom(m.to, m.key) # {}
    BY DEF OnlySpentAreRefused
  <2>1. m \in EnvelopeType /\ SealedAreShared(m)
    BY SessionParts DEF PostTypes, InFlight
  <2>2. m.to \in Devices /\ m.key \in Keys
    BY <2>1 DEF EnvelopeType
  <2>3. m.key # NoKey
    BY <2>1 DEF Opens, SealedAreShared
  <2>4. m.key \notin oneTime[m.to]
    BY <2>3 DEF Opens, Holds
  <2> QED BY <2>2, <2>3, <2>4, SessionParts DEF RecordsInv, SpentOnce
<1> QED BY <1>1, <1>2 DEF IInv

-----------------------------------------------------------------------------
(* Drafts.  Unless the user went on while a message was being sent, what a   *)
(* chat was left with is what the server has or will have once the requests  *)
(* on their way are served, and a chat that is opened is read after its save.*)

LEMMA DraftsSavesAreRequests ==
    ASSUME NEW c \in Chats, NEW t \in D!Text
    PROVE  /\ D!Save(c, t) \in D!Requests /\ D!Save(c, t).do = "save" /\ D!Save(c, t).chat = c
           /\ D!Save(c, t).text = t
           /\ D!Read(c) \in D!Requests /\ D!Read(c).do = "read" /\ D!Read(c).chat = c
  BY DEF D!Save, D!Read, D!Requests, D!Text

\* A save that is asked for is the last of its chat.
LEMMA DraftsSaveAppended ==
    ASSUME ops \in Seq(D!Requests), NEW c \in Chats, NEW t \in D!Text, ops' = Append(ops, D!Save(c, t)),
           drafts' = drafts
    PROVE  /\ ops' \in Seq(D!Requests)
           /\ t = wrote'[c] => D!WillHave(c)'
           /\ \A x \in Chats : x # c /\ wrote'[x] = wrote[x] /\ D!WillHave(x) => D!WillHave(x)'
           /\ D!Reads' = D!Reads
           /\ DOMAIN ops \subseteq DOMAIN ops'
           /\ \A i \in DOMAIN ops : ops'[i] = ops[i]
           /\ \A i \in D!Reads : \A j \in DOMAIN ops' : j < i => j \in DOMAIN ops
<1> DEFINE n == Len(ops) + 1
           s == D!Save(c, t)
<1>1. s \in D!Requests /\ s.do = "save" /\ s.chat = c /\ s.text = t
  BY DraftsSavesAreRequests
<1> HIDE DEF s
<1>2. /\ Len(ops) \in Nat /\ DOMAIN ops = 1 .. Len(ops) /\ DOMAIN ops' = 1 .. n
      /\ ops'[n] = s /\ \A i \in 1 .. Len(ops) : ops'[i] = ops[i]
      /\ ops' \in Seq(D!Requests)
  BY <1>1 DEF s
<1> HIDE DEF n
<1>3. n = Len(ops) + 1
  BY DEF n
<1>4. D!SavesOf(c)' = D!SavesOf(c) \cup {n} /\ \A x \in Chats : x # c => D!SavesOf(x)' = D!SavesOf(x)
  BY <1>1, <1>2, <1>3 DEF D!SavesOf
<1>5. \A x \in Chats : D!SavesOf(x) \subseteq 1 .. Len(ops)
  BY <1>2 DEF D!SavesOf
<1>6. t = wrote'[c] => D!WillHave(c)'
  <2> SUFFICES ASSUME t = wrote'[c]
               PROVE  \E i \in D!SavesOf(c)' : ops'[i].text = wrote'[c] /\ \A j \in D!SavesOf(c)' : j =< i
    BY DEF D!WillHave
  <2>1. n \in D!SavesOf(c)' /\ ops'[n].text = wrote'[c]
    BY <1>1, <1>2, <1>4
  <2>2. \A j \in D!SavesOf(c)' : j =< n
    BY <1>2, <1>3, <1>4, <1>5
  <2> QED BY <2>1, <2>2
<1>7. \A x \in Chats : x # c /\ wrote'[x] = wrote[x] /\ D!WillHave(x) => D!WillHave(x)'
  <2> SUFFICES ASSUME NEW x \in Chats, x # c, wrote'[x] = wrote[x], D!WillHave(x)
               PROVE  D!WillHave(x)'
    OBVIOUS
  <2>1. D!SavesOf(x)' = D!SavesOf(x) /\ \A i \in D!SavesOf(x) : ops'[i] = ops[i]
    BY <1>2, <1>4, <1>5
  <2> QED BY <2>1 DEF D!WillHave
<1>8. D!Reads' = D!Reads /\ D!Reads \subseteq 1 .. Len(ops)
  BY <1>1, <1>2, <1>3 DEF D!Reads
<1>9. \A i \in D!Reads : \A j \in DOMAIN ops' : j < i => j \in DOMAIN ops
  BY <1>2, <1>3, <1>8
<1> QED BY <1>2, <1>3, <1>6, <1>7, <1>8, <1>9

DraftsCalm == D!LeftIsSaved /\ D!ReadIsLeft /\ D!LastIsLeft

DraftsTypes == D!TypeOK /\ ops \in Seq(D!Requests) /\ draftListed = drafts

LEMMA DraftsParts ==
    (D!IInv <=> DraftsTypes /\ (rushed \/ DraftsCalm)) /\ (D!IInv' <=> DraftsTypes' /\ (rushed' \/ DraftsCalm'))
  BY DEF D!IInv, DraftsTypes, DraftsCalm

LEMMA DraftsSavesTyped == ASSUME ops \in Seq(D!Requests)
                          PROVE  /\ \A c : D!SavesOf(c) \subseteq DOMAIN ops
                                 /\ D!Reads \subseteq DOMAIN ops
                                 /\ ops = <<>> => D!Reads = {} /\ \A c : D!SavesOf(c) = {}
  BY DEF D!SavesOf, D!Reads

LEMMA DraftsInit == ASSUME D!Init PROVE D!IInv
<1>1. /\ ops = <<>> /\ ops \in Seq(D!Requests) /\ DOMAIN ops = {} /\ draftListed = drafts
      /\ wrote = drafts
      /\ drafts = [c \in Chats |-> None]
  BY DEF D!Init
<1>2. drafts \in [Chats -> D!Text] /\ keys \in 0 .. MaxKeys
  BY <1>1, DraftsAssumption DEF D!Text, D!Init
<1>3. DraftsTypes
  BY <1>1, <1>2 DEF D!Init, DraftsTypes, D!TypeOK, D!Text
<1>4. \A c \in Chats : D!WillHave(c)
  BY <1>1 DEF D!WillHave, D!SavesOf
<1>5. D!LeftIsSaved
  BY <1>4 DEF D!Init, D!LeftIsSaved, D!TimerOf
<1>6. D!ReadIsLeft /\ D!LastIsLeft
  BY <1>1 DEF D!Init, D!ReadIsLeft, D!LastIsLeft, D!Reads
<1> QED BY <1>3, <1>5, <1>6, DraftsParts DEF DraftsCalm

LEMMA DraftsRest == ASSUME D!IInv, UNCHANGED D!drVars PROVE D!IInv'
<1>1. DraftsTypes'
  BY DraftsParts DEF DraftsTypes, D!TypeOK, D!drVars
<1>2. DraftsCalm => DraftsCalm'
  BY DEF D!drVars, DraftsCalm, D!LeftIsSaved, D!ReadIsLeft, D!LastIsLeft, D!WillHave, D!SavesOf,
         D!Reads, D!TimerOf, D!SendingOf
<1> QED BY <1>1, <1>2, DraftsParts DEF D!drVars

LEMMA DraftsChangeInv == ASSUME D!IInv, NEW t \in D!Text, D!HandleDraftChange(t) PROVE D!IInv'
<1> DEFINE new == [chat |-> draftChat, text |-> t]
<1>1. /\ ops = <<>> /\ draftChat \in Chats /\ composer' = t /\ last' = t
      /\ timer' = new /\ wrote' = [wrote EXCEPT ![draftChat] = t]
      /\ rushed' = (rushed \/ sending # None)
      /\ UNCHANGED <<draftChat, ops, drafts, draftListed, sending>> /\ keys' \in 0 .. MaxKeys
  BY DraftsAssumption DEF D!IInv, D!TypeOK, D!Acts, D!HandleDraftChange
<1>2. new \in [chat: Chats, text: D!Text] /\ new # None /\ new.chat = draftChat /\ new.text = t
  BY <1>1, DraftsAssumption
<1> HIDE DEF new
<1>3. DraftsTypes'
  BY <1>1, <1>2, DraftsParts DEF DraftsTypes, D!TypeOK
<1>4. ASSUME DraftsCalm, sending = None PROVE DraftsCalm'
  <2>1. D!Reads' = {} /\ \A c \in Chats : D!SavesOf(c)' = {} /\ D!SavesOf(c) = {}
    BY <1>1, DraftsSavesTyped DEF D!IInv, D!Reads, D!SavesOf
  <2>2. \A c \in Chats : wrote'[c] = IF c = draftChat THEN t ELSE wrote[c]
    BY <1>1 DEF D!IInv, D!TypeOK
  <2>3. D!LeftIsSaved'
    <3> SUFFICES ASSUME NEW c \in Chats
                 PROVE  /\ D!WillHave(c)' \/ (D!TimerOf(c)' /\ draftChat' = c) \/ D!SendingOf(c)'
                        /\ D!TimerOf(c)' => timer'.text = wrote'[c] \/ D!SendingOf(c)'
      BY DEF D!LeftIsSaved
    <3>1. CASE c = draftChat
      BY <1>1, <1>2, <2>2, <3>1 DEF D!TimerOf
    <3>2. CASE c # draftChat
      BY <1>1, <1>2, <1>4, <2>1, <2>2, <3>2
         DEF D!TimerOf, D!SendingOf, D!WillHave, DraftsCalm, D!LeftIsSaved
    <3> QED BY <3>1, <3>2
  <2>4. D!ReadIsLeft' /\ D!LastIsLeft'
    BY <1>1, <1>4, <2>1, <2>2 DEF D!ReadIsLeft, D!LastIsLeft
  <2> QED BY <2>3, <2>4 DEF DraftsCalm
<1> QED BY <1>1, <1>3, <1>4, DraftsParts

LEMMA DraftsTimerInv == ASSUME D!IInv, D!TimerFires PROVE D!IInv'
<1>1. /\ timer # None /\ timer' = None /\ ops' = Append(ops, D!Save(timer.chat, timer.text))
      /\ UNCHANGED <<draftChat, composer, last, drafts, draftListed, sending, wrote, keys, rushed>>
  BY DEF D!TimerFires
<1>2. timer.chat \in Chats /\ timer.text \in D!Text /\ ops \in Seq(D!Requests)
  BY <1>1 DEF D!IInv, D!TypeOK
<1>3. /\ ops' \in Seq(D!Requests)
      /\ \A x \in Chats : x = timer.chat /\ timer.text = wrote[x] => D!WillHave(x)'
      /\ \A x \in Chats : x # timer.chat /\ D!WillHave(x) => D!WillHave(x)'
      /\ D!Reads' = D!Reads
      /\ \A i \in DOMAIN ops : i \in DOMAIN ops' /\ ops'[i] = ops[i]
      /\ \A i \in D!Reads : \A j \in DOMAIN ops' : j < i => j \in DOMAIN ops
  <2>1. drafts' = drafts /\ wrote' = wrote
    BY <1>1
  <2> QED BY <1>1, <1>2, <2>1, DraftsSaveAppended
<1>4. DraftsTypes'
  <2>1. \A i \in DOMAIN ops' : ops'[i] \in D!Requests
    BY <1>3
  <2> QED BY <1>1, <1>3, <2>1, DraftsParts DEF DraftsTypes, D!TypeOK, D!Requests
<1>5. ASSUME DraftsCalm PROVE DraftsCalm'
  <2>1. D!LeftIsSaved'
    <3>1. \A c \in Chats : D!WillHave(c)' \/ D!SendingOf(c)'
      <4> SUFFICES ASSUME NEW c \in Chats PROVE D!WillHave(c)' \/ D!SendingOf(c)'
        OBVIOUS
      <4>1. CASE c = timer.chat
        <5>1. timer.text = wrote[c] \/ D!SendingOf(c)
          BY <1>1, <1>5, <4>1 DEF DraftsCalm, D!LeftIsSaved, D!TimerOf
        <5> QED BY <1>1, <1>3, <4>1, <5>1 DEF D!SendingOf
      <4>2. CASE c # timer.chat
        <5>1. D!WillHave(c) \/ D!SendingOf(c)
          BY <1>5, <4>2 DEF DraftsCalm, D!LeftIsSaved, D!TimerOf
        <5> QED BY <1>1, <1>3, <4>2, <5>1 DEF D!SendingOf
      <4> QED BY <4>1, <4>2
    <3> QED BY <1>1, <3>1 DEF D!LeftIsSaved, D!TimerOf
  <2>2. D!Reads \subseteq DOMAIN ops
    BY DEF D!Reads
  <2>3. D!ReadIsLeft' /\ D!LastIsLeft'
    BY <1>1, <1>3, <1>5, <2>2 DEF DraftsCalm, D!ReadIsLeft, D!LastIsLeft
  <2> QED BY <2>1, <2>3 DEF DraftsCalm
<1> QED BY <1>1, <1>4, <1>5, DraftsParts

LEMMA DraftsTwo ==
    ASSUME NEW V, NEW a \in V, NEW b \in V, NEW o, o = <<a>> \o <<b>>
    PROVE  o \in Seq(V) /\ Len(o) = 2 /\ DOMAIN o = {1, 2} /\ o[1] = a /\ o[2] = b
<1>1. o \in Seq(V) /\ Len(o) = 2
  OBVIOUS
<1>2. DOMAIN o = 1 .. 2
  BY <1>1
<1> QED BY <1>1, <1>2

LEMMA DraftsChatInv == ASSUME D!IInv, NEW c \in Chats, D!ChatChanges(c) PROVE D!IInv'
<1>1. /\ ops = <<>> /\ c # draftChat /\ draftChat' = c /\ last' = None /\ c # None
      /\ ops' = (IF draftChat = None THEN <<>> ELSE <<D!Save(draftChat, last)>>) \o <<D!Read(c)>>
      /\ rushed' = (rushed \/ sending # None)
      /\ UNCHANGED <<composer, timer, drafts, draftListed, sending, wrote>>
      /\ keys' \in 0 .. MaxKeys
  BY DraftsAssumption DEF D!IInv, D!TypeOK, D!Acts, D!ChatChanges
<1>2. D!Read(c) \in D!Requests /\ D!Read(c).do = "read" /\ D!Read(c).chat = c
  BY DraftsSavesAreRequests, DraftsAssumption DEF D!Text
<1>3. draftChat \in Chats \cup {None} /\ last \in D!Text /\ wrote \in [Chats -> D!Text]
  BY DEF D!IInv, D!TypeOK
<1>4. CASE draftChat = None
  <2> DEFINE r == D!Read(c)
  <2> HIDE DEF r
  <2>1. ops' = <<r>> /\ ops' \in Seq(D!Requests) /\ Len(ops') = 1 /\ ops'[1] = r /\ DOMAIN ops' = 1 .. 1
    BY <1>1, <1>2, <1>4 DEF r
  <2>2. DraftsTypes'
    BY <1>1, <1>2, <2>1, DraftsParts DEF DraftsTypes, D!TypeOK, D!Requests, D!Text, r
  <2>3. ASSUME DraftsCalm, sending = None PROVE DraftsCalm'
    <3>1. D!Reads' = {1} /\ \A x \in Chats : D!SavesOf(x)' = {}
      BY <1>2, <2>1 DEF D!Reads, D!SavesOf, r
    <3>2. \A x \in Chats : D!SavesOf(x) = {} /\ drafts[x] = wrote[x]
      <4>1. \A x \in Chats : D!SavesOf(x) = {} /\ D!WillHave(x)
        BY <1>1, <1>4, <2>3, DraftsAssumption DEF DraftsCalm, D!LeftIsSaved, D!SendingOf, D!SavesOf
      <4> QED BY <4>1 DEF D!WillHave
    <3>3. D!LeftIsSaved'
      BY <1>1, <2>3, <3>1, <3>2 DEF DraftsCalm, D!LeftIsSaved, D!TimerOf, D!SendingOf, D!WillHave
    <3>4. D!ReadIsLeft' /\ D!LastIsLeft'
      BY <1>1, <1>2, <2>1, <2>3, <3>1, <3>2 DEF D!ReadIsLeft, D!LastIsLeft, r
    <3> QED BY <3>3, <3>4 DEF DraftsCalm
  <2> QED BY <1>1, <2>2, <2>3, DraftsParts
<1>5. CASE draftChat # None
  <2>1. PICK r \in D!Requests : r = D!Read(c)
    BY <1>2
  <2>2. PICK s \in D!Requests : s = D!Save(draftChat, last)
    BY <1>3, <1>5, DraftsSavesAreRequests
  <2>3. s.do = "save" /\ s.chat = draftChat /\ s.text = last /\ draftChat \in Chats
    BY <1>3, <1>5, <2>2, DraftsSavesAreRequests
  <2>4. /\ ops' \in Seq(D!Requests) /\ Len(ops') = 2 /\ ops'[1] = s /\ ops'[2] = r
        /\ DOMAIN ops' = {1, 2}
    <3>1. ops' = <<s>> \o <<r>>
      BY <1>1, <1>5, <2>1, <2>2
    <3> QED BY <3>1, DraftsTwo
  <2>5. DraftsTypes'
    BY <1>1, <1>2, <2>1, <2>2, <2>3, <2>4, DraftsParts
       DEF DraftsTypes, D!TypeOK, D!Requests, D!Text
  <2>6. ASSUME DraftsCalm, sending = None PROVE DraftsCalm'
    <3>1. D!Reads' = {2} /\ \A x \in Chats : D!SavesOf(x)' = IF x = draftChat THEN {1} ELSE {}
      BY <1>2, <2>1, <2>3, <2>4 DEF D!Reads, D!SavesOf
    <3>2. \A x \in Chats : D!SavesOf(x) = {} /\ (x = draftChat \/ drafts[x] = wrote[x])
      <4>1. \A x \in Chats : D!SavesOf(x) = {} /\ (x = draftChat \/ D!WillHave(x))
        BY <1>1, <2>6 DEF DraftsCalm, D!LeftIsSaved, D!SendingOf, D!SavesOf
      <4> QED BY <4>1 DEF D!WillHave
    <3>3. last = wrote[draftChat]
      BY <1>1, <1>5, <2>6 DEF DraftsCalm, D!LastIsLeft, D!Reads
    <3>4. \A x \in Chats : D!WillHave(x)'
      BY <1>1, <2>3, <2>4, <3>1, <3>2, <3>3 DEF D!WillHave
    <3>5. D!LeftIsSaved'
      BY <1>1, <2>6, <3>4 DEF DraftsCalm, D!LeftIsSaved, D!TimerOf, D!SendingOf
    <3>6. D!ReadIsLeft' /\ D!LastIsLeft'
      BY <1>1, <1>2, <2>1, <2>2, <2>3, <2>4, <2>6, <3>1, <3>2 DEF D!ReadIsLeft, D!LastIsLeft
    <3> QED BY <3>5, <3>6 DEF DraftsCalm
  <2> QED BY <1>1, <2>5, <2>6, DraftsParts
<1> QED BY <1>4, <1>5

LEMMA DraftsSendInv == ASSUME D!IInv, D!SendDraftMessage PROVE D!IInv'
<1> DEFINE new == [chat |-> draftChat, text |-> composer]
<1>1. /\ ops = <<>> /\ draftChat \in Chats /\ composer \in D!Text /\ sending = None
      /\ sending' = new /\ composer' = None /\ wrote' = [wrote EXCEPT ![draftChat] = None]
      /\ UNCHANGED <<draftChat, last, timer, ops, drafts, draftListed, rushed>>
      /\ keys' \in 0 .. MaxKeys
  BY DraftsAssumption DEF D!IInv, D!TypeOK, D!Acts, D!SendDraftMessage
<1>2. new \in [chat: Chats, text: D!Text] /\ new # None /\ new.chat = draftChat
  BY <1>1, DraftsAssumption
<1> HIDE DEF new
<1>3. DraftsTypes'
  BY <1>1, <1>2, DraftsParts DEF DraftsTypes, D!TypeOK, D!Text
<1>4. ASSUME DraftsCalm PROVE DraftsCalm'
  <2>1. D!Reads' = {} /\ \A c \in Chats : D!SavesOf(c)' = D!SavesOf(c)
    BY <1>1 DEF D!Reads, D!SavesOf
  <2>2. \A c \in Chats : wrote'[c] = IF c = draftChat THEN None ELSE wrote[c]
    BY <1>1 DEF D!IInv, D!TypeOK
  <2>3. D!LeftIsSaved'
    BY <1>1, <1>2, <1>4, <2>1, <2>2
       DEF DraftsCalm, D!LeftIsSaved, D!TimerOf, D!SendingOf, D!WillHave
  <2>4. D!ReadIsLeft' /\ D!LastIsLeft'
    BY <1>1, <1>2, <2>1, <2>2 DEF D!ReadIsLeft, D!LastIsLeft
  <2> QED BY <2>3, <2>4 DEF DraftsCalm
<1> QED BY <1>1, <1>3, <1>4, DraftsParts

LEMMA DraftsSentInv == ASSUME D!IInv, D!HandleMessageSent PROVE D!IInv'
<1>1. /\ sending # None /\ sending' = None /\ composer' \in {composer, sending.text}
      /\ last' = None /\ timer' = None /\ ops' = Append(ops, D!Save(sending.chat, None))
      /\ UNCHANGED <<draftChat, drafts, draftListed, wrote, keys, rushed>>
  BY DEF D!HandleMessageSent, D!NoTimerLeft
<1>2. sending.chat \in Chats /\ sending.text \in D!Text /\ ops \in Seq(D!Requests) /\ None \in D!Text
  BY <1>1 DEF D!IInv, D!TypeOK, D!Text
<1>3. /\ ops' \in Seq(D!Requests)
      /\ \A x \in Chats : x = sending.chat /\ None = wrote[x] => D!WillHave(x)'
      /\ \A x \in Chats : x # sending.chat /\ D!WillHave(x) => D!WillHave(x)'
      /\ D!Reads' = D!Reads
  <2>1. drafts' = drafts /\ wrote' = wrote
    BY <1>1
  <2> QED BY <1>1, <1>2, <2>1, DraftsSaveAppended
<1>4. DraftsTypes'
  <2>1. \A i \in DOMAIN ops' : ops'[i] \in D!Requests
    BY <1>3
  <2>2. composer' \in D!Text
    BY <1>1, <1>2 DEF D!IInv, D!TypeOK
  <2> QED BY <1>1, <1>2, <1>3, <2>1, <2>2, DraftsParts DEF DraftsTypes, D!TypeOK, D!Requests
<1>5. ASSUME DraftsCalm PROVE DraftsCalm'
  <2>1. D!Reads = {} /\ sending.chat = draftChat /\ wrote[draftChat] = None
    BY <1>1, <1>5 DEF DraftsCalm, D!LastIsLeft
  <2>2. D!LeftIsSaved'
    <3>1. \A c \in Chats : D!WillHave(c)'
      <4>1. \A c \in Chats : c # draftChat => D!WillHave(c)
        BY <1>5, <2>1 DEF DraftsCalm, D!LeftIsSaved, D!SendingOf
      <4> QED BY <1>3, <2>1, <4>1
    <3> QED BY <1>1, <3>1 DEF D!LeftIsSaved, D!TimerOf
  <2>3. D!ReadIsLeft' /\ D!LastIsLeft'
    BY <1>1, <1>3, <2>1 DEF D!ReadIsLeft, D!LastIsLeft
  <2> QED BY <2>2, <2>3 DEF DraftsCalm
<1> QED BY <1>1, <1>4, <1>5, DraftsParts

LEMMA DraftsServeInv == ASSUME D!IInv, D!Serve PROVE D!IInv'
<1> DEFINE o == Head(ops)
<1>1. /\ ops # <<>> /\ ops' = Tail(ops) /\ ops \in Seq(D!Requests)
      /\ UNCHANGED <<draftChat, timer, sending, wrote, keys, rushed>>
  BY DEF D!Serve, D!IInv
<1>2. /\ o \in D!Requests /\ o = ops[1] /\ ops' \in Seq(D!Requests)
      /\ Len(ops) \in Nat /\ DOMAIN ops = 1 .. Len(ops) /\ DOMAIN ops' = 1 .. Len(ops) - 1
      /\ Len(ops) >= 1
      /\ \A i \in DOMAIN ops' : ops'[i] = ops[i + 1]
  BY <1>1
<1>3. /\ o.do = "save" => /\ drafts' = [drafts EXCEPT ![o.chat] = o.text]
                          /\ draftListed' = [draftListed EXCEPT ![o.chat] = o.text]
                          /\ UNCHANGED <<composer, last>>
      /\ o.do # "save" => /\ UNCHANGED <<drafts, draftListed>>
                          /\ IF drafts[o.chat] = None THEN UNCHANGED <<composer, last>>
                             ELSE composer' = drafts[o.chat] /\ last' = drafts[o.chat]
  BY DEF D!Serve, D!TakeRead
<1>4. o.do \in {"save", "read"} /\ o.chat \in Chats /\ o.text \in D!Text
  BY <1>2 DEF D!Requests
<1> HIDE DEF o
<1>5. DraftsTypes'
  <2>1. \A i \in DOMAIN ops' : ops'[i] \in D!Requests
    BY <1>2
  <2>2. drafts \in [Chats -> D!Text] /\ draftListed = drafts /\ composer \in D!Text /\ last \in D!Text
    BY DEF D!IInv, D!TypeOK
  <2>3. drafts' \in [Chats -> D!Text] /\ draftListed' = drafts' /\ composer' \in D!Text /\ last' \in D!Text
    BY <1>3, <1>4, <2>2
  <2> QED BY <1>1, <1>2, <2>1, <2>3 DEF D!IInv, DraftsTypes, D!TypeOK, D!Requests
<1>6. \A i \in D!Reads' : i + 1 \in D!Reads /\ ops'[i] = ops[i + 1]
  BY <1>2 DEF D!Reads
<1>7. \A c \in Chats : /\ \A i \in D!SavesOf(c)' : i + 1 \in D!SavesOf(c) /\ ops'[i] = ops[i + 1]
                       /\ \A i \in D!SavesOf(c) : i = 1 \/ i - 1 \in D!SavesOf(c)'
  BY <1>2 DEF D!SavesOf
<1>8. \A c \in Chats : 1 \in D!SavesOf(c) <=> o.do = "save" /\ o.chat = c
  BY <1>2 DEF D!SavesOf
<1>9. \A c \in Chats : drafts'[c] = IF o.do = "save" /\ o.chat = c THEN o.text ELSE drafts[c]
  BY <1>3, <1>4 DEF D!IInv, D!TypeOK
<1>10. \A c \in Chats : D!WillHave(c) => D!WillHave(c)'
  <2> SUFFICES ASSUME NEW c \in Chats, D!WillHave(c) PROVE D!WillHave(c)'
    OBVIOUS
  <2>1. D!SavesOf(c) \subseteq 1 .. Len(ops) /\ D!SavesOf(c)' \subseteq 1 .. Len(ops) - 1
    BY <1>2 DEF D!SavesOf
  <2>2. CASE D!SavesOf(c) = {}
    BY <1>1, <1>7, <1>8, <1>9, <2>2 DEF D!WillHave
  <2>3. CASE D!SavesOf(c) # {}
    <3>1. PICK i \in D!SavesOf(c) : ops[i].text = wrote[c] /\ \A j \in D!SavesOf(c) : j =< i
      BY <2>3 DEF D!WillHave
    <3>2. CASE i = 1
      <4>1. D!SavesOf(c)' = {}
        BY <1>7, <2>1, <3>1, <3>2
      <4>2. drafts'[c] = wrote[c]
        BY <1>2, <1>8, <1>9, <3>1, <3>2
      <4> QED BY <1>1, <4>1, <4>2 DEF D!WillHave
    <3>3. CASE i # 1
      <4>1. i - 1 \in D!SavesOf(c)' /\ ops'[i - 1] = ops[i]
        BY <1>7, <2>1, <3>3
      <4>2. \A j \in D!SavesOf(c)' : j =< i - 1
        BY <1>7, <2>1, <3>1
      <4> QED BY <1>1, <3>1, <4>1, <4>2 DEF D!WillHave
    <3> QED BY <3>2, <3>3
  <2> QED BY <2>2, <2>3
<1>11. ASSUME DraftsCalm PROVE DraftsCalm'
  <2>1. D!LeftIsSaved'
    BY <1>1, <1>10, <1>11 DEF DraftsCalm, D!LeftIsSaved, D!TimerOf, D!SendingOf
  <2>2. D!ReadIsLeft'
    <3> SUFFICES ASSUME NEW i \in D!Reads'
                 PROVE  /\ draftChat' = ops'[i].chat /\ last' = None
                        /\ drafts'[draftChat'] = wrote'[draftChat']
                        /\ \A j \in DOMAIN ops' : j < i => ops'[j].chat # draftChat'
      BY DEF D!ReadIsLeft
    <3>1. i \in 1 .. Len(ops) - 1 /\ i + 1 \in D!Reads /\ ops'[i] = ops[i + 1]
      BY <1>2, <1>6 DEF D!Reads
    <3>2. /\ draftChat = ops[i + 1].chat /\ last = None /\ drafts[draftChat] = wrote[draftChat]
          /\ \A j \in DOMAIN ops : j < i + 1 => ops[j].chat # draftChat
      BY <1>11, <3>1 DEF DraftsCalm, D!ReadIsLeft
    <3>3. o.chat # draftChat /\ draftChat \in Chats
      <4>1. ops[i + 1] \in D!Requests /\ 1 \in DOMAIN ops /\ 1 < i + 1
        BY <1>2, <3>1
      <4> QED BY <1>2, <3>2, <4>1 DEF D!Requests
    <3>4. o.do = "save"
      <4> SUFFICES ASSUME 1 \in D!Reads PROVE FALSE
        BY <1>2, <1>4 DEF D!Reads
      <4> QED BY <1>2, <1>11, <3>3 DEF DraftsCalm, D!ReadIsLeft
    <3>5. \A j \in DOMAIN ops' : j < i => ops'[j].chat # draftChat
      <4> SUFFICES ASSUME NEW j \in DOMAIN ops', j < i PROVE ops'[j].chat # draftChat
        OBVIOUS
      <4>1. j + 1 \in DOMAIN ops /\ j + 1 < i + 1 /\ ops'[j] = ops[j + 1]
        BY <1>2, <3>1
      <4> QED BY <3>2, <4>1
    <3> QED BY <1>1, <1>3, <1>9, <3>1, <3>2, <3>3, <3>4, <3>5
  <2>3. D!LastIsLeft'
    <3>1. CASE sending # None
      BY <1>1, <1>6, <1>11, <3>1 DEF DraftsCalm, D!LastIsLeft
    <3>2. CASE sending = None /\ o.do = "save"
      <4>1. D!Reads' = {} => D!Reads = {}
        <5>1. \A i \in D!Reads : i # 1 /\ i - 1 \in DOMAIN ops' /\ ops'[i - 1] = ops[i]
          BY <1>2, <3>2 DEF D!Reads
        <5> QED BY <5>1 DEF D!Reads
      <4> QED BY <1>1, <1>3, <1>11, <3>2, <4>1 DEF DraftsCalm, D!LastIsLeft
    <3>3. CASE sending = None /\ o.do = "read"
      <4>1. 1 \in D!Reads
        BY <1>2, <3>3 DEF D!Reads
      <4>2. draftChat = o.chat /\ last = None /\ drafts[draftChat] = wrote[draftChat]
        BY <1>2, <1>11, <4>1 DEF DraftsCalm, D!ReadIsLeft
      <4> QED BY <1>1, <1>3, <3>3, <4>2 DEF D!LastIsLeft
    <3> QED BY <1>4, <3>1, <3>2, <3>3
  <2> QED BY <2>1, <2>2, <2>3 DEF DraftsCalm
<1> QED BY <1>1, <1>5, <1>11, DraftsParts

LEMMA DraftsNext == ASSUME D!IInv, D!Next \/ UNCHANGED D!drVars PROVE D!IInv'
  BY DraftsRest, DraftsChangeInv, DraftsTimerInv, DraftsChatInv, DraftsSendInv, DraftsSentInv,
     DraftsServeInv
     DEF D!Next

LEMMA DraftsPromises == ASSUME D!IInv PROVE D!TypeOK /\ D!DraftsAreKept
<1> SUFFICES ASSUME ~ rushed, ops = <<>>, timer = None, sending = None
             PROVE  drafts = wrote
  BY DEF D!IInv, D!DraftsAreKept
<1>1. \A c \in Chats : D!SavesOf(c) = {} /\ D!WillHave(c)
  BY DraftsSavesTyped DEF D!IInv, D!LeftIsSaved, D!TimerOf, D!SendingOf
<1>2. \A c \in Chats : drafts[c] = wrote[c]
  BY <1>1 DEF D!WillHave
<1> QED BY <1>2 DEF D!IInv, D!TypeOK

-----------------------------------------------------------------------------
(* The message cache and the outbox of a browser.  A database, where it      *)
(* opens, and the fallback, where it does not, hold the thread saved last or *)
(* the write is on its way; a call of the outbox is of a message queued, and *)
(* a message is in one place.                                                *)

StoresCacheTypes ==
    /\ dbThread \in [Chats -> 0 .. saves] /\ lsThread \in [Chats -> 0 .. saves]
    /\ lastSave \in [Chats -> 0 .. saves]
    /\ overtaken \subseteq Chats
    /\ cacheCalls \subseteq [at : {"put", "copy", "get"}, chat : Chats, thread : 0 .. saves, own : BOOLEAN]
    /\ saves \in 1 .. MaxSaves + 1

StoresOutTypes ==
    /\ dbOut \cup lsOut \cup removed \subseteq queued /\ queued \subseteq OutRecords
    /\ outCalls \subseteq [op : {"queue", "retry", "delete"}, id : OutRecords]
    /\ outBegun \in 0 .. MaxOutCalls

StoresCacheInv == StoresCacheTypes /\ S!CallsPut /\ S!DatabaseLeads /\ S!FallbackLeads
StoresOutInv == StoresOutTypes /\ S!CallsAreOfQueued /\ S!OnePlace /\ S!QueuedIsKept /\ S!DeletedStaysAway
StoresOpening == opening \in {"always", "never", "flaky"}

LEMMA StoresParts == /\ S!IInv <=> StoresOpening /\ StoresCacheInv /\ StoresOutInv
                     /\ S!IInv' <=> StoresOpening' /\ StoresCacheInv' /\ StoresOutInv'
  BY DEF S!IInv, S!TypeOK, StoresOpening, StoresCacheInv, StoresOutInv, StoresCacheTypes,
         StoresOutTypes

LEMMA StoresOpens == ASSUME StoresOpening
                     PROVE  /\ opening = "always" => S!Outcomes = {TRUE}
                            /\ opening = "never" => S!Outcomes = {FALSE}
                            /\ S!Outcomes \subseteq BOOLEAN
  BY DEF StoresOpening, S!Outcomes

LEMMA StoresCacheRests ==
    ASSUME StoresCacheInv, UNCHANGED <<opening, dbThread, lsThread, lastSave, overtaken, saves>>,
                                 cacheCalls' \subseteq cacheCalls
                          PROVE  StoresCacheInv'
  BY DEF StoresCacheInv, StoresCacheTypes, S!CallsPut, S!DatabaseLeads, S!FallbackLeads

LEMMA StoresOutRests ==
    ASSUME StoresOutInv, UNCHANGED <<opening, dbOut, lsOut, outBegun, queued, removed>>,
                               outCalls' \subseteq outCalls
                        PROVE  StoresOutInv'
  BY DEF StoresOutInv, StoresOutTypes, S!CallsAreOfQueued, S!OnePlace, S!QueuedIsKept,
         S!DeletedStaysAway, S!Steady, S!Listed

LEMMA StoresSaveInv ==
    ASSUME StoresOpening, StoresCacheInv, NEW c \in Chats, S!Save(c) PROVE StoresCacheInv'
<1> DEFINE new == [at |-> "put", chat |-> c, thread |-> saves + 1, own |-> TRUE]
<1>1. /\ saves \in Nat /\ saves' = saves + 1 /\ saves' \in 1 .. MaxSaves + 1
      /\ cacheCalls' = cacheCalls \cup {new}
  BY StoresAssumption DEF S!Save, StoresCacheInv, StoresCacheTypes
<1>2. UNCHANGED <<opening, dbThread, lsThread, lastSave, overtaken>>
  BY DEF S!Save
<1>3. 0 .. saves \subseteq 0 .. saves' /\ saves + 1 \in 0 .. saves' /\ saves + 1 # 0
  BY <1>1
<1>4. StoresCacheTypes'
  <2>1. new \in [at : {"put", "copy", "get"}, chat : Chats, thread : 0 .. saves', own : BOOLEAN]
    BY <1>3
  <2> HIDE DEF new
  <2>2. cacheCalls \subseteq [at : {"put", "copy", "get"}, chat : Chats, thread : 0 .. saves', own : BOOLEAN]
    BY <1>3 DEF StoresCacheInv, StoresCacheTypes
  <2> QED BY <1>1, <1>2, <1>3, <2>1, <2>2 DEF StoresCacheInv, StoresCacheTypes
<1> QED BY <1>1, <1>2, <1>3, <1>4 DEF StoresCacheInv, S!CallsPut, S!DatabaseLeads, S!FallbackLeads

LEMMA StoresReadInv == ASSUME StoresCacheInv, NEW c \in Chats, S!Read(c) PROVE StoresCacheInv'
<1> DEFINE new == [at |-> "get", chat |-> c, thread |-> 0, own |-> FALSE]
<1>1. cacheCalls' = cacheCalls \cup {new} /\ UNCHANGED <<opening, dbThread, lsThread, lastSave, overtaken, saves>>
  BY DEF S!Read
<1>2. /\ new \in [at : {"put", "copy", "get"}, chat : Chats, thread : 0 .. saves, own : BOOLEAN]
      /\ new.at = "get"
  BY DEF StoresCacheInv, StoresCacheTypes
<1> HIDE DEF new
<1> QED BY <1>1, <1>2
           DEF StoresCacheInv, StoresCacheTypes, S!CallsPut, S!DatabaseLeads, S!FallbackLeads

LEMMA StoresNotedTypes ==
    ASSUME StoresCacheTypes, NEW k \in cacheCalls, S!Noted(k)
    PROVE  lastSave' \in [Chats -> 0 .. saves] /\ overtaken' \subseteq Chats
  BY DEF StoresCacheTypes, S!Noted

LEMMA StoresFallbackInv ==
    ASSUME StoresOpening, StoresCacheInv, NEW k \in cacheCalls, S!WriteFallback(k)
    PROVE  StoresCacheInv'
<1>1. /\ UNCHANGED <<opening, dbThread, saves>> /\ cacheCalls' = cacheCalls \ {k}
      /\ lsThread' = [lsThread EXCEPT ![k.chat] = k.thread] /\ S!Noted(k) /\ k.at = "put"
  BY DEF S!WriteFallback
<1>2. opening # "always"
  BY StoresOpens DEF S!WriteFallback
<1>3. k.chat \in Chats /\ k.thread \in 0 .. saves /\ k.own \in BOOLEAN
  BY DEF StoresCacheInv, StoresCacheTypes
<1>4. StoresCacheTypes'
  BY <1>1, <1>3, StoresNotedTypes DEF StoresCacheInv, StoresCacheTypes
<1>5. S!FallbackLeads'
  BY <1>1, <1>3 DEF StoresCacheInv, StoresCacheTypes, S!FallbackLeads, S!Noted
<1> QED BY <1>1, <1>2, <1>4, <1>5 DEF StoresCacheInv, S!CallsPut, S!DatabaseLeads

LEMMA StoresDatabaseInv ==
    ASSUME StoresOpening, StoresCacheInv, NEW k \in cacheCalls, S!WriteDatabase(k)
    PROVE  StoresCacheInv'
<1> DEFINE next == [k EXCEPT !.at = "copy"]
<1>1. /\ UNCHANGED <<opening, lsThread, saves>> /\ cacheCalls' = (cacheCalls \ {k}) \cup {next}
      /\ dbThread' = [dbThread EXCEPT ![k.chat] = k.thread] /\ S!Noted(k) /\ k.at = "put"
  BY DEF S!WriteDatabase
<1>2. opening # "never"
  BY StoresOpens DEF S!WriteDatabase
<1>3. k.chat \in Chats /\ k.thread \in 0 .. saves /\ k.own \in BOOLEAN /\ k.thread # 0
  BY <1>1 DEF StoresCacheInv, StoresCacheTypes, S!CallsPut
<1>4. /\ next \in [at : {"put", "copy", "get"}, chat : Chats, thread : 0 .. saves, own : BOOLEAN]
      /\ next.at = "copy" /\ next.chat = k.chat
  BY DEF StoresCacheInv, StoresCacheTypes
<1> HIDE DEF next
<1>5. StoresCacheTypes'
  BY <1>1, <1>3, <1>4, StoresNotedTypes DEF StoresCacheInv, StoresCacheTypes
<1>6. \A c \in Chats : dbThread'[c] = IF c = k.chat THEN k.thread ELSE dbThread[c]
  BY <1>1, <1>3 DEF StoresCacheInv, StoresCacheTypes
<1>7. S!DatabaseLeads'
  <2> SUFFICES ASSUME opening = "always" PROVE S!DatabaseLeads'
    BY <1>1 DEF S!DatabaseLeads
  <2>1. \A c \in Chats : c # k.chat => lastSave'[c] = lastSave[c] /\ (c \in overtaken'
               <=> c \in overtaken)
    BY <1>1, <1>3 DEF S!Noted, StoresCacheInv, StoresCacheTypes
  <2>2. k.chat \notin overtaken' => k.thread = lastSave'[k.chat]
    BY <1>1, <1>3 DEF S!Noted, StoresCacheInv, StoresCacheTypes
  <2>3. \A j \in cacheCalls' : j.at = "copy" => dbThread'[j.chat] # 0
    BY <1>1, <1>3, <1>4, <1>6 DEF StoresCacheInv, StoresCacheTypes, S!DatabaseLeads
  <2> QED BY <1>1, <1>3, <1>6, <2>1, <2>2, <2>3 DEF StoresCacheInv, S!DatabaseLeads
<1> QED BY <1>1, <1>2, <1>4, <1>5, <1>7 DEF StoresCacheInv, S!CallsPut, S!FallbackLeads

LEMMA StoresCopyInv ==
    ASSUME StoresCacheInv, NEW k \in cacheCalls, S!WriteCopy(k) PROVE StoresCacheInv'
<1>1. /\ UNCHANGED <<opening, dbThread, lastSave, overtaken, saves>>
      /\ cacheCalls' = cacheCalls \ {k}
      /\ lsThread' = [lsThread EXCEPT ![k.chat] = k.thread] /\ k.at = "copy"
  BY DEF S!WriteCopy
<1>2. k.chat \in Chats /\ k.thread \in 0 .. saves
  BY DEF StoresCacheInv, StoresCacheTypes
<1>3. StoresCacheTypes'
  BY <1>1, <1>2 DEF StoresCacheInv, StoresCacheTypes
<1>4. S!DatabaseLeads'
  BY <1>1, <1>2 DEF StoresCacheInv, StoresCacheTypes, S!DatabaseLeads
<1>5. opening # "never"
  BY <1>1 DEF StoresCacheInv, S!FallbackLeads
<1> QED BY <1>1, <1>3, <1>4, <1>5 DEF StoresCacheInv, S!CallsPut, S!FallbackLeads

LEMMA StoresAnswersInv ==
    ASSUME StoresOpening, StoresCacheInv, NEW k \in cacheCalls, S!ReadAnswers(k)
    PROVE StoresCacheInv'
<1>1. UNCHANGED <<opening, dbThread, lsThread, lastSave, overtaken, saves>>
  BY DEF S!ReadAnswers
<1>2. CASE cacheCalls' \subseteq cacheCalls
  BY <1>1, <1>2, StoresCacheRests
<1>3. CASE ~ cacheCalls' \subseteq cacheCalls
  <2> DEFINE next == [k EXCEPT !.at = "put", !.thread = S!Legacy(k.chat)]
  <2>1. cacheCalls' = (cacheCalls \ {k}) \cup {next} /\ TRUE \in S!Outcomes /\ S!Legacy(k.chat) # 0
    BY <1>3 DEF S!ReadAnswers
  <2>2. opening # "never"
    BY <2>1, StoresOpens
  <2>3. k.chat \in Chats /\ S!Legacy(k.chat) \in 0 .. saves
    BY DEF StoresCacheInv, StoresCacheTypes, S!Legacy
  <2>4. /\ next \in [at : {"put", "copy", "get"}, chat : Chats, thread : 0 .. saves, own : BOOLEAN]
        /\ next.at = "put" /\ next.thread # 0
    BY <2>1, <2>3 DEF StoresCacheInv, StoresCacheTypes
  <2> HIDE DEF next
  <2>5. StoresCacheTypes'
    BY <1>1, <2>1, <2>4 DEF StoresCacheInv, StoresCacheTypes
  <2> QED BY <1>1, <2>1, <2>2, <2>4, <2>5
             DEF StoresCacheInv, S!CallsPut, S!DatabaseLeads, S!FallbackLeads
<1> QED BY <1>2, <1>3

LEMMA StoresCallInv ==
    ASSUME StoresOutInv, NEW r \in OutRecords, NEW op \in {"queue", "retry", "delete"}, S!CallOutbox(r, op)
    PROVE  StoresOutInv'
<1> DEFINE new == [op |-> op, id |-> r]
<1>1. /\ outCalls' = outCalls \cup {new} /\ UNCHANGED <<opening, dbOut, lsOut, queued, removed>>
      /\ outBegun' = outBegun + 1 /\ outBegun < MaxOutCalls
  BY DEF S!CallOutbox
<1>2. new.op = op /\ new.id = r /\ new \in [op : {"queue", "retry", "delete"}, id : OutRecords]
  OBVIOUS
<1>3. op = "queue" <=> r \notin queued
  BY DEF S!CallOutbox
<1> HIDE DEF new
<1>4. StoresOutTypes'
  BY <1>1, <1>2, StoresAssumption DEF StoresOutInv, StoresOutTypes
<1> QED BY <1>1, <1>2, <1>3, <1>4
        DEF StoresOutInv, S!CallsAreOfQueued, S!OnePlace, S!QueuedIsKept,
            S!DeletedStaysAway, S!Steady, S!Listed

LEMMA StoresRunInv ==
    ASSUME StoresOpening, StoresOutInv, NEW k \in outCalls, S!RunOutbox(k) PROVE StoresOutInv'
<1>1. k.op \in {"queue", "retry", "delete"} /\ k.id \in OutRecords
  BY DEF StoresOutInv, StoresOutTypes
<1>2. /\ outCalls' = outCalls \ {k} /\ UNCHANGED <<opening, outBegun>>
      /\ queued' = IF k.op = "queue" THEN queued \cup {k.id} ELSE queued
      /\ removed' = IF k.op = "delete" THEN removed \cup {k.id} ELSE removed
  BY DEF S!RunOutbox
<1>3. PICK opened \in S!Outcomes : /\ dbOut' = IF opened THEN S!Run(dbOut, k) ELSE dbOut
                                   /\ lsOut' = IF opened THEN lsOut ELSE S!Run(lsOut, k)
  BY DEF S!RunOutbox
<1>4. \A V : S!Run(V, k) = CASE k.op = "queue" -> V \cup {k.id} [] k.op = "retry" -> V
                           [] k.op = "delete" -> V \ {k.id}
  BY <1>1 DEF S!Run, S!RetryMark, S!Put
<1>5. opening = "always" => opened = TRUE
  BY <1>3, StoresOpens
<1>6. opening = "never" => opened = FALSE
  BY <1>3, StoresOpens
<1>7. opened \in BOOLEAN
  BY <1>3, StoresOpens
<1>8. /\ dbOut \cup lsOut \cup removed \subseteq queued /\ queued \subseteq OutRecords
      /\ \A r \in queued \ removed : r \in dbOut \cup lsOut
      /\ \A j \in outCalls : j.op = "queue" <=> j.id \notin queued
  BY DEF StoresOutInv, StoresOutTypes, S!CallsAreOfQueued, S!QueuedIsKept
<1>9. StoresOutTypes'
  <2>1. CASE k.op = "queue"
    BY <1>1, <1>2, <1>3, <1>4, <1>7, <1>8, <2>1 DEF StoresOutInv, StoresOutTypes
  <2>2. CASE k.op = "retry"
    BY <1>1, <1>2, <1>3, <1>4, <1>7, <1>8, <2>2 DEF StoresOutInv, StoresOutTypes
  <2>3. CASE k.op = "delete"
    BY <1>1, <1>2, <1>3, <1>4, <1>7, <1>8, <2>3 DEF StoresOutInv, StoresOutTypes
  <2> QED BY <1>1, <2>1, <2>2, <2>3
<1>10. S!CallsAreOfQueued'
  <2> SUFFICES ASSUME NEW j \in outCalls, j # k PROVE j.op = "queue" <=> j.id \notin queued'
    BY <1>2 DEF S!CallsAreOfQueued
  <2>1. ~ (j.op = "queue" /\ k.op = "queue" /\ j.id = k.id)
    BY DEF StoresOutInv, StoresOutTypes
  <2>2. k.op = "queue" /\ j.id = k.id => j.op = "queue"
    BY <1>8
  <2> QED BY <1>2, <1>8, <2>1, <2>2
<1>11. S!OnePlace'
  <2>1. opening = "always" => lsOut' = {}
    BY <1>3, <1>5 DEF StoresOutInv, S!OnePlace
  <2>2. opening = "never" => dbOut' = {}
    BY <1>3, <1>6 DEF StoresOutInv, S!OnePlace
  <2> QED BY <1>2, <2>1, <2>2 DEF S!OnePlace
<1>12. \A r \in (queued \ removed)' : r \in dbOut' \cup lsOut'
  <2> SUFFICES ASSUME NEW r \in queued', r \notin removed' PROVE r \in dbOut' \cup lsOut'
    OBVIOUS
  <2>1. CASE k.op = "queue"
    BY <1>2, <1>3, <1>4, <1>7, <1>8, <2>1
  <2>2. CASE k.op = "retry"
    BY <1>2, <1>3, <1>4, <1>7, <1>8, <2>2
  <2>3. CASE k.op = "delete"
    BY <1>2, <1>3, <1>4, <1>7, <1>8, <2>3
  <2> QED BY <1>1, <2>1, <2>2, <2>3
<1>13. S!QueuedIsKept'
  BY <1>2, <1>11, <1>12 DEF S!QueuedIsKept, S!OnePlace, S!Steady, S!Listed, StoresOpening
<1>14. S!DeletedStaysAway'
  <2>1. S!Steady => removed \cap (dbOut \cup lsOut) = {}
    BY DEF StoresOutInv, S!OnePlace, S!DeletedStaysAway, S!Steady, S!Listed, StoresOpening
  <2>2. S!Steady => removed' \cap (dbOut' \cup lsOut') = {}
    <3> SUFFICES ASSUME S!Steady PROVE removed' \cap (dbOut' \cup lsOut') = {}
      OBVIOUS
    <3>1. (opened /\ lsOut = {}) \/ (~ opened /\ dbOut = {})
      BY <1>5, <1>6 DEF StoresOutInv, S!OnePlace, S!Steady, StoresOpening
    <3>2. CASE k.op = "queue"
      BY <1>2, <1>3, <1>4, <1>8, <2>1, <3>1, <3>2
    <3>3. CASE k.op = "retry"
      BY <1>2, <1>3, <1>4, <1>8, <2>1, <3>1, <3>3
    <3>4. CASE k.op = "delete"
      BY <1>2, <1>3, <1>4, <1>8, <2>1, <3>1, <3>4
    <3> QED BY <1>1, <3>2, <3>3, <3>4
  <2> QED BY <1>2, <2>2 DEF S!DeletedStaysAway, S!Steady, S!Listed
<1> QED BY <1>9, <1>10, <1>11, <1>13, <1>14 DEF StoresOutInv

LEMMA StoresInit == ASSUME S!Init PROVE S!IInv
<1>1. StoresOpening
  BY DEF S!Init, StoresOpening
<1>2. StoresCacheInv
  BY StoresAssumption
     DEF S!Init, StoresCacheInv, StoresCacheTypes, S!CallsPut, S!DatabaseLeads, S!FallbackLeads
<1>3. StoresOutInv
  BY StoresAssumption
     DEF S!Init, StoresOutInv, StoresOutTypes, S!CallsAreOfQueued, S!OnePlace, S!QueuedIsKept,
            S!DeletedStaysAway, S!Steady, S!Listed
<1> QED BY <1>1, <1>2, <1>3, StoresParts

LEMMA StoresNext == ASSUME S!IInv, S!CacheNext \/ S!OutboxNext \/ UNCHANGED S!vars PROVE S!IInv'
<1>1. StoresOpening /\ StoresCacheInv /\ StoresOutInv
  BY StoresParts
<1>2. opening' = opening /\ StoresOpening'
  BY <1>1
     DEF S!CacheNext, S!OutboxNext, S!vars, StoresOpening, S!Save, S!Read, S!WriteFallback,
         S!WriteDatabase, S!WriteCopy,
              S!ReadAnswers, S!CallOutbox, S!RunOutbox, S!Close
<1>3. CASE UNCHANGED S!outVars /\ (\E c \in Chats : S!Save(c) \/ S!Read(c))
  <2>1. StoresOutInv'
    BY <1>1, <1>2, <1>3, StoresOutRests DEF S!outVars
  <2>2. StoresCacheInv'
    BY <1>1, <1>3, StoresSaveInv, StoresReadInv
  <2> QED BY <1>2, <2>1, <2>2, StoresParts
<1>4. CASE /\ UNCHANGED S!outVars
           /\ \E k \in cacheCalls : S!WriteFallback(k) \/ S!WriteDatabase(k) \/ S!WriteCopy(k) \/ S!ReadAnswers(k)
  <2>1. StoresOutInv'
    BY <1>1, <1>2, <1>4, StoresOutRests DEF S!outVars
  <2>2. StoresCacheInv'
    BY <1>1, <1>4, StoresFallbackInv, StoresDatabaseInv, StoresCopyInv, StoresAnswersInv
  <2> QED BY <1>2, <2>1, <2>2, StoresParts
<1>5. CASE S!Close \/ UNCHANGED S!vars
  <2>1. StoresCacheInv'
    BY <1>1, <1>5, StoresCacheRests DEF S!Close, S!vars, S!cacheVars
  <2>2. StoresOutInv'
    BY <1>1, <1>5, StoresOutRests DEF S!Close, S!vars, S!outVars
  <2> QED BY <1>2, <2>1, <2>2, StoresParts
<1>6. CASE /\ UNCHANGED S!cacheVars
           /\ (\/ \E r \in OutRecords, op \in {"queue", "retry", "delete"} : S!CallOutbox(r, op)
               \/ \E k \in outCalls : S!RunOutbox(k))
  <2>1. StoresCacheInv'
    BY <1>1, <1>2, <1>6, StoresCacheRests DEF S!cacheVars
  <2>2. StoresOutInv'
    BY <1>1, <1>6, StoresCallInv, StoresRunInv
  <2> QED BY <1>2, <2>1, <2>2, StoresParts
<1>7. CASE S!CacheNext
  BY <1>3, <1>4, <1>5, <1>7
     DEF S!CacheNext, S!Save, S!Read, S!WriteFallback, S!WriteDatabase, S!WriteCopy, S!ReadAnswers, S!Close
<1>8. CASE S!OutboxNext
  BY <1>5, <1>6, <1>8 DEF S!OutboxNext, S!CallOutbox, S!RunOutbox, S!Close
<1> QED BY <1>5, <1>7, <1>8

LEMMA StoresPromises ==
    ASSUME S!IInv PROVE S!TypeOK /\ S!ReadsLatest /\ S!QueuedIsKept /\ S!DeletedStaysAway
<1>1. S!ReadsLatest
  BY DEF S!IInv, S!TypeOK, S!DatabaseLeads, S!FallbackLeads, S!ReadsLatest, S!Steady, S!Persisted,
         S!Legacy
<1> QED BY <1>1 DEF S!IInv

-----------------------------------------------------------------------------
(* Settings.  What a timer is to send is what its page holds; while nothing  *)
(* was lost or overtaken, what is on its way, or what the server has when    *)
(* nothing is, is what the device that sent last holds.                      *)

LEMMA SettingsFullIsPartial ==
    O!Full \subseteq O!Partial /\ None \notin O!Full /\ None \notin O!Partial
  BY SettingsAssumption DEF O!Full, O!Partial

\* Settings over others are as many as both have, and all over all.
LEMMA SettingsOverFacts ==
    ASSUME NEW u \in O!Partial, NEW v \in O!Partial
    PROVE  /\ O!Over(u, v) \in O!Partial
           /\ u \in O!Full => O!Over(u, v) \in O!Full
           /\ v \in O!Full => O!Over(u, v) = v
           /\ \A o \in Options : v[o] # O!Unset => O!Over(u, v)[o] = v[o]
  BY DEF O!Over, O!Partial, O!Full, O!Unset

LEMMA SettingsDefaultsFull == O!Defaults \in O!Full /\ O!Nothing \in O!Partial
  BY DEF O!Defaults, O!Full, O!Nothing, O!Partial

LEMMA SettingsInit == ASSUME O!Init PROVE O!IInv
<1>1. storedSettings \in [Devices -> O!Partial]
  BY SettingsDefaultsFull DEF O!Init, O!Partial, O!Nothing
<1>2. heldSettings \in [Devices -> O!Full]
  BY <1>1, SettingsDefaultsFull, SettingsFullIsPartial, SettingsOverFacts DEF O!Init
<1>3. O!TypeOK
  BY <1>1, <1>2, SettingsDefaultsFull, SettingsAssumption DEF O!Init, O!TypeOK
<1>4. O!ChoicesStay
  BY <1>1, SettingsDefaultsFull, SettingsFullIsPartial, SettingsOverFacts DEF O!Init, O!ChoicesStay
<1> QED BY <1>3, <1>4 DEF O!Init, O!IInv, O!TimersAreCurrent, O!LatestIsOnItsWay

LEMMA SettingsRest == ASSUME O!IInv, UNCHANGED O!vars PROVE O!IInv'
  BY DEF O!IInv, O!vars, O!TypeOK, O!ChoicesStay, O!TimersAreCurrent, O!LatestIsOnItsWay

LEMMA SettingsActsType == ASSUME O!IInv, O!Acts PROVE changes' \in 0 .. MaxChanges
  BY SettingsAssumption DEF O!IInv, O!TypeOK, O!Acts

LEMMA SettingsFetchInv == ASSUME O!IInv, NEW d \in Devices, O!Fetch(d) PROVE O!IInv'
<1>1. changes' \in 0 .. MaxChanges
  BY SettingsActsType DEF O!Fetch
<1>2. O!TypeOK'
  BY <1>1 DEF O!IInv, O!TypeOK, O!Fetch
<1> QED BY <1>2 DEF O!Fetch, O!IInv, O!ChoicesStay, O!TimersAreCurrent, O!LatestIsOnItsWay

LEMMA SettingsFailsInv == ASSUME O!IInv, NEW d \in Devices, O!FetchFails(d) PROVE O!IInv'
<1>1. O!TypeOK'
  BY DEF O!IInv, O!TypeOK, O!FetchFails
<1> QED BY <1>1 DEF O!FetchFails, O!IInv, O!ChoicesStay, O!TimersAreCurrent, O!LatestIsOnItsWay

LEMMA SettingsAnswersInv == ASSUME O!IInv, NEW d \in Devices, O!FetchAnswers(d) PROVE O!IInv'
<1> DEFINE new == O!Merged(fetched[d], storedSettings[d])
<1>1. fetched[d] \in O!Partial /\ storedSettings[d] \in O!Partial /\ heldSettings[d] \in O!Full
  BY DEF O!FetchAnswers, O!IInv, O!TypeOK
<1>2. /\ new \in O!Full /\ new \in O!Partial
      /\ storedSettings[d] \in O!Full => new = storedSettings[d]
      /\ \A o \in Options : storedSettings[d][o] # O!Unset => new[o] = storedSettings[d][o]
  BY <1>1, SettingsDefaultsFull, SettingsFullIsPartial, SettingsOverFacts DEF O!Merged
<1>3. /\ heldSettings' = [heldSettings EXCEPT ![d] = new]
      /\ storedSettings' = [storedSettings EXCEPT ![d] = new]
      /\ fetched' = [fetched EXCEPT ![d] = None]
      /\ UNCHANGED <<syncTimer, syncs, serverSettings, chosen, latest, kept, changes>>
  BY DEF O!FetchAnswers, O!IInv, O!TypeOK
<1> HIDE DEF new
<1>4. O!TypeOK'
  BY <1>2, <1>3 DEF O!IInv, O!TypeOK
<1>5. O!ChoicesStay'
  BY <1>2, <1>3 DEF O!IInv, O!TypeOK, O!ChoicesStay
<1>6. heldSettings[d] = storedSettings[d] => new = heldSettings[d]
  BY <1>1, <1>2
<1>7. O!TimersAreCurrent'
  BY <1>1, <1>3, <1>6 DEF O!IInv, O!TypeOK, O!TimersAreCurrent
<1>8. O!LatestIsOnItsWay'
  BY <1>1, <1>3, <1>6 DEF O!IInv, O!TypeOK, O!LatestIsOnItsWay
<1> QED BY <1>4, <1>5, <1>7, <1>8 DEF O!IInv

LEMMA SettingsStoreInv ==
    ASSUME O!IInv, NEW d \in Devices, NEW next \in O!Full, O!Acts, O!Store(d, next),
           UNCHANGED <<fetched, syncs, serverSettings, latest, kept>>,
           chosen' \in [Devices -> O!Partial],
           \A x \in Devices : x # d => chosen'[x] = chosen[x],
           \A o \in Options : chosen'[d][o] # O!Unset => next[o] = chosen'[d][o]
    PROVE  O!IInv'
<1>1. next \in O!Partial /\ next # None
  BY SettingsFullIsPartial
<1>2. /\ heldSettings' = [heldSettings EXCEPT ![d] = next]
      /\ storedSettings' = [storedSettings EXCEPT ![d] = next]
      /\ syncTimer' = [syncTimer EXCEPT ![d] = next]
  BY DEF O!Store, O!Debounced
<1>3. changes' \in 0 .. MaxChanges
  BY SettingsActsType
<1>4. O!TypeOK'
  BY <1>1, <1>2, <1>3 DEF O!IInv, O!TypeOK
<1>5. O!ChoicesStay'
  BY <1>2 DEF O!IInv, O!TypeOK, O!ChoicesStay
<1>6. O!TimersAreCurrent'
  BY <1>2 DEF O!IInv, O!TypeOK, O!TimersAreCurrent
<1>7. O!LatestIsOnItsWay'
  BY <1>1, <1>2 DEF O!IInv, O!TypeOK, O!LatestIsOnItsWay
<1> QED BY <1>4, <1>5, <1>6, <1>7 DEF O!IInv

LEMMA SettingsChangeInv ==
    ASSUME O!IInv, NEW d \in Devices, NEW o \in Options, O!Change(d, o) PROVE O!IInv'
<1> DEFINE v == O!Flipped(heldSettings[d][o])
           next == [heldSettings[d] EXCEPT ![o] = v]
<1>1. v \in {"on", "off"} /\ heldSettings[d] \in O!Full /\ chosen \in [Devices -> O!Partial]
  BY DEF O!Flipped, O!IInv, O!TypeOK
<1>2. chosen' = [chosen EXCEPT ![d][o] = v] /\ O!Store(d, next)
  BY DEF O!Change
<1> HIDE DEF v
<1>3. next \in O!Full
  BY <1>1 DEF O!Full
<1>4. chosen' \in [Devices -> O!Partial] /\ \A x \in Devices : x # d => chosen'[x] = chosen[x]
  BY <1>1, <1>2 DEF O!Partial
<1>5. \A i \in Options : chosen'[d][i] # O!Unset => next[i] = chosen'[d][i]
  BY <1>1, <1>2 DEF O!IInv, O!ChoicesStay, O!Full, O!Partial
<1>6. O!Acts /\ UNCHANGED <<fetched, syncs, serverSettings, latest, kept>>
  BY DEF O!Change
<1> HIDE DEF next
<1> QED BY <1>2, <1>3, <1>4, <1>5, <1>6, SettingsStoreInv

LEMMA SettingsResetInv ==
    ASSUME O!IInv, NEW d \in Devices, NEW several \in SUBSET Options, O!Reset(d, several)
    PROVE O!IInv'
<1> DEFINE next == [o \in Options |-> IF o \in several THEN O!Defaults[o] ELSE heldSettings[d][o]]
           mine == [o \in Options |-> IF o \in several THEN O!Defaults[o] ELSE chosen[d][o]]
<1>1. heldSettings[d] \in O!Full /\ chosen \in [Devices -> O!Partial] /\ O!Defaults \in O!Full
  BY SettingsDefaultsFull DEF O!IInv, O!TypeOK
<1>2. next \in O!Full /\ mine \in O!Partial
  BY <1>1 DEF O!Full, O!Partial
<1>3. chosen' = [chosen EXCEPT ![d] = mine] /\ O!Store(d, next)
  BY DEF O!Reset
<1>4. \A i \in Options : mine[i] # O!Unset => next[i] = mine[i]
  BY <1>1 DEF O!IInv, O!ChoicesStay
<1> HIDE DEF next, mine
<1>5. /\ chosen' \in [Devices -> O!Partial] /\ \A x \in Devices : x # d => chosen'[x] = chosen[x]
      /\ chosen'[d] = mine
  BY <1>1, <1>2, <1>3
<1> QED BY <1>2, <1>3, <1>4, <1>5, SettingsStoreInv DEF O!Reset

LEMMA SettingsSyncInv == ASSUME O!IInv, NEW d \in Devices, O!Sync(d) PROVE O!IInv'
<1> DEFINE new == [from |-> d, settings |-> syncTimer[d]]
<1>1. syncTimer[d] \in O!Full /\ syncTimer[d] = heldSettings[d] /\ syncTimer[d] = storedSettings[d]
  BY DEF O!Sync, O!IInv, O!TypeOK, O!TimersAreCurrent
<1>2. new \in [from : Devices, settings : O!Full] /\ new.settings = heldSettings[d]
  BY <1>1
<1>3. /\ kept' = (kept /\ syncs = {}) /\ syncs' = syncs \cup {new}
      /\ syncTimer' = [syncTimer EXCEPT ![d] = None] /\ latest' = d
      /\ UNCHANGED <<heldSettings, storedSettings, fetched, serverSettings, chosen, changes>>
  BY DEF O!Sync
<1> HIDE DEF new
<1>4. d # None
  BY SettingsAssumption
<1>5. O!TypeOK'
  BY <1>2, <1>3 DEF O!IInv, O!TypeOK
<1>6. O!LatestIsOnItsWay'
  BY <1>1, <1>2, <1>3, <1>4 DEF O!LatestIsOnItsWay
<1> QED BY <1>3, <1>5, <1>6 DEF O!IInv, O!TypeOK, O!ChoicesStay, O!TimersAreCurrent

LEMMA SettingsReplaceInv == ASSUME O!IInv, NEW s \in syncs, O!Replace(s) PROVE O!IInv'
<1>1. O!TypeOK'
  BY DEF O!Replace, O!IInv, O!TypeOK, O!Partial, O!Full
<1> QED BY <1>1 DEF O!Replace, O!IInv, O!ChoicesStay, O!TimersAreCurrent, O!LatestIsOnItsWay

LEMMA SettingsSyncFailsInv == ASSUME O!IInv, NEW s \in syncs, O!SyncFails(s) PROVE O!IInv'
<1>1. O!TypeOK'
  BY DEF O!SyncFails, O!IInv, O!TypeOK
<1> QED BY <1>1 DEF O!SyncFails, O!IInv, O!ChoicesStay, O!TimersAreCurrent, O!LatestIsOnItsWay

LEMMA SettingsReloadInv == ASSUME O!IInv, NEW d \in Devices, O!Reload(d) PROVE O!IInv'
<1> DEFINE new == O!Over(O!Defaults, storedSettings[d])
<1>1. storedSettings[d] \in O!Partial /\ heldSettings[d] \in O!Full
  BY DEF O!IInv, O!TypeOK
<1>2. /\ new \in O!Full
      /\ storedSettings[d] \in O!Full => new = storedSettings[d]
      /\ \A o \in Options : storedSettings[d][o] # O!Unset => new[o] = storedSettings[d][o]
  BY <1>1, SettingsDefaultsFull, SettingsFullIsPartial, SettingsOverFacts
<1>3. /\ heldSettings' = [heldSettings EXCEPT ![d] = new]
      /\ syncTimer' = [syncTimer EXCEPT ![d] = None]
      /\ fetched' = [fetched EXCEPT ![d] = None]
      /\ kept' = (kept /\ syncTimer[d] = None)
      /\ UNCHANGED <<storedSettings, syncs, serverSettings, chosen, latest>>
  BY DEF O!Reload
<1> HIDE DEF new
<1>4. changes' \in 0 .. MaxChanges
  BY SettingsActsType DEF O!Reload
<1>5. O!TypeOK'
  BY <1>2, <1>3, <1>4 DEF O!IInv, O!TypeOK
<1>6. O!ChoicesStay'
  BY <1>2, <1>3 DEF O!IInv, O!TypeOK, O!ChoicesStay
<1>7. heldSettings[d] = storedSettings[d] => new = heldSettings[d]
  BY <1>1, <1>2
<1>8. O!LatestIsOnItsWay'
  BY <1>1, <1>3, <1>7 DEF O!IInv, O!TypeOK, O!LatestIsOnItsWay
<1>9. O!TimersAreCurrent'
  BY <1>3 DEF O!IInv, O!TypeOK, O!TimersAreCurrent
<1> QED BY <1>5, <1>6, <1>8, <1>9 DEF O!IInv

LEMMA SettingsNext == ASSUME O!IInv, O!Next \/ UNCHANGED O!vars PROVE O!IInv'
<1>1. CASE \E d \in Devices : O!Fetch(d) \/ O!FetchAnswers(d) \/ O!FetchFails(d) \/ O!Sync(d) \/ O!Reload(d)
  BY <1>1, SettingsFetchInv, SettingsAnswersInv, SettingsFailsInv, SettingsSyncInv,
     SettingsReloadInv
<1>2. CASE \E d \in Devices, o \in Options : O!Change(d, o)
  BY <1>2, SettingsChangeInv
<1>3. CASE \E d \in Devices, several \in SUBSET Options \ {{}} : O!Reset(d, several)
  BY <1>3, SettingsResetInv
<1>4. CASE \E s \in syncs : O!Replace(s) \/ O!SyncFails(s)
  BY <1>4, SettingsReplaceInv, SettingsSyncFailsInv
<1> QED BY <1>1, <1>2, <1>3, <1>4, SettingsRest DEF O!Next

LEMMA SettingsPromises == ASSUME O!IInv PROVE O!TypeOK /\ O!ChoicesStay /\ O!ServerHasLatest
  BY DEF O!IInv, O!TypeOK, O!LatestIsOnItsWay, O!ServerHasLatest

-----------------------------------------------------------------------------
(* Backups.  The page that wrote the backup record last holds it in both of  *)
(* its views, and days rounded up fall in the bands the half days do.        *)

LEMMA BackupsInit == ASSUME B!Init PROVE B!IInv
<1>1. writer \in Pages
  BY BackupsAssumption DEF B!Init
<1>2. backup \in B!Records /\ B!NoBackup \in B!Records
  BY DEF B!Init, B!NoBackup, B!Records
<1>3. B!TypeOK
  BY <1>1, <1>2, BackupsAssumption DEF B!Init, B!TypeOK
<1>4. B!HoldersAgree
  BY <1>1 DEF B!Init, B!HoldersAgree
<1> QED BY <1>3, <1>4 DEF B!Init, B!IInv

LEMMA BackupsRest == ASSUME B!IInv, UNCHANGED B!vars PROVE B!IInv'
  BY DEF B!IInv, B!vars, B!TypeOK, B!Records, B!HoldersAgree

\* Whether a reminder is shown is a truth value.
LEMMA BackupsRemindsType == \A b, t : B!Reminds(b, t) \in BOOLEAN
  BY DEF B!Reminds

LEMMA BackupsUpdateInv ==
    ASSUME B!IInv, NEW p \in Pages, NEW v \in B!Views, NEW b, B!Update(p, v, b), halfDay' = halfDay,
           files \subseteq files', files' \subseteq Nat, b \in B!Records',
           exporting' \in [Pages -> 0 .. halfDay \cup {None}]
    PROVE  B!IInv'
<1>1. B!Records \subseteq B!Records'
  BY DEF B!Records
<1>2. /\ backup' = b /\ copies' = [copies EXCEPT ![p] = [w \in B!Views |-> b]] /\ writer' = p
      /\ reminders' = [reminders EXCEPT ![p] = [w \in B!Views |-> B!Reminds(copies'[p][w], halfDay)]]
  BY DEF B!Update, B!Tell
<1>3. copies' \in [Pages -> [B!Views -> B!Records']]
  BY <1>1, <1>2 DEF B!IInv, B!TypeOK
<1>4. reminders' \in [Pages -> [B!Views -> BOOLEAN]]
  BY <1>2, BackupsRemindsType DEF B!IInv, B!TypeOK
<1>5. B!HoldersAgree'
  BY <1>2 DEF B!IInv, B!TypeOK, B!HoldersAgree
<1> QED BY <1>2, <1>3, <1>4, <1>5 DEF B!IInv, B!TypeOK

LEMMA BackupsDismissInv == ASSUME B!IInv, NEW p \in Pages, B!DismissReminder(p) PROVE B!IInv'
<1> DEFINE c == copies[p]["banner"]
           b == [c EXCEPT !.dismissed = halfDay]
<1>1. "banner" \in B!Views /\ c \in B!Records /\ halfDay \in 0 .. halfDay
  BY BackupsAssumption DEF B!IInv, B!TypeOK, B!Views
<1>2. B!Update(p, "banner", b) /\ UNCHANGED <<halfDay, exporting, files>>
  BY DEF B!DismissReminder
<1>3. b \in B!Records'
  BY <1>1, <1>2 DEF B!Records
<1> HIDE DEF b
<1> QED BY <1>1, <1>2, <1>3, BackupsUpdateInv DEF B!IInv, B!TypeOK

LEMMA BackupsMountInv ==
    ASSUME B!IInv, NEW p \in Pages, NEW v \in B!Views, B!Mount(p, v) PROVE B!IInv'
<1>1. B!Views = {"banner", "settings"} /\ UNCHANGED <<halfDay, backup, files, writer>>
  BY DEF B!Views, B!Mount
<1>2. copies' = [copies EXCEPT ![p] = IF v = "banner" THEN [w \in B!Views |-> backup]
                                      ELSE [copies[p] EXCEPT ![v] = backup]]
  BY DEF B!Mount
<1>3. /\ \A x \in Pages, w \in B!Views : copies'[x][w] \in {backup, copies[x][w]}
      /\ copies' \in [Pages -> [B!Views -> B!Records]]
  BY <1>2 DEF B!IInv, B!TypeOK
<1>4. reminders' \in [Pages -> [B!Views -> BOOLEAN]]
  <2>1. \E r \in [B!Views -> BOOLEAN] : reminders' = [reminders EXCEPT ![p] = r]
    <3> DEFINE r == [w \in B!Views |-> IF copies'[p][w] # copies[p][w] \/ w = v
                                       THEN B!Reminds(copies'[p][w], halfDay) ELSE reminders[p][w]]
    <3>1. reminders' = [reminders EXCEPT ![p] = r]
      BY DEF B!Mount, B!IInv, B!TypeOK
    <3>2. r \in [B!Views -> BOOLEAN]
      BY BackupsRemindsType DEF B!IInv, B!TypeOK
    <3> QED BY <3>1, <3>2
  <2> QED BY <2>1 DEF B!IInv, B!TypeOK
<1>5. exporting' \in [Pages -> 0 .. halfDay \cup {None}]
  BY DEF B!Mount, B!IInv, B!TypeOK
<1>6. B!HoldersAgree'
  BY <1>1, <1>3 DEF B!IInv, B!TypeOK, B!HoldersAgree
<1>7. B!Records' = B!Records
  BY <1>1 DEF B!Records
<1> QED BY <1>1, <1>3, <1>4, <1>5, <1>6, <1>7 DEF B!IInv, B!TypeOK

LEMMA BackupsExportInv ==
    ASSUME B!IInv, NEW p \in Pages, B!Export(p) \/ B!ExportFails(p) PROVE B!IInv'
<1>1. halfDay \in 0 .. halfDay
  BY BackupsAssumption DEF B!IInv, B!TypeOK
<1>2. exporting' \in [Pages -> 0 .. halfDay \cup {None}]
  BY <1>1 DEF B!Export, B!ExportFails, B!IInv, B!TypeOK
<1> QED BY <1>2 DEF B!Export, B!ExportFails, B!IInv, B!TypeOK, B!Records, B!HoldersAgree

LEMMA BackupsExportedInv == ASSUME B!IInv, NEW p \in Pages, B!Exported(p) PROVE B!IInv'
<1> DEFINE e == exporting[p] + 2 * LifetimeDays
           b == [expires |-> e, dismissed |-> None]
<1>1. e \in Nat
  BY BackupsAssumption DEF B!Exported, B!IInv, B!TypeOK
<1>2. files' = files \cup {e} /\ B!Update(p, "settings", b) /\ halfDay' = halfDay
  BY DEF B!Exported
<1>3. exporting' \in [Pages -> 0 .. halfDay \cup {None}]
  BY DEF B!Exported, B!IInv, B!TypeOK
<1> HIDE DEF e
<1>4. b \in B!Records' /\ "settings" \in B!Views /\ files \subseteq files' /\ files' \subseteq Nat
  BY <1>1, <1>2 DEF B!Records, B!Views, B!IInv
<1> HIDE DEF b
<1> QED BY <1>2, <1>3, <1>4, BackupsUpdateInv

LEMMA BackupsImportInv ==
    ASSUME B!IInv, NEW p \in Pages, NEW e \in files, NEW damage, NEW right, B!Import(p, e, damage, right)
    PROVE  B!IInv'
<1> DEFINE b == [expires |-> e, dismissed |-> None]
<1>1. B!Update(p, "settings", b) /\ UNCHANGED <<halfDay, exporting, files>>
  BY DEF B!Import
<1>2. b \in B!Records' /\ "settings" \in B!Views
  BY <1>1 DEF B!Records, B!Views
<1> HIDE DEF b
<1> QED BY <1>1, <1>2, BackupsUpdateInv DEF B!IInv, B!TypeOK

LEMMA BackupsTimeInv == ASSUME B!IInv, B!TimePasses PROVE B!IInv'
<1>1. halfDay' \in 0 .. LastHalfDay /\ 0 .. halfDay \subseteq 0 .. halfDay'
  BY BackupsAssumption DEF B!IInv, B!TypeOK, B!TimePasses
<1>2. B!Records \subseteq B!Records'
  BY <1>1 DEF B!TimePasses, B!Records
<1> QED BY <1>1, <1>2 DEF B!TimePasses, B!IInv, B!TypeOK, B!HoldersAgree

LEMMA BackupsNext == ASSUME B!IInv, B!Next \/ UNCHANGED B!vars PROVE B!IInv'
  BY BackupsRest, BackupsDismissInv, BackupsExportInv, BackupsExportedInv, BackupsMountInv,
     BackupsImportInv, BackupsTimeInv
     DEF B!Next

\* Days rounded up are in a band of days just when the half days are in its.
LEMMA BackupsRounded ==
    ASSUME NEW e \in Int, NEW t \in Int, NEW a \in Nat
    PROVE  /\ B!DaysLeft(e, t) \in 1 .. a <=> e - t \in 1 .. 2 * a
           /\ B!DaysLeft(e, t) \in 1 - a .. 0 <=> e - t \in 1 - 2 * a .. 0
  BY DEF B!DaysLeft

LEMMA BackupsBandsAgree ==
    ASSUME B!IInv, NEW p \in Pages, NEW v \in B!Views, copies[p][v].dismissed # None,
           B!computeBackupStatus(copies[p][v], halfDay) \in {"expiring_soon", "expired"},
           copies[p][v].expires - copies[p][v].dismissed # - 2 * OverdueDays
    PROVE  B!Reminds(copies[p][v], halfDay)
           <=> B!computeBackupStatus(copies[p][v], halfDay)
                  # B!computeBackupStatus(copies[p][v], copies[p][v].dismissed)
<1> DEFINE b == copies[p][v]
           x == b.expires - b.dismissed
<1>1. b.expires # None /\ b.expires \in Nat /\ b.dismissed \in Nat
  <2>1. b \in B!Records /\ halfDay \in Nat
    BY BackupsAssumption DEF B!IInv, B!TypeOK
  <2>2. b.dismissed \in Nat /\ b.expires \in files \cup {None}
    BY <2>1 DEF B!Records
  <2> QED BY <2>2 DEF B!computeBackupStatus, B!IInv
<1>2. /\ B!DaysLeft(b.expires, b.dismissed) \in 1 .. ExpiryWarnDays <=> x \in 1 .. 2 * ExpiryWarnDays
      /\ B!DaysLeft(b.expires, b.dismissed) \in 1 - OverdueDays .. 0 <=> x \in 1 - 2 * OverdueDays .. 0
  <2>1. OverdueDays \in Nat /\ ExpiryWarnDays \in Nat /\ b.expires \in Int /\ b.dismissed \in Int
    BY <1>1, BackupsAssumption
  <2> HIDE DEF b
  <2> QED BY <2>1, BackupsRounded
<1>3. B!computeBackupStatus(b, b.dismissed)
      = CASE x < - 2 * OverdueDays -> "overdue"
          [] x \in - 2 * OverdueDays .. 0 -> "expired"
          [] x \in 1 .. 2 * ExpiryWarnDays -> "expiring_soon"
          [] OTHER -> "fresh"
  BY <1>1 DEF B!computeBackupStatus
<1>4. /\ B!computeBackupStatus(b, b.dismissed) = "expired" <=> x \in - 2 * OverdueDays .. 0
      /\ B!computeBackupStatus(b, b.dismissed) = "expiring_soon" <=> x \in 1 .. 2 * ExpiryWarnDays
  <2>1. OverdueDays \in Nat /\ ExpiryWarnDays \in Nat /\ x \in Int
    BY <1>1, BackupsAssumption
  <2> HIDE DEF x, b
  <2> QED BY <1>3, <2>1
<1>5. x \in - 2 * OverdueDays .. 0 <=> x \in 1 - 2 * OverdueDays .. 0
  BY <1>1, BackupsAssumption
<1> HIDE DEF b, x
<1>6. B!Reminds(b, halfDay) <=> ~ B!Dismissed(b, halfDay)
  BY DEF B!Reminds, b
<1>7. B!Dismissed(b, halfDay) <=>
          \/ B!computeBackupStatus(b, halfDay) = "expiring_soon" /\ x \in 1 .. 2 * ExpiryWarnDays
          \/ B!computeBackupStatus(b, halfDay) = "expired" /\ x \in 1 - 2 * OverdueDays .. 0
  BY <1>2 DEF B!Dismissed, b
<1> QED BY <1>4, <1>5, <1>6, <1>7 DEF b

LEMMA BackupsPromises ==
    ASSUME B!IInv PROVE B!TypeOK /\ B!HoldersAgree /\ B!RemindsOncePerBand /\ B!OnlyWholeFiles
<1>1. B!RemindsOncePerBand
  BY BackupsBandsAgree DEF B!RemindsOncePerBand
<1>2. B!OnlyWholeFiles
  BY DEF B!OnlyWholeFiles, B!Parses, B!TagHolds, B!Damages
<1> QED BY <1>1, <1>2 DEF B!IInv

-----------------------------------------------------------------------------
(* Groups.  One request at a time: the page is the server's until it asks, *)
(* and again once the answer is there. *)

\* The module's sets are finite in the sense of this one.
LEMMA GroupsFiniteSame ==
    \A s : (G!IsFiniteSet(s) <=> IsFiniteSet(s)) /\ G!Cardinality(s) = Cardinality(s)
  BY DEF IsFiniteSet, G!IsFiniteSet, Cardinality, G!Cardinality

LEMMA GroupsRoleFacts == /\ G!Nobody \in G!Rosters
                         /\ "owner" # None /\ "admin" # None /\ "member" # None
                         /\ G!NotListed \in G!Entries
  BY GroupsAssumption DEF G!Nobody, G!Rosters, G!Roles, G!NotListed, G!Entries

LEMMA GroupsSnapshotType == ASSUME G!Types PROVE G!Snapshot \in G!Lists
<1>1. ASSUME NEW c \in Chats
      PROVE G!Summary(c) \in G!Entries
  <2>1. groups[c].title \in Titles /\ groups[c].roles \in G!Rosters
    BY DEF G!Types
  <2>2. groups[c].roles[Me] \in G!Roles \cup {None}
    BY <2>1, GroupsAssumption DEF G!Rosters
  <2> QED BY <2>1, <2>2 DEF G!Summary, G!Members, G!Entries
<1> QED BY <1>1, GroupsRoleFacts DEF G!Snapshot, G!Lists

LEMMA GroupsSnapshotTrue ==
    ASSUME G!Types, NEW c \in Chats, G!Within(c)
    PROVE  /\ G!Snapshot[c].title = groups[c].title /\ G!Snapshot[c].names = G!Members(c)
           /\ G!Snapshot[c].role = groups[c].roles[Me]
  BY DEF G!Snapshot, G!Within, G!Summary

LEMMA GroupsInit == ASSUME G!Init PROVE G!IInv
<1>1. Titles # {} => (CHOOSE t \in Titles : TRUE) \in Titles
  OBVIOUS
<1>2. groups \in [Chats -> [title: Titles, roles: G!Rosters]]
  BY <1>1, GroupsAssumption DEF G!Init, G!Rosters
<1>3. 0 \in 0 .. MaxGroupActs /\ FALSE \in BOOLEAN /\ IsFiniteSet({}) /\ Cardinality({}) <= 2
  BY GroupsAssumption, FS_EmptySet
<1>4. list = G!Snapshot
  BY DEF G!Init
<1>5. G!Snapshot \in G!Lists
  <2>1. ASSUME NEW c \in Chats
        PROVE G!Summary(c) \in G!Entries
    <3>1. groups[c].title \in Titles /\ groups[c].roles \in G!Rosters
      BY <1>2
    <3>2. groups[c].roles[Me] \in G!Roles \cup {None}
      BY <3>1, GroupsAssumption DEF G!Rosters
    <3> QED BY <3>1, <3>2 DEF G!Summary, G!Members, G!Entries
  <2> QED BY <2>1, GroupsRoleFacts DEF G!Snapshot, G!Lists
<1>6. G!Types
  BY <1>2, <1>3, <1>4, <1>5, GroupsRoleFacts, GroupsFiniteSame DEF G!Init, G!Types
<1>7. G!Aimed
  BY DEF G!Init, G!Aimed
<1>8. \A c \in Chats : G!Owned(groups[c].roles)
  <2> TAKE c \in Chats
  <2> DEFINE f == groups[c].roles
             owners == {u \in Users : f[u] = "owner"}
  <2>1. f \in [Users -> G!Roles \cup {None}] /\ Cardinality(owners) = 1
    BY GroupsFiniteSame DEF G!Init
  <2>2. IsFiniteSet(owners)
    BY GroupsAssumption, FS_Subset
  <2>3. PICK o : owners = {o}
    BY <2>1, <2>2, FS_Singleton
  <2>4. o \in Users /\ \A u \in Users : f[u] = "owner" <=> u = o
    BY <2>3
  <2> QED BY <2>4 DEF G!Owned
<1>9. G!AtRest
  <2>1. \A c \in Chats : G!ListTrue(c)
    BY <1>4, <1>6, GroupsSnapshotTrue DEF G!ListTrue
  <2> QED BY <2>1 DEF G!Init, G!AtRest, G!TitleTrue, G!LoadTrue, G!RosterTrue
<1> QED BY <1>6, <1>7, <1>8, <1>9 DEF G!IInv, G!Orderly, G!Init

LEMMA GroupsGrantedSame == ASSUME NEW r, groups' = groups PROVE G!Granted(r)' <=> G!Granted(r)
  BY DEF G!Granted, G!MayTouch, G!Manages, G!Role

LEMMA GroupsUnwrittenSame ==
    ASSUME NEW r, UNCHANGED <<groups, list, group, roster, title>> PROVE G!Unwritten(r)' <=> G!Unwritten(r)
  BY GroupsGrantedSame DEF G!Unwritten, G!ListTrue, G!Within, G!Members, G!RosterTrue, G!TitleTrue

LEMMA GroupsAnswerableSame ==
    ASSUME NEW r, UNCHANGED <<groups, list, group, roster, title>> PROVE G!Answerable(r)' <=> G!Answerable(r)
  BY DEF G!Answerable, G!Within, G!Members

LEMMA GroupsRest == ASSUME G!IInv, UNCHANGED G!grVars PROVE G!IInv'
<1> USE DEF G!grVars
<1>1. G!Types' /\ G!Aimed'
  BY DEF G!IInv, G!Types, G!Aimed
<1>2. ASSUME ~crossed' PROVE G!Orderly'
  <2>1. G!Orderly
    BY <1>2 DEF G!IInv
  <2>2. G!AtRest' /\ \A r : G!Alone(r)' <=> G!Alone(r)
    BY <2>1 DEF G!Orderly, G!AtRest, G!ListTrue, G!Within, G!Members, G!TitleTrue, G!RosterTrue, G!LoadTrue, G!Alone
  <2>3. \A r : (G!Unwritten(r)' <=> G!Unwritten(r)) /\ (G!Answerable(r)' <=> G!Answerable(r))
    BY GroupsUnwrittenSame, GroupsAnswerableSame
  <2> QED BY <2>1, <2>2, <2>3 DEF G!Orderly
<1> QED BY <1>1, <1>2 DEF G!IInv

\* Where there is no request the page is at rest, and a load needs no request.
LEMMA GroupsRestFacts ==
    ASSUME G!Orderly, reqs = {} \/ load # None
    PROVE  /\ reqs = {} /\ \A c \in Chats : G!ListTrue(c)
           /\ G!TitleTrue /\ G!LoadTrue /\ (load = None => G!RosterTrue)
<1>1. reqs = {}
  BY DEF G!Orderly, G!Alone
<1> QED BY <1>1 DEF G!Orderly, G!AtRest

\* An act that begins in peace and leaves no request behind.
LEMMA GroupsPeace ==
    ASSUME G!IInv, reqs' = reqs, groups' = groups, refused' = refused, G!Types', G!Aimed',
           ~crossed' => ~crossed /\ (reqs = {} => G!AtRest'),
           ~crossed' => reqs = {}
    PROVE  G!IInv'
<1>1. ASSUME ~crossed' PROVE G!Orderly'
  <2>1. G!Orderly /\ reqs = {} /\ G!AtRest'
    BY <1>1 DEF G!IInv
  <2> QED BY <2>1 DEF G!Orderly
<1> QED BY <1>1 DEF G!IInv

LEMMA GroupsOneMore == ASSUME G!Types, G!Act PROVE gActs' \in 0 .. MaxGroupActs
  BY GroupsAssumption DEF G!Types, G!Act

LEMMA GroupsOpenSteps == ASSUME G!IInv, NEW c \in Chats, G!SelectChat(c) PROVE G!IInv'
<1> USE DEF G!SelectChat, G!Open, G!Act
<1>1. list[c] \in G!Entries
  BY DEF G!IInv, G!Types, G!Lists
<1>2. G!Types'
  <2>1. load' \in G!Loads /\ title' \in Titles \cup {None}
    BY <1>1 DEF G!Loads, G!Entries
  <2> QED BY <2>1, GroupsOneMore DEF G!IInv, G!Types
<1>3. G!Aimed'
  BY DEF G!IInv, G!Aimed
<1>4. ASSUME ~crossed' PROVE ~crossed /\ reqs = {} /\ G!AtRest'
  <2>1. ~crossed /\ reqs = {} /\ G!Orderly
    BY <1>4 DEF G!IInv
  <2>2. \A x \in Chats : G!ListTrue(x)
    BY <2>1, GroupsRestFacts
  <2>3. \A x \in Chats : G!ListTrue(x)'
    BY <2>2 DEF G!ListTrue, G!Within, G!Members
  <2>4. load' \in G!Loads /\ load' # None
    BY GroupsAssumption DEF G!Loads
  <2>5. G!TitleTrue' /\ G!LoadTrue'
    BY <2>2, <2>4 DEF G!ListTrue, G!Within, G!Members, G!TitleTrue, G!LoadTrue
  <2> QED BY <2>1, <2>3, <2>4, <2>5 DEF G!AtRest
<1> QED BY <1>2, <1>3, <1>4, GroupsPeace

LEMMA GroupsLoadSteps == ASSUME G!IInv, G!ListMembers \/ G!MembersLoaded PROVE G!IInv'
<1>1. load # None /\ load \in G!Loads /\ load.chat = group /\ load.chat \in Chats
  BY DEF G!IInv, G!Types, G!Aimed, G!ListMembers, G!MembersLoaded, G!Loads
<1>2. CASE G!ListMembers
  <2> USE <1>2 DEF G!ListMembers
  <2> DEFINE f == IF Me \in G!Members(load.chat) THEN groups[load.chat].roles ELSE G!Nobody
  <2>1. load' = [load EXCEPT !.roles = f]
    OBVIOUS
  <2>2. f \in G!Rosters
    BY <1>1, GroupsRoleFacts DEF G!IInv, G!Types
  <2>3. load' \in G!Loads /\ load'.chat = group /\ load'.roles = f
    BY <1>1, <2>1, <2>2 DEF G!Loads
  <2>4. load' # None
    BY <2>3, GroupsAssumption
  <2>5. G!Types' /\ G!Aimed'
    BY <2>3 DEF G!IInv, G!Types, G!Aimed
  <2>6. ASSUME ~crossed' PROVE ~crossed /\ reqs = {} /\ G!AtRest'
    <3>1. ~crossed /\ G!Orderly
      BY <2>6 DEF G!IInv
    <3>2. reqs = {} /\ (\A x \in Chats : G!ListTrue(x)) /\ G!TitleTrue
      BY <1>1, <3>1, GroupsRestFacts
    <3>3. (\A x \in Chats : G!ListTrue(x)') /\ G!TitleTrue'
      BY <3>2 DEF G!ListTrue, G!Within, G!Members, G!TitleTrue
    <3>4. G!LoadTrue'
      BY <1>1, <2>3 DEF G!LoadTrue, G!Within, G!Members
    <3> QED BY <2>4, <3>1, <3>2, <3>3, <3>4 DEF G!AtRest
  <2> QED BY <2>5, <2>6, GroupsPeace
<1>3. CASE G!MembersLoaded
  <2> USE <1>3 DEF G!MembersLoaded
  <2>1. load.roles \in G!Rosters
    BY <1>1 DEF G!Loads
  <2>2. G!Types' /\ G!Aimed'
    BY <2>1 DEF G!IInv, G!Types, G!Aimed
  <2>3. ASSUME ~crossed' PROVE ~crossed /\ reqs = {} /\ G!AtRest'
    <3>1. ~crossed /\ G!Orderly
      BY <2>3 DEF G!IInv
    <3>2. reqs = {} /\ (\A x \in Chats : G!ListTrue(x)) /\ G!TitleTrue /\ G!LoadTrue
      BY <1>1, <3>1, GroupsRestFacts
    <3>3. (\A x \in Chats : G!ListTrue(x)') /\ G!TitleTrue'
      BY <3>2 DEF G!ListTrue, G!Within, G!Members, G!TitleTrue
    <3>4. G!LoadTrue' /\ G!RosterTrue'
      BY <1>1, <3>2 DEF G!LoadTrue, G!RosterTrue, G!Within, G!Members
    <3> QED BY <3>1, <3>2, <3>3, <3>4 DEF G!AtRest
  <2> QED BY <2>2, <2>3, GroupsPeace
<1> QED BY <1>2, <1>3

\* The title the form shows follows the list.
LEMMA GroupsFollows ==
    ASSUME G!Types, G!Follow, list' \in G!Lists, group' = group
    PROVE  /\ title' \in Titles \cup {None}
           /\ group # None /\ list'[group].title = list[group].title => title' = title
           /\ group # None /\ title = list[group].title => title' = list'[group].title
<1>1. group # None => list'[group] \in G!Entries
  BY DEF G!Types, G!Lists
<1>2. title \in Titles \cup {None}
  BY DEF G!Types
<1> QED BY <1>1, <1>2 DEF G!Follow, G!Entries

LEMMA GroupsRefreshSteps == ASSUME G!IInv, G!Refresh PROVE G!IInv'
<1> USE DEF G!Refresh, G!Act
<1>1. list' = G!Snapshot /\ G!Snapshot \in G!Lists /\ G!Follow /\ group' = group
  BY GroupsSnapshotType DEF G!IInv
<1>2. G!Types' /\ G!Aimed'
  <2>1. list' \in G!Lists /\ title' \in Titles \cup {None}
    BY <1>1, GroupsFollows DEF G!IInv
  <2>2. G!Types'
    BY <2>1, GroupsOneMore DEF G!IInv, G!Types
  <2> QED BY <2>2 DEF G!IInv, G!Aimed
<1>3. ASSUME ~crossed' PROVE ~crossed /\ reqs = {} /\ G!AtRest'
  <2>1. ~crossed /\ reqs = {} /\ G!Orderly
    BY <1>3 DEF G!IInv
  <2>2. /\ \A x \in Chats : G!ListTrue(x)
        /\ G!TitleTrue /\ G!LoadTrue /\ (load = None => G!RosterTrue)
    BY <2>1, GroupsRestFacts
  <2>3. \A x \in Chats : G!ListTrue(x)'
    <3> TAKE x \in Chats
    <3>1. G!Within(x)' => G!Within(x)
      BY DEF G!Within, G!Members
    <3> QED BY <1>1, <3>1, GroupsSnapshotTrue DEF G!ListTrue, G!Within, G!Members, G!IInv
  <2>4. G!TitleTrue'
    <3> SUFFICES ASSUME group # None, G!Within(group) PROVE title' = groups[group].title
      BY DEF G!TitleTrue, G!Within, G!Members
    <3>1. group \in Chats
      BY DEF G!IInv, G!Types
    <3>2. title = list[group].title
      BY <2>2, <3>1 DEF G!TitleTrue, G!ListTrue
    <3>3. title' = list'[group].title
      BY <1>1, <3>2, GroupsFollows DEF G!IInv
    <3> QED BY <1>1, <3>1, <3>3, GroupsSnapshotTrue DEF G!IInv
  <2>5. G!LoadTrue' /\ (load' = None => G!RosterTrue')
    BY <2>2 DEF G!LoadTrue, G!RosterTrue, G!Within, G!Members
  <2> QED BY <2>1, <2>3, <2>4, <2>5 DEF G!AtRest
<1> QED BY <1>2, <1>3, GroupsPeace

GroupsRequest(kind, user, text) ==
    [kind |-> kind, chat |-> group, user |-> user, text |-> text, snap |-> list, at |-> "sent"]

LEMMA GroupsAskSteps ==
    ASSUME G!IInv, NEW kind \in G!Kinds, NEW user \in Users \cup {None}, NEW text \in Titles \cup {None},
           G!Ask(kind, user, text), title' \in Titles \cup {None},
           kind # "rename" => title' = title,
           kind \in G!AboutUser => user \in Users,
           kind \in G!AboutUser \ {"add"} => user # Me,
           kind = "leave" => user = Me, kind = "rename" => text \in Titles,
           list[group].role # None,
           G!RosterTrue /\ G!ListTrue(group) /\ G!Within(group) =>
              G!Granted(GroupsRequest(kind, user, text)) \/ kind = "remove"
    PROVE  G!IInv'
<1> USE DEF G!Ask
<1> PICK r : r = GroupsRequest(kind, user, text)
  OBVIOUS
<1>1. group \in Chats /\ list \in G!Lists /\ IsFiniteSet(reqs) /\ Cardinality(reqs) < 2
  BY GroupsFiniteSame DEF G!IInv, G!Types, G!Ask
<1>2. r \in G!Requests /\ reqs' = reqs \cup {r}
  BY <1>1 DEF GroupsRequest, G!Requests
<1>3. IsFiniteSet(reqs') /\ Cardinality(reqs') <= 2
  <2>1. IsFiniteSet(reqs') /\ Cardinality(reqs') \in {Cardinality(reqs), Cardinality(reqs) + 1}
    <3>1. /\ IsFiniteSet(reqs \cup {r})
          /\ Cardinality(reqs \cup {r}) = IF r \in reqs THEN Cardinality(reqs)
                                                       ELSE Cardinality(reqs) + 1
      BY <1>1, FS_AddElement
    <3> QED BY <1>2, <3>1
  <2>2. Cardinality(reqs) \in Nat
    BY <1>1, FS_CardinalityType
  <2> QED BY <1>1, <2>1, <2>2
<1>4. G!Types'
  BY <1>2, <1>3, GroupsOneMore, GroupsFiniteSame DEF G!IInv, G!Types
<1>5. G!Aimed'
  BY <1>2 DEF G!IInv, G!Aimed, G!Aims, GroupsRequest
<1>6. ASSUME ~crossed' PROVE G!Orderly'
  <2>1. ~crossed /\ reqs = {} /\ load = None /\ G!Orderly
    BY <1>6 DEF G!IInv, G!Quiet
  <2>2. (\A x \in Chats : G!ListTrue(x)) /\ G!TitleTrue /\ G!RosterTrue
    BY <2>1, GroupsRestFacts
  <2>3. reqs' = {r} /\ r \in reqs'
    BY <1>2, <2>1
  <2>4. G!AtRest'
    BY <2>3 DEF G!AtRest
  <2>5. G!Alone(r)'
    <3>1. \A c \in Chats : G!ListTrue(c)'
      BY <2>2 DEF G!ListTrue, G!Within, G!Members
    <3>2. r.chat = group' /\ r.snap = list'
      BY DEF GroupsRequest
    <3> QED BY <2>1, <2>3, <3>1, <3>2 DEF G!Alone
  <2>6. G!Unwritten(r)'
    <3>1. r.at = "sent" /\ r.kind = kind
      BY DEF GroupsRequest
    <3>2. G!ListTrue(group)' /\ G!RosterTrue' /\ (kind = "rename" \/ G!TitleTrue')
      BY <1>1, <2>2 DEF G!ListTrue, G!Within, G!Members, G!RosterTrue, G!TitleTrue
    <3>3. G!Within(group)' => G!Granted(r)' \/ kind = "remove"
      BY <1>1, <2>2, GroupsGrantedSame DEF G!Within, G!Members
    <3> QED BY <3>1, <3>2, <3>3 DEF G!Unwritten
  <2>7. r.at = "sent"
    BY DEF GroupsRequest
  <2>8. \A q \in reqs' : G!Alone(q)' /\ (IF q.at = "done" THEN G!Answerable(q)' ELSE G!Unwritten(q)')
    BY <2>3, <2>5, <2>6, <2>7
  <2>9. (\A c \in Chats : G!Owned(groups[c].roles))' /\ refused' \subseteq {"remove"}
    BY <2>1 DEF G!Orderly
  <2> QED BY <2>4, <2>8, <2>9 DEF G!Orderly
<1> QED BY <1>4, <1>5, <1>6 DEF G!IInv

LEMMA GroupsAskForSteps == ASSUME G!IInv, NEW u \in Users, G!AskFor(u) PROVE G!IInv'
<1>1. title' \in Titles \cup {None} /\ title' = title /\ None \in Titles \cup {None}
  BY DEF G!AskFor, G!IInv, G!Types
<1>2. group \in Chats /\ list \in G!Lists
  BY DEF G!AskFor, G!IInv, G!Types
<1>3. G!RosterTrue /\ G!ListTrue(group) /\ G!Within(group) =>
         roster = groups[group].roles /\ list[group].role \in {None, groups[group].roles[Me]}
  BY <1>2, GroupsAssumption DEF G!RosterTrue, G!ListTrue
<1>4. "owner" # None /\ "admin" # None /\ "member" # None
  BY GroupsRoleFacts
<1>5. CASE G!CanPromote(u) /\ G!Ask("promote", u, None)
  <2>1. list[group].role # None /\ u # Me
    BY <1>4, <1>5 DEF G!CanPromote, G!CanManage
  <2>2. G!RosterTrue /\ G!ListTrue(group) /\ G!Within(group) => G!Granted(GroupsRequest("promote", u, None))
    BY <1>3, <1>4, <1>5 DEF G!CanPromote, G!CanManage, G!Granted, G!MayTouch, G!Manages, G!Role, GroupsRequest
  <2> QED BY <1>1, <1>5, <2>1, <2>2, GroupsAskSteps DEF G!Kinds, G!AboutUser
<1>6. CASE G!CanDemote(u) /\ G!Ask("demote", u, None)
  <2>1. list[group].role # None /\ u # Me
    BY <1>4, <1>6 DEF G!CanDemote
  <2>2. G!RosterTrue /\ G!ListTrue(group) /\ G!Within(group) => G!Granted(GroupsRequest("demote", u, None))
    BY <1>3, <1>4, <1>6 DEF G!CanDemote, G!Granted, G!MayTouch, G!Manages, G!Role, GroupsRequest
  <2> QED BY <1>1, <1>6, <2>1, <2>2, GroupsAskSteps DEF G!Kinds, G!AboutUser
<1>7. CASE G!CanTransfer(u) /\ G!Ask("transfer", u, None)
  <2>1. list[group].role # None /\ u # Me
    BY <1>4, <1>7 DEF G!CanTransfer
  <2>2. G!RosterTrue /\ G!ListTrue(group) /\ G!Within(group) => G!Granted(GroupsRequest("transfer", u, None))
    BY <1>3, <1>4, <1>7 DEF G!CanTransfer, G!Granted, G!Role, GroupsRequest
  <2> QED BY <1>1, <1>7, <2>1, <2>2, GroupsAskSteps DEF G!Kinds, G!AboutUser
<1>8. CASE G!CanRemove(u) /\ G!Ask("remove", u, None)
  <2>1. list[group].role # None /\ u # Me
    BY <1>4, <1>8 DEF G!CanRemove, G!CanManage
  <2> QED BY <1>1, <1>8, <2>1, GroupsAskSteps DEF G!Kinds, G!AboutUser
<1>9. CASE G!CanManage /\ G!Ask("add", u, None)
  <2>1. list[group].role # None
    BY <1>4, <1>9 DEF G!CanManage
  <2>2. G!RosterTrue /\ G!ListTrue(group) /\ G!Within(group) => G!Granted(GroupsRequest("add", u, None))
    BY <1>3, <1>4, <1>9 DEF G!CanManage, G!Granted, G!Manages, G!Role, GroupsRequest
  <2> QED BY <1>1, <1>9, <2>1, <2>2, GroupsAskSteps DEF G!Kinds, G!AboutUser
<1> QED BY <1>5, <1>6, <1>7, <1>8, <1>9 DEF G!AskFor

LEMMA GroupsAskToRenameSteps == ASSUME G!IInv, NEW t \in Titles, G!AskToRename(t) PROVE G!IInv'
<1> USE DEF G!AskToRename
<1>1. group \in Chats
  BY DEF G!IInv, G!Types
<1>2. list[group].role # None
  BY GroupsRoleFacts DEF G!CanManage
<1>3. G!RosterTrue /\ G!ListTrue(group) /\ G!Within(group) => G!Granted(GroupsRequest("rename", None, t))
  BY <1>1, GroupsRoleFacts DEF G!ListTrue, G!CanManage, G!Granted, G!Manages, G!Role, GroupsRequest
<1> QED BY <1>2, <1>3, GroupsAskSteps DEF G!Kinds, G!AboutUser

LEMMA GroupsAskToGoSteps == ASSUME G!IInv, G!AskToGo PROVE G!IInv'
<1>1. group \in Chats /\ title' = title /\ title \in Titles \cup {None}
  BY DEF G!AskToGo, G!IInv, G!Types
<1>2. Me \in Users
  BY GroupsAssumption
<1>3. CASE list[group].role = "admin" /\ G!Ask("leave", Me, None)
  <2>1. list[group].role # None
    BY <1>3, GroupsRoleFacts
  <2>2. G!RosterTrue /\ G!ListTrue(group) /\ G!Within(group) => G!Granted(GroupsRequest("leave", Me, None))
    BY <1>1, <1>3, GroupsRoleFacts DEF G!ListTrue, G!Granted, G!Role, GroupsRequest
  <2> QED BY <1>1, <1>2, <1>3, <2>1, <2>2, GroupsAskSteps DEF G!Kinds, G!AboutUser
<1>4. CASE list[group].role = "owner" /\ G!Ask("delete", None, None)
  <2>1. list[group].role # None
    BY <1>4, GroupsRoleFacts
  <2>2. G!RosterTrue /\ G!ListTrue(group) /\ G!Within(group) => G!Granted(GroupsRequest("delete", None, None))
    BY <1>1, <1>4, GroupsRoleFacts DEF G!ListTrue, G!Granted, G!Role, GroupsRequest
  <2> QED BY <1>1, <1>2, <1>4, <2>1, <2>2, GroupsAskSteps DEF G!Kinds, G!AboutUser
<1> QED BY <1>3, <1>4 DEF G!AskToGo

LEMMA GroupsMovesTypes ==
    ASSUME G!Types, G!Aimed, NEW r \in reqs, NEW at \in {"sent", "checked", "done", "none", "refused"},
           G!Moves(r, at)
    PROVE  /\ reqs' \subseteq G!Requests /\ IsFiniteSet(reqs') /\ Cardinality(reqs') <= 2
           /\ \A q \in reqs' : G!Aims(q)
<1> PICK q : q = [r EXCEPT !.at = at]
  OBVIOUS
<1>1. r \in G!Requests
  BY DEF G!Types
<1>2. q \in G!Requests /\ q.kind = r.kind /\ q.user = r.user /\ q.text = r.text
  BY <1>1 DEF G!Requests
<1>3. reqs' = (reqs \ {r}) \cup {q}
  BY DEF G!Moves
<1>4. IsFiniteSet(reqs) /\ Cardinality(reqs) \in Nat /\ Cardinality(reqs) <= 2
  BY FS_CardinalityType, GroupsFiniteSame DEF G!Types
<1>5. IsFiniteSet(reqs \ {r}) /\ Cardinality(reqs \ {r}) = Cardinality(reqs) - 1
  BY <1>4, FS_RemoveElement
<1>6. /\ IsFiniteSet((reqs \ {r}) \cup {q})
      /\ Cardinality((reqs \ {r}) \cup {q}) = IF q \in reqs \ {r} THEN Cardinality(reqs \ {r})
                                             ELSE Cardinality(reqs \ {r}) + 1
  BY <1>5, FS_AddElement
<1>7. IsFiniteSet(reqs') /\ Cardinality(reqs') <= 2
  BY <1>3, <1>4, <1>5, <1>6
<1>8. reqs' \subseteq G!Requests
  BY <1>2, <1>3 DEF G!Types
<1> QED BY <1>2, <1>3, <1>7, <1>8 DEF G!Aimed, G!Aims

LEMMA GroupsWrittenIs ==
    ASSUME NEW r, NEW f
    PROVE  /\ r.kind = "promote" => G!Written(r, f) = G!SetRole(f, r.user, "admin")
           /\ r.kind = "demote" => G!Written(r, f) = G!SetRole(f, r.user, "member")
           /\ r.kind = "transfer" => G!Written(r, f) = G!Transferred(f, r.user)
           /\ r.kind = "remove" => G!Written(r, f) = G!SetRole(f, r.user, None)
           /\ r.kind = "add" /\ f[r.user] = None => G!Written(r, f) = G!SetRole(f, r.user, "member")
           /\ r.kind = "add" /\ f[r.user] # None => G!Written(r, f) = f
           /\ r.kind = "rename" => G!Written(r, f) = f
           /\ r.kind = "leave" => G!Written(r, f) = G!SetRole(f, Me, None)
           /\ r.kind = "delete" => G!Written(r, f) = G!Nobody
<1>1. CASE r.kind = "promote"
  BY <1>1 DEF G!Written
<1>2. CASE r.kind = "demote"
  BY <1>2 DEF G!Written
<1>3. CASE r.kind = "transfer"
  BY <1>3 DEF G!Written
<1>4. CASE r.kind = "remove"
  BY <1>4 DEF G!Written
<1>5. CASE r.kind = "add"
  BY <1>5 DEF G!Written
<1>6. CASE r.kind = "rename"
  BY <1>6 DEF G!Written
<1>7. CASE r.kind = "leave"
  BY <1>7 DEF G!Written
<1>8. CASE r.kind = "delete"
  BY <1>8 DEF G!Written
<1> QED BY <1>1, <1>2, <1>3, <1>4, <1>5, <1>6, <1>7, <1>8

\* What is granted to the only request depends on what it asks alone.
LEMMA GroupsMoved ==
    ASSUME G!Types, NEW r \in reqs, NEW at, NEW q, q = [r EXCEPT !.at = at]
    PROVE  /\ q.kind = r.kind /\ q.user = r.user /\ q.text = r.text /\ q.chat = r.chat
           /\ q.snap = r.snap /\ q.at = at
           /\ G!Granted(q) <=> G!Granted(r)
           /\ \A f : G!Written(q, f) = G!Written(r, f)
<1>1. r \in G!Requests
  BY DEF G!Types
<1>2. /\ q.kind = r.kind /\ q.user = r.user /\ q.text = r.text /\ q.chat = r.chat
      /\ q.snap = r.snap /\ q.at = at
  BY <1>1 DEF G!Requests
<1>3. G!Granted(q) <=> G!Granted(r)
  BY <1>2 DEF G!Granted
<1>4. ASSUME NEW f PROVE G!Written(q, f) = G!Written(r, f)
  <2>1. r.kind \in G!Kinds
    BY <1>1 DEF G!Requests
  <2>2. CASE r.kind = "promote"
    BY <1>2, <2>2 DEF G!Written
  <2>3. CASE r.kind = "demote"
    BY <1>2, <2>3 DEF G!Written
  <2>4. CASE r.kind = "transfer"
    BY <1>2, <2>4 DEF G!Written
  <2>5. CASE r.kind = "remove"
    BY <1>2, <2>5 DEF G!Written
  <2>6. CASE r.kind = "add"
    BY <1>2, <2>6 DEF G!Written
  <2>7. CASE r.kind = "rename"
    BY <1>2, <2>7 DEF G!Written
  <2>8. CASE r.kind = "leave"
    BY <1>2, <2>8 DEF G!Written
  <2>9. CASE r.kind = "delete"
    BY <1>2, <2>9 DEF G!Written
  <2> QED BY <2>1, <2>2, <2>3, <2>4, <2>5, <2>6, <2>7, <2>8, <2>9 DEF G!Kinds
<1> QED BY <1>2, <1>3, <1>4

LEMMA GroupsAuthorizeSteps == ASSUME G!IInv, NEW r \in reqs, G!Authorize(r) PROVE G!IInv'
<1> USE DEF G!Authorize
<1> PICK at : at = IF G!Granted(r) THEN "checked" ELSE "refused"
  OBVIOUS
<1> PICK q : q = [r EXCEPT !.at = at]
  OBVIOUS
<1>1. G!Moves(r, at) /\ r.at = "sent" /\ at \in {"sent", "checked", "done", "none", "refused"}
  OBVIOUS
<1>2. G!Types' /\ G!Aimed'
  <2>1. G!Types /\ G!Aimed
    BY DEF G!IInv
  <2> HIDE DEF G!Authorize
  <2>2. /\ reqs' \subseteq G!Requests /\ IsFiniteSet(reqs') /\ Cardinality(reqs') <= 2
        /\ \A x \in reqs' : G!Aims(x)
    BY <1>1, <2>1, GroupsMovesTypes
  <2>3. UNCHANGED <<groups, list, group, roster, title, load, crossed, gActs>>
    BY DEF G!Authorize
  <2>4. G!Types'
    BY <2>1, <2>2, <2>3, GroupsFiniteSame DEF G!Types
  <2>5. load' # None => load'.chat = group'
    BY <2>1, <2>3 DEF G!Aimed
  <2>6. G!Aimed'
    BY <2>2, <2>5 DEF G!Aimed
  <2> QED BY <2>4, <2>6
<1>3. ASSUME ~crossed' PROVE G!Orderly'
  <2>1. G!Orderly /\ G!Types
    BY <1>3 DEF G!IInv
  <2>2. G!Alone(r) /\ G!Unwritten(r)
    BY <1>1, <2>1 DEF G!Orderly
  <2>3. reqs' = {q}
    BY <1>1, <2>2 DEF G!Moves, G!Alone
  <2>4. /\ q.kind = r.kind /\ q.user = r.user /\ q.text = r.text /\ q.chat = r.chat
        /\ q.snap = r.snap /\ q.at = at /\ (G!Granted(q) <=> G!Granted(r))
    BY <2>1, GroupsMoved
  <2>5. G!Alone(q)'
    BY <2>2, <2>3, <2>4 DEF G!Alone, G!ListTrue, G!Within, G!Members
  <2>6. G!Within(group) => G!Granted(r) \/ r.kind = "remove"
    BY <1>1, <2>2 DEF G!Unwritten
  <2>7. G!Unwritten(q)
    BY <2>2, <2>4, <2>6 DEF G!Unwritten
  <2>8. G!Unwritten(q)'
    BY <2>7, GroupsUnwrittenSame
  <2>9. refused' \subseteq {"remove"}
    BY <2>1, <2>2, <2>6 DEF G!Orderly, G!Alone, G!Within
  <2>10. (\A c \in Chats : G!Owned(groups[c].roles))' /\ G!AtRest'
    BY <2>1, <2>3 DEF G!Orderly, G!AtRest
  <2> QED BY <2>3, <2>4, <2>5, <2>8, <2>9, <2>10 DEF G!Orderly
<1> QED BY <1>2, <1>3 DEF G!IInv

\* What the server grants stands: the rows it will write are there.
LEMMA GroupsGrantedStands ==
    ASSUME G!Types, G!Aimed, NEW r \in reqs, G!Granted(r)
    PROVE  /\ r.kind \in G!Kinds /\ G!Within(r.chat) /\ G!Stands(r)
           /\ r.kind \in G!AboutUser \ {"add"} => groups[r.chat].roles[r.user] # None
<1>1. r.kind \in G!Kinds
  BY DEF G!Types, G!Requests
<1>2. "owner" # None /\ "admin" # None /\ "member" # None
  BY GroupsRoleFacts
<1>3. Me \in Users
  BY GroupsAssumption
<1>4. CASE r.kind \in {"promote", "demote", "remove"}
  BY <1>2, <1>3, <1>4 DEF G!Stands, G!Within, G!Members, G!Role, G!Granted, G!MayTouch, G!Manages, G!Kinds
<1>5. CASE r.kind = "transfer"
  BY <1>2, <1>3, <1>5 DEF G!Stands, G!Within, G!Members, G!Role, G!Granted, G!Kinds
<1>6. CASE r.kind \in {"add", "rename"}
  BY <1>2, <1>3, <1>6 DEF G!Stands, G!Within, G!Members, G!Role, G!Granted, G!Manages, G!Kinds, G!AboutUser
<1>7. CASE r.kind = "leave"
  BY <1>2, <1>3, <1>7 DEF G!Aimed, G!Aims, G!Stands, G!Within, G!Members, G!Role, G!Granted, G!Kinds, G!AboutUser
<1>8. CASE r.kind = "delete"
  BY <1>2, <1>3, <1>8 DEF G!Stands, G!Within, G!Members, G!Role, G!Granted, G!Kinds, G!AboutUser
<1>9. \/ r.kind \in {"promote", "demote", "remove"} \/ r.kind = "transfer"
      \/ r.kind \in {"add", "rename"} \/ r.kind = "leave" \/ r.kind = "delete"
  BY <1>1 DEF G!Kinds
<1> QED BY <1>1, <1>4, <1>5, <1>6, <1>7, <1>8, <1>9

LEMMA GroupsWrittenType ==
    ASSUME G!Types, G!Aimed, NEW r \in reqs, NEW f \in G!Rosters
    PROVE  G!Written(r, f) \in G!Rosters
<1>1. r.kind \in G!Kinds /\ (r.kind \in G!AboutUser => r.user \in Users)
  BY DEF G!Types, G!Requests, G!Aimed, G!Aims
<1>2. \A u \in Users, x \in G!Roles \cup {None} : G!SetRole(f, u, x) \in G!Rosters
  BY DEF G!SetRole, G!Rosters
<1>3. \A u \in Users : G!Transferred(f, u) \in G!Rosters
  BY DEF G!Transferred, G!Rosters, G!Roles
<1>4. Me \in Users /\ G!Nobody \in G!Rosters /\ {"admin", "member", None} \subseteq G!Roles \cup {None}
  BY GroupsAssumption, GroupsRoleFacts DEF G!Roles
<1>5. CASE r.kind \in {"promote", "demote", "remove", "transfer"}
  BY <1>1, <1>2, <1>3, <1>4, <1>5, GroupsWrittenIs DEF G!AboutUser
<1>6. CASE r.kind = "add"
  BY <1>1, <1>2, <1>4, <1>6, GroupsWrittenIs DEF G!AboutUser
<1>7. CASE r.kind \in {"rename", "leave", "delete"}
  BY <1>2, <1>4, <1>7, GroupsWrittenIs
<1> QED BY <1>1, <1>5, <1>6, <1>7 DEF G!Kinds

\* What is granted when it is written keeps one owner, or leaves nobody.
LEMMA GroupsWrittenKeepsOwner ==
    ASSUME G!Types, G!Aimed, NEW r \in reqs, NEW f, r.chat \in Chats, f = groups[r.chat].roles, G!Owned(f),
           G!Granted(r)
    PROVE  G!Owned(G!Written(r, f))
<1>1. r.kind \in G!Kinds /\ (r.kind \in G!AboutUser => r.user \in Users)
  BY DEF G!Types, G!Requests, G!Aimed, G!Aims
<1>2. f \in [Users -> G!Roles \cup {None}]
  BY DEF G!Types, G!Rosters
<1>3. Me \in Users /\ "owner" # None /\ f[Me] # None
  BY GroupsAssumption, GroupsRoleFacts, GroupsGrantedStands DEF G!Within, G!Members
<1>4. f # G!Nobody
  BY <1>3 DEF G!Nobody
<1>5. PICK o \in Users : \A u \in Users : f[u] = "owner" <=> u = o
  BY <1>4 DEF G!Owned
<1>6. \A x : \A v \in Users : v # o /\ x # "owner" =>
         \A u \in Users : G!SetRole(f, v, x)[u] = "owner" <=> u = o
  BY <1>2, <1>5 DEF G!SetRole
<1>7. CASE r.kind \in {"promote", "demote", "remove"}
  <2>1. f[r.user] # "owner"
    BY <1>7 DEF G!Granted, G!MayTouch, G!Role
  <2>2. r.user # o /\ r.user \in Users
    BY <1>1, <1>5, <1>7, <2>1 DEF G!AboutUser
  <2>3. \E x : x # "owner" /\ G!Written(r, f) = G!SetRole(f, r.user, x)
    BY <1>3, <1>7, GroupsWrittenIs
  <2> QED BY <1>6, <2>2, <2>3 DEF G!Owned
<1>8. CASE r.kind = "transfer"
  <2>1. o = Me
    BY <1>3, <1>5, <1>8 DEF G!Granted, G!Role
  <2>2. \A u \in Users : G!Transferred(f, r.user)[u] = "owner" <=> u = r.user
    BY <1>1, <1>2, <1>3, <1>5, <1>8, <2>1 DEF G!Transferred, G!AboutUser
  <2> QED BY <1>1, <1>8, <2>2, GroupsWrittenIs DEF G!Owned, G!AboutUser
<1>9. CASE r.kind = "add"
  <2>1. CASE f[r.user] = None
    <3>1. r.user # o
      BY <1>3, <1>5, <2>1
    <3>2. G!Written(r, f) = G!SetRole(f, r.user, "member")
      BY <1>9, <2>1, GroupsWrittenIs
    <3> QED BY <1>1, <1>6, <1>9, <3>1, <3>2 DEF G!Owned, G!AboutUser
  <2>2. CASE f[r.user] # None
    BY <1>9, <2>2, GroupsWrittenIs
  <2> QED BY <2>1, <2>2
<1>10. CASE r.kind \in {"rename", "delete"}
  BY <1>10, GroupsWrittenIs DEF G!Owned
<1>11. CASE r.kind = "leave"
  <2>1. Me # o
    BY <1>3, <1>5, <1>11 DEF G!Granted, G!Role
  <2> QED BY <1>3, <1>6, <1>11, <2>1, GroupsWrittenIs DEF G!Owned
<1> QED BY <1>1, <1>7, <1>8, <1>9, <1>10, <1>11 DEF G!Kinds

\* The only request, when it is answered or written: what it was begun from.
LEMMA GroupsAloneFacts ==
    ASSUME G!IInv, ~crossed, NEW r \in reqs
    PROVE  /\ reqs = {r} /\ load = None /\ r.chat = group /\ r.snap = list
           /\ group \in Chats /\ list[group].role # None
           /\ \A c \in Chats \ {group} : G!ListTrue(c)
           /\ IF r.at = "done" THEN G!Answerable(r) ELSE G!Unwritten(r)
<1>1. G!Orderly /\ G!Types
  BY DEF G!IInv
<1>2. G!Alone(r) /\ (IF r.at = "done" THEN G!Answerable(r) ELSE G!Unwritten(r))
  BY <1>1 DEF G!Orderly
<1>3. r.chat \in Chats
  BY <1>1 DEF G!Types, G!Requests
<1> QED BY <1>2, <1>3 DEF G!Alone

\* What the server has after a write, of the group that is open.
LEMMA GroupsWrittenPage ==
    ASSUME G!IInv, ~crossed, NEW r \in reqs, r.at = "checked", NEW f, f = groups[group].roles
    PROVE  /\ G!Granted(r) /\ G!Within(group) /\ f \in G!Rosters /\ roster = f
           /\ list[group].names = {u \in Users : f[u] # None} /\ list[group].role = f[Me]
           /\ list[group].title = groups[group].title
           /\ r.kind # "rename" => title = groups[group].title
           /\ r.kind \in {"leave", "delete"} => G!Written(r, f)[Me] = None
<1>1. /\ r.chat = group /\ group \in Chats /\ list[group].role # None /\ G!Unwritten(r)
      /\ G!Types /\ G!Aimed
  BY GroupsAloneFacts DEF G!IInv
<1>2. G!Granted(r) /\ G!Within(group)
  BY <1>1, GroupsGrantedStands DEF G!Unwritten
<1>3. f \in G!Rosters
  BY <1>1 DEF G!Types
<1>4. roster = f /\ G!ListTrue(group) /\ (r.kind # "rename" => title = groups[group].title)
  BY <1>1, <1>2, GroupsAssumption DEF G!Unwritten, G!RosterTrue, G!TitleTrue
<1>5. /\ list[group].names = {u \in Users : f[u] # None} /\ list[group].role = f[Me]
      /\ list[group].title = groups[group].title
  BY <1>1, <1>2, <1>4 DEF G!ListTrue, G!Members
<1>6. r.kind \in {"leave", "delete"} => G!Written(r, f)[Me] = None
  BY <1>3, GroupsAssumption, GroupsWrittenIs DEF G!SetRole, G!Nobody, G!Rosters
<1> QED BY <1>2, <1>3, <1>4, <1>5, <1>6

LEMMA GroupsCommitSteps == ASSUME G!IInv, NEW r \in reqs, G!Commit(r) PROVE G!IInv'
<1> USE DEF G!Commit
<1> PICK at : at = IF G!Stands(r)
                   THEN IF r.kind = "add" /\ G!Role(r.chat, r.user) # None THEN "none" ELSE "done"
                   ELSE "refused"
  OBVIOUS
<1> PICK q : q = [r EXCEPT !.at = at]
  OBVIOUS
<1>1. /\ G!Moves(r, at) /\ r.at = "checked" /\ at \in {"sent", "checked", "done", "none", "refused"}
      /\ G!Types /\ G!Aimed /\ r \in G!Requests /\ r.chat \in Chats
  BY DEF G!IInv, G!Types, G!Requests
<1>2. reqs' \subseteq G!Requests /\ IsFiniteSet(reqs') /\ Cardinality(reqs') <= 2
      /\ \A x \in reqs' : G!Aims(x)
  <2> HIDE DEF G!Commit
  <2> QED BY <1>1, GroupsMovesTypes
<1>3. groups' \in [Chats -> [title: Titles, roles: G!Rosters]]
  <2>1. groups \in [Chats -> [title: Titles, roles: G!Rosters]]
    BY <1>1 DEF G!Types
  <2>2. CASE G!Stands(r)
    <3> DEFINE w == G!Written(r, groups[r.chat].roles)
               t == IF r.kind = "rename" THEN r.text ELSE groups[r.chat].title
    <3>1. w \in G!Rosters
      BY <1>1, <2>1, GroupsWrittenType
    <3>2. t \in Titles
      BY <1>1, <2>1 DEF G!Aimed, G!Aims
    <3>3. groups' = [groups EXCEPT ![r.chat].roles = w, ![r.chat].title = t]
      BY <1>1, <2>1, <2>2
    <3> HIDE DEF w, t
    <3> QED BY <1>1, <2>1, <3>1, <3>2, <3>3
  <2> QED BY <2>1, <2>2
<1>4. G!Types' /\ G!Aimed'
  <2>1. G!Types'
    BY <1>1, <1>2, <1>3, GroupsFiniteSame DEF G!Types
  <2>2. load' # None => load'.chat = group'
    BY <1>1 DEF G!Aimed
  <2> QED BY <1>2, <2>1, <2>2 DEF G!Aimed
<1>5. ASSUME ~crossed' PROVE G!Orderly'
  <2>1. ~crossed /\ G!Orderly
    BY <1>5 DEF G!IInv
  <2>2. /\ reqs = {r} /\ load = None /\ r.chat = group /\ r.snap = list
        /\ group \in Chats /\ list[group].role # None
        /\ \A c \in Chats \ {group} : G!ListTrue(c)
        /\ G!Unwritten(r)
    BY <1>1, <2>1, GroupsAloneFacts
  <2> PICK f : f = groups[group].roles
    OBVIOUS
  <2>3. /\ G!Granted(r) /\ G!Within(group) /\ f \in G!Rosters /\ roster = f
        /\ list[group].names = {u \in Users : f[u] # None} /\ list[group].role = f[Me]
        /\ list[group].title = groups[group].title
        /\ r.kind # "rename" => title = groups[group].title
        /\ r.kind \in {"leave", "delete"} => G!Written(r, f)[Me] = None
    <3> HIDE DEF G!Commit
    <3> QED BY <1>1, <2>1, GroupsWrittenPage
  <2>4. G!Stands(r) /\ (r.kind \in G!AboutUser \ {"add"} => f[r.user] # None)
    BY <1>1, <2>2, <2>3, GroupsGrantedStands
  <2>5. groups' = [groups EXCEPT ![r.chat].roles = G!Written(r, @),
                                 ![r.chat].title = IF r.kind = "rename" THEN r.text ELSE @]
    BY <2>4
  <2>6. /\ groups'[group].roles = G!Written(r, f)
        /\ groups'[group].title = IF r.kind = "rename" THEN r.text ELSE groups[group].title
        /\ \A c \in Chats \ {group} : groups'[c] = groups[c]
    BY <1>1, <2>2, <2>5 DEF G!Types
  <2>7. /\ q.kind = r.kind /\ q.user = r.user /\ q.text = r.text /\ q.chat = r.chat
        /\ q.snap = r.snap /\ q.at = at /\ (\A g : G!Written(q, g) = G!Written(r, g))
    BY <1>1, GroupsMoved
  <2>8. reqs' = {q}
    BY <1>1, <2>2 DEF G!Moves
  <2>9. \A c \in Chats : G!Owned(groups[c].roles)'
    <3>1. \A c \in Chats : G!Owned(groups[c].roles)
      BY <2>1 DEF G!Orderly
    <3>2. G!Owned(G!Written(r, f))
      BY <1>1, <2>2, <2>3, <3>1, GroupsWrittenKeepsOwner
    <3>3. G!Owned(groups'[group].roles)
      BY <2>6, <3>2
    <3>4. \A c \in Chats : G!Owned(groups'[c].roles)
      BY <2>6, <3>1, <3>3
    <3> QED BY <3>4 DEF G!Owned, G!Nobody
  <2>10. G!Alone(q)'
    <3>1. \A c \in Chats \ {group} : G!ListTrue(c)'
      BY <2>2, <2>6 DEF G!ListTrue, G!Within, G!Members
    <3> QED BY <2>2, <2>7, <2>8, <3>1 DEF G!Alone
  <2>11. at = (IF r.kind = "add" /\ f[r.user] # None THEN "none" ELSE "done")
    BY <2>2, <2>4 DEF G!Role
  <2>12. ASSUME at = "none" PROVE IF q.at = "done" THEN G!Answerable(q)' ELSE G!Unwritten(q)'
    <3>1. r.kind = "add" /\ G!Written(r, f) = f
      BY <2>11, <2>12, GroupsWrittenIs
    <3>2. groups'[group].roles = f /\ groups'[group].title = groups[group].title
      BY <2>6, <3>1
    <3>3. G!Unwritten(q)'
      <4>1. G!ListTrue(group)' /\ G!RosterTrue' /\ G!TitleTrue'
        BY <2>2, <2>3, <3>1, <3>2 DEF G!ListTrue, G!Within, G!Members, G!RosterTrue, G!TitleTrue
      <4> QED BY <2>7, <2>12, <3>1, <4>1 DEF G!Unwritten
    <3> QED BY <2>7, <2>12, <3>3
  <2>13. ASSUME at = "done" PROVE IF q.at = "done" THEN G!Answerable(q)' ELSE G!Unwritten(q)'
    <3>1. r.kind = "add" => f[r.user] = None
      BY <2>11, <2>13
    <3>2. r.kind \in {"leave", "delete"} => ~G!Within(group)'
      BY <2>3, <2>6 DEF G!Within, G!Members
    <3>3. G!Answerable(q)'
      <4>1. /\ roster' \in G!Rosters
            /\ list'[group'].names = {u \in Users : roster'[u] # None}
            /\ list'[group'].role = roster'[Me]
        BY <2>3
      <4>2. groups'[group'].roles = G!Written(q, roster')
        BY <2>3, <2>6, <2>7
      <4>3. IF q.kind = "rename" THEN groups'[group'].title = q.text
            ELSE list'[group'].title = groups'[group'].title /\ title' = groups'[group'].title
        BY <2>3, <2>6, <2>7
      <4>4. /\ q.kind \in G!AboutUser \ {"add"} => roster'[q.user] # None
            /\ q.kind = "add" => roster'[q.user] = None
        BY <2>3, <2>4, <2>7, <3>1
      <4>5. q.kind \in {"leave", "delete"} => ~G!Within(group)'
        BY <2>7, <3>2
      <4>6. G!Written(q, roster)' = G!Written(q, roster')
        BY DEF G!Written, G!SetRole, G!Transferred, G!Nobody
      <4> QED BY <4>1, <4>2, <4>3, <4>4, <4>5, <4>6 DEF G!Answerable
    <3> QED BY <2>7, <2>13, <3>3
  <2>14. G!AtRest' /\ refused' \subseteq {"remove"}
    BY <2>1, <2>8 DEF G!Orderly, G!AtRest
  <2> QED BY <2>8, <2>9, <2>10, <2>11, <2>12, <2>13, <2>14 DEF G!Orderly
<1> QED BY <1>4, <1>5 DEF G!IInv

\* The list with the one chat changed.
LEMMA GroupsRewrittenIs ==
    ASSUME NEW r, list \in G!Lists, r.snap \in G!Lists, r.chat \in Chats, NEW s \in G!Entries
    PROVE  /\ G!Rewritten(r, s) \in G!Lists
           /\ r.snap = list /\ list[r.chat].role # None =>
                 /\ \A c \in Chats \ {r.chat} : G!Rewritten(r, s)[c] = list[c]
                 /\ G!Rewritten(r, s)[r.chat].title = s.title
                 /\ G!Rewritten(r, s)[r.chat].names = s.names
                 /\ G!Rewritten(r, s)[r.chat].role \in {None, s.role}
<1>1. CASE r.snap[r.chat] = G!NotListed \/ r.snap[r.chat] = s
  BY <1>1 DEF G!Rewritten, G!NotListed
<1>2. CASE ~(r.snap[r.chat] = G!NotListed \/ r.snap[r.chat] = s)
  <2> PICK e : e = [s EXCEPT !.role = None]
    OBVIOUS
  <2>1. e \in G!Entries /\ e.title = s.title /\ e.names = s.names /\ e.role = None
    BY DEF G!Entries
  <2>2. G!Rewritten(r, s) = [r.snap EXCEPT ![r.chat] = e]
    BY <1>2 DEF G!Rewritten
  <2> QED BY <2>1, <2>2 DEF G!Lists
<1> QED BY <1>1, <1>2

\* The entry an answer makes of the chat that was asked about.
LEMMA GroupsAnsweredEntries ==
    ASSUME G!Types, G!Aimed, NEW r \in reqs
    PROVE  /\ r.chat \in Chats /\ r.snap \in G!Lists /\ r.kind \in G!Kinds /\ r.snap[r.chat] \in G!Entries
           /\ [r.snap[r.chat] EXCEPT !.role = "admin"] \in G!Entries
           /\ r.kind \in G!AboutUser => /\ G!Named(r, r.snap[r.chat].names \ {r.user}) \in G!Entries
                                        /\ G!Named(r, r.snap[r.chat].names \cup {r.user}) \in G!Entries
           /\ r.kind = "rename" => [G!Summary(r.chat) EXCEPT !.title = r.text] \in G!Entries
<1>1. r.chat \in Chats /\ r.snap \in G!Lists /\ r.kind \in G!Kinds
  BY DEF G!Types, G!Requests
<1>2. PICK e \in G!Entries : e = r.snap[r.chat]
  BY <1>1 DEF G!Lists
<1>3. [e EXCEPT !.role = "admin"] \in G!Entries
  BY DEF G!Entries, G!Roles
<1>4. \A names \in SUBSET Users : [e EXCEPT !.names = names] \in G!Entries
  BY DEF G!Entries
<1>5. r.kind \in G!AboutUser => /\ e.names \ {r.user} \in SUBSET Users
                             /\ e.names \cup {r.user} \in SUBSET Users
  BY DEF G!Entries, G!Aimed, G!Aims
<1>6. r.kind = "rename" => [G!Summary(r.chat) EXCEPT !.title = r.text] \in G!Entries
  <2>1. groups[r.chat].roles \in G!Rosters
    BY <1>1 DEF G!Types
  <2>2. groups[r.chat].roles[Me] \in G!Roles \cup {None}
    BY <2>1, GroupsAssumption DEF G!Rosters
  <2> QED BY <2>2 DEF G!Summary, G!Members, G!Entries, G!Aimed, G!Aims
<1> QED BY <1>1, <1>2, <1>3, <1>4, <1>5, <1>6 DEF G!Named

LEMMA GroupsCloseTypes ==
    ASSUME G!Types, G!Close
    PROVE  /\ group' \in Chats \cup {None} /\ title' \in Titles \cup {None}
           /\ load' \in G!Loads \cup {None} /\ (load' # None => load'.chat = group')
<1>1. CASE \E c \in G!Listed : G!Open(c)
  <2>1. PICK c \in Chats : G!Open(c)
    BY <1>1 DEF G!Listed
  <2>2. list[c] \in G!Entries
    BY DEF G!Types, G!Lists
  <2> QED BY <2>1, <2>2 DEF G!Open, G!Loads, G!Entries
<1>2. CASE G!Listed = {} /\ group' = None /\ title' = None /\ load' = None
  BY <1>2
<1> QED BY <1>1, <1>2 DEF G!Close

LEMMA GroupsDoneTypes ==
    ASSUME G!Types, G!Aimed, NEW r \in reqs, G!Done(r)
    PROVE  /\ list' \in G!Lists /\ roster' \in G!Rosters
           /\ group' \in Chats \cup {None} /\ title' \in Titles \cup {None}
           /\ load' \in G!Loads \cup {None} /\ (load' # None => load'.chat = group')
<1>1. /\ list \in G!Lists /\ roster \in G!Rosters /\ group \in Chats \cup {None}
      /\ title \in Titles \cup {None} /\ load \in G!Loads \cup {None}
      /\ (load # None => load.chat = group)
  BY DEF G!Types, G!Aimed
<1>2. r.kind \in G!AboutUser => r.user \in Users
  BY DEF G!Aimed, G!Aims
<1>3. {"admin", "member", "owner"} \subseteq G!Roles
  BY DEF G!Roles
<1>4. CASE r.kind \in {"promote", "demote"} /\ UNCHANGED <<list, group, title, load>>
           /\ roster' = [roster EXCEPT ![r.user] = IF @ = None THEN None
                                                ELSE IF r.kind = "promote" THEN "admin" ELSE "member"]
  BY <1>1, <1>3, <1>4 DEF G!Rosters
<1>5. CASE r.kind = "transfer" /\ G!Fix(r, G!Transferred(roster, r.user)) /\ G!Follow
           /\ list' = G!Rewritten(r, [r.snap[r.chat] EXCEPT !.role = "admin"])
           /\ UNCHANGED <<group, load>>
  <2>1. r.user \in Users
    BY <1>2, <1>5 DEF G!AboutUser
  <2>2. G!Transferred(roster, r.user) \in G!Rosters
    BY <1>1, <1>3, <2>1 DEF G!Transferred, G!Rosters
  <2>3. roster' \in G!Rosters
    BY <1>5, <2>2 DEF G!Fix, G!Rosters
  <2>4. list' \in G!Lists
    BY <1>1, <1>5, GroupsAnsweredEntries, GroupsRewrittenIs
  <2> QED BY <1>1, <1>5, <2>3, <2>4, GroupsFollows
<1>6. CASE r.kind = "remove" /\ roster' = [roster EXCEPT ![r.user] = None] /\ G!Follow
           /\ list' = G!Rewritten(r, G!Named(r, r.snap[r.chat].names \ {r.user}))
           /\ UNCHANGED <<group, load>>
  <2>1. roster' \in G!Rosters
    BY <1>1, <1>6 DEF G!Rosters
  <2>2. list' \in G!Lists
    BY <1>1, <1>6, GroupsAnsweredEntries, GroupsRewrittenIs DEF G!AboutUser
  <2> QED BY <1>1, <1>6, <2>1, <2>2, GroupsFollows
<1>7. CASE r.kind = "add" /\ G!FixNew(r) /\ G!Follow
           /\ list' = G!Rewritten(r, G!Named(r, r.snap[r.chat].names \cup {r.user}))
           /\ UNCHANGED <<group, load>>
  <2>1. roster' \in G!Rosters
    BY <1>1, <1>3, <1>7 DEF G!Rosters, G!FixNew
  <2>2. list' \in G!Lists
    BY <1>1, <1>7, GroupsAnsweredEntries, GroupsRewrittenIs DEF G!AboutUser
  <2> QED BY <1>1, <1>7, <2>1, <2>2, GroupsFollows
<1>8. CASE r.kind = "rename" /\ roster' = roster /\ title' = r.text
           /\ list' = G!Rewritten(r, [G!Summary(r.chat) EXCEPT !.title = r.text])
           /\ UNCHANGED <<group, load>>
  <2>1. list' \in G!Lists
    BY <1>1, <1>8, GroupsAnsweredEntries, GroupsRewrittenIs
  <2>2. r.text \in Titles
    BY <1>8 DEF G!Aimed, G!Aims
  <2> QED BY <1>1, <1>8, <2>1, <2>2
<1>9. CASE r.kind \in {"leave", "delete"} /\ G!Close /\ UNCHANGED <<list, roster>>
  BY <1>1, <1>9, GroupsCloseTypes
<1> QED BY <1>4, <1>5, <1>6, <1>7, <1>8, <1>9 DEF G!Done

\* What an answer of a written request makes of the page is the server's.
LEMMA GroupsDonePage ==
    ASSUME G!IInv, ~crossed, NEW r \in reqs, r.at = "done", G!Done(r), groups' = groups
    PROVE  /\ \A c \in Chats : G!ListTrue(c)'
           /\ G!TitleTrue' /\ G!LoadTrue' /\ (load' = None => G!RosterTrue')
<1>1. /\ load = None /\ r.chat = group /\ r.snap = list /\ group \in Chats
      /\ list[group].role # None /\ G!Answerable(r) /\ G!Types /\ G!Aimed
      /\ \A c \in Chats \ {group} : G!ListTrue(c)
  BY GroupsAloneFacts DEF G!IInv
<1>2. /\ list \in G!Lists /\ list[group] \in G!Entries /\ roster \in G!Rosters
      /\ groups[group].roles \in G!Rosters /\ Me \in Users /\ group # None
  BY <1>1, GroupsAssumption DEF G!Types, G!Lists
<1> PICK e : e = list[group]
  OBVIOUS
<1> PICK f : f = groups[group].roles
  OBVIOUS
<1>3. r.kind \in G!AboutUser => r.user \in Users /\ (r.kind # "add" => r.user # Me)
  BY <1>1 DEF G!Aimed, G!Aims
<1>4. "owner" # None /\ "admin" # None /\ "member" # None
  BY GroupsRoleFacts
\* One chat is changed, in whatever it says of the group.
<1>5. ASSUME NEW s \in G!Entries, list' = G!Rewritten(r, s), group' = group, load' = load,
             s.title = groups[group].title, s.names = {u \in Users : f[u] # None},
             s.role = f[Me] \/ s.role = None, roster' = f,
             title' = groups[group].title
      PROVE  /\ \A c \in Chats : G!ListTrue(c)'
             /\ G!TitleTrue' /\ G!LoadTrue' /\ (load' = None => G!RosterTrue')
  <2>1. /\ \A c \in Chats \ {group} : list'[c] = list[c]
        /\ list'[group].title = s.title /\ list'[group].names = s.names
        /\ list'[group].role \in {None, s.role}
    BY <1>1, <1>2, <1>5, GroupsRewrittenIs
  <2>2. \A c \in Chats \ {group} : G!ListTrue(c)'
    BY <1>1, <2>1 DEF G!ListTrue, G!Within, G!Members
  <2>3. G!ListTrue(group)'
    BY <1>5, <2>1 DEF G!ListTrue, G!Within, G!Members
  <2>4. G!TitleTrue' /\ G!LoadTrue' /\ G!RosterTrue'
    BY <1>1, <1>5 DEF G!TitleTrue, G!LoadTrue, G!RosterTrue
  <2>5. \A c \in Chats : G!ListTrue(c)'
    BY <1>5, <2>2, <2>3
  <2> QED BY <2>4, <2>5
<1>6. CASE r.kind \in {"promote", "demote"} /\ UNCHANGED <<list, group, title, load>>
           /\ roster' = [roster EXCEPT ![r.user] = IF @ = None THEN None
                                                ELSE IF r.kind = "promote" THEN "admin" ELSE "member"]
  <2>1. r.user \in Users /\ r.user # Me /\ roster[r.user] # None
    BY <1>1, <1>3, <1>6 DEF G!AboutUser, G!Answerable
  <2>2. f = G!SetRole(roster, r.user, IF r.kind = "promote" THEN "admin" ELSE "member")
    BY <1>1, <1>6, GroupsWrittenIs DEF G!Answerable
  <2>3. roster' = f /\ f[Me] = roster[Me]
        /\ {u \in Users : f[u] # None} = {u \in Users : roster[u] # None}
    BY <1>2, <1>4, <1>6, <2>1, <2>2 DEF G!SetRole, G!Rosters
  <2>4. list[group].title = groups[group].title /\ title = groups[group].title
    BY <1>1, <1>6 DEF G!Answerable
  <2>5. G!ListTrue(group)'
    BY <1>1, <1>6, <2>3, <2>4 DEF G!Answerable, G!ListTrue, G!Within, G!Members
  <2>6. \A c \in Chats : G!ListTrue(c)'
    BY <1>1, <1>6, <2>5 DEF G!ListTrue, G!Within, G!Members
  <2>7. G!TitleTrue' /\ G!LoadTrue' /\ G!RosterTrue'
    BY <1>1, <1>6, <2>3, <2>4 DEF G!TitleTrue, G!LoadTrue, G!RosterTrue
  <2> QED BY <2>6, <2>7
<1>7. CASE r.kind = "transfer" /\ G!Fix(r, G!Transferred(roster, r.user)) /\ G!Follow
           /\ list' = G!Rewritten(r, [r.snap[r.chat] EXCEPT !.role = "admin"])
           /\ UNCHANGED <<group, load>>
  <2> PICK s : s = [r.snap[r.chat] EXCEPT !.role = "admin"]
    OBVIOUS
  <2>1. r.user \in Users /\ r.user # Me /\ roster[r.user] # None
    BY <1>1, <1>3, <1>7 DEF G!AboutUser, G!Answerable
  <2>2. f = G!Transferred(roster, r.user) /\ roster[Me] # None
    BY <1>1, <1>7, GroupsWrittenIs DEF G!Answerable
  <2>3. roster' = f /\ f[Me] = "admin"
        /\ {u \in Users : f[u] # None} = {u \in Users : roster[u] # None}
    BY <1>2, <1>4, <1>7, <2>1, <2>2 DEF G!Transferred, G!Fix, G!Rosters
  <2>4. list[group].title = groups[group].title /\ title = groups[group].title
    BY <1>1, <1>7 DEF G!Answerable
  <2>5. s \in G!Entries /\ s.title = e.title /\ s.names = e.names /\ s.role = "admin"
    BY <1>1, <1>2, GroupsAnsweredEntries DEF G!Entries
  <2>6. s.names = {u \in Users : f[u] # None}
    BY <1>1, <2>3, <2>5 DEF G!Answerable
  <2>7. list' \in G!Lists /\ list'[group].title = list[group].title
    BY <1>1, <1>2, <1>7, <2>5, GroupsRewrittenIs
  <2>8. title' = groups[group].title
    BY <1>1, <1>2, <1>7, <2>4, <2>7, GroupsFollows
  <2> QED BY <1>5, <1>7, <2>3, <2>4, <2>5, <2>6, <2>8
<1>8. CASE r.kind = "remove" /\ roster' = [roster EXCEPT ![r.user] = None] /\ G!Follow
           /\ list' = G!Rewritten(r, G!Named(r, r.snap[r.chat].names \ {r.user}))
           /\ UNCHANGED <<group, load>>
  <2> PICK s : s = G!Named(r, r.snap[r.chat].names \ {r.user})
    OBVIOUS
  <2>1. r.user \in Users /\ r.user # Me
    BY <1>1, <1>3, <1>8 DEF G!AboutUser
  <2>2. f = G!SetRole(roster, r.user, None)
    BY <1>1, <1>8, GroupsWrittenIs DEF G!Answerable
  <2>3. roster' = f /\ f[Me] = roster[Me]
        /\ {u \in Users : f[u] # None} = {u \in Users : roster[u] # None} \ {r.user}
    BY <1>2, <1>8, <2>1, <2>2 DEF G!SetRole, G!Rosters
  <2>4. list[group].title = groups[group].title /\ title = groups[group].title
        /\ list[group].role = roster[Me]
    BY <1>1, <1>8 DEF G!Answerable
  <2>5. s \in G!Entries /\ s.title = e.title /\ s.names = e.names \ {r.user} /\ s.role = e.role
    BY <1>1, <1>2, <1>8, GroupsAnsweredEntries DEF G!Entries, G!Named, G!AboutUser
  <2>6. s.names = {u \in Users : f[u] # None} /\ s.role = f[Me]
    BY <1>1, <2>3, <2>4, <2>5 DEF G!Answerable
  <2>7. list' \in G!Lists /\ list'[group].title = list[group].title
    BY <1>1, <1>2, <1>8, <2>5, GroupsRewrittenIs
  <2>8. title' = groups[group].title
    BY <1>1, <1>2, <1>8, <2>4, <2>7, GroupsFollows
  <2> QED BY <1>5, <1>8, <2>3, <2>4, <2>5, <2>6, <2>8
<1>9. CASE r.kind = "add" /\ G!FixNew(r) /\ G!Follow
           /\ list' = G!Rewritten(r, G!Named(r, r.snap[r.chat].names \cup {r.user}))
           /\ UNCHANGED <<group, load>>
  <2> PICK s : s = G!Named(r, r.snap[r.chat].names \cup {r.user})
    OBVIOUS
  <2>1. r.user \in Users /\ roster[r.user] = None
    BY <1>1, <1>3, <1>9 DEF G!AboutUser, G!Answerable
  <2>2. f = G!SetRole(roster, r.user, "member")
    BY <1>1, <1>9, <2>1, GroupsWrittenIs DEF G!Answerable
  <2>3. list[group].title = groups[group].title /\ title = groups[group].title
        /\ list[group].role = roster[Me] /\ roster[Me] # None
    BY <1>1, <1>9 DEF G!Answerable
  <2>4. roster' = f /\ f[Me] = roster[Me]
        /\ {u \in Users : f[u] # None} = {u \in Users : roster[u] # None} \cup {r.user}
    BY <1>2, <1>4, <1>9, <2>1, <2>2, <2>3 DEF G!SetRole, G!Rosters, G!FixNew
  <2>5. s \in G!Entries /\ s.title = e.title /\ s.names = e.names \cup {r.user} /\ s.role = e.role
    BY <1>1, <1>2, <1>9, GroupsAnsweredEntries DEF G!Entries, G!Named, G!AboutUser
  <2>6. s.names = {u \in Users : f[u] # None} /\ s.role = f[Me]
    BY <1>1, <2>3, <2>4, <2>5 DEF G!Answerable
  <2>7. list' \in G!Lists /\ list'[group].title = list[group].title
    BY <1>1, <1>2, <1>9, <2>5, GroupsRewrittenIs
  <2>8. title' = groups[group].title
    BY <1>1, <1>2, <1>9, <2>3, <2>7, GroupsFollows
  <2> QED BY <1>5, <1>9, <2>3, <2>4, <2>5, <2>6, <2>8
<1>10. CASE r.kind = "rename" /\ roster' = roster /\ title' = r.text
           /\ list' = G!Rewritten(r, [G!Summary(r.chat) EXCEPT !.title = r.text])
           /\ UNCHANGED <<group, load>>
  <2> PICK s : s = [G!Summary(r.chat) EXCEPT !.title = r.text]
    OBVIOUS
  <2>1. f = roster /\ groups[group].title = r.text
    BY <1>1, <1>10, GroupsWrittenIs DEF G!Answerable
  <2>2. s \in G!Entries
    BY <1>1, <1>10, GroupsAnsweredEntries
  <2>3. s.title = r.text /\ s.names = {u \in Users : f[u] # None} /\ s.role = f[Me]
    BY <1>1 DEF G!Summary, G!Members
  <2> QED BY <1>5, <1>10, <2>1, <2>2, <2>3
<1>11. CASE r.kind \in {"leave", "delete"} /\ G!Close /\ UNCHANGED <<list, roster>>
  <2>1. ~G!Within(group)
    BY <1>1, <1>11 DEF G!Answerable
  <2>2. \A c \in Chats : G!ListTrue(c)
    BY <1>1, <2>1 DEF G!ListTrue
  <2>3. \A c \in Chats : G!ListTrue(c)'
    BY <1>11, <2>2 DEF G!ListTrue, G!Within, G!Members
  <2>4. CASE \E c \in G!Listed : G!Open(c)
    <3>1. PICK c \in Chats : G!Open(c)
      BY <2>4 DEF G!Listed
    <3>2. load' # None /\ load'.roles = None /\ load'.chat = c
      BY <3>1, GroupsAssumption DEF G!Open, G!Loads
    <3>3. G!TitleTrue' /\ G!LoadTrue'
      BY <1>11, <2>2, <3>1, <3>2 DEF G!Open, G!TitleTrue, G!LoadTrue, G!ListTrue, G!Within, G!Members
    <3> QED BY <2>3, <3>2, <3>3
  <2>5. CASE G!Listed = {} /\ group' = None /\ title' = None /\ load' = None
    BY <2>3, <2>5 DEF G!TitleTrue, G!LoadTrue, G!RosterTrue
  <2> QED BY <1>11, <2>4, <2>5 DEF G!Close
<1> QED BY <1>6, <1>7, <1>8, <1>9, <1>10, <1>11 DEF G!Done

LEMMA GroupsAnswerSteps == ASSUME G!IInv, NEW r \in reqs, G!Answer(r) PROVE G!IInv'
<1>1. G!Types /\ G!Aimed /\ reqs' = reqs \ {r} /\ groups' = groups /\ refused' = refused
      /\ crossed' = crossed /\ gActs' = gActs
  BY DEF G!IInv, G!Answer
<1>2. /\ list' \in G!Lists /\ roster' \in G!Rosters
      /\ group' \in Chats \cup {None} /\ title' \in Titles \cup {None}
      /\ load' \in G!Loads \cup {None} /\ (load' # None => load'.chat = group')
  <2>1. CASE G!Done(r)
    BY <1>1, <2>1, GroupsDoneTypes
  <2>2. CASE UNCHANGED <<list, group, roster, title, load>>
    BY <1>1, <2>2 DEF G!Types, G!Aimed
  <2> QED BY <2>1, <2>2 DEF G!Answer
<1>3. reqs' \subseteq G!Requests /\ IsFiniteSet(reqs') /\ Cardinality(reqs') <= 2
  <2>1. IsFiniteSet(reqs) /\ Cardinality(reqs) \in Nat /\ Cardinality(reqs) <= 2
    BY <1>1, FS_CardinalityType, GroupsFiniteSame DEF G!Types
  <2>2. IsFiniteSet(reqs \ {r}) /\ Cardinality(reqs \ {r}) = Cardinality(reqs) - 1
    BY <2>1, FS_RemoveElement
  <2> QED BY <1>1, <2>1, <2>2 DEF G!Types
<1>4. G!Types'
  BY <1>1, <1>2, <1>3, GroupsFiniteSame DEF G!Types
<1>5. G!Aimed'
  BY <1>1, <1>2 DEF G!Aimed
<1>6. ASSUME ~crossed' PROVE G!Orderly'
  <2>1. ~crossed /\ G!Orderly
    BY <1>1, <1>6 DEF G!IInv
  <2>2. /\ reqs = {r} /\ load = None /\ group \in Chats
        /\ \A c \in Chats \ {group} : G!ListTrue(c)
        /\ IF r.at = "done" THEN G!Answerable(r) ELSE G!Unwritten(r)
    BY <2>1, GroupsAloneFacts
  <2>3. reqs' = {}
    BY <1>1, <2>2
  <2>4. (\A c \in Chats : G!ListTrue(c)') /\ G!TitleTrue' /\ G!LoadTrue' /\ (load' = None => G!RosterTrue')
    <3>1. CASE r.at = "done"
      BY <1>1, <2>1, <3>1, GroupsDonePage DEF G!Answer
    <3>2. CASE r.at # "done"
      <4>1. UNCHANGED <<groups, list, group, roster, title, load>> /\ r.at \in {"none", "refused"}
        BY <3>2 DEF G!Answer
      <4>2. G!ListTrue(group) /\ G!RosterTrue /\ G!TitleTrue
        BY <2>2, <3>2, <4>1 DEF G!Unwritten, G!TitleTrue
      <4>3. \A c \in Chats : G!ListTrue(c)
        BY <2>2, <4>2
      <4> QED BY <2>2, <4>1, <4>2, <4>3 DEF G!ListTrue, G!Within, G!Members, G!TitleTrue, G!LoadTrue, G!RosterTrue
    <3> QED BY <3>1, <3>2
  <2>5. \A c \in Chats : G!Owned(groups[c].roles)'
    BY <1>1, <2>1 DEF G!Orderly, G!Owned, G!Nobody
  <2> QED BY <1>1, <2>1, <2>3, <2>4, <2>5 DEF G!Orderly, G!AtRest
<1> QED BY <1>4, <1>5, <1>6 DEF G!IInv

LEMMA GroupsNext == ASSUME G!IInv, G!Next \/ UNCHANGED G!grVars PROVE G!IInv'
<1>1. CASE UNCHANGED G!grVars
  BY <1>1, GroupsRest
<1>2. CASE \E c \in Chats : G!SelectChat(c)
  BY <1>2, GroupsOpenSteps
<1>3. CASE G!ListMembers \/ G!MembersLoaded
  BY <1>3, GroupsLoadSteps
<1>4. CASE G!Refresh
  BY <1>4, GroupsRefreshSteps
<1>5. CASE G!AskToGo
  BY <1>5, GroupsAskToGoSteps
<1>6. CASE \E u \in Users : G!AskFor(u)
  BY <1>6, GroupsAskForSteps
<1>7. CASE \E t \in Titles : G!AskToRename(t)
  BY <1>7, GroupsAskToRenameSteps
<1>8. CASE \E r \in reqs : G!Authorize(r) \/ G!Commit(r) \/ G!Answer(r)
  BY <1>8, GroupsAuthorizeSteps, GroupsCommitSteps, GroupsAnswerSteps
<1> QED BY <1>1, <1>2, <1>3, <1>4, <1>5, <1>6, <1>7, <1>8 DEF G!Next

LEMMA GroupsPromises == ASSUME G!IInv PROVE G!TypeOK /\ G!PageAgrees /\ G!OffersAreGranted /\ G!OneOwner
<1>1. G!TypeOK
  BY DEF G!IInv, G!Types, G!Aimed, G!TypeOK, G!Rosters, G!Lists, G!Entries
<1>2. G!PageAgrees
  <2>1. ASSUME G!Quiet, ~crossed
        PROVE  /\ \A c \in Chats : G!ListTrue(c)
               /\ G!TitleTrue /\ G!RosterTrue
    BY <2>1 DEF G!IInv, G!Orderly, G!Quiet, G!AtRest
  <2> QED BY <2>1 DEF G!PageAgrees, G!ListTrue, G!TitleTrue, G!RosterTrue, G!Within
<1>3. G!OffersAreGranted
  BY DEF G!IInv, G!Orderly, G!OffersAreGranted
<1>4. G!OneOwner
  <2>1. SUFFICES ASSUME ~crossed, NEW c \in Chats, G!Members(c) # {}
                 PROVE  Cardinality({u \in Users : groups[c].roles[u] = "owner"}) = 1
    BY GroupsFiniteSame DEF G!OneOwner
  <2>2. G!Owned(groups[c].roles) /\ groups[c].roles # G!Nobody
    BY <2>1 DEF G!IInv, G!Orderly, G!Members, G!Nobody
  <2>3. PICK o \in Users : \A u \in Users : groups[c].roles[u] = "owner" <=> u = o
    BY <2>2 DEF G!Owned
  <2>4. {u \in Users : groups[c].roles[u] = "owner"} = {o}
    BY <2>3
  <2> QED BY <2>4, FS_Singleton
<1> QED BY <1>1, <1>2, <1>3, <1>4

-----------------------------------------------------------------------------
(* Typing. *)

LEMMA TypingInit == ASSUME T!Init PROVE T!IInv
<1>1. T!Fresh \in T!Page
  BY TypingAssumption DEF T!Fresh, T!Page
<1>2. T!Types
  BY <1>1, TypingAssumption DEF T!Init, T!Types
<1>3. T!Honest(T!Fresh)
  BY DEF T!Honest, T!Fresh
<1>4. \A u \in Typists : typist[u] = T!Fresh
  BY DEF T!Init
<1>5. T!SaidHere
  BY <1>3, <1>4 DEF T!SaidHere
<1>6. T!SaidThere
  BY DEF T!Init, T!SaidThere
<1> QED BY <1>2, <1>5, <1>6 DEF T!Init, T!IInv, T!FreshIsTimed, T!Seen

LEMMA TypingRest == ASSUME T!IInv, UNCHANGED T!tyVars PROVE T!IInv'
  BY DEF T!tyVars, T!IInv, T!Types, T!SaidThere, T!SaidHere, T!Honest, T!FreshIsTimed, T!Seen

\* What is pushed comes last, behind what was on its way.
LEMMA TypingPushed ==
    ASSUME T!Types, NEW u \in Typists, NEW c \in Chats, NEW e \in {"start", "stop"}, T!Push(u, c, e)
    PROVE  /\ wire' \in [Chats -> Seq(T!Events)]
           /\ \A x \in Chats : \A i \in 1 .. Len(wire'[x]) :
                 \/ x = c /\ wire'[x][i] = [user |-> u, event |-> e]
                 \/ i \in 1 .. Len(wire[x]) /\ wire'[x][i] = wire[x][i]
<1> DEFINE r == [user |-> u, event |-> e]
<1>1. r \in T!Events /\ wire \in [Chats -> Seq(T!Events)] /\ wire' = [wire EXCEPT ![c] = Append(@, r)]
  BY DEF T!Types, T!Events, T!Push
<1> HIDE DEF r
<1>2. \A x \in Chats : wire'[x] = IF x = c THEN Append(wire[c], r) ELSE wire[x]
  BY <1>1
<1>3. wire' \in [Chats -> Seq(T!Events)]
  BY <1>1, <1>2
<1>4. ASSUME NEW x \in Chats, NEW i \in 1 .. Len(wire'[x])
      PROVE  \/ x = c /\ wire'[x][i] = r
             \/ i \in 1 .. Len(wire[x]) /\ wire'[x][i] = wire[x][i]
  <2>1. CASE x = c
    <3> DEFINE w == wire[c]
    <3>1. w \in Seq(T!Events) /\ wire'[x] = Append(w, r)
      BY <1>1, <1>2, <2>1
    <3> HIDE DEF w
    <3>2. Len(w) \in Nat /\ i \in 1 .. Len(w) + 1
      BY <1>1, <3>1
    <3>3. Append(w, r)[i] = IF i = Len(w) + 1 THEN r ELSE w[i]
      BY <1>1, <3>1, <3>2
    <3>4. w = wire[x]
      BY <2>1 DEF w
    <3>5. CASE i = Len(w) + 1
      BY <2>1, <3>1, <3>3, <3>5
    <3>6. CASE i # Len(w) + 1
      BY <3>1, <3>2, <3>3, <3>4, <3>6
    <3> QED BY <3>5, <3>6
  <2>2. CASE x # c
    BY <1>2, <2>2
  <2> QED BY <2>1, <2>2
<1> QED BY <1>3, <1>4 DEF r

\* A typist's page changes, and pushes at most that it types where it does.
LEMMA TypingPageInv ==
    ASSUME T!IInv, NEW u \in Typists, NEW p \in T!Page, typist' = [typist EXCEPT ![u] = p],
           typist[u].began \subseteq p.began, T!Honest(p), UNCHANGED T!watcher,
           \/ UNCHANGED wire
           \/ \E c \in Chats, e \in {"start", "stop"} :
                 T!Push(u, c, e) /\ (e = "start" => c \in p.began)
    PROVE  T!IInv'
<1>1. /\ typist' \in [Typists -> T!Page]
      /\ \A x \in Typists : typist'[x] = IF x = u THEN p ELSE typist[x]
  BY DEF T!IInv, T!Types
<1>2. T!Types'
  <2>1. wire' \in [Chats -> Seq(T!Events)]
    <3>1. T!Types /\ wire \in [Chats -> Seq(T!Events)]
      BY DEF T!IInv, T!Types
    <3>2. ASSUME NEW c \in Chats, NEW e \in {"start", "stop"}, T!Push(u, c, e)
          PROVE  wire' \in [Chats -> Seq(T!Events)]
      BY <3>1, <3>2, TypingPushed
    <3> QED BY <3>1, <3>2
  <2> QED BY <1>1, <2>1 DEF T!IInv, T!Types, T!watcher
<1>3. T!SaidHere'
  <2>1. \A x \in Typists : T!Honest(typist'[x])
    BY <1>1 DEF T!IInv, T!SaidHere
  <2> QED BY <2>1 DEF T!SaidHere, T!Honest
<1>4. \A x \in Typists : typist[x].began \subseteq typist'[x].began
  BY <1>1
<1>5. \A x \in shown'.users : shown'.chat \in typist'[x].began
  BY <1>4 DEF T!IInv, T!Types, T!SaidThere, T!watcher
<1>6. ASSUME NEW c \in Chats, NEW i \in 1 .. Len(wire'[c]), wire'[c][i].event = "start"
      PROVE  c \in typist'[wire'[c][i].user].began
  <2>1. CASE i \in 1 .. Len(wire[c]) /\ wire'[c][i] = wire[c][i]
    <3>1. wire[c][i] \in T!Events
      BY <2>1 DEF T!IInv, T!Types
    <3> QED BY <1>4, <1>6, <2>1, <3>1 DEF T!IInv, T!SaidThere, T!Events
  <2>2. CASE ~(i \in 1 .. Len(wire[c]) /\ wire'[c][i] = wire[c][i])
    <3>1. PICK d \in Chats, e \in {"start", "stop"} : T!Push(u, d, e) /\ (e = "start" => d \in p.began)
      BY <1>6, <2>2
    <3>2. wire'[c][i] = [user |-> u, event |-> e] /\ c = d
      <4>1. T!Types
        BY DEF T!IInv
      <4>2. \/ wire'[c][i] = [user |-> u, event |-> e] /\ c = d
            \/ i \in 1 .. Len(wire[c]) /\ wire'[c][i] = wire[c][i]
        <5>1. \A x \in Chats : \A j \in 1 .. Len(wire'[x]) :
                 \/ x = d /\ wire'[x][j] = [user |-> u, event |-> e]
                 \/ j \in 1 .. Len(wire[x]) /\ wire'[x][j] = wire[x][j]
          BY <3>1, <4>1, TypingPushed
        <5> QED BY <5>1
      <4> QED BY <2>2, <4>2
    <3> QED BY <1>1, <1>6, <3>1, <3>2
  <2> QED BY <2>1, <2>2
<1>7. T!SaidThere'
  BY <1>5, <1>6 DEF T!SaidThere
<1>8. T!FreshIsTimed'
  BY DEF T!IInv, T!FreshIsTimed, T!Seen, T!watcher
<1> QED BY <1>2, <1>3, <1>7, <1>8 DEF T!IInv

LEMMA TypingSaysInv == ASSUME T!IInv, NEW u \in Typists, T!SendTypingEvent(u) PROVE T!IInv'
<1> DEFINE p == typist[u]
           q == [p EXCEPT !.typing = TRUE, !.timer = p.chat, !.said[p.chat] = "start",
                          !.hasty = @ \/ p.sending # None, !.began = @ \cup {p.chat}]
<1>1. p \in T!Page /\ T!Honest(p)
  BY DEF T!IInv, T!Types, T!SaidHere
<1>2. /\ typist' = [typist EXCEPT ![u] = q] /\ UNCHANGED T!watcher
      /\ UNCHANGED wire \/ T!Push(u, p.chat, "start")
  BY DEF T!SendTypingEvent
<1> HIDE DEF p
<1>3. q \in T!Page /\ p.chat \in Chats
  BY <1>1 DEF T!Page
<1>4. T!Honest(q) /\ p.began \subseteq q.began /\ p.chat \in q.began
  BY <1>1 DEF T!Honest, T!Page
<1> HIDE DEF q
<1>5. typist[u].began \subseteq q.began
  BY <1>4 DEF p
<1> QED BY <1>2, <1>3, <1>4, <1>5, TypingPageInv

\* A page stops, and says so.
LEMMA TypingStopsInv ==
    ASSUME T!IInv, NEW u \in Typists, NEW p \in T!Page, NEW c \in Chats, p.began = typist[u].began,
           T!Stops(u, p, c), UNCHANGED T!watcher,
           T!Honest([p EXCEPT !.typing = FALSE, !.said[c] = "stop"])
    PROVE  T!IInv'
<1> DEFINE q == [p EXCEPT !.typing = FALSE, !.said[c] = "stop"]
<1>1. q \in T!Page /\ q.began = p.began
  BY DEF T!Page
<1>2. typist' = [typist EXCEPT ![u] = q] /\ T!Push(u, c, "stop")
  BY DEF T!Stops
<1> HIDE DEF q
<1>3. T!Honest(q) /\ typist[u].began \subseteq q.began
  BY <1>1 DEF q
<1> QED BY <1>1, <1>2, <1>3, TypingPageInv

LEMMA TypingInactiveInv == ASSUME T!IInv, NEW u \in Typists, T!Inactive(u) PROVE T!IInv'
<1> DEFINE p == [typist[u] EXCEPT !.timer = None]
           c == typist[u].timer
<1>1. typist[u] \in T!Page /\ T!Honest(typist[u])
  BY DEF T!IInv, T!Types, T!SaidHere
<1>2. p \in T!Page /\ c \in Chats /\ p.began = typist[u].began
  BY <1>1 DEF T!Page, T!Inactive
<1>3. T!Stops(u, p, c) /\ UNCHANGED T!watcher
  BY DEF T!Inactive
<1>4. T!Honest([p EXCEPT !.typing = FALSE, !.said[c] = "stop"])
  BY <1>1, <1>2 DEF T!Honest, T!Page
<1> HIDE DEF p, c
<1> QED BY <1>2, <1>3, <1>4, TypingStopsInv

LEMMA TypingSendInv == ASSUME T!IInv, NEW u \in Typists, T!SendMessage(u) PROVE T!IInv'
<1> DEFINE p == [typist[u] EXCEPT !.sending = typist[u].chat]
<1>1. typist[u] \in T!Page /\ T!Honest(typist[u])
  BY DEF T!IInv, T!Types, T!SaidHere
<1>2. p \in T!Page /\ typist[u].began \subseteq p.began /\ T!Honest(p)
  BY <1>1 DEF T!Page, T!Honest
<1>3. typist' = [typist EXCEPT ![u] = p] /\ UNCHANGED <<T!watcher, wire>>
  BY DEF T!SendMessage
<1> HIDE DEF p
<1> QED BY <1>2, <1>3, TypingPageInv

LEMMA TypingStopNowInv == ASSUME T!IInv, NEW u \in Typists, T!StopTypingNow(u) PROVE T!IInv'
<1> DEFINE p == [typist[u] EXCEPT !.timer = None, !.sending = None]
           c == typist[u].sending
<1>1. typist[u] \in T!Page /\ T!Honest(typist[u])
  BY DEF T!IInv, T!Types, T!SaidHere
<1>2. p \in T!Page /\ c \in Chats /\ p.began = typist[u].began
  BY <1>1 DEF T!Page, T!StopTypingNow
<1>3. CASE p.typing
  <2>1. T!Stops(u, p, c) /\ UNCHANGED T!watcher
    BY <1>3 DEF T!StopTypingNow
  <2>2. T!Honest([p EXCEPT !.typing = FALSE, !.said[c] = "stop"])
    BY <1>1, <1>2, TypingAssumption DEF T!Honest, T!Page
  <2> HIDE DEF p, c
  <2> QED BY <1>2, <2>1, <2>2, TypingStopsInv
<1>4. CASE ~p.typing
  <2>1. typist' = [typist EXCEPT ![u] = p] /\ UNCHANGED <<T!watcher, wire>>
    BY <1>4 DEF T!StopTypingNow
  <2>2. T!Honest(p)
    BY <1>1, <1>4 DEF T!Honest, T!Page
  <2> HIDE DEF p, c
  <2> QED BY <1>2, <2>1, <2>2, TypingPageInv
<1> QED BY <1>3, <1>4

LEMMA TypingLeavesInv == ASSUME T!IInv, NEW u \in Typists, NEW c \in Chats, T!TypistLeaves(u, c) PROVE T!IInv'
<1> DEFINE p == [typist[u] EXCEPT !.timer = None, !.chat = c, !.hasty = @ \/ typist[u].sending # None]
           d == typist[u].chat
<1>1. typist[u] \in T!Page /\ T!Honest(typist[u])
  BY DEF T!IInv, T!Types, T!SaidHere
<1>2. p \in T!Page /\ d \in Chats /\ p.began = typist[u].began
  BY <1>1 DEF T!Page
<1>3. CASE p.typing
  <2>1. T!Stops(u, p, d) /\ UNCHANGED T!watcher
    BY <1>3 DEF T!TypistLeaves, T!LeavesTyping
  <2>2. T!Honest([p EXCEPT !.typing = FALSE, !.said[d] = "stop"])
    BY <1>1, <1>2 DEF T!Honest, T!Page
  <2> HIDE DEF p, d
  <2> QED BY <1>2, <2>1, <2>2, TypingStopsInv
<1>4. CASE ~p.typing
  <2>1. typist' = [typist EXCEPT ![u] = p] /\ UNCHANGED <<T!watcher, wire>>
    BY <1>4 DEF T!TypistLeaves
  <2>2. T!Honest(p)
    BY <1>1, <1>4 DEF T!Honest, T!Page
  <2> HIDE DEF p, d
  <2> QED BY <1>2, <2>1, <2>2, TypingPageInv
<1> QED BY <1>3, <1>4

LEMMA TypingReceiveInv == ASSUME T!IInv, NEW c \in Chats, T!Receive(c) PROVE T!IInv'
<1> DEFINE e == Head(wire[c])
<1>1. wire[c] \in Seq(T!Events) /\ wire[c] # <<>> /\ wire \in [Chats -> Seq(T!Events)]
  BY DEF T!Receive, T!IInv, T!Types
<1>2. e \in T!Events /\ Len(wire[c]) \in Nat /\ Len(wire[c]) > 0 /\ e = wire[c][1]
  BY <1>1
<1>3. \A x \in Chats : wire'[x] = IF x = c THEN Tail(wire[c]) ELSE wire[x]
  BY <1>1 DEF T!Receive
<1>4. wire' \in [Chats -> Seq(T!Events)]
  BY <1>1, <1>3 DEF T!Receive
<1>5. ASSUME NEW x \in Chats, NEW i \in 1 .. Len(wire'[x])
      PROVE  \E j \in 1 .. Len(wire[x]) : wire'[x][i] = wire[x][j]
  <2>1. CASE x = c
    <3>1. i + 1 \in 1 .. Len(wire[x]) /\ wire'[x][i] = wire[x][i + 1]
      <4> DEFINE w == wire[c]
      <4>1. w \in Seq(T!Events) /\ w # <<>> /\ wire'[x] = Tail(w)
        BY <1>1, <1>3, <2>1
      <4> HIDE DEF w
      <4>2. i \in 1 .. Len(w) - 1 /\ Len(w) \in Nat
        BY <4>1
      <4>3. Tail(w)[i] = w[i + 1]
        BY <4>1, <4>2
      <4> QED BY <2>1, <4>1, <4>2, <4>3 DEF w
    <3> QED BY <3>1
  <2>2. CASE x # c
    BY <1>3, <2>2
  <2> QED BY <2>1, <2>2
<1>6. e.event = "start" => c \in typist[e.user].began
  BY <1>2 DEF T!IInv, T!SaidThere
<1>7. \A x \in Chats : \A i \in 1 .. Len(wire'[x]) :
          wire'[x][i].event = "start" => x \in typist[wire'[x][i].user].began
  BY <1>5 DEF T!IInv, T!SaidThere
<1>8. UNCHANGED <<watched, typist>>
  BY DEF T!Receive, T!watcher
<1>9. shown' \in [chat: Chats \cup {None}, users: SUBSET Typists] /\ clears' \subseteq Typists
      /\ visit' \subseteq Typists
  BY <1>2 DEF T!Receive, T!watcher, T!IInv, T!Types, T!Kept, T!Timed, T!Events
<1>10. T!Types'
  BY <1>4, <1>8, <1>9 DEF T!IInv, T!Types
<1>11. \A x \in shown'.users : shown'.chat \in typist[x].began
  BY <1>6 DEF T!Receive, T!watcher, T!IInv, T!Types, T!SaidThere, T!Kept
<1>12. T!SaidThere'
  BY <1>7, <1>8, <1>11 DEF T!SaidThere
<1>13. T!SaidHere'
  BY <1>8 DEF T!IInv, T!SaidHere, T!Honest
<1>14. T!FreshIsTimed'
  BY DEF T!Receive, T!watcher, T!IInv, T!Types, T!FreshIsTimed, T!Seen, T!Kept, T!Timed
<1> QED BY <1>10, <1>12, <1>13, <1>14 DEF T!IInv

LEMMA TypingClearInv == ASSUME T!IInv, NEW u \in Typists, T!AutoClear(u) PROVE T!IInv'
<1>1. T!Types'
  BY DEF T!AutoClear, T!IInv, T!Types
<1>2. T!SaidThere'
  BY DEF T!AutoClear, T!IInv, T!Types, T!SaidThere
<1>3. T!SaidHere'
  BY DEF T!AutoClear, T!IInv, T!SaidHere, T!Honest
<1>4. T!FreshIsTimed'
  BY DEF T!AutoClear, T!IInv, T!Types, T!FreshIsTimed, T!Seen
<1> QED BY <1>1, <1>2, <1>3, <1>4 DEF T!IInv

LEMMA TypingWatchInv == ASSUME T!IInv, NEW c \in Chats, T!WatcherLeaves(c) PROVE T!IInv'
  BY DEF T!WatcherLeaves, T!IInv, T!Types, T!SaidThere, T!SaidHere, T!Honest, T!FreshIsTimed, T!Seen

LEMMA TypingNext == ASSUME T!IInv, T!Next \/ UNCHANGED T!tyVars PROVE T!IInv'
  BY TypingRest, TypingSaysInv, TypingSendInv, TypingInactiveInv, TypingStopNowInv, TypingClearInv, TypingLeavesInv, TypingWatchInv, TypingReceiveInv
     DEF T!Next, T!Runs, T!Arrives

LEMMA TypingPromises == ASSUME T!IInv PROVE T!TypeOK /\ T!TypedHere /\ T!FreshIsTimed /\ T!StopFollows
<1>1. T!TypeOK
  BY DEF T!IInv, T!Types, T!TypeOK, T!Page
<1>2. T!TypedHere
  BY DEF T!IInv, T!SaidThere, T!TypedHere, T!Seen
<1>3. T!StopFollows
  BY DEF T!IInv, T!SaidHere, T!Honest, T!StopFollows
<1> QED BY <1>1, <1>2, <1>3 DEF T!IInv

-----------------------------------------------------------------------------
(* The realtime hooks. *)

RealtimeCalls == [sock: Nat, status: R!Status]
RealtimeChat == [joined: BOOLEAN, wire: Seq(Nat), sent: Nat, has: SUBSET Nat, sync: BOOLEAN, gap: BOOLEAN]

LEMMA RealtimeInit == ASSUME R!Init PROVE R!IInv
<1>1. R!Types
  <2>1. net \in Seq(R!Socket) /\ callbacks \in Seq(RealtimeCalls)
    BY DEF R!Init, R!Socket
  <2>2. rt \in [cur: Nat \ {0}, tok: 0 .. MaxTokens, status: R!Status, ever: BOOLEAN, map: Nat]
    BY RealtimeAssumption DEF R!Init, R!Status
  <2>3. toks \in [scope: 1 .. MaxTokens, ctx: 1 .. MaxTokens]
        /\ subs \in [thread: Nat, call: Nat, typing: Nat, presence: Nat]
    BY RealtimeAssumption DEF R!Init
  <2>4. chat \in [joined: BOOLEAN, wire: Seq(Nat), sent: Nat, has: SUBSET Nat, sync: BOOLEAN, gap: BOOLEAN]
    BY DEF R!Init, R!OpenChat
  <2> QED BY <2>1, <2>2, <2>3, <2>4 DEF R!Init, R!Types, RealtimeCalls
<1>2. Len(net) = 1 /\ Len(callbacks) = 0 /\ net[1] = "opening" /\ rt.cur = 1
  BY DEF R!Init
<1>3. R!Bounds
  BY <1>2 DEF R!Init, R!Bounds, R!Numbers, R!OpenChat
<1>4. R!CurrentIsLive /\ R!HooksFollow
  BY <1>2 DEF R!Init, R!CurrentIsLive, R!HooksFollow, R!Settled
<1>5. R!StatusFollows
  BY <1>2 DEF R!Init, R!StatusFollows, R!Numbers, R!Up
<1>6. R!HearsAll
  BY <1>2 DEF R!Init, R!HearsAll, R!OpenChat
<1> QED BY <1>1, <1>3, <1>4, <1>5, <1>6 DEF R!IInv

LEMMA RealtimeRest == ASSUME R!IInv, UNCHANGED R!rtVars PROVE R!IInv'
<1>1. UNCHANGED <<rt, net, callbacks, toks, subs, chat, hasty>>
  BY DEF R!rtVars
<1>2. R!Types' /\ R!Bounds' /\ R!CurrentIsLive' /\ R!HooksFollow'
  BY <1>1 DEF R!IInv, R!Types, R!Bounds, R!Numbers, R!CurrentIsLive, R!HooksFollow, R!Settled
<1>3. R!StatusFollows' /\ R!HearsAll'
  BY <1>1 DEF R!IInv, R!Numbers, R!Settled, R!StatusFollows, R!HearsAll, R!SyncComes, R!TellsUp, R!TellsDown, R!Up
<1> QED BY <1>2, <1>3 DEF R!IInv

\* The thread, the hooks and the tokens move, the sockets do not.
LEMMA RealtimeChatStep ==
    ASSUME R!IInv, UNCHANGED <<rt, net, callbacks, toks, subs, hasty>>
    PROVE  /\ R!CurrentIsLive' /\ R!HooksFollow' /\ R!StatusFollows'
           /\ \A i : (R!TellsUp(i)' <=> R!TellsUp(i)) /\ (R!TellsDown(i)' <=> R!TellsDown(i))
           /\ R!Up' <=> R!Up
           /\ R!Numbers' = R!Numbers
  BY DEF R!IInv, R!CurrentIsLive, R!HooksFollow, R!Settled, R!StatusFollows, R!Numbers, R!TellsUp, R!TellsDown, R!Up

LEMMA RealtimeJoinsInv == ASSUME R!IInv, R!Joins PROVE R!IInv'
<1>1. /\ chat' = [chat EXCEPT !.joined = TRUE] /\ net[subs.thread] = "open"
      /\ UNCHANGED <<rt, net, callbacks, toks, subs, hasty>>
  BY DEF R!Joins
<1>2. R!Types' /\ R!Bounds'
  BY <1>1 DEF R!IInv, R!Types, R!Bounds, R!Numbers
<1>3. R!SyncComes' <=> R!SyncComes
  BY <1>1, RealtimeChatStep DEF R!SyncComes, R!IInv, R!Types
<1>4. R!HearsAll'
  BY <1>1, <1>3 DEF R!IInv, R!Types, R!HearsAll, R!Settled
<1> QED BY <1>1, <1>2, <1>4, RealtimeChatStep DEF R!IInv

LEMMA RealtimeSyncsInv == ASSUME R!IInv, R!Syncs PROVE R!IInv'
<1>1. /\ chat' = [chat EXCEPT !.sync = FALSE, !.has = 1 .. chat.sent, !.gap = FALSE]
      /\ UNCHANGED <<rt, net, callbacks, toks, subs, hasty>>
  BY DEF R!Syncs
<1>2. R!Types' /\ R!Bounds'
  <2>1. chat \in RealtimeChat
    BY DEF R!IInv, R!Types, RealtimeChat
  <2>2. chat' \in RealtimeChat /\ chat'.has = 1 .. chat'.sent /\ chat'.wire = chat.wire /\ chat'.sent = chat.sent
    <3> DEFINE h == 1 .. chat.sent
    <3>1. h \in SUBSET Nat /\ chat' = [chat EXCEPT !.sync = FALSE, !.has = h, !.gap = FALSE]
      BY <1>1, <2>1 DEF RealtimeChat
    <3>2. chat.sent = chat'.sent /\ chat'.wire = chat.wire
      BY <1>1, <2>1 DEF RealtimeChat
    <3>3. h = 1 .. chat'.sent
      BY <3>2
    <3> HIDE DEF h
    <3> QED BY <2>1, <3>1, <3>2, <3>3 DEF RealtimeChat
  <2> QED BY <1>1, <2>2 DEF R!IInv, R!Types, R!Bounds, R!Numbers, RealtimeChat
<1>3. R!HearsAll'
  BY <1>1 DEF R!IInv, R!Types, R!HearsAll, R!Settled
<1> QED BY <1>1, <1>2, <1>3, RealtimeChatStep DEF R!IInv

LEMMA RealtimePushedInv == ASSUME R!IInv, R!Pushed PROVE R!IInv'
<1> DEFINE w == chat.wire
<1>1. /\ chat' = [chat EXCEPT !.wire = Tail(w), !.has = @ \cup {Head(w)}] /\ w # <<>>
      /\ UNCHANGED <<rt, net, callbacks, toks, subs, hasty>>
  BY DEF R!Pushed
<1>2. w \in Seq(Nat) /\ chat \in [joined: BOOLEAN, wire: Seq(Nat), sent: Nat, has: SUBSET Nat,
                                  sync: BOOLEAN, gap: BOOLEAN]
  BY DEF R!IInv, R!Types
<1>3. /\ chat'.wire = Tail(w) /\ chat'.has = chat.has \cup {Head(w)}
      /\ chat'.sent = chat.sent /\ chat'.joined = chat.joined /\ chat'.sync = chat.sync /\ chat'.gap = chat.gap
  BY <1>1, <1>2
<1> HIDE DEF w
<1>4. /\ Head(w) = w[1] /\ Len(w) \in Nat \ {0} /\ Tail(w) \in Seq(Nat) /\ Len(Tail(w)) = Len(w) - 1
      /\ \A i \in 1 .. Len(w) - 1 : Tail(w)[i] = w[i + 1]
  BY <1>1, <1>2
<1>5. \A i \in 1 .. Len(w) : w[i] \in 1 .. chat.sent
  BY DEF R!IInv, R!Bounds, w
<1>6. R!Types'
  <2>1. chat' \in RealtimeChat
    <3>1. Head(w) \in Nat /\ chat \in RealtimeChat /\ chat' = [chat EXCEPT !.wire = Tail(w), !.has = @ \cup {Head(w)}]
      BY <1>1, <1>2, <1>4 DEF RealtimeChat
    <3> QED BY <1>4, <3>1 DEF RealtimeChat
  <2> QED BY <1>1, <2>1 DEF R!IInv, R!Types, RealtimeChat
<1>7. R!Bounds'
  <2>1. \A i \in 1 .. Len(chat'.wire) : chat'.wire[i] \in 1 .. chat'.sent
    BY <1>3, <1>4, <1>5
  <2>2. Head(w) \in 1 .. chat.sent
    BY <1>4, <1>5
  <2>3. chat'.has \subseteq 1 .. chat'.sent
    BY <1>3, <2>2 DEF R!IInv, R!Bounds
  <2> QED BY <1>1, <2>1, <2>3 DEF R!IInv, R!Bounds, R!Numbers
<1>8. R!SyncComes' <=> R!SyncComes
  BY <1>1, <1>3, RealtimeChatStep DEF R!SyncComes
<1>9. ASSUME NEW m, NEW i \in 1 .. Len(w), w[i] = m
      PROVE  m \in chat'.has \/ \E j \in 1 .. Len(chat'.wire) : chat'.wire[j] = m
  <2>1. CASE i = 1
    BY <1>3, <1>4, <1>9, <2>1
  <2>2. CASE i # 1
    <3>1. i - 1 \in 1 .. Len(w) - 1 /\ Tail(w)[i - 1] = m
      BY <1>4, <1>9, <2>2
    <3> QED BY <1>3, <1>4, <3>1
  <2> QED BY <2>1, <2>2
<1>10. R!HearsAll'
  <2>1. /\ chat.joined => net[subs.thread] \in {"open", "off", "closed"}
        /\ ~chat.joined => w = <<>>
        /\ R!Settled /\ subs.thread = rt.cur /\ ~chat.gap /\ ~R!SyncComes =>
              \A m \in 1 .. chat.sent : m \in chat.has \/ \E i \in 1 .. Len(w) : w[i] = m
    BY DEF R!IInv, R!HearsAll, w
  <2>2. R!Settled' <=> R!Settled
    BY <1>1 DEF R!Settled
  <2> QED BY <1>1, <1>3, <1>8, <1>9, <2>1, <2>2 DEF R!HearsAll
<1> QED BY <1>1, <1>6, <1>7, <1>10, RealtimeChatStep DEF R!IInv

\* Where the current socket is up and the status is not, that will be told.
LEMMA RealtimeUpIsTold ==
    ASSUME R!IInv, R!Up, rt.status # "connected"
    PROVE  \E i \in R!Numbers : R!TellsUp(i)
  BY DEF R!IInv, R!StatusFollows

LEMMA RealtimeSentInv == ASSUME R!IInv, R!Sent PROVE R!IInv'
<1> DEFINE w == chat.wire
           n == chat.sent + 1
<1>1. /\ chat' = [chat EXCEPT !.sent = n, !.wire = IF chat.joined THEN Append(w, n) ELSE w,
                              !.gap  = @ \/ (~chat.joined /\ ~chat.sync /\ ~R!SyncAhead)]
      /\ UNCHANGED <<rt, net, callbacks, toks, subs, hasty>>
  BY DEF R!Sent
<1>2. w \in Seq(Nat) /\ n \in Nat /\ n # 0 /\ R!SyncAhead \in BOOLEAN
      /\ chat \in [joined: BOOLEAN, wire: Seq(Nat), sent: Nat, has: SUBSET Nat,
                   sync: BOOLEAN, gap: BOOLEAN]
  BY DEF R!IInv, R!Types, R!SyncAhead
<1>3. /\ chat'.wire = IF chat.joined THEN Append(w, n) ELSE w
      /\ chat'.sent = n /\ chat'.has = chat.has /\ chat'.joined = chat.joined /\ chat'.sync = chat.sync
      /\ chat'.gap = (chat.gap \/ (~chat.joined /\ ~chat.sync /\ ~R!SyncAhead))
  BY <1>1, <1>2
<1>4. \A i \in 1 .. Len(w) : w[i] \in 1 .. chat.sent
  BY DEF R!IInv, R!Bounds
<1>5. n = chat.sent + 1 /\ chat.sent \in Nat
  BY <1>2
<1> HIDE DEF w, n
<1>6. /\ Append(w, n) \in Seq(Nat) /\ Len(Append(w, n)) = Len(w) + 1 /\ Len(w) \in Nat
      /\ \A i \in 1 .. Len(w) : Append(w, n)[i] = w[i]
      /\ Append(w, n)[Len(w) + 1] = n
  BY <1>2
<1>7. R!Types'
  BY <1>1, <1>2, <1>6 DEF R!IInv, R!Types
<1>8. R!Bounds'
  <2>1. \A i \in 1 .. Len(chat'.wire) : chat'.wire[i] \in 1 .. n
    BY <1>3, <1>4, <1>5, <1>6
  <2>2. chat'.has \subseteq 1 .. n
    BY <1>3, <1>5 DEF R!IInv, R!Bounds
  <2> QED BY <1>1, <1>3, <2>1, <2>2 DEF R!IInv, R!Bounds, R!Numbers
<1>9. R!SyncComes' <=> R!SyncComes
  BY <1>1, <1>3, RealtimeChatStep DEF R!SyncComes
<1>10. R!SyncAhead => R!SyncComes
  <2>1. R!SyncAhead /\ ~R!Up => R!SyncComes
    BY DEF R!SyncAhead, R!SyncComes
  <2>2. R!SyncAhead /\ R!Up => R!SyncComes
    BY RealtimeUpIsTold DEF R!SyncAhead, R!SyncComes, R!Up
  <2> QED BY <2>1, <2>2
<1>11. ASSUME NEW m \in 1 .. n,
              m \in 1 .. chat.sent => m \in chat.has \/ \E i \in 1 .. Len(w) : w[i] = m,
              chat.joined
       PROVE  m \in chat'.has \/ \E i \in 1 .. Len(chat'.wire) : chat'.wire[i] = m
  <2>1. CASE m = n
    BY <1>3, <1>6, <1>11, <2>1
  <2>2. CASE m # n
    <3>1. m \in 1 .. chat.sent
      BY <1>5, <2>2
    <3> QED BY <1>3, <1>6, <1>11, <3>1
  <2> QED BY <2>1, <2>2
<1>12. R!HearsAll'
  <2>1. /\ chat.joined => net[subs.thread] \in {"open", "off", "closed"}
        /\ ~chat.joined => w = <<>>
        /\ R!Settled /\ subs.thread = rt.cur /\ ~chat.gap /\ ~R!SyncComes =>
              \A m \in 1 .. chat.sent : m \in chat.has \/ \E i \in 1 .. Len(w) : w[i] = m
    BY DEF R!IInv, R!HearsAll, w
  <2>2. R!Settled' <=> R!Settled
    BY <1>1 DEF R!Settled
  <2>3. ~chat'.gap /\ ~R!SyncComes => chat.joined /\ ~chat.gap
    BY <1>3, <1>10 DEF R!SyncComes
  <2>4. R!Settled /\ subs.thread = rt.cur /\ ~chat'.gap /\ ~R!SyncComes =>
           \A m \in 1 .. n : m \in chat'.has \/ \E i \in 1 .. Len(chat'.wire) : chat'.wire[i] = m
    BY <1>11, <2>1, <2>3
  <2> QED BY <1>1, <1>3, <1>9, <2>1, <2>2, <2>4 DEF R!HearsAll
<1> QED BY <1>1, <1>7, <1>8, <1>12, RealtimeChatStep DEF R!IInv

\* A socket changes and tells of it.
RealtimeTold(i, v, st) ==
    /\ net' = [net EXCEPT ![i] = v]
    /\ callbacks' = Append(callbacks, [sock |-> i, status |-> st])
    /\ UNCHANGED <<rt, toks, subs, hasty>>

LEMMA RealtimeTellsFacts ==
    ASSUME R!IInv, NEW i \in DOMAIN net, NEW v \in R!Socket, NEW st \in R!Status, RealtimeTold(i, v, st)
    PROVE  /\ net' \in Seq(R!Socket) /\ Len(net') = Len(net) /\ i \in 1 .. Len(net)
           /\ \A x \in 1 .. Len(net) : net'[x] = IF x = i THEN v ELSE net[x]
           /\ rt.cur \in 1 .. Len(net)
           /\ callbacks' \in Seq(RealtimeCalls) /\ Len(callbacks) \in Nat
           /\ R!Numbers' = R!Numbers \cup {Len(callbacks) + 1} /\ \A j \in R!Numbers : Len(callbacks) + 1 > j
           /\ \A j \in R!Numbers : callbacks'[j] = callbacks[j]
           /\ callbacks'[Len(callbacks) + 1] = [sock |-> i, status |-> st]
           /\ \A j \in R!Numbers : (R!TellsUp(j)' <=> R!TellsUp(j)) /\ (R!TellsDown(j)' <=> R!TellsDown(j))
<1>1. /\ net \in Seq(R!Socket) /\ callbacks \in Seq(RealtimeCalls)
      /\ rt.cur \in Nat \ {0} /\ rt.cur =< Len(net)
  BY DEF R!IInv, R!Types, R!Bounds, RealtimeCalls
<1>2. i \in Nat /\ i \in 1 .. Len(net)
  BY <1>1
<1>3. [sock |-> i, status |-> st] \in RealtimeCalls
  BY <1>2 DEF RealtimeCalls
<1>4. /\ net' \in Seq(R!Socket) /\ Len(net') = Len(net)
      /\ \A x \in 1 .. Len(net) : net'[x] = IF x = i THEN v ELSE net[x]
  BY <1>1, <1>2 DEF RealtimeTold
<1> DEFINE c == [sock |-> i, status |-> st]
<1>5. c \in RealtimeCalls /\ callbacks' = Append(callbacks, c)
  BY <1>3 DEF RealtimeTold
<1> HIDE DEF c
<1>6. /\ callbacks' \in Seq(RealtimeCalls) /\ Len(callbacks') = Len(callbacks) + 1 /\ Len(callbacks) \in Nat
      /\ \A j \in 1 .. Len(callbacks) : callbacks'[j] = callbacks[j]
      /\ callbacks'[Len(callbacks) + 1] = c
  BY <1>1, <1>5
<1>7. /\ R!Numbers' = 1 .. Len(callbacks) + 1 /\ R!Numbers = 1 .. Len(callbacks)
      /\ R!Numbers' = R!Numbers \cup {Len(callbacks) + 1} /\ \A j \in R!Numbers : Len(callbacks) + 1 > j
  BY <1>6 DEF R!Numbers
<1>8. \A j \in R!Numbers : (R!TellsUp(j)' <=> R!TellsUp(j)) /\ (R!TellsDown(j)' <=> R!TellsDown(j))
  BY <1>6, <1>7 DEF R!TellsUp, R!TellsDown, RealtimeTold
<1> QED BY <1>1, <1>2, <1>4, <1>6, <1>7, <1>8 DEF c

\* What it tells is so, and the current socket is not given up.
LEMMA RealtimeTellsInv ==
    ASSUME R!IInv, NEW i \in DOMAIN net, NEW v \in R!Socket, NEW st \in R!Status, RealtimeTold(i, v, st),
           i = rt.cur => v \notin {"off", "closed"} /\ (st = "connected" <=> v = "open")
    PROVE  R!StatusFollows' /\ R!CurrentIsLive' /\ R!HooksFollow'
<1>0. PICK n : n = Len(callbacks) + 1
  OBVIOUS
<1>1. /\ rt.cur \in 1 .. Len(net) /\ rt' = rt
      /\ net'[rt.cur] = IF rt.cur = i THEN v ELSE net[rt.cur]
      /\ R!Numbers' = R!Numbers \cup {n} /\ \A j \in R!Numbers : n > j
      /\ callbacks'[n] = [sock |-> i, status |-> st]
      /\ \A j \in R!Numbers : (R!TellsUp(j)' <=> R!TellsUp(j)) /\ (R!TellsDown(j)' <=> R!TellsDown(j))
  <2>1. rt' = rt
    BY DEF RealtimeTold
  <2> QED BY <1>0, <2>1, RealtimeTellsFacts
<1>2. R!CurrentIsLive' /\ R!HooksFollow'
  BY <1>1 DEF RealtimeTold, R!IInv, R!CurrentIsLive, R!HooksFollow, R!Settled
<1>3. /\ R!TellsUp(n)' <=> i = rt.cur /\ st = "connected"
      /\ R!TellsDown(n)' <=> i = rt.cur /\ st # "connected"
  <2>1. callbacks'[n].sock = i /\ callbacks'[n].status = st /\ rt' = rt
    BY <1>1
  <2> QED BY <2>1 DEF R!TellsUp, R!TellsDown
<1>4. CASE i = rt.cur
  <2>1. R!Up' <=> st = "connected"
    BY <1>1, <1>4 DEF R!Up
  <2>2. (R!Up' <=> R!TellsUp(n)') /\ (~R!Up' <=> R!TellsDown(n)')
    BY <1>3, <1>4, <2>1
  <2>3. \A j \in R!Numbers' : j # n => n > j
    BY <1>1
  <2> QED BY <1>1, <1>2, <2>2, <2>3 DEF R!StatusFollows
<1>5. CASE i # rt.cur
  <2>1. R!Up' <=> R!Up
    BY <1>1, <1>5 DEF R!Up
  <2>2. ~R!TellsUp(n)' /\ ~R!TellsDown(n)'
    BY <1>3, <1>5
  <2>3. R!Numbers \subseteq R!Numbers' /\ \A j \in R!Numbers' : j \in R!Numbers \/ j = n
    BY <1>1
  <2> QED BY <1>1, <1>2, <2>1, <2>2, <2>3 DEF R!IInv, R!StatusFollows
<1> QED BY <1>4, <1>5

\* What is told of stays a socket that was made.
LEMMA RealtimeTellsBounds ==
    ASSUME R!IInv, NEW i \in DOMAIN net, NEW v \in R!Socket, NEW st \in R!Status, RealtimeTold(i, v, st)
    PROVE  \A j \in R!Numbers' : callbacks'[j].sock =< Len(net')
<1>0. PICK n : n = Len(callbacks) + 1
  OBVIOUS
<1>1. \A j \in R!Numbers : callbacks[j].sock =< Len(net)
  BY DEF R!IInv, R!Bounds
<1>2. R!Numbers' = R!Numbers \cup {n} /\ \A j \in R!Numbers : callbacks'[j] = callbacks[j]
  BY <1>0, RealtimeTellsFacts
<1>3. callbacks'[n].sock = i /\ i \in 1 .. Len(net) /\ Len(net') = Len(net)
  <2>1. callbacks'[n] = [sock |-> i, status |-> st] /\ i \in 1 .. Len(net) /\ Len(net') = Len(net)
    BY <1>0, RealtimeTellsFacts
  <2> QED BY <2>1
<1>4. \A x \in 1 .. Len(net) : x =< Len(net)
  OBVIOUS
<1> QED BY <1>1, <1>2, <1>3, <1>4

\* Where a connection is to come or to be told of, it still is.
LEMMA RealtimeTellsSync ==
    ASSUME R!IInv, NEW i \in DOMAIN net, NEW v \in R!Socket, NEW st \in R!Status, RealtimeTold(i, v, st),
           i = rt.cur => (st = "connected" <=> v = "open"),
           R!SyncComes, chat'.sync = chat.sync
    PROVE  R!SyncComes'
<1>0. PICK n : n = Len(callbacks) + 1
  OBVIOUS
<1>1. /\ rt.cur \in 1 .. Len(net) /\ rt' = rt
      /\ net'[rt.cur] = IF rt.cur = i THEN v ELSE net[rt.cur]
      /\ R!Numbers' = R!Numbers \cup {n} /\ \A j \in R!Numbers : n > j
      /\ callbacks'[n] = [sock |-> i, status |-> st]
      /\ \A j \in R!Numbers : R!TellsUp(j)' <=> R!TellsUp(j)
  <2>1. rt' = rt
    BY DEF RealtimeTold
  <2> QED BY <1>0, <2>1, RealtimeTellsFacts
<1>2. ~R!Up => ~R!Up' \/ R!TellsUp(n)'
  <2>1. callbacks'[n].sock = i /\ callbacks'[n].status = st /\ rt' = rt
    BY <1>1
  <2> QED BY <1>1, <2>1 DEF R!Up, R!TellsUp
<1>3. n \in R!Numbers' /\ n \notin R!Numbers /\ R!Numbers \subseteq R!Numbers'
  <2>1. n \notin R!Numbers
    BY <1>1 DEF R!Numbers
  <2> QED BY <1>1, <2>1
<1> QED BY <1>1, <1>2, <1>3 DEF R!SyncComes

LEMMA RealtimeOpensInv == ASSUME R!IInv, NEW i \in DOMAIN net, R!Opens(i) PROVE R!IInv'
<1>1. /\ RealtimeTold(i, "open", "connected") /\ chat' = chat /\ net[i] \in {"opening", "down"}
      /\ "open" \in R!Socket /\ "connected" \in R!Status
  BY DEF R!Opens, RealtimeTold, R!Socket, R!Status
<1>2. R!StatusFollows' /\ R!CurrentIsLive' /\ R!HooksFollow'
  BY <1>1, RealtimeTellsInv
<1>3. /\ net' \in Seq(R!Socket) /\ Len(net') = Len(net) /\ callbacks' \in Seq(RealtimeCalls)
      /\ \A x \in 1 .. Len(net) : net'[x] = IF x = i THEN "open" ELSE net[x]
  BY <1>1, RealtimeTellsFacts
<1>4. R!Types' /\ R!Bounds'
  BY <1>1, <1>3, RealtimeTellsBounds DEF RealtimeTold, R!IInv, R!Types, R!Bounds, RealtimeCalls
<1>5. R!SyncComes => R!SyncComes'
  BY <1>1, RealtimeTellsSync
<1>6. R!HearsAll'
  BY <1>1, <1>3, <1>5 DEF RealtimeTold, R!IInv, R!Bounds, R!HearsAll, R!Settled
<1> QED BY <1>2, <1>4, <1>6 DEF R!IInv

LEMMA RealtimeClosesInv == ASSUME R!IInv, NEW i \in DOMAIN net, R!ClosesLate(i) PROVE R!IInv'
<1>1. /\ RealtimeTold(i, "closed", "disconnected") /\ chat' = chat /\ net[i] = "off" /\ i # rt.cur
      /\ "closed" \in R!Socket /\ "disconnected" \in R!Status
  BY DEF R!ClosesLate, RealtimeTold, R!Socket, R!Status, R!IInv, R!CurrentIsLive
<1>2. R!StatusFollows' /\ R!CurrentIsLive' /\ R!HooksFollow'
  BY <1>1, RealtimeTellsInv
<1>3. /\ net' \in Seq(R!Socket) /\ Len(net') = Len(net) /\ callbacks' \in Seq(RealtimeCalls)
      /\ \A x \in 1 .. Len(net) : net'[x] = IF x = i THEN "closed" ELSE net[x]
  BY <1>1, RealtimeTellsFacts
<1>4. R!Types' /\ R!Bounds'
  BY <1>1, <1>3, RealtimeTellsBounds DEF RealtimeTold, R!IInv, R!Types, R!Bounds, RealtimeCalls
<1>5. R!SyncComes => R!SyncComes'
  BY <1>1, RealtimeTellsSync
<1>6. R!HearsAll'
  BY <1>1, <1>3, <1>5 DEF RealtimeTold, R!IInv, R!Bounds, R!HearsAll, R!Settled
<1> QED BY <1>2, <1>4, <1>6 DEF R!IInv

LEMMA RealtimeFailsInv == ASSUME R!IInv, NEW i \in DOMAIN net, R!Fails(i) PROVE R!IInv'
<1> DEFINE st == IF net[i] = "open" THEN "disconnected" ELSE "error"
<1>1. /\ RealtimeTold(i, "down", st) /\ net[i] \in {"opening", "open"}
      /\ chat' = IF i = subs.thread THEN [chat EXCEPT !.joined = FALSE, !.wire = <<>>] ELSE chat
      /\ "down" \in R!Socket /\ st \in R!Status /\ st # "connected"
  BY DEF R!Fails, RealtimeTold, R!Socket, R!Status
<1> HIDE DEF st
<1>2. R!StatusFollows' /\ R!CurrentIsLive' /\ R!HooksFollow'
  BY <1>1, RealtimeTellsInv
<1>3. /\ net' \in Seq(R!Socket) /\ Len(net') = Len(net) /\ callbacks' \in Seq(RealtimeCalls)
      /\ \A x \in 1 .. Len(net) : net'[x] = IF x = i THEN "down" ELSE net[x]
      /\ rt.cur \in 1 .. Len(net) /\ i \in 1 .. Len(net)
      /\ \A j \in R!Numbers : (R!TellsUp(j)' <=> R!TellsUp(j)) /\ (R!TellsDown(j)' <=> R!TellsDown(j))
      /\ R!Numbers \subseteq R!Numbers'
  BY <1>1, RealtimeTellsFacts
<1>4. chat \in RealtimeChat /\ chat' \in RealtimeChat /\ Len(<<>>) = 0
  <2>1. chat \in RealtimeChat
    BY DEF R!IInv, R!Types, RealtimeChat
  <2>2. <<>> \in Seq(Nat)
    OBVIOUS
  <2>3. [chat EXCEPT !.joined = FALSE, !.wire = <<>>] \in RealtimeChat
    BY <2>1, <2>2 DEF RealtimeChat
  <2> QED BY <1>1, <2>1, <2>3
<1>5. /\ chat'.sync = chat.sync /\ chat'.sent = chat.sent /\ chat'.has = chat.has /\ chat'.gap = chat.gap
      /\ i = subs.thread => ~chat'.joined /\ chat'.wire = <<>>
      /\ i # subs.thread => chat' = chat
  BY <1>1, <1>4 DEF RealtimeChat
<1>6. R!Types' /\ R!Bounds'
  <2>1. R!Types'
    BY <1>1, <1>3, <1>4 DEF RealtimeTold, R!IInv, R!Types, RealtimeCalls, RealtimeChat
  <2>2. \A j \in R!Numbers' : callbacks'[j].sock =< Len(net')
    BY <1>1, RealtimeTellsBounds
  <2>3. \A j \in 1 .. Len(chat'.wire) : chat'.wire[j] \in 1 .. chat'.sent
    BY <1>4, <1>5 DEF R!IInv, R!Bounds
  <2>4. UNCHANGED <<rt, subs>>
    BY <1>1 DEF RealtimeTold
  <2>5. R!Bounds'
    BY <1>3, <1>5, <2>2, <2>3, <2>4 DEF R!IInv, R!Bounds
  <2> QED BY <2>1, <2>5
<1>7. R!SyncComes => R!SyncComes'
  BY <1>1, <1>5, RealtimeTellsSync
\* The current socket was up, so that a connection was told of or will be.
<1>8. ASSUME i = rt.cur, net[i] = "open" PROVE R!SyncComes'
  <2>1. R!Up /\ ~R!Up' /\ rt' = rt
    BY <1>1, <1>3, <1>8 DEF R!Up, RealtimeTold
  <2>2. rt.ever \/ \E j \in R!Numbers : R!TellsUp(j)
    BY <2>1, RealtimeUpIsTold DEF R!IInv, R!CurrentIsLive
  <2>3. rt.ever \/ \E j \in R!Numbers' : R!TellsUp(j)'
    BY <1>3, <2>2
  <2> QED BY <2>1, <2>3 DEF R!SyncComes
<1>9. R!Settled' <=> R!Settled
  BY <1>1 DEF RealtimeTold, R!Settled
<1>10. subs' = subs /\ rt' = rt /\ subs.thread \in 1 .. Len(net)
  BY <1>1 DEF RealtimeTold, R!IInv, R!Bounds
<1>11. R!HearsAll'
  <2>1. CASE i # subs.thread
    BY <1>3, <1>5, <1>7, <1>9, <1>10, <2>1 DEF R!IInv, R!HearsAll
  <2>2. CASE i = subs.thread /\ (i # rt.cur \/ net[i] = "open")
    BY <1>5, <1>8, <1>10, <2>2 DEF R!HearsAll
  <2>3. CASE i = subs.thread /\ net[i] # "open"
    <3>1. chat.wire = <<>>
      BY <1>1, <2>3 DEF R!IInv, R!HearsAll
    <3> QED BY <1>4, <1>5, <1>7, <1>9, <1>10, <2>3, <3>1 DEF R!IInv, R!HearsAll
  <2> QED BY <2>1, <2>2, <2>3
<1> QED BY <1>2, <1>6, <1>11 DEF R!IInv

\* What was told first is dealt with, and the rest moves up.
LEMMA RealtimeTailFacts ==
    ASSUME R!IInv, callbacks # <<>>, callbacks' = Tail(callbacks), rt'.cur = rt.cur
    PROVE  /\ callbacks' \in Seq(RealtimeCalls) /\ 1 \in R!Numbers /\ Head(callbacks) = callbacks[1]
           /\ callbacks[1] \in RealtimeCalls
           /\ R!Numbers' = {j - 1 : j \in R!Numbers \ {1}}
           /\ \A j \in R!Numbers \ {1} : /\ j > 1 /\ j - 1 \in R!Numbers' /\ callbacks'[j - 1] = callbacks[j]
                                         /\ R!TellsUp(j - 1)' <=> R!TellsUp(j)
                                         /\ R!TellsDown(j - 1)' <=> R!TellsDown(j)
<1>1. callbacks \in Seq(RealtimeCalls)
  BY DEF R!IInv, R!Types, RealtimeCalls
<1>2. /\ Len(callbacks) \in Nat \ {0} /\ callbacks' \in Seq(RealtimeCalls) /\ Len(callbacks') = Len(callbacks) - 1
      /\ Head(callbacks) = callbacks[1]
      /\ \A j \in 1 .. Len(callbacks) - 1 : callbacks'[j] = callbacks[j + 1]
  BY <1>1
<1>3. /\ R!Numbers = 1 .. Len(callbacks) /\ R!Numbers' = 1 .. Len(callbacks) - 1
      /\ \A j \in R!Numbers \ {1} : j > 1 /\ j - 1 \in R!Numbers' /\ callbacks'[j - 1] = callbacks[j]
  <2>1. \A j \in 2 .. Len(callbacks) : j - 1 \in 1 .. Len(callbacks) - 1 /\ (j - 1) + 1 = j
    BY <1>2
  <2> QED BY <1>2, <2>1 DEF R!Numbers
<1>4. R!Numbers' = {j - 1 : j \in R!Numbers \ {1}}
  <2>1. \A k \in 1 .. Len(callbacks) - 1 : k + 1 \in R!Numbers \ {1} /\ k = (k + 1) - 1
    BY <1>2, <1>3
  <2> QED BY <1>3, <2>1
<1>5. \A j \in R!Numbers \ {1} : (R!TellsUp(j - 1)' <=> R!TellsUp(j)) /\ (R!TellsDown(j - 1)' <=> R!TellsDown(j))
  BY <1>3 DEF R!TellsUp, R!TellsDown
<1>6. 1 \in R!Numbers /\ callbacks[1] \in RealtimeCalls
  BY <1>1, <1>2 DEF R!Numbers
<1> QED BY <1>2, <1>3, <1>4, <1>5, <1>6

LEMMA RealtimeCallbackInv == ASSUME R!IInv, R!Callback PROVE R!IInv'
<1> DEFINE isUp == callbacks[1].status = "connected"
           mine == callbacks[1].sock = rt.cur
<1>1. /\ callbacks # <<>> /\ callbacks' = Tail(callbacks) /\ Head(callbacks) = callbacks[1]
      /\ mine => /\ rt' = [rt EXCEPT !.status = callbacks[1].status, !.ever = @ \/ isUp]
                 /\ chat' = [chat EXCEPT !.sync = @ \/ (isUp /\ rt.ever)]
      /\ ~mine => rt' = rt /\ chat' = chat
      /\ UNCHANGED <<net, toks, subs, hasty>>
  <2>1. callbacks \in Seq(RealtimeCalls) /\ callbacks # <<>>
    BY DEF R!IInv, R!Types, RealtimeCalls, R!Callback
  <2>2. Head(callbacks) = callbacks[1]
    BY <2>1
  <2> QED BY <2>2 DEF R!Callback, R!Current, R!IsReconnect
<1>2. /\ rt \in [cur: Nat \ {0}, tok: 0 .. MaxTokens, status: R!Status, ever: BOOLEAN, map: Nat]
      /\ chat \in RealtimeChat
  BY DEF R!IInv, R!Types, RealtimeChat
<1> HIDE DEF isUp, mine
<1>3. /\ rt'.cur = rt.cur /\ rt'.map = rt.map /\ rt'.tok = rt.tok
      /\ rt'.status = IF mine THEN callbacks[1].status ELSE rt.status
      /\ rt'.ever = (rt.ever \/ (mine /\ isUp))
      /\ chat'.sync = (chat.sync \/ (mine /\ isUp /\ rt.ever))
      /\ chat'.wire = chat.wire /\ chat'.sent = chat.sent /\ chat'.has = chat.has
      /\ chat'.joined = chat.joined /\ chat'.gap = chat.gap
  BY <1>1, <1>2 DEF RealtimeChat
<1>4. /\ callbacks' \in Seq(RealtimeCalls) /\ 1 \in R!Numbers /\ callbacks[1] \in RealtimeCalls
      /\ R!Numbers' = {j - 1 : j \in R!Numbers \ {1}}
      /\ \A j \in R!Numbers \ {1} : /\ j > 1 /\ j - 1 \in R!Numbers' /\ callbacks'[j - 1] = callbacks[j]
                                    /\ R!TellsUp(j - 1)' <=> R!TellsUp(j)
                                    /\ R!TellsDown(j - 1)' <=> R!TellsDown(j)
  BY <1>1, <1>3, RealtimeTailFacts
<1>5. R!Types'
  <2>1. rt' \in [cur: Nat \ {0}, tok: 0 .. MaxTokens, status: R!Status, ever: BOOLEAN, map: Nat]
    BY <1>1, <1>2, <1>4 DEF RealtimeCalls, isUp
  <2>2. chat' \in RealtimeChat
    BY <1>1, <1>2 DEF RealtimeChat, isUp
  <2> QED BY <1>1, <1>4, <2>1, <2>2 DEF R!IInv, R!Types, RealtimeCalls, RealtimeChat
<1>6. R!Bounds'
  <2>1. \A j \in R!Numbers' : callbacks'[j].sock =< Len(net)
    BY <1>4 DEF R!IInv, R!Bounds
  <2> QED BY <1>1, <1>3, <2>1 DEF R!IInv, R!Bounds
<1>7. R!CurrentIsLive' /\ R!HooksFollow'
  BY <1>1, <1>3 DEF R!IInv, R!CurrentIsLive, R!HooksFollow, R!Settled, isUp
<1>8. R!Up' <=> R!Up
  BY <1>1, <1>3 DEF R!Up
<1>9. (R!TellsUp(1) <=> mine /\ isUp) /\ (R!TellsDown(1) <=> mine /\ ~isUp)
  BY DEF R!TellsUp, R!TellsDown, mine, isUp
<1>10. \A j \in R!Numbers : R!Numbers \subseteq Int
  BY DEF R!Numbers
\* What is told later than the first is told of the rest.
<1>11. /\ \A i \in R!Numbers : (\E j \in R!Numbers : j > i /\ R!TellsUp(j)) => \E k \in R!Numbers' : k > i - 1 /\ R!TellsUp(k)'
       /\ \A i \in R!Numbers : (\E j \in R!Numbers : j > i /\ R!TellsDown(j)) => \E k \in R!Numbers' : k > i - 1 /\ R!TellsDown(k)'
  <2>1. \A i, j \in R!Numbers : j > i => j # 1 /\ j - 1 > i - 1
    BY DEF R!Numbers
  <2> QED BY <1>4, <2>1
<1>12. \A i \in R!Numbers' : \E j \in R!Numbers \ {1} : i = j - 1
  BY <1>4
<1>13. R!StatusFollows'
  <2>1. ASSUME R!Up, rt'.status # "connected" PROVE \E k \in R!Numbers' : R!TellsUp(k)'
    <3>1. CASE mine
      <4>1. R!TellsDown(1)
        BY <1>3, <1>9, <2>1, <3>1 DEF isUp
      <4> QED BY <1>4, <1>11, <2>1, <4>1 DEF R!IInv, R!StatusFollows
    <3>2. CASE ~mine
      <4>1. PICK j \in R!Numbers : R!TellsUp(j)
        BY <1>3, <2>1, <3>2 DEF R!IInv, R!StatusFollows
      <4> QED BY <1>4, <1>9, <3>2, <4>1
    <3> QED BY <3>1, <3>2
  <2>2. ASSUME ~R!Up, rt'.status = "connected" PROVE \E k \in R!Numbers' : R!TellsDown(k)'
    <3>1. CASE mine
      <4>1. R!TellsUp(1)
        BY <1>3, <1>9, <2>2, <3>1 DEF isUp
      <4> QED BY <1>4, <1>11, <2>2, <4>1 DEF R!IInv, R!StatusFollows
    <3>2. CASE ~mine
      <4>1. PICK j \in R!Numbers : R!TellsDown(j)
        BY <1>3, <2>2, <3>2 DEF R!IInv, R!StatusFollows
      <4> QED BY <1>4, <1>9, <3>2, <4>1
    <3> QED BY <3>1, <3>2
  <2>3. ASSUME NEW i \in R!Numbers'
        PROVE  /\ R!Up /\ R!TellsDown(i)' => \E k \in R!Numbers' : k > i /\ R!TellsUp(k)'
               /\ ~R!Up /\ R!TellsUp(i)' => \E k \in R!Numbers' : k > i /\ R!TellsDown(k)'
    <3>1. PICK j \in R!Numbers \ {1} : i = j - 1
      BY <1>12
    <3>2. (R!TellsUp(i)' <=> R!TellsUp(j)) /\ (R!TellsDown(i)' <=> R!TellsDown(j))
      BY <1>4, <3>1
    <3> QED BY <1>11, <3>1, <3>2 DEF R!IInv, R!StatusFollows
  <2> QED BY <1>8, <2>1, <2>2, <2>3 DEF R!StatusFollows
<1>14. R!SyncComes => R!SyncComes'
  <2>1. CASE chat.sync
    BY <1>3, <2>1 DEF R!SyncComes
  <2>2. CASE rt.ever /\ ~R!Up
    BY <1>3, <1>8, <2>2 DEF R!SyncComes
  <2>3. ASSUME NEW i \in R!Numbers, R!TellsUp(i), rt.ever \/ ~R!Up \/ \E j \in R!Numbers \ {i} : R!TellsUp(j)
        PROVE  R!SyncComes'
    <3>1. CASE i # 1
      <4>1. i - 1 \in R!Numbers' /\ R!TellsUp(i - 1)'
        BY <1>4, <2>3, <3>1
      <4>2. CASE rt.ever \/ ~R!Up
        BY <1>3, <1>8, <4>1, <4>2 DEF R!SyncComes
      <4>3. ASSUME NEW j \in R!Numbers \ {i}, R!TellsUp(j) PROVE R!SyncComes'
        <5>1. CASE j = 1
          BY <1>3, <1>9, <4>1, <4>3, <5>1 DEF R!SyncComes
        <5>2. CASE j # 1
          <6>1. j - 1 \in R!Numbers' \ {i - 1} /\ R!TellsUp(j - 1)'
            <7>1. j - 1 # i - 1
              BY <4>3 DEF R!Numbers
            <7> QED BY <1>4, <4>3, <5>2, <7>1
          <6> QED BY <4>1, <6>1 DEF R!SyncComes
        <5> QED BY <5>1, <5>2
      <4> QED BY <2>3, <4>2, <4>3
    <3>2. CASE i = 1
      <4>1. mine /\ isUp /\ rt'.ever
        BY <1>3, <1>9, <2>3, <3>2
      <4>2. CASE rt.ever \/ ~R!Up
        BY <1>3, <1>8, <4>1, <4>2 DEF R!SyncComes
      <4>3. ASSUME NEW j \in R!Numbers \ {i}, R!TellsUp(j) PROVE R!SyncComes'
        <5>1. j - 1 \in R!Numbers' /\ R!TellsUp(j - 1)'
          BY <1>4, <3>2, <4>3
        <5> QED BY <4>1, <5>1 DEF R!SyncComes
      <4> QED BY <2>3, <4>2, <4>3
    <3> QED BY <3>1, <3>2
  <2> QED BY <2>1, <2>2, <2>3 DEF R!SyncComes
<1>15. R!HearsAll'
  BY <1>1, <1>3, <1>14 DEF R!IInv, R!HearsAll, R!Settled
<1> QED BY <1>5, <1>6, <1>7, <1>13, <1>15 DEF R!IInv

-----------------------------------------------------------------------------
RealtimeSockets == [cur: Nat, tok: 0 .. MaxTokens, status: R!Status, ever: BOOLEAN, map: Nat]

\* The current socket stays ...
RealtimeStays(s, e) ==
    /\ e.net = s.net /\ e.rt.cur = s.rt.cur /\ e.rt.status = s.rt.status /\ e.rt.ever = s.rt.ever
    /\ s.rt.cur # 0

\* ... or is given up for another.
RealtimeMakes(s, e) ==
    /\ e.rt.cur = Len(s.net) + 1 /\ e.rt.status = "connecting" /\ e.rt.ever = s.rt.ever
    /\ Len(e.net) = Len(s.net) + 1 /\ e.net[Len(s.net) + 1] = "opening"
    /\ \A x \in 1 .. Len(s.net) : e.net[x] = IF x = s.rt.cur THEN "off" ELSE s.net[x]

LEMMA RealtimeSocketFacts ==
    ASSUME NEW s, s.rt \in RealtimeSockets, s.net \in Seq(R!Socket), NEW t \in 1 .. MaxTokens,
           s = [rt |-> s.rt, net |-> s.net]
    PROVE  LET e == R!EnsureSocket(s, t) IN
           /\ e.rt \in RealtimeSockets /\ e.net \in Seq(R!Socket) /\ e = [rt |-> e.rt, net |-> e.net]
           /\ \/ /\ RealtimeStays(s, e) /\ e.rt.map = s.rt.map
                 /\ s.rt.tok = t \/ s.rt.status = "connected"
              \/ /\ RealtimeMakes(s, e) /\ e.rt.map = 0
                 /\ s.rt.cur = 0 \/ (s.rt.tok # t /\ s.rt.status # "connected")
<1> DEFINE e == R!EnsureSocket(s, t)
<1>1. CASE s.rt.cur # 0 /\ s.rt.tok = t
  <2>1. e = s
    BY <1>1 DEF R!EnsureSocket
  <2> QED BY <1>1, <2>1 DEF RealtimeStays
<1>2. CASE s.rt.cur # 0 /\ s.rt.tok # t /\ s.rt.status = "connected"
  <2>1. e = [s EXCEPT !.rt.tok = t]
    BY <1>2 DEF R!EnsureSocket, R!KeepAlive
  <2>2. e.rt = [s.rt EXCEPT !.tok = t] /\ e.net = s.net /\ e = [rt |-> e.rt, net |-> e.net]
    BY <2>1
  <2> HIDE DEF e
  <2>3. e.rt \in RealtimeSockets /\ e.rt.cur = s.rt.cur /\ e.rt.status = s.rt.status /\ e.rt.ever = s.rt.ever
        /\ e.rt.map = s.rt.map
    BY <2>2 DEF RealtimeSockets
  <2> QED BY <1>2, <2>2, <2>3 DEF RealtimeStays, e
<1>3. CASE ~(s.rt.cur # 0 /\ s.rt.tok = t) /\ ~(s.rt.cur # 0 /\ s.rt.tok # t /\ s.rt.status = "connected")
  <2> DEFINE n == Len(s.net) + 1
             old == [i \in DOMAIN s.net |-> IF i = s.rt.cur THEN "off" ELSE s.net[i]]
             r == [s.rt EXCEPT !.cur = n, !.tok = t, !.status = "connecting", !.map = 0]
  <2>1. e = [rt |-> r, net |-> Append(old, "opening")]
    BY <1>3 DEF R!EnsureSocket, R!KeepAlive
  <2>2. old \in Seq(R!Socket) /\ Len(old) = Len(s.net) /\ n \in Nat
        /\ \A x \in 1 .. Len(s.net) : old[x] = IF x = s.rt.cur THEN "off" ELSE s.net[x]
    BY DEF R!Socket
  <2>3. r \in RealtimeSockets /\ r.cur = n /\ r.status = "connecting" /\ r.ever = s.rt.ever /\ r.map = 0
    <3>1. n \in Nat /\ t \in 0 .. MaxTokens
      BY <2>2, RealtimeAssumption
    <3> HIDE DEF n
    <3> QED BY <3>1 DEF RealtimeSockets, R!Status
  <2> HIDE DEF e, old, r
  <2>4. e.rt = r /\ e.net = Append(old, "opening") /\ e = [rt |-> e.rt, net |-> e.net]
    BY <2>1
  <2>5. /\ e.net \in Seq(R!Socket) /\ Len(e.net) = Len(s.net) + 1 /\ e.net[Len(s.net) + 1] = "opening"
        /\ \A x \in 1 .. Len(s.net) : e.net[x] = old[x]
    BY <2>2, <2>4 DEF R!Socket
  <2>6. RealtimeMakes(s, e)
    BY <2>2, <2>3, <2>4, <2>5 DEF RealtimeMakes
  <2> QED BY <1>3, <2>3, <2>4, <2>5, <2>6 DEF e
<1> QED BY <1>1, <1>2, <1>3

LEMMA RealtimeChannelFacts ==
    ASSUME NEW s, s.rt \in RealtimeSockets, s.net \in Seq(R!Socket), NEW t \in 1 .. MaxTokens,
           s = [rt |-> s.rt, net |-> s.net]
    PROVE  LET e == R!EnsureChat(s, t) IN
           /\ e.rt \in RealtimeSockets /\ e.net \in Seq(R!Socket)
           /\ e.rt.map = e.rt.cur
           /\ RealtimeStays(s, e) \/ RealtimeMakes(s, e)
<1> DEFINE d == R!EnsureSocket(s, t)
           e == R!EnsureChat(s, t)
<1>1. CASE s.rt.map # 0 /\ s.rt.map = s.rt.cur
  <2>1. e = s
    BY <1>1 DEF R!EnsureChat
  <2> QED BY <1>1, <2>1 DEF RealtimeStays
<1>2. CASE ~(s.rt.map # 0 /\ s.rt.map = s.rt.cur)
  <2>1. e = [d EXCEPT !.rt.map = d.rt.cur]
    BY <1>2 DEF R!EnsureChat
  <2>2. /\ d.rt \in RealtimeSockets /\ d.net \in Seq(R!Socket) /\ d = [rt |-> d.rt, net |-> d.net]
        /\ RealtimeStays(s, d) \/ RealtimeMakes(s, d)
    BY RealtimeSocketFacts
  <2> HIDE DEF e, d
  <2>3. e.rt = [d.rt EXCEPT !.map = d.rt.cur] /\ e.net = d.net
    BY <2>1, <2>2
  <2>4. /\ e.rt \in RealtimeSockets /\ e.rt.map = e.rt.cur /\ e.rt.cur = d.rt.cur
        /\ e.rt.status = d.rt.status /\ e.rt.ever = d.rt.ever
    BY <2>2, <2>3 DEF RealtimeSockets
  <2>5. RealtimeStays(s, e) \/ RealtimeMakes(s, e)
    BY <2>2, <2>3, <2>4 DEF RealtimeStays, RealtimeMakes
  <2> QED BY <2>2, <2>3, <2>4, <2>5 DEF e
<1> QED BY <1>1, <1>2

LEMMA RealtimeSocksAreNumbers == ASSUME R!IInv PROVE \A i \in R!Numbers : callbacks[i].sock \in Nat
<1>1. \A i \in R!Numbers : callbacks[i] \in RealtimeCalls
  <2>1. callbacks \in Seq(RealtimeCalls) /\ R!Numbers = 1 .. Len(callbacks)
    BY DEF R!IInv, R!Types, R!Numbers, RealtimeCalls
  <2> QED BY <2>1
<1> QED BY <1>1 DEF RealtimeCalls

\* A render leaves what is told alone: it is not of a socket just made.
LEMMA RealtimeRendersInv ==
    ASSUME R!IInv, NEW e, e.rt \in RealtimeSockets, e.net \in Seq(R!Socket), RealtimeStays(R!Here, e) \/ RealtimeMakes(R!Here, e),
           rt' = e.rt, net' = e.net, callbacks' = callbacks
    PROVE  /\ R!StatusFollows' /\ rt'.cur \in 1 .. Len(net') /\ net'[rt'.cur] \notin {"off", "closed"}
           /\ rt'.status = "connected" => rt'.ever
           /\ Len(net) \in Nat /\ Len(net) =< Len(net') /\ R!Numbers' = R!Numbers
           /\ \A x \in 1 .. Len(net) : net'[x] \in {net[x], "off"}
<1>1. /\ rt.cur \in 1 .. Len(net) /\ net \in Seq(R!Socket) /\ Len(net) \in Nat
      /\ net[rt.cur] \notin {"off", "closed"}
      /\ rt.status = "connected" => rt.ever
      /\ \A i \in R!Numbers : callbacks[i].sock =< Len(net)
  BY DEF R!IInv, R!Types, R!Bounds, R!CurrentIsLive
<1>2. R!Numbers' = R!Numbers
  BY DEF R!Numbers
<1>3. R!Here.rt = rt /\ R!Here.net = net
  BY DEF R!Here
<1>4. CASE RealtimeStays(R!Here, e)
  <2>1. rt'.cur = rt.cur /\ rt'.status = rt.status /\ rt'.ever = rt.ever /\ net' = net
    BY <1>3, <1>4 DEF RealtimeStays
  <2>2. R!StatusFollows'
    BY <1>2, <2>1 DEF R!IInv, R!StatusFollows, R!TellsUp, R!TellsDown, R!Up
  <2>3. \A x \in 1 .. Len(net) : net'[x] \in {net[x], "off"}
    BY <2>1
  <2>4. Len(net) =< Len(net') /\ rt'.cur \in 1 .. Len(net')
    BY <1>1, <2>1
  <2> QED BY <1>1, <1>2, <2>1, <2>2, <2>3, <2>4
<1>5. CASE RealtimeMakes(R!Here, e)
  <2>1. /\ rt'.cur = Len(net) + 1 /\ rt'.status = "connecting" /\ rt'.ever = rt.ever
        /\ Len(net') = Len(net) + 1 /\ net'[Len(net) + 1] = "opening"
        /\ \A x \in 1 .. Len(net) : net'[x] = IF x = rt.cur THEN "off" ELSE net[x]
    BY <1>3, <1>5 DEF RealtimeMakes
  <2>2. \A i \in R!Numbers : callbacks'[i].sock # rt'.cur
    <3>1. \A i \in R!Numbers : callbacks[i].sock \in Nat
      BY RealtimeSocksAreNumbers
    <3> QED BY <1>1, <2>1, <3>1
  <2>3. ~R!Up' /\ \A i \in R!Numbers : ~R!TellsUp(i)' /\ ~R!TellsDown(i)'
    BY <2>1, <2>2 DEF R!Up, R!TellsUp, R!TellsDown
  <2>4. R!StatusFollows'
    BY <1>2, <2>1, <2>3 DEF R!StatusFollows
  <2>5. rt'.cur \in 1 .. Len(net') /\ net'[rt'.cur] = "opening" /\ Len(net) =< Len(net')
    BY <1>1, <2>1
  <2>6. \A x \in 1 .. Len(net) : net'[x] \in {net[x], "off"}
    BY <2>1
  <2> QED BY <1>1, <1>2, <2>1, <2>4, <2>5, <2>6
<1> QED BY <1>4, <1>5

LEMMA RealtimeRefreshInv == ASSUME R!IInv, R!Refresh PROVE R!IInv'
<1> DEFINE t == toks.scope + 1
           s == R!EnsureChat(R!Here, t)
<1>1. /\ toks.ctx = toks.scope /\ t \in 1 .. MaxTokens /\ toks' = [toks EXCEPT !.scope = t]
      /\ toks \in [scope: 1 .. MaxTokens, ctx: 1 .. MaxTokens]
  BY RealtimeAssumption DEF R!Refresh, R!IInv, R!Types
<1>2. toks'.scope = t /\ toks'.ctx # t /\ toks' \in [scope: 1 .. MaxTokens, ctx: 1 .. MaxTokens]
  BY <1>1
<1>3. /\ rt' = s.rt /\ net' = s.net /\ subs' = [subs EXCEPT !.typing = s.rt.map]
      /\ UNCHANGED <<callbacks, chat, hasty>>
  BY <1>1, <1>2 DEF R!Refresh, R!Renders
<1>4. /\ s.rt \in RealtimeSockets /\ s.net \in Seq(R!Socket) /\ s.rt.map = s.rt.cur
      /\ RealtimeStays(R!Here, s) \/ RealtimeMakes(R!Here, s)
  <2>1. R!Here.rt \in RealtimeSockets /\ R!Here.net \in Seq(R!Socket) /\ R!Here = [rt |-> R!Here.rt, net |-> R!Here.net]
    BY DEF R!IInv, R!Types, RealtimeSockets, R!Here
  <2> QED BY <1>1, <2>1, RealtimeChannelFacts
<1> HIDE DEF s, t
<1>5. /\ R!StatusFollows' /\ rt'.cur \in 1 .. Len(net') /\ net'[rt'.cur] \notin {"off", "closed"}
      /\ rt'.status = "connected" => rt'.ever
      /\ Len(net) \in Nat /\ Len(net) =< Len(net') /\ R!Numbers' = R!Numbers
      /\ \A x \in 1 .. Len(net) : net'[x] \in {net[x], "off"}
  BY <1>3, <1>4, RealtimeRendersInv
<1>6. rt'.cur \in Nat \ {0} /\ rt' \in RealtimeSockets /\ net' \in Seq(R!Socket) /\ rt'.map = rt'.cur
  BY <1>3, <1>4, <1>5 DEF RealtimeSockets
<1>7. /\ subs' \in [thread: Nat, call: Nat, typing: Nat, presence: Nat]
      /\ subs'.thread = subs.thread /\ subs'.call = subs.call /\ subs'.presence = subs.presence
      /\ subs'.typing = rt'.cur
  BY <1>3, <1>4, <1>6 DEF R!IInv, R!Types
<1>8. R!Types'
  BY <1>2, <1>3, <1>6, <1>7 DEF R!IInv, R!Types, RealtimeSockets
<1>9. R!Bounds'
  <2>1. Len(net') \in Nat /\ \A x \in Nat : x =< Len(net) => x =< Len(net')
    BY <1>5, <1>6
  <2>2. \A i \in R!Numbers : callbacks[i].sock =< Len(net')
    <3>1. \A i \in R!Numbers : callbacks[i].sock \in Nat
      BY RealtimeSocksAreNumbers
    <3> QED BY <2>1, <3>1 DEF R!IInv, R!Bounds
  <2> QED BY <1>3, <1>5, <1>7, <2>1, <2>2 DEF R!IInv, R!Bounds
<1>10. ~R!Settled'
  BY <1>2 DEF R!Settled
<1>11. R!CurrentIsLive' /\ R!HooksFollow'
  BY <1>5, <1>6, <1>7, <1>10 DEF R!CurrentIsLive, R!HooksFollow
<1>12. R!HearsAll'
  BY <1>3, <1>5, <1>7, <1>10 DEF R!IInv, R!Bounds, R!HearsAll
<1> QED BY <1>5, <1>8, <1>9, <1>11, <1>12 DEF R!IInv

LEMMA RealtimeSwitchInv == ASSUME R!IInv, R!Switch PROVE R!IInv'
<1> DEFINE t == toks.scope + 1
           g == [rt  |-> [rt EXCEPT !.cur = 0, !.tok = 0, !.status = "disconnected", !.map = 0],
                 net |-> [i \in DOMAIN net |-> IF i = rt.cur THEN "off" ELSE net[i]]]
           s == R!EnsureChat(g, t)
<1>1. /\ toks.ctx = toks.scope /\ t \in 1 .. MaxTokens /\ toks' = [toks EXCEPT !.scope = t]
      /\ toks \in [scope: 1 .. MaxTokens, ctx: 1 .. MaxTokens]
  BY RealtimeAssumption DEF R!Switch, R!IInv, R!Types
<1>2. toks'.scope = t /\ toks'.ctx # t /\ toks' \in [scope: 1 .. MaxTokens, ctx: 1 .. MaxTokens]
  BY <1>1
<1>3. /\ rt' = s.rt /\ net' = s.net /\ subs' = [subs EXCEPT !.typing = s.rt.map, !.presence = 0]
      /\ chat' = [R!OpenChat EXCEPT !.sync = FALSE] /\ hasty' = FALSE /\ callbacks' = callbacks
  BY <1>1, <1>2 DEF R!Switch, R!Renders
<1>4. /\ g.rt \in RealtimeSockets /\ g.rt.cur = 0 /\ g.rt.ever = rt.ever /\ g = [rt |-> g.rt, net |-> g.net]
      /\ g.net \in Seq(R!Socket) /\ Len(g.net) = Len(net)
      /\ \A x \in 1 .. Len(net) : g.net[x] = IF x = rt.cur THEN "off" ELSE net[x]
  <2>1. /\ rt \in [cur: Nat \ {0}, tok: 0 .. MaxTokens, status: R!Status, ever: BOOLEAN, map: Nat]
        /\ net \in Seq(R!Socket)
    BY DEF R!IInv, R!Types
  <2>2. g.rt = [rt EXCEPT !.cur = 0, !.tok = 0, !.status = "disconnected", !.map = 0]
    OBVIOUS
  <2>3. g.net = [i \in DOMAIN net |-> IF i = rt.cur THEN "off" ELSE net[i]]
    OBVIOUS
  <2>4. g = [rt |-> g.rt, net |-> g.net]
    BY <2>2, <2>3
  <2> HIDE DEF g
  <2>5. g.rt \in RealtimeSockets /\ g.rt.cur = 0 /\ g.rt.ever = rt.ever
    <3>1. 0 \in 0 .. MaxTokens /\ "disconnected" \in R!Status
      BY RealtimeAssumption DEF R!Status
    <3>2. rt \in RealtimeSockets
      BY <2>1 DEF RealtimeSockets
    <3>3. g.rt \in RealtimeSockets
      <4>1. rt.ever \in BOOLEAN
        BY <3>2 DEF RealtimeSockets
      <4>2. g.rt = [cur |-> 0, tok |-> 0, status |-> "disconnected", ever |-> rt.ever, map |-> 0]
        BY <2>2, <3>2 DEF RealtimeSockets
      <4> QED BY <3>1, <4>1, <4>2 DEF RealtimeSockets
    <3> QED BY <2>2, <3>2, <3>3 DEF RealtimeSockets
  <2>6. /\ g.net \in Seq(R!Socket) /\ Len(g.net) = Len(net)
        /\ \A x \in 1 .. Len(net) : g.net[x] = IF x = rt.cur THEN "off" ELSE net[x]
    BY <2>1, <2>3 DEF R!Socket
  <2> QED BY <2>4, <2>5, <2>6
<1> HIDE DEF g
<1>5. /\ s.rt \in RealtimeSockets /\ s.net \in Seq(R!Socket) /\ s.rt.map = s.rt.cur
      /\ RealtimeStays(g, s) \/ RealtimeMakes(g, s)
  BY <1>1, <1>4, RealtimeChannelFacts
<1> HIDE DEF s, t
<1>6. RealtimeMakes(R!Here, s)
  <2>1. R!Here.rt = rt /\ R!Here.net = net /\ RealtimeMakes(g, s)
    BY <1>4, <1>5 DEF R!Here, RealtimeStays
  <2>2. \A x \in 1 .. Len(net) : x # 0
    BY DEF R!IInv, R!Types
  <2> QED BY <1>4, <2>1, <2>2 DEF RealtimeMakes
<1>7. /\ R!StatusFollows' /\ rt'.cur \in 1 .. Len(net') /\ net'[rt'.cur] \notin {"off", "closed"}
      /\ rt'.status = "connected" => rt'.ever
      /\ Len(net) \in Nat /\ Len(net) =< Len(net') /\ R!Numbers' = R!Numbers
  BY <1>3, <1>5, <1>6, RealtimeRendersInv
<1>8. rt'.cur \in Nat \ {0} /\ rt' \in RealtimeSockets /\ net' \in Seq(R!Socket) /\ rt'.map = rt'.cur
  BY <1>3, <1>5, <1>7 DEF RealtimeSockets
<1>9. /\ subs' \in [thread: Nat, call: Nat, typing: Nat, presence: Nat]
      /\ subs'.thread = subs.thread /\ subs'.call = subs.call /\ subs'.presence = 0
      /\ subs'.typing = rt'.cur
  BY <1>3, <1>5, <1>8 DEF R!IInv, R!Types
<1>10. chat' \in RealtimeChat /\ ~chat'.joined /\ chat'.wire = <<>> /\ chat'.has = {} /\ chat'.sent = 0
       /\ Len(<<>>) = 0
  <2>1. /\ R!OpenChat \in RealtimeChat /\ ~R!OpenChat.joined /\ R!OpenChat.wire = <<>> /\ R!OpenChat.has = {}
        /\ R!OpenChat.sent = 0
    BY DEF RealtimeChat, R!OpenChat
  <2> QED BY <1>3, <2>1 DEF RealtimeChat
<1>11. R!Types'
  BY <1>2, <1>3, <1>8, <1>9, <1>10 DEF R!IInv, R!Types, RealtimeSockets, RealtimeChat
<1>12. R!Bounds'
  <2>1. Len(net') \in Nat /\ \A x \in Nat : x =< Len(net) => x =< Len(net')
    BY <1>7, <1>8
  <2>2. \A i \in R!Numbers : callbacks[i].sock =< Len(net')
    <3>1. \A i \in R!Numbers : callbacks[i].sock \in Nat
      BY RealtimeSocksAreNumbers
    <3> QED BY <2>1, <3>1 DEF R!IInv, R!Bounds
  <2> QED BY <1>3, <1>7, <1>9, <1>10, <2>1, <2>2 DEF R!IInv, R!Bounds
<1>13. ~R!Settled'
  BY <1>2 DEF R!Settled
<1>14. R!CurrentIsLive' /\ R!HooksFollow'
  BY <1>7, <1>8, <1>9, <1>13 DEF R!CurrentIsLive, R!HooksFollow
<1>15. R!HearsAll'
  BY <1>10, <1>13 DEF R!HearsAll
<1> QED BY <1>7, <1>11, <1>12, <1>14, <1>15 DEF R!IInv

LEMMA RealtimeRerenderInv == ASSUME R!IInv, R!Rerender PROVE R!IInv'
<1> DEFINE t == toks.scope
           e == R!EnsureSocket(R!Here, t)
<1>1. /\ toks.ctx # t /\ t \in 1 .. MaxTokens /\ toks' = [toks EXCEPT !.ctx = t]
      /\ toks \in [scope: 1 .. MaxTokens, ctx: 1 .. MaxTokens]
      /\ rt.map = rt.cur /\ subs.typing = rt.cur /\ rt.cur # 0
  BY DEF R!Rerender, R!IInv, R!Types, R!CurrentIsLive, R!Settled
<1>2. toks'.scope = t /\ toks'.ctx = t /\ toks' \in [scope: 1 .. MaxTokens, ctx: 1 .. MaxTokens]
  BY <1>1
\* The module's channel is on the current socket, so that it is used again.
<1>3. R!EnsureChat(R!Here, t) = R!Here /\ R!Here.rt = rt /\ R!Here.net = net
  BY <1>1 DEF R!EnsureChat, R!Here
<1>4. /\ rt' = e.rt /\ net' = e.net /\ subs' = [subs EXCEPT !.thread = rt.cur, !.call = e.rt.cur]
      /\ chat' = [R!Heard(e, rt.cur) EXCEPT !.sync = TRUE]
      /\ hasty' = (hasty \/ (rt.tok # t /\ rt.status # "connected"))
      /\ callbacks' = callbacks
  BY <1>1, <1>3 DEF R!Rerender, R!Renders
<1>5. /\ e.rt \in RealtimeSockets /\ e.net \in Seq(R!Socket)
      /\ \/ /\ RealtimeStays(R!Here, e) /\ e.rt.map = rt.map
            /\ rt.tok = t \/ rt.status = "connected"
         \/ /\ RealtimeMakes(R!Here, e) /\ e.rt.map = 0
            /\ rt.cur = 0 \/ (rt.tok # t /\ rt.status # "connected")
  <2>1. R!Here.rt \in RealtimeSockets /\ R!Here.net \in Seq(R!Socket) /\ R!Here = [rt |-> R!Here.rt, net |-> R!Here.net]
    BY DEF R!IInv, R!Types, RealtimeSockets, R!Here
  <2> QED BY <1>1, <1>3, <2>1, RealtimeSocketFacts
<1> HIDE DEF e, t
<1>6. /\ R!StatusFollows' /\ rt'.cur \in 1 .. Len(net') /\ net'[rt'.cur] \notin {"off", "closed"}
      /\ rt'.status = "connected" => rt'.ever
      /\ Len(net) \in Nat /\ Len(net) =< Len(net') /\ R!Numbers' = R!Numbers
      /\ \A x \in 1 .. Len(net) : net'[x] \in {net[x], "off"}
  BY <1>4, <1>5, RealtimeRendersInv
<1>7. /\ rt'.cur \in Nat \ {0} /\ rt' \in RealtimeSockets /\ net' \in Seq(R!Socket)
      /\ rt.cur \in 1 .. Len(net) /\ rt.cur \in Nat
  <2>1. rt' \in RealtimeSockets /\ net' \in Seq(R!Socket)
    BY <1>4, <1>5
  <2>2. rt.cur \in 1 .. Len(net) /\ rt.cur \in Nat
    BY DEF R!IInv, R!Types, R!Bounds
  <2>3. rt'.cur \in Nat \ {0}
    BY <1>6, <2>1 DEF RealtimeSockets
  <2> QED BY <2>1, <2>2, <2>3
<1>8. /\ rt'.map \in {0, rt'.cur} /\ hasty' \in BOOLEAN
      /\ ~hasty' => rt'.cur = rt.cur
  BY <1>1, <1>3, <1>4, <1>5 DEF RealtimeStays, R!IInv, R!Types
<1>9. /\ subs' \in [thread: Nat, call: Nat, typing: Nat, presence: Nat]
      /\ subs'.thread = rt.cur /\ subs'.call = rt'.cur /\ subs'.presence = subs.presence
      /\ subs'.typing = rt.cur
  BY <1>1, <1>4, <1>7 DEF R!IInv, R!Types
<1>10. /\ chat' \in RealtimeChat /\ chat'.sync = TRUE /\ chat'.sent = chat.sent /\ chat'.has = chat.has
       /\ \/ ~chat'.joined /\ chat'.wire = <<>>
          \/ /\ chat'.joined = chat.joined /\ chat'.wire = chat.wire
             /\ net'[rt.cur] # "off" /\ subs.thread = rt.cur
  <2>1. chat \in RealtimeChat
    BY DEF R!IInv, R!Types, RealtimeChat
  <2>2. CASE e.net[rt.cur] = "off" \/ rt.cur # subs.thread
    <3>1. R!Heard(e, rt.cur) = [chat EXCEPT !.joined = FALSE, !.wire = <<>>]
      BY <2>2 DEF R!Heard
    <3>2. <<>> \in Seq(Nat)
      OBVIOUS
    <3> QED BY <1>4, <2>1, <3>1, <3>2 DEF RealtimeChat
  <2>3. CASE e.net[rt.cur] # "off" /\ rt.cur = subs.thread
    <3>1. R!Heard(e, rt.cur) = chat
      BY <2>3 DEF R!Heard
    <3> QED BY <1>4, <2>1, <2>3, <3>1 DEF RealtimeChat
  <2> QED BY <2>2, <2>3
<1>11. R!Types'
  BY <1>2, <1>4, <1>7, <1>8, <1>9, <1>10 DEF R!IInv, R!Types, RealtimeSockets, RealtimeChat
<1>12. R!Bounds'
  <2>1. Len(net') \in Nat /\ \A x \in Nat : x =< Len(net) => x =< Len(net')
    BY <1>6, <1>7
  <2>2. \A i \in R!Numbers : callbacks[i].sock =< Len(net')
    <3>1. \A i \in R!Numbers : callbacks[i].sock \in Nat
      BY RealtimeSocksAreNumbers
    <3> QED BY <2>1, <3>1 DEF R!IInv, R!Bounds
  <2>3. \A j \in 1 .. Len(chat'.wire) : chat'.wire[j] \in 1 .. chat'.sent
    BY <1>10 DEF R!IInv, R!Bounds
  <2>4. chat'.has \subseteq 1 .. chat'.sent /\ subs.presence \in 0 .. Len(net)
    BY <1>10 DEF R!IInv, R!Bounds
  <2> QED BY <1>4, <1>6, <1>7, <1>9, <2>1, <2>2, <2>3, <2>4 DEF R!Bounds
<1>13. R!Settled'
  BY <1>2 DEF R!Settled
<1>14. R!CurrentIsLive' /\ R!HooksFollow'
  BY <1>6, <1>8, <1>9, <1>13 DEF R!CurrentIsLive, R!HooksFollow
<1>15. R!HearsAll'
  <2>1. R!SyncComes'
    BY <1>10 DEF R!SyncComes
  <2>2. chat'.joined => net'[subs'.thread] \in {"open", "off", "closed"}
    <3> SUFFICES ASSUME chat'.joined PROVE net'[rt.cur] \in {"open", "off", "closed"}
      BY <1>9
    <3>1. chat.joined /\ net'[rt.cur] # "off" /\ subs.thread = rt.cur
      BY <1>10
    <3>2. net[rt.cur] \in {"open", "off", "closed"} /\ net'[rt.cur] \in {net[rt.cur], "off"}
      BY <1>6, <1>7, <3>1 DEF R!IInv, R!HearsAll
    <3> QED BY <3>2
  <2>3. ~chat'.joined => chat'.wire = <<>>
    BY <1>10 DEF R!IInv, R!HearsAll
  <2> QED BY <2>1, <2>2, <2>3 DEF R!HearsAll
<1> QED BY <1>6, <1>11, <1>12, <1>14, <1>15 DEF R!IInv

LEMMA RealtimeNext == ASSUME R!IInv, R!Next \/ UNCHANGED R!rtVars PROVE R!IInv'
  BY RealtimeRest, RealtimeOpensInv, RealtimeFailsInv, RealtimeClosesInv, RealtimeCallbackInv, RealtimeRefreshInv, RealtimeSwitchInv, RealtimeRerenderInv, RealtimeJoinsInv,
     RealtimeSentInv, RealtimePushedInv, RealtimeSyncsInv
     DEF R!Next

LEMMA RealtimePromises == ASSUME R!IInv PROVE R!TypeOK /\ R!HooksFollow /\ R!StatusIsSockets /\ R!CaughtUp
<1>1. R!TypeOK
  <2>1. rt.cur \in 0 .. Len(net) /\ rt.map \in 0 .. Len(net) /\ Len(net) \in Nat
    BY DEF R!IInv, R!Types, R!Bounds, R!CurrentIsLive
  <2>2. \A h \in DOMAIN subs : subs[h] \in 0 .. Len(net)
    <3>1. DOMAIN subs = {"thread", "call", "typing", "presence"}
      BY DEF R!IInv, R!Types
    <3> QED BY <2>1, <3>1 DEF R!IInv, R!Bounds
  <2> QED BY <2>1, <2>2 DEF R!IInv, R!Types, R!Bounds, R!TypeOK, R!Status, R!Socket
<1>2. R!Told => R!Numbers = {}
  BY DEF R!Told, R!Numbers
<1>3. R!StatusIsSockets
  BY <1>2 DEF R!IInv, R!StatusFollows, R!StatusIsSockets, R!Up
<1>4. R!CaughtUp
  <2> SUFFICES ASSUME R!Settled, R!Told, subs.thread = rt.cur, chat.joined, chat.wire = <<>>, ~chat.sync,
                      ~chat.gap
               PROVE  chat.has = 1 .. chat.sent
    BY DEF R!CaughtUp
  <2>1. R!Up
    BY DEF R!IInv, R!HearsAll, R!CurrentIsLive, R!Up
  <2>2. ~R!SyncComes
    BY <1>2, <2>1 DEF R!SyncComes
  <2>3. Len(chat.wire) = 0
    OBVIOUS
  <2>4. \A m \in 1 .. chat.sent : m \in chat.has
    BY <2>2, <2>3 DEF R!IInv, R!HearsAll
  <2> QED BY <2>4 DEF R!IInv, R!Bounds
<1> QED BY <1>1, <1>3, <1>4 DEF R!IInv

-----------------------------------------------------------------------------
(* Profile photos. *)

LEMMA PhotosInit == ASSUME P!Init PROVE P!IInv
<1>1. \A u \in Persons : photoCache[u] = P!Unknown /\ asked[u] = 0
  BY DEF P!Init, P!Restored
<1>2. photoCache \in [Persons -> P!Photo \cup {P!Unknown}]
  BY DEF P!Init, P!Restored, P!Photo
<1>3. P!TypeOK
  <2>1. shows \in 0 .. MaxShows /\ asked \in [Persons -> Nat]
    BY PhotosAssumption DEF P!Init
  <2>2. resolved \in [Avatars -> [of : Persons \cup {None}, photo : P!Photo]]
    BY DEF P!Init, P!Photo, P!Nothing
  <2>3. drawn \in [Avatars -> P!Photo \cup {P!Unknown}] /\ avatarOf \in [Avatars -> Persons \cup {None}]
        /\ waits \in [Avatars -> Persons \cup {None}]
    BY DEF P!Init, P!Photo
  <2> QED BY <1>2, <2>1, <2>2, <2>3 DEF P!Init, P!TypeOK
<1>4. P!CacheIsTrue
  BY <1>1, PhotosAssumption DEF P!Init, P!CacheIsTrue, P!Unknown, P!NoPhoto, P!Asks
<1>5. P!AvatarsAreTrue
  BY <1>3, PhotosAssumption DEF P!Init, P!TypeOK, P!AvatarsAreTrue, P!Nothing, P!HasNone
<1>6. P!ListIsTrue
  BY DEF P!Init, P!ListIsTrue
<1> QED BY <1>3, <1>4, <1>5, <1>6 DEF P!IInv

LEMMA PhotosRest == ASSUME P!IInv, UNCHANGED P!vars PROVE P!IInv'
<1>1. UNCHANGED <<pictured, photoCache, fetching, asked, failed, avatarOf, waits, resolved, drawn,
                  loops, photoListed, photos, noPhoto, noPhotoTimer, shows>>
  BY DEF P!vars, P!page, P!avatars, P!list, P!session
<1> QED BY <1>1 DEF P!IInv, P!TypeOK, P!CacheIsTrue, P!Asks, P!AvatarsAreTrue, P!ListIsTrue, P!HasNone

LEMMA PhotosActsType == ASSUME P!IInv, P!Acts PROVE shows' \in 0 .. MaxShows
  BY PhotosAssumption DEF P!IInv, P!TypeOK, P!Acts

\* A request is made once: the cache stays true.
LEMMA PhotosResolveInv ==
    ASSUME P!IInv, NEW u \in Persons, P!Resolve(u), UNCHANGED <<pictured, photoCache, failed, noPhoto>>
    PROVE  /\ P!CacheIsTrue' /\ fetching' \subseteq Persons /\ asked' \in [Persons -> Nat]
           /\ fetching \subseteq fetching' /\ (photoCache[u] = P!Unknown => u \in fetching')
<1>1. fetching \subseteq Persons /\ asked \in [Persons -> Nat]
  BY DEF P!IInv, P!TypeOK
<1>2. \A x \in Persons : asked'[x] = IF x = u /\ P!Asks(u) THEN asked[x] + 1 ELSE asked[x]
  BY <1>1 DEF P!Resolve
<1>3. /\ fetching' = IF P!Asks(u) THEN fetching \cup {u} ELSE fetching
      /\ asked' \in [Persons -> Nat]
  BY <1>1 DEF P!Resolve
<1>4. ASSUME NEW x \in Persons PROVE asked'[x] =< IF P!Asks(x)' THEN 0 ELSE 1
  <2>1. asked[x] \in Nat /\ asked[x] =< IF P!Asks(x) THEN 0 ELSE 1
    BY <1>1 DEF P!IInv, P!CacheIsTrue
  <2>2. CASE x = u /\ P!Asks(u)
    BY <1>2, <1>3, <2>1, <2>2 DEF P!Asks
  <2>3. CASE ~(x = u /\ P!Asks(u))
    BY <1>2, <1>3, <2>1, <2>3 DEF P!Asks
  <2> QED BY <2>2, <2>3
<1>5. \A x \in fetching' : photoCache[x] = P!Unknown
  BY <1>1, <1>3 DEF P!Asks, P!IInv, P!CacheIsTrue
<1>6. P!CacheIsTrue'
  BY <1>4, <1>5 DEF P!IInv, P!CacheIsTrue, P!HasNone
<1> QED BY <1>1, <1>3, <1>6 DEF P!Asks

LEMMA PhotosEndsInv == ASSUME P!IInv, NEW u \in Persons, NEW ok \in BOOLEAN, P!FetchEnds(u, ok) PROVE P!IInv'
<1> DEFINE photo == IF ok /\ u \in pictured THEN u ELSE P!NoPhoto
<1>1. /\ u \in fetching /\ photoCache' = [photoCache EXCEPT ![u] = photo]
      /\ P!Told(u, photo)
      /\ noPhotoTimer' = (noPhotoTimer \/ photo = P!NoPhoto)
      /\ failed' = IF ok THEN failed ELSE failed \cup {u}
      /\ fetching' = fetching \ {u}
      /\ UNCHANGED <<pictured, asked, avatarOf, loops, photoListed, photos, noPhoto, shows>>
  BY DEF P!FetchEnds, P!list
<1>2. photo \in {u, P!NoPhoto} /\ (photo = u => u \in pictured) /\ (photo = P!NoPhoto => P!HasNone(u)')
  BY <1>1, PhotosAssumption DEF P!HasNone
<1> HIDE DEF photo
<1>3. \A x : P!HasNone(x) => P!HasNone(x)'
  BY <1>1 DEF P!HasNone
<1>4. /\ \A x \in Persons : photoCache'[x] = IF x = u THEN photo ELSE photoCache[x]
      /\ photoCache' \in [Persons -> P!Photo \cup {P!Unknown}]
  BY <1>1, <1>2 DEF P!IInv, P!TypeOK, P!Photo
<1>5. /\ resolved \in [Avatars -> [of : Persons \cup {None}, photo : P!Photo]]
      /\ waits \in [Avatars -> Persons \cup {None}] /\ avatarOf \in [Avatars -> Persons \cup {None}]
      /\ drawn \in [Avatars -> P!Photo \cup {P!Unknown}]
  BY DEF P!IInv, P!TypeOK
<1>6. /\ \A a \in Avatars : resolved'[a] = IF waits[a] = u THEN [of |-> u, photo |-> photo] ELSE resolved[a]
      /\ \A a \in Avatars : waits'[a] = IF waits[a] = u THEN None ELSE waits[a]
  BY <1>1 DEF P!Told
<1>7. \A a \in Avatars : waits[a] = u => avatarOf[a] = u
  BY PhotosAssumption DEF P!IInv, P!AvatarsAreTrue
<1>8. \A a \in Avatars : drawn'[a] = IF waits[a] = u THEN photo ELSE drawn[a]
  BY <1>1, <1>6, <1>7 DEF P!Told, P!Rendered
<1>9. /\ resolved' \in [Avatars -> [of : Persons \cup {None}, photo : P!Photo]]
      /\ waits' \in [Avatars -> Persons \cup {None}]
      /\ drawn' \in [Avatars -> P!Photo \cup {P!Unknown}]
  <2>1. photo \in P!Photo
    BY <1>2 DEF P!Photo
  <2>2. /\ resolved' = [a \in Avatars |-> resolved'[a]] /\ waits' = [a \in Avatars |-> waits'[a]]
        /\ drawn' = [a \in Avatars |-> drawn'[a]]
    BY <1>1 DEF P!Told
  <2> QED BY <1>5, <1>6, <1>8, <2>1, <2>2
<1>10. P!TypeOK'
  BY <1>1, <1>4, <1>9 DEF P!IInv, P!TypeOK
<1>11. P!CacheIsTrue'
  <2>1. ASSUME NEW x \in Persons PROVE asked'[x] =< IF P!Asks(x)' THEN 0 ELSE 1
    <3>1. asked[x] \in Nat /\ asked[x] =< IF P!Asks(x) THEN 0 ELSE 1
      BY DEF P!IInv, P!CacheIsTrue, P!TypeOK
    <3>2. CASE x = u
      BY <1>1, <1>2, <1>4, <3>1, <3>2, PhotosAssumption DEF P!Asks, P!NoPhoto, P!Unknown
    <3>3. CASE x # u
      BY <1>1, <1>4, <3>1, <3>3 DEF P!Asks
    <3> QED BY <3>2, <3>3
  <2>2. ASSUME NEW x \in Persons
        PROVE  /\ photoCache'[x] = x => x \in pictured
               /\ photoCache'[x] \in {x, P!NoPhoto, P!Unknown}
               /\ photoCache'[x] = P!NoPhoto \/ x \in noPhoto => P!HasNone(x)'
               /\ x \in fetching' => photoCache'[x] = P!Unknown
    <3>1. CASE x = u
      BY <1>1, <1>2, <1>3, <1>4, <3>1 DEF P!IInv, P!CacheIsTrue
    <3>2. CASE x # u
      BY <1>1, <1>3, <1>4, <3>2 DEF P!IInv, P!CacheIsTrue
    <3> QED BY <3>1, <3>2
  <2> QED BY <1>1, <2>1, <2>2 DEF P!CacheIsTrue
<1>12. P!AvatarsAreTrue'
  <2> SUFFICES ASSUME NEW a \in Avatars
               PROVE  /\ resolved'[a].of # None =>
                            \/ resolved'[a].photo = resolved'[a].of
                            \/ resolved'[a].photo = P!NoPhoto /\ resolved'[a].of \notin pictured \ failed'
                      /\ waits'[a] # None => waits'[a] = avatarOf[a] /\ avatarOf[a] \in fetching'
                      /\ \/ avatarOf[a] # None /\ drawn'[a] = avatarOf[a]
                         \/ avatarOf[a] # None /\ drawn'[a] = P!Unknown /\ waits'[a] = avatarOf[a]
                         \/ drawn'[a] = P!NoPhoto /\ avatarOf[a] \notin pictured \ failed'
    BY <1>1 DEF P!AvatarsAreTrue, P!HasNone
  <2>0. photo = P!NoPhoto => u \notin pictured \ failed'
    BY <1>1, <1>2 DEF P!HasNone
  <2>1. CASE waits[a] = u
    BY <1>2, <1>6, <1>7, <1>8, <2>0, <2>1, PhotosAssumption
  <2>2. CASE waits[a] # u
    <3>1. /\ resolved[a].of # None =>
                 \/ resolved[a].photo = resolved[a].of
                 \/ resolved[a].photo = P!NoPhoto /\ resolved[a].of \notin pictured \ failed
          /\ waits[a] # None => waits[a] = avatarOf[a] /\ avatarOf[a] \in fetching
          /\ \/ avatarOf[a] # None /\ drawn[a] = avatarOf[a]
             \/ avatarOf[a] # None /\ drawn[a] = P!Unknown /\ waits[a] = avatarOf[a]
             \/ drawn[a] = P!NoPhoto /\ avatarOf[a] \notin pictured \ failed
      BY DEF P!IInv, P!AvatarsAreTrue, P!HasNone
    <3>2. resolved'[a] = resolved[a] /\ waits'[a] = waits[a] /\ drawn'[a] = drawn[a]
      BY <1>6, <1>8, <2>2
    <3> QED BY <1>1, <2>2, <3>1, <3>2
  <2> QED BY <2>1, <2>2
<1>13. P!ListIsTrue'
  BY <1>1, <1>3 DEF P!IInv, P!ListIsTrue
<1> QED BY <1>10, <1>11, <1>12, <1>13 DEF P!IInv

LEMMA PhotosShowInv == ASSUME P!IInv, NEW a \in Avatars, NEW u \in Persons, P!Show(a, u) PROVE P!IInv'
<1>1. /\ avatarOf' = [avatarOf EXCEPT ![a] = u]
      /\ waits' = [waits EXCEPT ![a] = IF photoCache[u] = P!Unknown THEN u ELSE None]
      /\ drawn' = [drawn EXCEPT ![a] = P!Rendered(u, resolved[a])]
      /\ P!Resolve(u)
      /\ UNCHANGED <<pictured, photoCache, failed, resolved, loops, photoListed, photos, noPhoto, noPhotoTimer>>
  BY DEF P!Show, P!list, P!session, P!WaitsFor
<1>2. shows' \in 0 .. MaxShows
  BY PhotosActsType DEF P!Show
<1>3. /\ P!CacheIsTrue' /\ fetching' \subseteq Persons /\ asked' \in [Persons -> Nat]
      /\ fetching \subseteq fetching' /\ (photoCache[u] = P!Unknown => u \in fetching')
  BY <1>1, PhotosResolveInv
<1>4. /\ resolved[a] \in [of : Persons \cup {None}, photo : P!Photo]
      /\ waits \in [Avatars -> Persons \cup {None}] /\ avatarOf \in [Avatars -> Persons \cup {None}]
      /\ drawn \in [Avatars -> P!Photo \cup {P!Unknown}]
      /\ photoCache[u] \in P!Photo \cup {P!Unknown}
  BY DEF P!IInv, P!TypeOK
<1>5. /\ P!Rendered(u, resolved[a]) \in P!Photo \cup {P!Unknown}
      /\ \/ P!Rendered(u, resolved[a]) = u
         \/ P!Rendered(u, resolved[a]) = P!Unknown /\ photoCache[u] = P!Unknown
         \/ P!Rendered(u, resolved[a]) = P!NoPhoto /\ P!HasNone(u)
  BY <1>4, PhotosAssumption DEF P!Rendered, P!IInv, P!CacheIsTrue, P!AvatarsAreTrue
<1>6. P!TypeOK'
  BY <1>1, <1>2, <1>3, <1>4, <1>5 DEF P!IInv, P!TypeOK
<1>7. P!AvatarsAreTrue'
  <2> SUFFICES ASSUME NEW b \in Avatars
               PROVE  /\ resolved[b].of # None =>
                            \/ resolved[b].photo = resolved[b].of
                            \/ resolved[b].photo = P!NoPhoto /\ P!HasNone(resolved[b].of)
                      /\ waits'[b] # None => waits'[b] = avatarOf'[b] /\ avatarOf'[b] \in fetching'
                      /\ \/ avatarOf'[b] # None /\ drawn'[b] = avatarOf'[b]
                         \/ avatarOf'[b] # None /\ drawn'[b] = P!Unknown /\ waits'[b] = avatarOf'[b]
                         \/ drawn'[b] = P!NoPhoto /\ P!HasNone(avatarOf'[b])
    BY <1>1 DEF P!AvatarsAreTrue, P!HasNone
  <2>1. CASE b = a
    BY <1>1, <1>3, <1>4, <1>5, <2>1, PhotosAssumption DEF P!IInv, P!AvatarsAreTrue
  <2>2. CASE b # a
    BY <1>1, <1>3, <1>4, <2>2 DEF P!IInv, P!AvatarsAreTrue
  <2> QED BY <2>1, <2>2
<1>8. P!ListIsTrue'
  BY <1>1 DEF P!IInv, P!ListIsTrue, P!HasNone
<1> QED BY <1>3, <1>6, <1>7, <1>8 DEF P!IInv

LEMMA PhotosListInv == ASSUME P!IInv, NEW users \in SUBSET Persons, P!List(users) PROVE P!IInv'
<1>1. /\ photoListed' = users
      /\ loops' = {[l EXCEPT !.live = FALSE] : l \in loops} \cup
                  (IF users = {} THEN {} ELSE {[todo |-> users, got |-> {}, live |-> TRUE]})
      /\ photos' = IF users = {} THEN {} ELSE photos
      /\ UNCHANGED <<pictured, photoCache, fetching, asked, failed, avatarOf, waits, resolved, drawn,
                     noPhoto, noPhotoTimer>>
  BY DEF P!List, P!page, P!avatars, P!session
<1>2. shows' \in 0 .. MaxShows
  BY PhotosActsType DEF P!List
<1>3. loops \subseteq [todo : SUBSET Persons, got : SUBSET pictured, live : BOOLEAN]
  BY DEF P!IInv, P!TypeOK
<1>4. /\ loops' \subseteq [todo : SUBSET Persons, got : SUBSET pictured, live : BOOLEAN]
      /\ \A l \in loops' : l.live => l = [todo |-> users, got |-> {}, live |-> TRUE]
      /\ users # {} => \E l \in loops' : l.live
  <2> DEFINE Z == [todo : SUBSET Persons, got : SUBSET pictured, live : BOOLEAN]
             r == [todo |-> users, got |-> {}, live |-> TRUE]
  <2>1. \A l \in Z : [l EXCEPT !.live = FALSE] \in Z /\ ~ [l EXCEPT !.live = FALSE].live
    OBVIOUS
  <2>2. r \in Z /\ r.live
    OBVIOUS
  <2>3. \A k \in loops' : (\E l \in loops : k = [l EXCEPT !.live = FALSE]) \/ (k = r /\ users # {})
    BY <1>1
  <2>4. users # {} => r \in loops'
    BY <1>1
  <2>5. loops \subseteq Z
    BY <1>3
  <2> HIDE DEF Z, r
  <2>6. loops' \subseteq Z /\ \A l \in loops' : l.live => l = r
    BY <2>1, <2>2, <2>3, <2>5
  <2> QED BY <2>2, <2>4, <2>6 DEF Z, r
<1>5. P!TypeOK'
  BY <1>1, <1>2, <1>4 DEF P!IInv, P!TypeOK
<1>6. P!CacheIsTrue' /\ P!AvatarsAreTrue'
  BY <1>1 DEF P!IInv, P!CacheIsTrue, P!AvatarsAreTrue, P!HasNone, P!Asks
<1>7. P!ListIsTrue'
  BY <1>1, <1>4 DEF P!ListIsTrue
<1> QED BY <1>5, <1>6, <1>7 DEF P!IInv

LEMMA PhotosAsksInv == ASSUME P!IInv, NEW l \in loops, P!LoopAsks(l) PROVE P!IInv'
<1> DEFINE u == P!First(l.todo)
<1>1. u \in Persons
  BY DEF P!LoopAsks, P!First, P!IInv, P!TypeOK
<1>2. /\ P!Resolve(u)
      /\ UNCHANGED <<pictured, photoCache, failed, avatarOf, waits, resolved, drawn,
                     loops, photoListed, photos, noPhoto, noPhotoTimer, shows>>
  BY DEF P!LoopAsks, P!avatars, P!list, P!session
<1> HIDE DEF u
<1>3. P!CacheIsTrue' /\ fetching' \subseteq Persons /\ asked' \in [Persons -> Nat] /\ fetching \subseteq fetching'
  BY <1>1, <1>2, PhotosResolveInv
<1>4. P!TypeOK'
  BY <1>2, <1>3 DEF P!IInv, P!TypeOK
<1>5. P!AvatarsAreTrue' /\ P!ListIsTrue'
  BY <1>2, <1>3 DEF P!IInv, P!AvatarsAreTrue, P!ListIsTrue, P!HasNone
<1> QED BY <1>3, <1>4, <1>5 DEF P!IInv

LEMMA PhotosTakesInv == ASSUME P!IInv, NEW l \in loops, P!LoopTakes(l) PROVE P!IInv'
<1> DEFINE u == P!First(l.todo)
           k == [l EXCEPT !.todo = @ \ {u}, !.got = IF photoCache[u] = P!NoPhoto THEN @ ELSE @ \cup {u}]
<1>1. u \in l.todo /\ u \in Persons /\ l \in [todo : SUBSET Persons, got : SUBSET pictured, live : BOOLEAN]
  BY DEF P!LoopTakes, P!First, P!IInv, P!TypeOK
<1>2. /\ photoCache[u] # P!Unknown /\ loops' = (loops \ {l}) \cup {k}
      /\ UNCHANGED <<pictured, photoCache, fetching, asked, failed, avatarOf, waits, resolved, drawn,
                     photoListed, photos, noPhoto, noPhotoTimer, shows>>
  BY DEF P!LoopTakes, P!page, P!avatars, P!session
<1> HIDE DEF u
<1>3. (photoCache[u] = u /\ u \in pictured) \/ (photoCache[u] = P!NoPhoto /\ P!HasNone(u))
  BY <1>1, <1>2 DEF P!IInv, P!CacheIsTrue
<1>4. /\ k.live = l.live /\ k.todo = l.todo \ {u} /\ l.got \subseteq k.got
      /\ k.got \subseteq l.got \cup {u} /\ (P!HasNone(u) \/ u \in k.got)
      /\ k \in [todo : SUBSET Persons, got : SUBSET pictured, live : BOOLEAN]
  BY <1>1, <1>3, PhotosAssumption
<1> HIDE DEF k
<1>5. P!TypeOK'
  BY <1>2, <1>4 DEF P!IInv, P!TypeOK
<1>6. P!CacheIsTrue' /\ P!AvatarsAreTrue'
  BY <1>2 DEF P!IInv, P!CacheIsTrue, P!AvatarsAreTrue, P!HasNone, P!Asks
<1>7. P!ListIsTrue'
  <2>1. ASSUME NEW m \in loops', m.live
        PROVE  /\ m.todo \cup m.got \subseteq photoListed
               /\ \A x \in photoListed \ m.todo : P!HasNone(x) \/ x \in m.got
    <3>1. CASE m = k
      <4>1. /\ l.todo \cup l.got \subseteq photoListed
            /\ \A x \in photoListed \ l.todo : P!HasNone(x) \/ x \in l.got
        BY <1>4, <2>1, <3>1 DEF P!IInv, P!ListIsTrue
      <4> QED BY <1>1, <1>4, <3>1, <4>1
    <3>2. CASE m # k
      BY <1>2, <2>1, <3>2 DEF P!IInv, P!ListIsTrue
    <3> QED BY <3>1, <3>2
  <2>2. (\A m \in loops' : ~m.live) => \A m \in loops : ~m.live
    BY <1>2, <1>4
  <2> QED BY <1>2, <2>1, <2>2 DEF P!IInv, P!ListIsTrue, P!HasNone
<1> QED BY <1>5, <1>6, <1>7 DEF P!IInv

LEMMA PhotosLoopEndsInv == ASSUME P!IInv, NEW l \in loops, P!LoopEnds(l) PROVE P!IInv'
<1>1. /\ l.todo = {} /\ loops' = loops \ {l} /\ photos' = IF l.live THEN l.got ELSE photos
      /\ UNCHANGED <<pictured, photoCache, fetching, asked, failed, avatarOf, waits, resolved, drawn,
                     photoListed, noPhoto, noPhotoTimer, shows>>
  BY DEF P!LoopEnds, P!Live, P!page, P!avatars, P!session
<1>2. P!TypeOK'
  BY <1>1 DEF P!IInv, P!TypeOK
<1>3. P!CacheIsTrue' /\ P!AvatarsAreTrue'
  BY <1>1 DEF P!IInv, P!CacheIsTrue, P!AvatarsAreTrue, P!HasNone, P!Asks
<1>4. P!ListIsTrue'
  BY <1>1 DEF P!IInv, P!ListIsTrue, P!HasNone
<1> QED BY <1>2, <1>3, <1>4 DEF P!IInv

LEMMA PhotosPersistInv == ASSUME P!IInv, P!Persist PROVE P!IInv'
<1>1. /\ noPhotoTimer' = FALSE /\ noPhoto' = {u \in Persons : photoCache[u] = P!NoPhoto}
      /\ UNCHANGED <<pictured, photoCache, fetching, asked, failed, avatarOf, waits, resolved, drawn,
                     loops, photoListed, photos, shows>>
  BY DEF P!Persist, P!page, P!avatars, P!list
<1> QED BY <1>1 DEF P!IInv, P!TypeOK, P!CacheIsTrue, P!Asks, P!AvatarsAreTrue, P!ListIsTrue, P!HasNone

LEMMA PhotosReloadInv == ASSUME P!IInv, P!Reload PROVE P!IInv'
<1>1. shows' \in 0 .. MaxShows
  BY PhotosActsType DEF P!Reload
<1>2. /\ \A u \in Persons : photoCache'[u] = (IF u \in noPhoto THEN P!NoPhoto ELSE P!Unknown) /\ asked'[u] = 0
      /\ photoCache' \in [Persons -> P!Photo \cup {P!Unknown}]
  BY DEF P!Reload, P!Restored, P!Photo
<1>3. \A u \in noPhoto : P!HasNone(u)'
  BY DEF P!IInv, P!TypeOK, P!CacheIsTrue, P!HasNone, P!Reload
<1>4. P!TypeOK'
  BY <1>1, <1>2 DEF P!IInv, P!TypeOK, P!Reload, P!Nothing, P!Photo
<1>5. P!CacheIsTrue'
  BY <1>2, <1>3, PhotosAssumption DEF P!CacheIsTrue, P!Reload, P!Asks, P!Unknown, P!NoPhoto
<1>6. P!AvatarsAreTrue'
  BY PhotosAssumption DEF P!IInv, P!TypeOK, P!AvatarsAreTrue, P!Reload, P!Nothing, P!HasNone
<1>7. P!ListIsTrue'
  BY DEF P!ListIsTrue, P!Reload
<1> QED BY <1>4, <1>5, <1>6, <1>7 DEF P!IInv

LEMMA PhotosNext == ASSUME P!IInv, P!Next \/ UNCHANGED P!vars PROVE P!IInv'
  BY PhotosRest, PhotosEndsInv, PhotosShowInv, PhotosListInv, PhotosAsksInv, PhotosTakesInv, PhotosLoopEndsInv, PhotosPersistInv, PhotosReloadInv DEF P!Next

LEMMA PhotosPromises == ASSUME P!IInv PROVE P!TypeOK /\ P!AskedOnce /\ P!ShowsOwn /\ P!PhotosAppear
<1>1. P!AskedOnce
  BY DEF P!IInv, P!TypeOK, P!CacheIsTrue, P!AskedOnce
<1>2. P!ShowsOwn
  BY DEF P!IInv, P!AvatarsAreTrue, P!ShowsOwn
<1>3. P!PhotosAppear
  BY PhotosAssumption DEF P!IInv, P!TypeOK, P!AvatarsAreTrue, P!ListIsTrue, P!PhotosAppear, P!HasNone
<1> QED BY <1>1, <1>2, <1>3 DEF P!IInv

-----------------------------------------------------------------------------
(* Notifications. *)

LEMMA NoticesInit == ASSUME N!Init PROVE N!IInv
<1>1. (CHOOSE m \in Notes \ Own : TRUE) \in Notes
  BY NoticesAssumption
<1>2. threads \in [Chats -> SUBSET Notes]
  BY <1>1 DEF N!Init
<1>3. N!TypeOK
  <2>1. told \in [Notes -> Nat] /\ looks \in 0 .. MaxLooks
    BY NoticesAssumption DEF N!Init, N!NotTold
  <2> QED BY <1>2, <2>1 DEF N!Init, N!TypeOK
<1> QED BY <1>3 DEF N!Init, N!IInv, N!ToldOnce, N!ShownIsOpen, N!KnowsWhatItShows, N!ToldIsKnown, N!NotTold

LEMMA NoticesRest == ASSUME N!IInv, UNCHANGED N!vars PROVE N!IInv'
  BY DEF N!vars, N!IInv, N!TypeOK, N!ToldOnce, N!ShownIsOpen, N!KnowsWhatItShows, N!ToldIsKnown

LEMMA NoticesLooksType == ASSUME N!IInv, N!Looks PROVE looks' \in 0 .. MaxLooks
  BY NoticesAssumption DEF N!IInv, N!TypeOK, N!Looks

\* While a chat is open, the permission is there and the setting is on.
NoticesMayTell == viewing # None /\ granted /\ wanted

\* What the watch effect does, where it runs and where it does not.
LEMMA NoticesWatchFacts ==
    ASSUME N!IInv, NEW ids, N!Watch(ids)
    PROVE  /\ ~NoticesMayTell' => UNCHANGED <<known, first, told>>
           /\ NoticesMayTell' => known' = ids /\ ~first'
           /\ told' \in [Notes -> Nat] /\ first' \in BOOLEAN
           /\ \A m \in Notes : told'[m] = IF NoticesMayTell' /\ ~first /\ ~focused /\ m \in N!New(ids)
                                           THEN told[m] + 1 ELSE told[m]
<1>1. told \in [Notes -> Nat] /\ first \in BOOLEAN
  BY DEF N!IInv, N!TypeOK
<1>2. ASSUME ~NoticesMayTell' PROVE UNCHANGED <<known, first, told>>
  BY <1>2 DEF N!Watch, NoticesMayTell
<1>3. ASSUME NoticesMayTell'
      PROVE  /\ known' = ids /\ ~first'
             /\ told' = IF first \/ focused THEN told
                        ELSE [m \in Notes |-> IF m \in N!New(ids) THEN told[m] + 1 ELSE told[m]]
  BY <1>3 DEF N!Watch, NoticesMayTell, N!FirstOver, N!KnownNow
<1> HIDE DEF NoticesMayTell
<1>4. ASSUME NoticesMayTell'
      PROVE  /\ told' \in [Notes -> Nat]
             /\ \A m \in Notes : told'[m] = IF ~first /\ ~focused /\ m \in N!New(ids)
                                             THEN told[m] + 1 ELSE told[m]
  BY <1>1, <1>3, <1>4
<1>5. ASSUME NoticesMayTell' PROVE first' \in BOOLEAN
  BY <1>5 DEF N!Watch, NoticesMayTell, N!FirstOver
<1> QED BY <1>1, <1>2, <1>3, <1>4, <1>5

\* Where it changes nothing of what is shown, it tells of nothing.
LEMMA NoticesNothingNew ==
    ASSUME N!IInv, N!Watch(items), UNCHANGED viewing,
           \/ UNCHANGED <<granted, wanted>>
           \/ ~granted
           \/ focused
    PROVE  UNCHANGED told
<1>1. told \in [Notes -> Nat]
  BY DEF N!IInv, N!TypeOK
<1>2. ASSUME NoticesMayTell', NEW m \in Notes, ~first, ~focused PROVE m \notin N!New(items)
  BY <1>2 DEF N!IInv, N!KnowsWhatItShows, NoticesMayTell, N!New
<1>3. \A m \in Notes : told'[m] = told[m]
  BY <1>2, NoticesWatchFacts
<1> QED BY <1>1, <1>3, NoticesWatchFacts

\* Messages are added to threads.
LEMMA NoticesThreadsGrow ==
    ASSUME N!IInv, NEW c \in Chats, NEW m \in Notes, threads' = [threads EXCEPT ![c] = @ \cup {m}]
    PROVE  /\ threads' \in [Chats -> SUBSET Notes]
           /\ \A x \in Chats : threads'[x] = IF x = c THEN threads[c] \cup {m} ELSE threads[x]
           /\ UNION {threads[x] : x \in Chats} \subseteq UNION {threads'[x] : x \in Chats}
  BY DEF N!IInv, N!TypeOK

LEMMA NoticesSelectInv == ASSUME N!IInv, NEW c \in Chats, N!SelectChat(c) PROVE N!IInv'
<1>1. looks' \in 0 .. MaxLooks
  BY NoticesLooksType DEF N!SelectChat
<1>2. N!TypeOK'
  BY <1>1 DEF N!IInv, N!TypeOK, N!SelectChat, N!Restarts, N!NotTold
<1>3. N!ToldOnce' /\ N!ShownIsOpen' /\ N!ToldIsKnown'
  BY DEF N!SelectChat, N!Restarts, N!NotTold, N!ToldOnce, N!ShownIsOpen, N!ToldIsKnown
<1>4. N!KnowsWhatItShows'
  BY DEF N!SelectChat, N!Restarts, N!KnowsWhatItShows
<1> QED BY <1>2, <1>3, <1>4 DEF N!IInv

LEMMA NoticesLoadedInv == ASSUME N!IInv, N!ThreadLoaded PROVE N!IInv'
<1>1. /\ viewing \in Chats /\ ~loaded /\ loaded' = TRUE /\ items' = threads[viewing]
      /\ UNCHANGED <<focused, granted, wanted, viewing, threads, looks>>
      /\ N!Watch(items') /\ N!Sees(items')
  BY DEF N!ThreadLoaded, N!IInv, N!TypeOK
<1>2. seen = {} /\ \A m \in Notes : told[m] = 0
  BY <1>1 DEF N!IInv, N!ShownIsOpen, N!NotTold
<1>3. items' \subseteq UNION {threads[x] : x \in Chats}
  BY <1>1
<1>4. seen' \subseteq items'
  BY <1>1, <1>2 DEF N!Sees
<1>5. N!TypeOK'
  BY <1>1, <1>3, <1>4, NoticesWatchFacts DEF N!IInv, N!TypeOK
<1>6. N!ToldOnce' /\ N!ToldIsKnown'
  BY <1>1, <1>2, NoticesWatchFacts DEF N!ToldOnce, N!ToldIsKnown, N!New
<1>7. N!ShownIsOpen'
  BY <1>1, <1>4 DEF N!ShownIsOpen
<1>8. N!KnowsWhatItShows'
  BY <1>1, NoticesWatchFacts DEF N!IInv, N!KnowsWhatItShows, NoticesMayTell
<1> QED BY <1>5, <1>6, <1>7, <1>8 DEF N!IInv

LEMMA NoticesArrivesInv == ASSUME N!IInv, NEW c \in Chats, NEW m \in Notes, N!Arrives(c, m) PROVE N!IInv'
<1>1. /\ \A d \in Chats : m \notin threads[d]
      /\ threads' = [threads EXCEPT ![c] = @ \cup {m}]
      /\ UNCHANGED <<focused, granted, wanted, viewing, loaded, looks>>
  BY DEF N!Arrives
<1>2. CASE ~(c = viewing /\ loaded)
  <2>1. UNCHANGED <<items, known, first, told, seen>>
    BY <1>2 DEF N!Arrives
  <2>2. N!TypeOK'
    BY <1>1, <2>1, NoticesThreadsGrow DEF N!IInv, N!TypeOK
  <2>3. N!ShownIsOpen'
    BY <1>1, <1>2, <2>1, NoticesThreadsGrow DEF N!IInv, N!ShownIsOpen, N!NotTold
  <2> QED BY <1>1, <2>1, <2>2, <2>3 DEF N!IInv, N!ToldOnce, N!KnowsWhatItShows, N!ToldIsKnown
<1>3. CASE c = viewing /\ loaded
  <2>1. items' = items \cup {m} /\ N!Watch(items') /\ N!Sees(items') /\ items' = threads'[viewing]
    BY <1>3, NoticesThreadsGrow, <1>1 DEF N!Arrives, N!IInv, N!ShownIsOpen
  <2>2. items' \subseteq UNION {threads'[x] : x \in Chats}
    BY <1>3, <2>1
  <2>3. seen' \subseteq items'
    BY <1>3, <2>1 DEF N!Sees, N!IInv, N!ShownIsOpen
  <2>4. N!TypeOK'
    BY <1>1, <2>2, <2>3, <2>1, NoticesThreadsGrow, NoticesWatchFacts DEF N!IInv, N!TypeOK
  <2>5. N!ShownIsOpen'
    BY <1>1, <1>3, <2>1, <2>3 DEF N!ShownIsOpen
  <2>6. N!KnowsWhatItShows'
    BY <1>1, <2>1, NoticesWatchFacts DEF N!IInv, N!KnowsWhatItShows, NoticesMayTell
  <2>7. m \notin items
    BY <1>1, <1>3 DEF N!IInv, N!ShownIsOpen
  <2>8. ASSUME NEW x \in Notes, NoticesMayTell', ~first, x \in N!New(items') PROVE x = m /\ m \notin Own
    BY <1>1, <2>1, <2>8 DEF N!IInv, N!KnowsWhatItShows, NoticesMayTell, N!New
  <2>9. told[m] = 0
    BY <2>7 DEF N!IInv, N!ToldIsKnown
  <2>10. N!ToldOnce'
    <3> SUFFICES ASSUME NEW x \in Notes PROVE told'[x] =< (IF x \in Own THEN 0 ELSE 1)
      BY DEF N!ToldOnce
    <3>1. told[x] \in Nat /\ told[x] =< (IF x \in Own THEN 0 ELSE 1)
      BY DEF N!IInv, N!TypeOK, N!ToldOnce
    <3>2. CASE x \in N!New(items') /\ NoticesMayTell' /\ ~first /\ ~focused
      <4>1. told'[x] = told[x] + 1
        BY <2>1, <3>2, NoticesWatchFacts
      <4>2. x = m /\ m \notin Own
        BY <2>8, <3>2
      <4> QED BY <2>9, <4>1, <4>2
    <3>3. CASE ~(x \in N!New(items') /\ NoticesMayTell' /\ ~first /\ ~focused)
      BY <2>1, <3>1, <3>3, NoticesWatchFacts
    <3> QED BY <3>2, <3>3
  <2>11. N!ToldIsKnown'
    <3> SUFFICES ASSUME NEW x \in Notes, told'[x] # 0 PROVE x \in known' \cap items'
      BY DEF N!ToldIsKnown
    <3>1. known' = items' \/ UNCHANGED known
      BY <2>1, NoticesWatchFacts
    <3>2. CASE told[x] # 0
      BY <2>1, <3>1, <3>2 DEF N!IInv, N!ToldIsKnown
    <3>3. CASE told[x] = 0
      BY <2>1, <3>3, NoticesWatchFacts DEF N!New
    <3> QED BY <3>2, <3>3
  <2> QED BY <2>4, <2>5, <2>6, <2>10, <2>11 DEF N!IInv
<1> QED BY <1>2, <1>3

\* A render, an answer or a change of the setting tells of nothing.
LEMMA NoticesSameInv ==
    ASSUME N!IInv, N!Watch(items), UNCHANGED <<viewing, loaded, threads, items, seen>>,
           focused' \in BOOLEAN, granted' \in BOOLEAN, wanted' \in BOOLEAN,
           looks' \in 0 .. MaxLooks, granted => granted',
           \/ UNCHANGED <<granted, wanted>>
           \/ ~granted
           \/ focused
    PROVE  N!IInv'
<1>1. UNCHANGED told
  BY NoticesNothingNew
<1>2. N!TypeOK'
  BY <1>1, NoticesWatchFacts DEF N!IInv, N!TypeOK
<1>3. N!KnowsWhatItShows'
  BY NoticesWatchFacts DEF N!IInv, N!KnowsWhatItShows, NoticesMayTell
<1>4. N!ToldIsKnown'
  BY <1>1, NoticesWatchFacts DEF N!IInv, N!ToldIsKnown
<1>5. N!ShownIsOpen' /\ N!ToldOnce'
  BY <1>1 DEF N!IInv, N!ShownIsOpen, N!ToldOnce, N!NotTold
<1> QED BY <1>2, <1>3, <1>4, <1>5 DEF N!IInv

LEMMA NoticesRerenderInv == ASSUME N!IInv, N!Rerender PROVE N!IInv'
  BY NoticesSameInv DEF N!Rerender, N!IInv, N!TypeOK

LEMMA NoticesGrantInv == ASSUME N!IInv, N!Grant PROVE N!IInv'
  BY NoticesSameInv DEF N!Grant, N!IInv, N!TypeOK

LEMMA NoticesToggleInv == ASSUME N!IInv, N!Toggle PROVE N!IInv'
<1>1. looks' \in 0 .. MaxLooks
  BY NoticesLooksType DEF N!Toggle
<1> QED BY <1>1, NoticesSameInv DEF N!Toggle, N!IInv, N!TypeOK

LEMMA NoticesFocusInv == ASSUME N!IInv, N!Focus PROVE N!IInv'
<1>1. looks' \in 0 .. MaxLooks
  BY NoticesLooksType DEF N!Focus
<1>2. seen' \subseteq seen \cup items /\ (loaded \/ seen' = seen)
  BY DEF N!Focus, N!Sees
<1>3. N!TypeOK'
  BY <1>1, <1>2 DEF N!IInv, N!TypeOK, N!Focus
<1>4. N!ShownIsOpen'
  BY <1>2 DEF N!IInv, N!ShownIsOpen, N!Focus, N!NotTold
<1> QED BY <1>3, <1>4 DEF N!IInv, N!ToldOnce, N!KnowsWhatItShows, N!ToldIsKnown, N!Focus

LEMMA NoticesNext == ASSUME N!IInv, N!Next \/ UNCHANGED N!vars PROVE N!IInv'
  BY NoticesRest, NoticesSelectInv, NoticesLoadedInv, NoticesArrivesInv, NoticesRerenderInv, NoticesGrantInv, NoticesToggleInv, NoticesFocusInv DEF N!Next

\* What was seen was known while it may be told of.
LEMMA NoticesStepSeen ==
    ASSUME N!IInv, N!Next \/ UNCHANGED N!vars, NEW m \in Notes, m \in seen
    PROVE  told'[m] =< told[m]
<1>1. told[m] \in Nat /\ loaded /\ m \in items
  BY DEF N!IInv, N!TypeOK, N!ShownIsOpen
<1>2. ASSUME NEW c \in Chats, N!SelectChat(c) PROVE told'[m] =< told[m]
  BY <1>1, <1>2 DEF N!SelectChat, N!Restarts, N!NotTold
<1>3. ASSUME NEW c \in Chats, NEW n \in Notes, N!Arrives(c, n) PROVE told'[m] =< told[m]
  <2>1. CASE ~(c = viewing /\ loaded)
    BY <1>1, <1>3, <2>1 DEF N!Arrives
  <2>2. CASE c = viewing /\ loaded
    <3>1. N!Watch(items') /\ UNCHANGED <<viewing, granted, wanted>>
      BY <1>3, <2>2 DEF N!Arrives
    <3>2. NoticesMayTell' => m \notin N!New(items')
      BY <1>1, <3>1 DEF N!IInv, N!KnowsWhatItShows, NoticesMayTell, N!New
    <3> QED BY <1>1, <3>1, <3>2, NoticesWatchFacts
  <2> QED BY <2>1, <2>2
<1>4. N!Rerender \/ N!Grant \/ N!Toggle => told'[m] =< told[m]
  <2>1. N!Rerender \/ N!Grant \/ N!Toggle => UNCHANGED told
    BY NoticesNothingNew DEF N!Rerender, N!Grant, N!Toggle
  <2> QED BY <1>1, <2>1
<1>5. N!ThreadLoaded \/ N!Focus \/ UNCHANGED N!vars => told'[m] =< told[m]
  <2>1. ~N!ThreadLoaded
    BY <1>1 DEF N!ThreadLoaded
  <2>2. N!Focus \/ UNCHANGED N!vars => told' = told
    BY DEF N!Focus, N!vars
  <2> QED BY <1>1, <2>1, <2>2
<1> QED BY <1>2, <1>3, <1>4, <1>5 DEF N!Next

\* What arrives in the open chat is not known.
LEMMA NoticesStepTells ==
    ASSUME N!IInv, N!Next \/ UNCHANGED N!vars, NEW m \in Notes \ Own,
           granted, wanted, ~focused, loaded, loaded', viewing' = viewing, m \in items' \ items
    PROVE  told'[m] = told[m] + 1
<1>1. viewing \in Chats /\ NoticesMayTell /\ ~first /\ known = items
  BY NoticesAssumption DEF N!IInv, N!ShownIsOpen, N!KnowsWhatItShows, NoticesMayTell
<1>2. PICK c \in Chats, n \in Notes : N!Arrives(c, n)
  BY DEF N!Next, N!SelectChat, N!ThreadLoaded, N!Rerender, N!Grant, N!Toggle, N!Focus, N!vars
<1>3. N!Watch(items') /\ UNCHANGED <<viewing, granted, wanted>>
  BY <1>2 DEF N!Arrives
<1>4. NoticesMayTell' /\ m \in N!New(items')
  BY <1>1, <1>3 DEF NoticesMayTell, N!New
<1> QED BY <1>1, <1>3, <1>4, NoticesWatchFacts

-----------------------------------------------------------------------------
(* Attachments. *)

LEMMA AttachmentsNotSent ==
    /\ A!NotSent \in A!Sending
    /\ A!NotSent.at = "new" /\ A!NotSent.have = {} /\ A!NotSent.pass = 0 /\ A!NotSent.next = 0 /\ A!NotSent.tries = 0
  BY DEF A!NotSent, A!Sending, A!Steps, A!Kinds

LEMMA AttachmentsInit == A!Init => A!IInv
<1> SUFFICES ASSUME A!Init PROVE A!IInv
  OBVIOUS
<1>1. A!Types
  BY AttachmentsAssumption, AttachmentsNotSent DEF A!Init, A!Types, A!Off
<1>2. \A s \in Files : send[s] = A!NotSent
  BY DEF A!Init
<1>3. A!RecordingsAreNew
  BY DEF A!Init, A!RecordingsAreNew, A!Off, A!Kinds
<1>4. A!SendsAreBegun
  BY <1>2, AttachmentsNotSent, AttachmentsAssumption DEF A!SendsAreBegun, A!Passes
<1>5. A!PassesAreLosses
  BY <1>2, AttachmentsNotSent, AttachmentsAssumption DEF A!Init, A!PassesAreLosses
<1>6. A!ReachedByItsSend
  BY DEF A!Init, A!ReachedByItsSend
<1>7. A!LossesAreMadeUp
  BY <1>2, AttachmentsNotSent DEF A!LossesAreMadeUp
<1> QED BY <1>1, <1>3, <1>4, <1>5, <1>6, <1>7 DEF A!IInv

\* What a step may cost.
SendCosts == acts' \in Nat /\ losses' \in Nat /\ troubles' \in Nat /\ losses =< losses' /\ troubles =< troubles'

LEMMA AttachmentsCosts == ASSUME A!IInv, A!Act \/ A!Loss \/ A!Trouble \/ A!Smooth PROVE SendCosts
  BY DEF SendCosts, A!Act, A!Loss, A!Trouble, A!Smooth, A!IInv, A!Types

\* A step of the recorders, or of the threads: no send moves.
LEMMA AttachmentsStill ==
    ASSUME A!IInv, SendCosts, UNCHANGED <<send, A!server, outbox>>,
           open' \in Chats, thumb' \in Files \cup {None},
           rec' \in [A!Kinds -> [at: {"off", "asking", "on", "grabbing", "stopping"},
                                 s: Files \cup {None}, chat: Chats \cup {None}]],
           bubbles' \in [Chats -> SUBSET Files], A!RecordingsAreNew'
    PROVE  A!IInv'
<1>1. A!Types'
  BY DEF SendCosts, A!server, A!IInv, A!Types
<1>2. A!SendsAreBegun' /\ A!ReachedByItsSend'
  BY DEF A!server, A!IInv, A!SendsAreBegun, A!ReachedByItsSend
<1>3. A!PassesAreLosses'
  BY DEF SendCosts, A!server, A!IInv, A!Types, A!Sending, A!PassesAreLosses
<1>4. A!LossesAreMadeUp'
  BY DEF SendCosts, A!IInv, A!Types, A!LossesAreMadeUp
<1> QED BY <1>1, <1>2, <1>3, <1>4 DEF A!IInv

\* A step of the send of s, which becomes w.
SendBecomes(s, w) ==
    /\ send' = [send EXCEPT ![s] = w] /\ w \in A!Sending
    /\ w.at # "new" /\ w.chat \in Chats /\ w.pass < A!Passes /\ w.tries < MaxAttempts
    /\ w.have \subseteq up'[s].parts /\ w.pass =< losses'
    /\ \A p \in Parts \ w.have : p < w.next => w.pass + 1 =< losses' /\ w.pass + 1 < A!Passes
    /\ w.at = "complete" => w.have = Parts
    /\ losses' < 3 /\ troubles' = 0 => w.at # "failed"

\* What the server and the outbox have of the other sends stays, of this one
\* they have more.
SendOnly(s) ==
    /\ up' \in [Files -> [parts: SUBSET Parts, done: BOOLEAN]]
    /\ \A t \in Files : up[t].parts \subseteq up'[t].parts
    /\ stored' \subseteq stored \cup {s} /\ outbox' \subseteq outbox \cup {s}

LEMMA AttachmentsSends ==
    ASSUME A!IInv, SendCosts, NEW s \in Files, NEW w, SendBecomes(s, w), SendOnly(s),
           s \in stored' \cup outbox' => w.at \in {"ingest", "sent", "queued"},
           open' = open, thumb' \in Files \cup {None},
           rec' \in [A!Kinds -> [at: {"off", "asking", "on", "grabbing", "stopping"},
                                 s: Files \cup {None}, chat: Chats \cup {None}]],
           bubbles' \in [Chats -> SUBSET Files], A!RecordingsAreNew'
    PROVE  A!IInv'
<1>1. \A t \in Files : send'[t] = IF t = s THEN w ELSE send[t]
  BY DEF SendBecomes, A!IInv, A!Types
<1>2. A!Types'
  BY DEF SendCosts, SendBecomes, SendOnly, A!IInv, A!Types
<1>3. A!SendsAreBegun'
  BY <1>1 DEF SendBecomes, A!IInv, A!SendsAreBegun
<1>4. A!PassesAreLosses'
  <2> SUFFICES ASSUME NEW t \in Files
               PROVE  /\ send'[t].have \subseteq up'[t].parts /\ send'[t].pass =< losses'
                      /\ \A p \in Parts \ send'[t].have :
                            p < send'[t].next => send'[t].pass + 1 =< losses' /\ send'[t].pass + 1 < A!Passes
                      /\ send'[t].at = "complete" => send'[t].have = Parts
    BY DEF A!PassesAreLosses
  <2>1. CASE t = s
    BY <1>1, <2>1 DEF SendBecomes
  <2>2. CASE t # s
    BY <1>1, <2>2 DEF SendCosts, SendOnly, A!IInv, A!Types, A!Sending, A!PassesAreLosses
  <2> QED BY <2>1, <2>2
<1>5. A!ReachedByItsSend'
  BY <1>1 DEF SendOnly, A!IInv, A!ReachedByItsSend
<1>6. A!LossesAreMadeUp'
  BY <1>1 DEF SendCosts, SendBecomes, A!IInv, A!Types, A!LossesAreMadeUp
<1> QED BY <1>2, <1>3, <1>4, <1>5, <1>6 DEF A!IInv

-----------------------------------------------------------------------------
(* Recording.                                                              *)

LEMMA AttachmentsSelectChatInv == ASSUME A!IInv, NEW c \in Chats, A!SelectChat(c) PROVE A!IInv'
<1>1. A!RecordingsAreNew'
  BY DEF A!SelectChat, A!IInv, A!RecordingsAreNew
<1> QED BY <1>1, AttachmentsCosts, AttachmentsStill DEF A!SelectChat, A!IInv, A!Types

\* A recorder that goes on, or stops, keeps what it records.
LEMMA AttachmentsRecorderMoves ==
    ASSUME A!IInv, NEW k \in A!Kinds, rec[k].at # "off", send' = send,
           \/ rec' = [rec EXCEPT ![k] = A!Off]
           \/ \E at \in {"asking", "on", "grabbing", "stopping"} : rec' = [rec EXCEPT ![k].at = at]
    PROVE  /\ rec' \in [A!Kinds -> [at: {"off", "asking", "on", "grabbing", "stopping"},
                                    s: Files \cup {None}, chat: Chats \cup {None}]]
           /\ A!RecordingsAreNew'
<1>1. CASE rec' = [rec EXCEPT ![k] = A!Off]
  <2>1. \A j \in A!Kinds : rec'[j] = IF j = k THEN A!Off ELSE rec[j]
    BY <1>1 DEF A!IInv, A!Types
  <2> QED BY <1>1, <2>1 DEF A!IInv, A!Types, A!RecordingsAreNew, A!Off, A!Kinds
<1>2. ASSUME NEW at \in {"asking", "on", "grabbing", "stopping"}, rec' = [rec EXCEPT ![k].at = at]
      PROVE  /\ rec' \in [A!Kinds -> [at: {"off", "asking", "on", "grabbing", "stopping"},
                                      s: Files \cup {None}, chat: Chats \cup {None}]]
             /\ A!RecordingsAreNew'
  <2>1. \A j \in A!Kinds : /\ rec'[j].s = rec[j].s /\ rec'[j].chat = rec[j].chat
                           /\ rec'[j].at = IF j = k THEN at ELSE rec[j].at
    BY <1>2 DEF A!IInv, A!Types
  <2>2. A!RecordingsAreNew'
    BY <1>2, <2>1 DEF A!IInv, A!RecordingsAreNew, A!Kinds
  <2> QED BY <1>2, <2>2 DEF A!IInv, A!Types
<1> QED BY <1>1, <1>2

LEMMA AttachmentsAskRecordingInv ==
    ASSUME A!IInv, NEW k \in A!Kinds, NEW s \in Files, A!AskRecording(k, s) PROVE A!IInv'
<1>1. /\ rec[k] = A!Off /\ A!Unused(s) /\ send' = send
      /\ rec' = [rec EXCEPT ![k] = [at |-> "asking", s |-> s, chat |-> open]]
  BY DEF A!AskRecording
<1>2. \A j \in A!Kinds : rec'[j] = IF j = k THEN [at |-> "asking", s |-> s, chat |-> open] ELSE rec[j]
  BY <1>1 DEF A!IInv, A!Types
<1>3. rec' \in [A!Kinds -> [at: {"off", "asking", "on", "grabbing", "stopping"},
                            s: Files \cup {None}, chat: Chats \cup {None}]]
  BY <1>1 DEF A!IInv, A!Types
<1>4. A!RecordingsAreNew'
  BY <1>1, <1>2, AttachmentsAssumption DEF A!IInv, A!Types, A!RecordingsAreNew, A!Unused, A!Kinds
<1> QED BY <1>3, <1>4, AttachmentsCosts, AttachmentsStill DEF A!AskRecording, A!IInv, A!Types

LEMMA AttachmentsRecorderInv ==
    ASSUME A!IInv, NEW k \in A!Kinds,
           A!RecordingStarts(k) \/ A!RecordingDenied(k) \/ A!StopRecording(k) \/ A!Grabbed(k) \/ A!RecordingEmpty(k)
    PROVE  A!IInv'
<1>1. /\ rec[k].at # "off" /\ UNCHANGED <<open, send, bubbles, A!server, outbox>> /\ SendCosts
      /\ \/ rec' = [rec EXCEPT ![k] = A!Off]
         \/ \E at \in {"asking", "on", "grabbing", "stopping"} : rec' = [rec EXCEPT ![k].at = at]
      /\ thumb' = thumb \/ thumb' = rec[k].s
  BY AttachmentsCosts DEF A!RecordingStarts, A!RecordingDenied, A!StopRecording, A!Grabbed, A!RecordingEmpty
<1>2. thumb' \in Files \cup {None}
  BY <1>1 DEF A!IInv, A!Types
<1> QED BY <1>1, <1>2, AttachmentsRecorderMoves, AttachmentsStill DEF A!IInv, A!Types

LEMMA AttachmentsDiscardInv == ASSUME A!IInv, A!DiscardRecording PROVE A!IInv'
<1>1. /\ rec["voice"].at # "off" /\ "voice" \in A!Kinds /\ rec' = [rec EXCEPT !["voice"] = A!Off] /\ send' = send
  BY DEF A!DiscardRecording, A!Kinds
<1> QED BY <1>1, AttachmentsCosts, AttachmentsRecorderMoves, AttachmentsStill DEF A!DiscardRecording, A!IInv, A!Types

-----------------------------------------------------------------------------
(* A!Sending.                                                                *)

LEMMA AttachmentsBegins ==
    ASSUME A!IInv, SendCosts, NEW s \in Files, NEW kind \in A!Kinds \cup {"file"}, NEW c \in Chats,
           A!Begin(s, kind, c), send[s].at = "new", UNCHANGED <<open, bubbles, A!server, outbox>>,
           rec' \in [A!Kinds -> [at: {"off", "asking", "on", "grabbing", "stopping"},
                                 s: Files \cup {None}, chat: Chats \cup {None}]],
           A!RecordingsAreNew'
    PROVE  A!IInv'
<1> DEFINE w == [A!NotSent EXCEPT !.at = "preparing", !.kind = kind, !.chat = c, !.thumb = thumb]
<1>1. /\ w \in A!Sending /\ w.at = "preparing" /\ w.chat = c /\ w.have = {} /\ w.pass = 0 /\ w.next = 0
      /\ w.tries = 0
  BY DEF A!NotSent, A!Sending, A!Steps, A!Kinds, A!IInv, A!Types
<1>2. send' = [send EXCEPT ![s] = w] /\ thumb' = None
  BY DEF A!Begin
<1> HIDE DEF w
<1>3. SendBecomes(s, w)
  BY <1>1, <1>2, AttachmentsAssumption DEF SendBecomes, SendCosts, A!Passes
<1>4. SendOnly(s) /\ s \notin stored' \cup outbox'
  BY DEF SendOnly, A!server, A!IInv, A!Types, A!ReachedByItsSend
<1> QED BY <1>2, <1>3, <1>4, AttachmentsSends DEF A!IInv, A!Types

LEMMA AttachmentsRecordingStoppedInv ==
    ASSUME A!IInv, NEW k \in A!Kinds, A!RecordingStopped(k) PROVE A!IInv'
<1> DEFINE s == rec[k].s
<1>1. /\ rec[k].at = "stopping" /\ rec' = [rec EXCEPT ![k] = A!Off] /\ A!Begin(s, k, rec[k].chat)
      /\ UNCHANGED <<open, bubbles, A!server, outbox>> /\ SendCosts
  BY AttachmentsCosts DEF A!RecordingStopped
<1>2. s \in Files /\ rec[k].chat \in Chats /\ send[s].at = "new"
  BY <1>1 DEF A!IInv, A!RecordingsAreNew
<1>3. \A j \in A!Kinds : rec'[j] = IF j = k THEN A!Off ELSE rec[j]
  BY <1>1 DEF A!IInv, A!Types
<1>4. \A t \in Files \ {s} : send'[t] = send[t]
  BY <1>1, <1>2 DEF A!Begin, A!IInv, A!Types
<1>5. \A j \in A!Kinds \ {k} : rec[j].s # s
  BY <1>2, AttachmentsAssumption DEF A!IInv, A!RecordingsAreNew, A!Kinds
<1> HIDE DEF s
<1>6. A!RecordingsAreNew'
  <2>1. \A j \in A!Kinds : IF rec'[j].at = "off" THEN rec'[j].s = None
                           ELSE rec'[j].s \in Files /\ rec'[j].chat \in Chats /\ send'[rec'[j].s].at = "new"
    BY <1>3, <1>4, <1>5 DEF A!IInv, A!RecordingsAreNew, A!Off
  <2>2. rec'["voice"].s = None \/ rec'["round"].s = None
    BY <1>3 DEF A!Off, A!Kinds
  <2> QED BY <2>1, <2>2 DEF A!RecordingsAreNew
<1>7. rec' \in [A!Kinds -> [at: {"off", "asking", "on", "grabbing", "stopping"},
                            s: Files \cup {None}, chat: Chats \cup {None}]]
  BY <1>1 DEF A!IInv, A!Types, A!Off
<1> QED BY <1>1, <1>2, <1>6, <1>7, AttachmentsBegins

LEMMA AttachmentsPickFileInv == ASSUME A!IInv, NEW s \in Files, A!PickFile(s) PROVE A!IInv'
<1>1. /\ A!Begin(s, "file", open) /\ A!Unused(s) /\ UNCHANGED <<open, rec, bubbles, A!server, outbox>> /\ SendCosts
  BY AttachmentsCosts DEF A!PickFile
<1>2. \A t \in Files \ {s} : send'[t] = send[t]
  BY <1>1 DEF A!Begin, A!IInv, A!Types
<1>3. A!RecordingsAreNew'
  BY <1>1, <1>2 DEF A!Unused, A!IInv, A!RecordingsAreNew
<1> QED BY <1>1, <1>3, AttachmentsBegins DEF A!Unused, A!IInv, A!Types

LEMMA AttachmentsBubbles ==
    ASSUME A!IInv, NEW s \in Files
    PROVE  /\ A!Shown(s) \in [Chats -> SUBSET Files] /\ A!TakenDown(s) \in [Chats -> SUBSET Files]
  BY DEF A!Shown, A!TakenDown, A!IInv, A!Types

\* A send that goes on takes nothing from the recorders.
LEMMA AttachmentsGoesOn ==
    ASSUME A!IInv, SendCosts, NEW s \in Files, NEW w, send[s].at # "new", SendBecomes(s, w), SendOnly(s),
           s \in stored' \cup outbox' => w.at \in {"ingest", "sent", "queued"},
           UNCHANGED A!page, bubbles' \in [Chats -> SUBSET Files]
    PROVE  A!IInv'
<1>1. \A t \in Files \ {s} : send'[t] = send[t]
  BY DEF SendBecomes, A!IInv, A!Types
<1>2. A!RecordingsAreNew'
  BY <1>1 DEF A!page, A!IInv, A!RecordingsAreNew
<1> QED BY <1>2, AttachmentsSends DEF A!page, A!IInv, A!Types

\* The send of s is at another step.
LEMMA AttachmentsAt ==
    ASSUME A!IInv, SendCosts, NEW s \in Files, NEW at \in A!Steps \ {"new"}, A!At(s, at), send[s].at # "new", SendOnly(s),
           at = "complete" => send[s].have = Parts,
           losses' < 3 /\ troubles' = 0 => at # "failed",
           s \in stored' \cup outbox' => at \in {"ingest", "sent", "queued"},
           UNCHANGED A!page, bubbles' \in [Chats -> SUBSET Files]
    PROVE  A!IInv'
<1> DEFINE w == [send[s] EXCEPT !.at = at]
<1>1. send[s] \in A!Sending /\ send' = [send EXCEPT ![s] = w]
  BY DEF A!At, A!IInv, A!Types
<1>2. /\ w \in A!Sending /\ w.at = at /\ w.chat = send[s].chat /\ w.have = send[s].have
      /\ w.pass = send[s].pass /\ w.next = send[s].next /\ w.tries = send[s].tries
  BY <1>1 DEF A!Sending
<1> HIDE DEF w
<1>3. SendBecomes(s, w)
  BY <1>1, <1>2 DEF SendBecomes, SendCosts, SendOnly, A!IInv, A!Types, A!Sending, A!SendsAreBegun, A!PassesAreLosses
<1> QED BY <1>2, <1>3, AttachmentsGoesOn

\* Nothing of a send that is on its way is at the server or left.
LEMMA AttachmentsSame ==
    ASSUME A!IInv, NEW s \in Files, UNCHANGED <<A!server, outbox>>
    PROVE  SendOnly(s) /\ (s \in stored' \cup outbox' => send[s].at \in {"ingest", "sent", "queued"})
  BY DEF SendOnly, A!server, A!IInv, A!Types, A!ReachedByItsSend

\* A send that fails does so for a trouble, or for the third loss.
LEMMA AttachmentsFails ==
    ASSUME A!IInv, SendCosts, NEW s \in Files, NEW transient \in BOOLEAN, A!Fail(s, transient),
           send[s].at \in {"create", "upload", "asking", "complete", "build", "post"},
           up' \in [Files -> [parts: SUBSET Parts, done: BOOLEAN]],
           \A t \in Files : up[t].parts \subseteq up'[t].parts,
           UNCHANGED <<A!page, stored, outbox>>, losses' >= 3 \/ troubles' > 0
    PROVE  A!IInv'
<1>1. bubbles' \in [Chats -> SUBSET Files]
  BY AttachmentsBubbles DEF A!Fail, A!IInv, A!Types
<1>2. SendOnly(s) /\ s \notin stored' \cup outbox'
  BY DEF SendOnly, A!IInv, A!ReachedByItsSend
<1> QED BY <1>1, <1>2, AttachmentsAt DEF A!Fail, A!Steps, SendCosts

LEMMA AttachmentsPreparedInv == ASSUME A!IInv, NEW s \in Files, A!Prepared(s) PROVE A!IInv'
  BY AttachmentsCosts, AttachmentsBubbles, AttachmentsSame, AttachmentsAt DEF A!Prepared, A!Steps

LEMMA AttachmentsCreateUploadInv == ASSUME A!IInv, NEW s \in Files, A!CreateUpload(s) PROVE A!IInv'
<1>1. CASE A!At(s, "upload") /\ UNCHANGED bubbles /\ A!Smooth
  BY <1>1, AttachmentsCosts, AttachmentsSame, AttachmentsAt DEF A!CreateUpload, A!Steps, A!IInv, A!Types
<1>2. CASE A!Fail(s, FALSE) /\ A!Trouble
  <2>1. troubles' > 0
    BY <1>2 DEF A!Trouble, A!IInv, A!Types
  <2> QED BY <1>2, <2>1, AttachmentsCosts, AttachmentsFails DEF A!CreateUpload, A!server, A!IInv, A!Types
<1> QED BY <1>1, <1>2 DEF A!CreateUpload

\* What an upload writes of a send.
SendPart(w, h, n) == [w EXCEPT !.have = h, !.next = n]
SendLost(w, n) == [w EXCEPT !.at = "asking", !.next = n]
SendState(w, h) == [w EXCEPT !.at = "upload", !.have = h]
SendPass(w) == [w EXCEPT !.pass = @ + 1, !.next = 0]

LEMMA AttachmentsPartOf ==
    ASSUME NEW w \in A!Sending, NEW h \in SUBSET Parts, NEW n \in Nat
    PROVE  LET v == SendPart(w, h, n)
           IN  /\ v \in A!Sending /\ v.at = w.at /\ v.chat = w.chat /\ v.have = h
               /\ v.pass = w.pass /\ v.next = n /\ v.tries = w.tries
  BY DEF A!Sending, SendPart

LEMMA AttachmentsLostOf ==
    ASSUME NEW w \in A!Sending, NEW n \in Nat
    PROVE  LET v == SendLost(w, n)
           IN  /\ v \in A!Sending /\ v.at = "asking" /\ v.chat = w.chat /\ v.have = w.have
               /\ v.pass = w.pass /\ v.next = n /\ v.tries = w.tries
<1>1. "asking" \in A!Steps
  BY DEF A!Steps
<1> QED BY <1>1 DEF A!Sending, SendLost

LEMMA AttachmentsStateOf ==
    ASSUME NEW w \in A!Sending, NEW h \in SUBSET Parts
    PROVE  LET v == SendState(w, h)
           IN  /\ v \in A!Sending /\ v.at = "upload" /\ v.chat = w.chat /\ v.have = h
               /\ v.pass = w.pass /\ v.next = w.next /\ v.tries = w.tries
<1>1. "upload" \in A!Steps
  BY DEF A!Steps
<1> QED BY <1>1 DEF A!Sending, SendState

LEMMA AttachmentsPassOf ==
    ASSUME NEW w \in A!Sending
    PROVE  LET v == SendPass(w)
           IN  /\ v \in A!Sending /\ v.at = w.at /\ v.chat = w.chat /\ v.have = w.have
               /\ v.pass = w.pass + 1 /\ v.next = 0 /\ v.tries = w.tries
<1>1. w.pass + 1 \in Nat /\ 0 \in Nat
  BY DEF A!Sending
<1> QED BY <1>1 DEF A!Sending, SendPass

\* The server keeps the parts it has.
LEMMA AttachmentsParts ==
    ASSUME A!IInv, NEW s \in Files, NEW p \in Parts, A!AppendPart(s, p) \/ UNCHANGED up
    PROVE  /\ up' \in [Files -> [parts: SUBSET Parts, done: BOOLEAN]]
           /\ \A t \in Files : up[t].parts \subseteq up'[t].parts
           /\ A!AppendPart(s, p) => p \in up'[s].parts
<1>1. CASE A!AppendPart(s, p)
  <2> DEFINE u == [up[s] EXCEPT !.parts = @ \cup {p}]
  <2>1. /\ up[s] \in [parts: SUBSET Parts, done: BOOLEAN] /\ up' = [up EXCEPT ![s] = u]
        /\ up \in [Files -> [parts: SUBSET Parts, done: BOOLEAN]]
    BY <1>1 DEF A!AppendPart, A!IInv, A!Types
  <2>2. u \in [parts: SUBSET Parts, done: BOOLEAN] /\ u.parts = up[s].parts \cup {p}
    BY <2>1
  <2> HIDE DEF u
  <2> QED BY <2>1, <2>2
<1>2. CASE UNCHANGED up /\ ~A!AppendPart(s, p)
  BY <1>2 DEF A!IInv, A!Types
<1> QED BY <1>1, <1>2

LEMMA AttachmentsPartUploadedInv == ASSUME A!IInv, NEW s \in Files, A!PartUploaded(s) PROVE A!IInv'
<1>1. PICK p \in A!NextPart(s) :
          /\ A!AppendPart(s, p) /\ send' = [send EXCEPT ![s].have = up'[s].parts, ![s].next = p + 1]
  BY DEF A!PartUploaded
<1>2. send[s].at = "upload" /\ UNCHANGED <<A!page, bubbles, stored, outbox>> /\ SendCosts /\ losses' = losses
  BY AttachmentsCosts DEF A!PartUploaded, A!Smooth
<1>3. /\ p \in Parts /\ p \in Nat
      /\ \A q \in Parts \ send[s].have : q >= send[s].next => p =< q
  BY <1>1, AttachmentsAssumption DEF A!NextPart, A!Ahead
<1>4. /\ up' \in [Files -> [parts: SUBSET Parts, done: BOOLEAN]]
      /\ \A t \in Files : up[t].parts \subseteq up'[t].parts
      /\ p \in up'[s].parts
  BY <1>1, <1>3, AttachmentsParts
<1> DEFINE w == SendPart(send[s], up'[s].parts, p + 1)
<1>5. send[s] \in A!Sending /\ send' = [send EXCEPT ![s] = w] /\ up'[s].parts \in SUBSET Parts
  BY <1>1, <1>4 DEF A!IInv, A!Types, SendPart
<1>6. /\ w \in A!Sending /\ w.at = "upload" /\ w.chat = send[s].chat /\ w.have = up'[s].parts
      /\ w.pass = send[s].pass /\ w.next = p + 1 /\ w.tries = send[s].tries
  <2>1. p + 1 \in Nat
    BY <1>3
  <2> QED BY <1>2, <1>5, <2>1, AttachmentsPartOf
<1> HIDE DEF w
<1>7. ASSUME NEW q \in Parts \ w.have, q < w.next
      PROVE  w.pass + 1 =< losses' /\ w.pass + 1 < A!Passes
  <2>1. q \in Nat /\ q # p /\ q =< p /\ q \in Parts /\ q \notin up'[s].parts
    BY <1>3, <1>4, <1>6, <1>7, AttachmentsAssumption
  <2>2. q < p /\ q \notin send[s].have
    BY <1>3, <1>4, <2>1 DEF A!IInv, A!PassesAreLosses
  <2>3. q < send[s].next
    BY <1>3, <1>5, <2>1, <2>2 DEF A!Sending
  <2> QED BY <1>2, <1>6, <2>1, <2>2, <2>3 DEF A!IInv, A!PassesAreLosses
<1>8. SendBecomes(s, w)
  BY <1>2, <1>5, <1>6, <1>7 DEF SendBecomes, SendCosts, A!IInv, A!Types, A!Sending, A!SendsAreBegun, A!PassesAreLosses,
                                A!LossesAreMadeUp
<1>9. SendOnly(s) /\ s \notin stored' \cup outbox'
  BY <1>2, <1>4 DEF SendOnly, A!IInv, A!ReachedByItsSend
<1> QED BY <1>2, <1>6, <1>8, <1>9, AttachmentsGoesOn DEF A!IInv, A!Types

LEMMA AttachmentsPartLostInv == ASSUME A!IInv, NEW s \in Files, A!PartLost(s) PROVE A!IInv'
<1>1. PICK p \in A!NextPart(s) :
          /\ A!AppendPart(s, p) \/ UNCHANGED up
          /\ IF send[s].pass + 1 >= A!Passes THEN A!Fail(s, FALSE)
             ELSE /\ send' = [send EXCEPT ![s].at = "asking", ![s].next = p + 1]
                  /\ UNCHANGED bubbles
  BY DEF A!PartLost
<1>2. /\ send[s].at = "upload" /\ UNCHANGED <<A!page, stored, outbox>> /\ SendCosts
      /\ losses' = losses + 1
  BY AttachmentsCosts DEF A!PartLost, A!Loss
<1>3. p \in Parts /\ p \in Nat
  BY <1>1, AttachmentsAssumption DEF A!NextPart, A!Ahead
<1>4. /\ up' \in [Files -> [parts: SUBSET Parts, done: BOOLEAN]]
      /\ \A t \in Files : up[t].parts \subseteq up'[t].parts
  BY <1>1, <1>3, AttachmentsParts
<1>5. /\ send[s] \in A!Sending /\ send[s].pass =< losses /\ losses \in Nat
      /\ send[s].have \subseteq up'[s].parts
  BY <1>4 DEF A!IInv, A!Types, A!PassesAreLosses
<1>6. CASE send[s].pass + 1 >= A!Passes
  <2>1. losses' >= 3
    BY <1>2, <1>5, <1>6 DEF A!Sending, A!Passes
  <2> QED BY <1>1, <1>2, <1>4, <1>6, <2>1, AttachmentsFails
<1>7. CASE ~(send[s].pass + 1 >= A!Passes)
  <2> DEFINE w == SendLost(send[s], p + 1)
  <2>1. send' = [send EXCEPT ![s] = w] /\ UNCHANGED bubbles
    BY <1>1, <1>7 DEF A!IInv, A!Types, SendLost
  <2>2. /\ w \in A!Sending /\ w.at = "asking" /\ w.chat = send[s].chat /\ w.have = send[s].have
        /\ w.pass = send[s].pass /\ w.tries = send[s].tries
    <3>1. p + 1 \in Nat
      BY <1>3
    <3> QED BY <1>5, <3>1, AttachmentsLostOf
  <2> HIDE DEF w
  <2>3. w.pass + 1 =< losses' /\ w.pass + 1 < A!Passes /\ w.pass =< losses'
    BY <1>2, <1>5, <1>7, <2>2 DEF A!Sending, A!Passes
  <2>4. SendBecomes(s, w)
    BY <1>2, <1>5, <2>1, <2>2, <2>3 DEF SendBecomes, A!IInv, A!SendsAreBegun
  <2>5. SendOnly(s) /\ s \notin stored' \cup outbox'
    BY <1>2, <1>4 DEF SendOnly, A!IInv, A!ReachedByItsSend
  <2> QED BY <1>2, <2>1, <2>2, <2>4, <2>5, AttachmentsGoesOn DEF A!IInv, A!Types
<1> QED BY <1>6, <1>7

LEMMA AttachmentsUploadStateInv == ASSUME A!IInv, NEW s \in Files, A!UploadState(s) PROVE A!IInv'
<1>1. send[s].at = "asking" /\ UNCHANGED <<A!page, A!server, outbox>> /\ up' = up
  BY DEF A!UploadState, A!server
<1>2. CASE /\ send' = [send EXCEPT ![s].at = "upload", ![s].have = up[s].parts]
           /\ UNCHANGED bubbles /\ A!Smooth
  <2> DEFINE w == SendState(send[s], up[s].parts)
  <2>1. /\ send[s] \in A!Sending /\ send' = [send EXCEPT ![s] = w] /\ up[s].parts \in SUBSET Parts
        /\ SendCosts /\ losses' = losses
    BY <1>2, AttachmentsCosts DEF A!IInv, A!Types, A!Smooth, SendState
  <2>2. /\ w \in A!Sending /\ w.at = "upload" /\ w.chat = send[s].chat /\ w.have = up[s].parts
        /\ w.pass = send[s].pass /\ w.next = send[s].next /\ w.tries = send[s].tries
    BY <2>1, AttachmentsStateOf
  <2> HIDE DEF w
  <2>3. SendBecomes(s, w)
    BY <1>1, <2>1, <2>2 DEF SendBecomes, A!IInv, A!SendsAreBegun, A!PassesAreLosses
  <2>4. SendOnly(s) /\ s \notin stored' \cup outbox'
    BY <1>1, AttachmentsSame
  <2> QED BY <1>1, <1>2, <2>1, <2>2, <2>3, <2>4, AttachmentsGoesOn DEF A!IInv, A!Types
<1>3. CASE A!Fail(s, FALSE) /\ A!Trouble
  <2>1. troubles' > 0
    BY <1>3 DEF A!Trouble, A!IInv, A!Types
  <2> QED BY <1>1, <1>3, <2>1, AttachmentsCosts, AttachmentsFails DEF A!server, A!IInv, A!Types
<1> QED BY <1>2, <1>3 DEF A!UploadState

LEMMA AttachmentsPassEndsInv == ASSUME A!IInv, NEW s \in Files, A!PassEnds(s) PROVE A!IInv'
<1>1. /\ send[s].at = "upload" /\ UNCHANGED <<A!page, bubbles, A!server, outbox>> /\ SendCosts
      /\ losses' = losses /\ A!Ahead(s) = {} /\ up' = up
  BY AttachmentsCosts DEF A!PassEnds, A!Smooth, A!server
<1>2. CASE A!AllParts(s)
  BY <1>1, <1>2, AttachmentsSame, AttachmentsAt DEF A!PassEnds, A!AllParts, A!Steps, A!IInv, A!Types
<1>3. CASE ~A!AllParts(s)
  <2> DEFINE w == SendPass(send[s])
  <2>1. send[s] \in A!Sending /\ send' = [send EXCEPT ![s] = w]
    BY <1>3 DEF A!PassEnds, A!IInv, A!Types, SendPass
  <2>2. /\ w \in A!Sending /\ w.at = "upload" /\ w.chat = send[s].chat /\ w.have = send[s].have
        /\ w.pass = send[s].pass + 1 /\ w.next = 0 /\ w.tries = send[s].tries
    BY <1>1, <2>1, AttachmentsPassOf
  <2> HIDE DEF w
  <2>3. PICK p \in Parts \ send[s].have : TRUE
    BY <1>3, <2>1 DEF A!AllParts, A!Sending
  <2>4. p < send[s].next
    BY <1>1, <2>1, <2>3, AttachmentsAssumption DEF A!Ahead, A!Sending
  <2>5. send[s].pass + 1 =< losses /\ send[s].pass + 1 < A!Passes
    BY <2>3, <2>4 DEF A!IInv, A!PassesAreLosses
  <2>6. SendBecomes(s, w)
    BY <1>1, <2>1, <2>2, <2>5, AttachmentsAssumption DEF SendBecomes, A!IInv, A!SendsAreBegun, A!PassesAreLosses
  <2>7. SendOnly(s) /\ s \notin stored' \cup outbox'
    BY <1>1, AttachmentsSame
  <2> QED BY <1>1, <2>2, <2>6, <2>7, AttachmentsGoesOn DEF A!IInv, A!Types
<1> QED BY <1>2, <1>3

LEMMA AttachmentsCompleteUploadInv == ASSUME A!IInv, NEW s \in Files, A!CompleteUpload(s) PROVE A!IInv'
<1>1. send[s].at = "complete" /\ UNCHANGED <<A!page, stored, outbox>> /\ SendCosts
  BY AttachmentsCosts DEF A!CompleteUpload
<1>2. A!HasEvery(s)
  <2>1. up[s].parts \subseteq Parts
    BY DEF A!IInv, A!Types
  <2> QED BY <1>1, <2>1 DEF A!HasEvery, A!IInv, A!PassesAreLosses
<1>3. /\ up' = [up EXCEPT ![s].done = TRUE] \/ up' = up
      /\ \/ A!At(s, "build") /\ bubbles' = A!Shown(s) /\ A!Smooth
         \/ A!Fail(s, FALSE) /\ A!Trouble
  BY <1>2 DEF A!CompleteUpload
<1>4. /\ up' \in [Files -> [parts: SUBSET Parts, done: BOOLEAN]]
      /\ \A t \in Files : up[t].parts \subseteq up'[t].parts
  <2> DEFINE u == [up[s] EXCEPT !.done = TRUE]
  <2>1. /\ up[s] \in [parts: SUBSET Parts, done: BOOLEAN] /\ (up' = [up EXCEPT ![s] = u] \/ up' = up)
        /\ up \in [Files -> [parts: SUBSET Parts, done: BOOLEAN]]
    BY <1>3 DEF A!IInv, A!Types
  <2>2. u \in [parts: SUBSET Parts, done: BOOLEAN] /\ u.parts = up[s].parts
    BY <2>1
  <2> HIDE DEF u
  <2> QED BY <2>1, <2>2
<1>5. SendOnly(s) /\ s \notin stored' \cup outbox'
  BY <1>1, <1>4 DEF SendOnly, A!IInv, A!ReachedByItsSend
<1>6. CASE A!At(s, "build") /\ bubbles' = A!Shown(s) /\ A!Smooth
  BY <1>1, <1>5, <1>6, AttachmentsBubbles, AttachmentsAt DEF A!Steps
<1>7. CASE A!Fail(s, FALSE) /\ A!Trouble
  <2>1. troubles' > 0
    BY <1>7 DEF A!Trouble, A!IInv, A!Types
  <2> QED BY <1>1, <1>4, <1>7, <2>1, AttachmentsFails
<1> QED BY <1>3, <1>6, <1>7

LEMMA AttachmentsBuildPayloadInv == ASSUME A!IInv, NEW s \in Files, A!BuildPayload(s) PROVE A!IInv'
<1>1. send[s].at = "build" /\ UNCHANGED <<A!page, A!server, outbox>> /\ up' = up /\ UNCHANGED <<stored, outbox>>
  BY DEF A!BuildPayload, A!server
<1>2. CASE A!At(s, "post") /\ UNCHANGED bubbles /\ A!Smooth
  BY <1>1, <1>2, AttachmentsCosts, AttachmentsSame, AttachmentsAt DEF A!Steps, A!IInv, A!Types
<1>3. CASE /\ A!Smooth /\ ~A!GiveUp(s) /\ UNCHANGED bubbles /\ send' = [send EXCEPT ![s].tries = @ + 1]
  <2> DEFINE w == [send[s] EXCEPT !.tries = @ + 1]
  <2>1. send[s] \in A!Sending /\ send' = [send EXCEPT ![s] = w] /\ SendCosts /\ losses' = losses
    BY <1>3, AttachmentsCosts DEF A!IInv, A!Types, A!Smooth
  <2>2. /\ w \in A!Sending /\ w.at = "build" /\ w.chat = send[s].chat /\ w.have = send[s].have
        /\ w.pass = send[s].pass /\ w.next = send[s].next /\ w.tries = send[s].tries + 1
    BY <1>1, <2>1 DEF A!Sending
  <2> HIDE DEF w
  <2>3. w.tries < MaxAttempts
    BY <1>3, <2>1, <2>2, AttachmentsAssumption DEF A!GiveUp, A!Sending, A!IInv, A!SendsAreBegun
  <2>4. SendBecomes(s, w)
    BY <1>1, <2>1, <2>2, <2>3 DEF SendBecomes, A!IInv, A!SendsAreBegun, A!PassesAreLosses
  <2>5. SendOnly(s) /\ s \notin stored' \cup outbox'
    BY <1>1, AttachmentsSame
  <2> QED BY <1>1, <1>3, <2>1, <2>2, <2>4, <2>5, AttachmentsGoesOn DEF A!IInv, A!Types
<1>4. ASSUME A!Trouble, NEW transient \in BOOLEAN, A!Fail(s, transient) PROVE A!IInv'
  <2>1. troubles' > 0
    BY <1>4 DEF A!Trouble, A!IInv, A!Types
  <2> QED BY <1>1, <1>4, <2>1, AttachmentsCosts, AttachmentsFails DEF A!IInv, A!Types
<1> QED BY <1>2, <1>3, <1>4 DEF A!BuildPayload

LEMMA AttachmentsPostedInv == ASSUME A!IInv, NEW s \in Files, A!Posted(s) PROVE A!IInv'
<1>1. SendOnly(s)
  BY DEF A!Posted, SendOnly, A!IInv, A!Types
<1> QED BY <1>1, AttachmentsCosts, AttachmentsAt DEF A!Posted, A!Steps, A!IInv, A!Types

LEMMA AttachmentsPostLostInv == ASSUME A!IInv, NEW s \in Files, A!PostLost(s) PROVE A!IInv'
<1>1. SendOnly(s)
  BY DEF A!PostLost, A!Leave, SendOnly, A!IInv, A!Types
<1> QED BY <1>1, AttachmentsCosts, AttachmentsAt DEF A!PostLost, A!Leave, A!Steps, A!IInv, A!Types

LEMMA AttachmentsPostRefusedInv == ASSUME A!IInv, NEW s \in Files, A!PostRefused(s) PROVE A!IInv'
<1>1. troubles' > 0
  BY DEF A!PostRefused, A!Trouble, A!IInv, A!Types
<1> QED BY <1>1, AttachmentsCosts, AttachmentsFails DEF A!PostRefused, A!server, A!IInv, A!Types

LEMMA AttachmentsIngestedInv == ASSUME A!IInv, NEW s \in Files, A!Ingested(s) PROVE A!IInv'
<1>1. bubbles' \in [Chats -> SUBSET Files] /\ SendCosts
  BY AttachmentsBubbles, AttachmentsCosts DEF A!Ingested, A!IInv, A!Types
<1> QED BY <1>1, AttachmentsSame, AttachmentsAt DEF A!Ingested, A!Steps

-----------------------------------------------------------------------------
(* Around it.                                                              *)

\* The outbox has only what was left to it.
LEMMA AttachmentsReplayedInv == ASSUME A!IInv, NEW s \in Files, A!Replayed(s) PROVE A!IInv'
<1>1. /\ s \in outbox /\ outbox' = outbox \ {s} /\ stored' = stored \cup {s}
      /\ UNCHANGED <<A!page, send, bubbles, up>> /\ SendCosts /\ losses' = losses /\ troubles' = troubles
  BY AttachmentsCosts DEF A!Replayed, A!Smooth
<1>2. A!Types'
  BY <1>1 DEF SendCosts, A!page, A!IInv, A!Types
<1>3. A!ReachedByItsSend'
  BY <1>1 DEF A!IInv, A!ReachedByItsSend
<1> QED BY <1>1, <1>2, <1>3 DEF A!page, A!IInv, A!RecordingsAreNew, A!SendsAreBegun, A!PassesAreLosses, A!LossesAreMadeUp

LEMMA AttachmentsSyncInv == ASSUME A!IInv, A!Sync PROVE A!IInv'
<1>1. bubbles' \in [Chats -> SUBSET Files] /\ A!RecordingsAreNew'
  BY DEF A!Sync, A!SyncThread, A!page, A!IInv, A!Types, A!RecordingsAreNew
<1> QED BY <1>1, AttachmentsCosts, AttachmentsStill DEF A!Sync, A!page, A!IInv, A!Types

LEMMA AttachmentsNext == ASSUME A!IInv, A!Next \/ UNCHANGED A!atVars PROVE A!IInv'
<1>1. CASE UNCHANGED A!atVars
  BY <1>1 DEF A!atVars, A!page, A!server, A!IInv, A!Types, A!RecordingsAreNew, A!SendsAreBegun, A!PassesAreLosses,
              A!ReachedByItsSend, A!LossesAreMadeUp
<1>2. ASSUME NEW c \in Chats, A!SelectChat(c) PROVE A!IInv'
  BY <1>2, AttachmentsSelectChatInv
<1>3. ASSUME NEW k \in A!Kinds, \/ \E s \in Files : A!AskRecording(k, s)
                                \/ A!RecordingStarts(k) \/ A!RecordingDenied(k) \/ A!StopRecording(k)
                                \/ A!Grabbed(k) \/ A!RecordingStopped(k) \/ A!RecordingEmpty(k)
      PROVE  A!IInv'
  BY <1>3, AttachmentsAskRecordingInv, AttachmentsRecorderInv, AttachmentsRecordingStoppedInv
<1>4. CASE A!DiscardRecording \/ A!Sync
  BY <1>4, AttachmentsDiscardInv, AttachmentsSyncInv
<1>5. ASSUME NEW s \in Files, A!Goes(s) PROVE A!IInv'
  BY <1>5, AttachmentsPreparedInv, AttachmentsCreateUploadInv, AttachmentsPartUploadedInv,
     AttachmentsUploadStateInv, AttachmentsPassEndsInv, AttachmentsCompleteUploadInv,
     AttachmentsBuildPayloadInv, AttachmentsPostedInv, AttachmentsIngestedInv, AttachmentsReplayedInv
     DEF A!Goes
<1>6. ASSUME NEW s \in Files, A!PickFile(s) \/ A!PartLost(s) \/ A!PostLost(s) \/ A!PostRefused(s) PROVE A!IInv'
  BY <1>6, AttachmentsPickFileInv, AttachmentsPartLostInv, AttachmentsPostLostInv,
     AttachmentsPostRefusedInv
<1> QED BY <1>1, <1>2, <1>3, <1>4, <1>5, <1>6 DEF A!Next

\* What follows from the invariant.
LEMMA AttachmentsPromises == A!IInv => A!TypeOK /\ A!LossesAreMadeUp /\ A!FailureIsTrue
<1> SUFFICES ASSUME A!IInv PROVE A!TypeOK /\ A!LossesAreMadeUp /\ A!FailureIsTrue
  OBVIOUS
<1>1. A!TypeOK
  BY DEF A!IInv, A!Types, A!Sending, A!SendsAreBegun, A!TypeOK
<1>2. A!FailureIsTrue
  BY DEF A!IInv, A!ReachedByItsSend, A!FailureIsTrue
<1> QED BY <1>1, <1>2 DEF A!IInv

-----------------------------------------------------------------------------
(* Navigation. *)

LEMMA NavigationOpened ==
    /\ L!NoChat \in L!Opened
    /\ \A s \in Servers \cup {None}, i \in L!Ids : [server |-> s, id |-> i] \in L!Opened
    /\ L!Links \subseteq L!Opened
    /\ \A c \in L!Opened : c.server # None => c.server \in Servers /\ c.id \in L!Ids
  BY DEF L!NoChat, L!Opened, L!Ids, L!Links

LEMMA NavigationInit == L!Init => L!IInv
<1> SUFFICES ASSUME L!Init PROVE L!IInv
  OBVIOUS
<1>1. L!TypeOK
  <2>1. active \in L!Opened /\ synced \in L!Opened /\ query \in L!Links
    BY DEF L!Init, L!Opened, L!NoChat, L!Links, L!Ids
  <2>2. asks \in [1..MaxAsks -> [at : {"new", "sent", "ok", "refused", "done"},
                                 id : L!Ids \cup {None}, server : Servers \cup {None}]]
    BY DEF L!Init, L!Unasked
  <2>3. listed \in [Servers -> SUBSET L!Ids] /\ joined \in [Servers -> SUBSET L!Ids]
    BY DEF L!Init, L!Ids
  <2>4. uses \in 0..MaxUses /\ clicks \in 0..MaxClicks
    BY NavigationAssumption DEF L!Init
  <2>5. /\ picked \in BOOLEAN /\ validating \in BOOLEAN /\ scope = None /\ selected \in Servers
        /\ path \in {None, "invite", "join"}
    BY DEF L!Init
  <2> QED BY <2>1, <2>2, <2>3, <2>4, <2>5 DEF L!TypeOK
<1>2. L!ChosenFollows
  BY DEF L!Init, L!ChosenFollows, L!NoChat
<1>3. L!AskedAtHome
  BY DEF L!Init, L!AskedAtHome, L!Unasked
<1>4. L!FiledAtHome
  BY DEF L!Init, L!FiledAtHome
<1> QED BY <1>1, <1>2, <1>3, <1>4 DEF L!IInv

\* What a list is asked for is a chat of the page.
LEMMA NavigationNormalized ==
    ASSUME L!TypeOK, NEW link \in L!Links, link # L!NoChat, NEW c \in L!Normalized(link)
    PROVE  c \in L!Opened
<1>1. link.id = "old" /\ link \in L!Opened
  BY NavigationOpened DEF L!Links, L!NoChat
<1> QED BY <1>1 DEF L!Normalized, L!Opened, L!Ids

\* Asking fills a free place.
LEMMA NavigationAsked ==
    ASSUME L!IInv, NEW i \in 1..MaxAsks, NEW id \in L!Ids, NEW s \in Servers, L!Ask(i, id, s),
           joined' = joined
    PROVE  /\ asks' \in [1..MaxAsks -> [at : {"new", "sent", "ok", "refused", "done"},
                                        id : L!Ids \cup {None}, server : Servers \cup {None}]]
           /\ L!AskedAtHome'
<1>1. asks' = [asks EXCEPT ![i] = [at |-> "sent", id |-> id, server |-> s]]
  BY DEF L!Ask
<1>2. \A j \in 1..MaxAsks : asks'[j] = IF j = i THEN [at |-> "sent", id |-> id, server |-> s] ELSE asks[j]
  BY <1>1 DEF L!IInv, L!TypeOK
<1> QED BY <1>1, <1>2 DEF L!IInv, L!TypeOK, L!AskedAtHome

LEMMA NavigationChooseChatInv ==
    ASSUME L!IInv, NEW s \in Servers, NEW id \in L!Ids, L!ChooseChat(s, id) PROVE L!IInv'
<1>1. active' \in L!Opened /\ clicks' \in 0..MaxClicks
  BY NavigationOpened, NavigationAssumption DEF L!ChooseChat, L!Open, L!Click, L!IInv, L!TypeOK
<1> QED BY <1>1 DEF L!ChooseChat, L!address, L!remote, L!IInv, L!TypeOK, L!ChosenFollows, L!AskedAtHome, L!FiledAtHome

LEMMA NavigationChooseServerInv ==
    ASSUME L!IInv, NEW s \in Servers, L!ChooseServer(s) PROVE L!IInv'
<1>1. clicks' \in 0..MaxClicks
  BY NavigationAssumption DEF L!ChooseServer, L!Click, L!IInv, L!TypeOK
<1> QED BY <1>1 DEF L!ChooseServer, L!address, L!remote, L!IInv, L!TypeOK, L!ChosenFollows, L!AskedAtHome, L!FiledAtHome

LEMMA NavigationListChatsInv ==
    ASSUME L!IInv, NEW s \in Servers, L!ListChats(s) PROVE L!IInv'
<1>1. PICK ids \in SUBSET joined[s] : listed' = [listed EXCEPT ![s] = ids]
  BY DEF L!ListChats
<1>2. listed' \in [Servers -> SUBSET L!Ids] /\ L!FiledAtHome'
  BY <1>1 DEF L!ListChats, L!IInv, L!TypeOK, L!FiledAtHome, L!remote
<1> QED BY <1>2 DEF L!ListChats, L!chosen, L!address, L!remote, L!IInv, L!TypeOK, L!ChosenFollows, L!AskedAtHome

LEMMA NavigationPopStateInv ==
    ASSUME L!IInv, NEW link \in L!Links, L!PopState(link) PROVE L!IInv'
<1>1. active' \in L!Opened /\ clicks' \in 0..MaxClicks
  BY NavigationNormalized, NavigationAssumption DEF L!PopState, L!Open, L!Click, L!IInv, L!TypeOK
<1> QED BY <1>1 DEF L!PopState, L!address, L!remote, L!IInv, L!TypeOK, L!ChosenFollows, L!AskedAtHome, L!FiledAtHome

\* The server follows the chat that is rendered.
LEMMA NavigationRenderInv == ASSUME L!IInv, L!Render PROVE L!IInv'
<1>1. active' \in L!Opened /\ query' \in L!Links
  <2>1. CASE L!FollowQuery
    BY <2>1, NavigationNormalized DEF L!FollowQuery, L!Open, L!IInv, L!TypeOK, L!Links
  <2>2. CASE query = L!NoChat /\ L!KeepOpen /\ query' = query
    <3>1. L!OpenFirst => active' \in L!Opened
      BY NavigationOpened DEF L!OpenFirst, L!Open, L!IInv, L!TypeOK
    <3> QED BY <2>2, <3>1 DEF L!KeepOpen, L!Open, L!IInv, L!TypeOK
  <2> QED BY <2>1, <2>2 DEF L!Render
<1>2. selected' \in Servers /\ scope' \in Servers /\ synced' \in L!Opened /\ picked' \in BOOLEAN
  BY NavigationOpened DEF L!Render, L!SyncServer, L!IInv, L!TypeOK
<1>3. L!ChosenFollows'
  <2>1. CASE active = synced
    BY <2>1 DEF L!Render, L!SyncServer, L!IInv, L!ChosenFollows
  <2>2. CASE active # synced
    BY <2>2 DEF L!Render, L!SyncServer, L!IInv, L!ChosenFollows
  <2> QED BY <2>1, <2>2
<1>4. /\ asks' \in [1..MaxAsks -> [at : {"new", "sent", "ok", "refused", "done"},
                                   id : L!Ids \cup {None}, server : Servers \cup {None}]]
      /\ L!AskedAtHome'
  <2>1. CASE UNCHANGED asks
    BY <2>1 DEF L!Render, L!remote, L!IInv, L!TypeOK, L!AskedAtHome
  <2>2. ASSUME NEW i \in 1..MaxAsks, L!Ask(i, "linked", selected) PROVE <1>4!1 /\ <1>4!2
    BY <2>2, NavigationAsked DEF L!Render, L!remote, L!IInv, L!TypeOK, L!Ids
  <2> QED BY <2>1, <2>2 DEF L!Render, L!FollowInvite
<1> QED BY <1>1, <1>2, <1>3, <1>4 DEF L!Render, L!remote, L!IInv, L!TypeOK, L!FiledAtHome

LEMMA NavigationStartDirectInv ==
    ASSUME L!IInv, NEW i \in 1..MaxAsks, L!StartDirect(i) PROVE L!IInv'
<1>1. /\ asks' \in [1..MaxAsks -> [at : {"new", "sent", "ok", "refused", "done"},
                                   id : L!Ids \cup {None}, server : Servers \cup {None}]]
      /\ L!AskedAtHome'
  BY NavigationAsked DEF L!StartDirect, L!remote, L!IInv, L!TypeOK, L!Ids
<1>2. clicks' \in 0..MaxClicks
  BY NavigationAssumption DEF L!StartDirect, L!Click, L!IInv, L!TypeOK
<1> QED BY <1>1, <1>2 DEF L!StartDirect, L!chosen, L!address, L!remote, L!IInv, L!TypeOK, L!ChosenFollows, L!FiledAtHome

\* The server grants a request, and has the chat from then on.
LEMMA NavigationArriveInv ==
    ASSUME L!IInv, NEW i \in 1..MaxAsks, L!Arrive(i) PROVE L!IInv'
<1>1. /\ asks[i].at = "sent" /\ asks[i].server \in Servers /\ asks[i].id \in L!Ids
      /\ asks' = [asks EXCEPT ![i].at = "ok"]
  BY DEF L!Arrive, L!IInv, L!AskedAtHome
<1>2. joined' = [joined EXCEPT ![asks[i].server] = @ \cup {asks[i].id}] /\ uses' \in 0..MaxUses
  BY NavigationAssumption DEF L!Arrive, L!Has, L!IInv, L!TypeOK
<1>3. /\ joined' \in [Servers -> SUBSET L!Ids] /\ asks[i].id \in joined'[asks[i].server]
      /\ \A s \in Servers : joined[s] \subseteq joined'[s]
  BY <1>1, <1>2 DEF L!IInv, L!TypeOK
<1>4. \A j \in 1..MaxAsks : /\ asks'[j].id = asks[j].id /\ asks'[j].server = asks[j].server
                            /\ asks'[j].at = IF j = i THEN "ok" ELSE asks[j].at
  BY <1>1 DEF L!IInv, L!TypeOK
<1>5. asks' \in [1..MaxAsks -> [at : {"new", "sent", "ok", "refused", "done"},
                                id : L!Ids \cup {None}, server : Servers \cup {None}]]
  BY <1>1 DEF L!IInv, L!TypeOK
<1>6. L!AskedAtHome'
  <2> SUFFICES ASSUME NEW j \in 1..MaxAsks
               PROVE  /\ asks'[j].at # "new" => asks'[j].id \in L!Ids /\ asks'[j].server \in Servers
                      /\ asks'[j].at = "ok" => asks'[j].id \in joined'[asks'[j].server]
    BY DEF L!AskedAtHome
  <2>1. CASE j = i
    BY <1>1, <1>3, <1>4, <2>1
  <2>2. CASE j # i
    BY <1>3, <1>4, <2>2 DEF L!IInv, L!AskedAtHome
  <2> QED BY <2>1, <2>2
<1>7. L!FiledAtHome'
  BY <1>3 DEF L!Arrive, L!IInv, L!FiledAtHome
<1> QED BY <1>2, <1>3, <1>5, <1>6, <1>7 DEF L!Arrive, L!chosen, L!address, L!IInv, L!TypeOK, L!ChosenFollows

LEMMA NavigationRefuseInv ==
    ASSUME L!IInv, NEW i \in 1..MaxAsks, L!Refuse(i) PROVE L!IInv'
<1>1. asks[i].at = "sent" /\ asks' = [asks EXCEPT ![i].at = "refused"]
  BY DEF L!Refuse
<1>2. \A j \in 1..MaxAsks : /\ asks'[j].id = asks[j].id /\ asks'[j].server = asks[j].server
                            /\ asks'[j].at = IF j = i THEN "refused" ELSE asks[j].at
  BY <1>1 DEF L!IInv, L!TypeOK
<1>3. asks' \in [1..MaxAsks -> [at : {"new", "sent", "ok", "refused", "done"},
                                id : L!Ids \cup {None}, server : Servers \cup {None}]]
  BY <1>1 DEF L!IInv, L!TypeOK
<1>4. L!AskedAtHome'
  BY <1>1, <1>2 DEF L!Refuse, L!remote, L!IInv, L!AskedAtHome
<1> QED BY <1>3, <1>4 DEF L!Refuse, L!chosen, L!address, L!remote, L!IInv, L!TypeOK, L!ChosenFollows, L!FiledAtHome

\* The answer files the chat under the server that was asked, and opens it.
LEMMA NavigationAnswerInv ==
    ASSUME L!IInv, NEW i \in 1..MaxAsks, L!Answer(i) PROVE L!IInv'
<1>1. /\ asks[i].at \in {"ok", "refused"} /\ asks[i].server \in Servers /\ asks[i].id \in L!Ids
      /\ asks' = [asks EXCEPT ![i].at = "done"]
  BY DEF L!Answer, L!IInv, L!AskedAtHome
<1>2. \A j \in 1..MaxAsks : /\ asks'[j].id = asks[j].id /\ asks'[j].server = asks[j].server
                            /\ asks'[j].at = IF j = i THEN "done" ELSE asks[j].at
  BY <1>1 DEF L!IInv, L!TypeOK
<1>3. asks' \in [1..MaxAsks -> [at : {"new", "sent", "ok", "refused", "done"},
                                id : L!Ids \cup {None}, server : Servers \cup {None}]]
  BY <1>1 DEF L!IInv, L!TypeOK
<1>4. L!AskedAtHome'
  BY <1>1, <1>2 DEF L!Answer, L!remote, L!IInv, L!AskedAtHome
<1>5. listed' \in [Servers -> SUBSET L!Ids] /\ active' \in L!Opened /\ L!FiledAtHome'
  <2>1. CASE asks[i].at = "ok"
    <3>1. /\ listed' = [listed EXCEPT ![asks[i].server] = @ \cup {asks[i].id}]
          /\ active' = [server |-> asks[i].server, id |-> asks[i].id]
          /\ asks[i].id \in joined[asks[i].server] /\ joined' = joined
      BY <2>1 DEF L!Answer, L!File, L!Open, L!remote, L!IInv, L!AskedAtHome
    <3> QED BY <1>1, <3>1, NavigationOpened DEF L!IInv, L!TypeOK, L!FiledAtHome
  <2>2. CASE asks[i].at # "ok"
    BY <2>2 DEF L!Answer, L!remote, L!IInv, L!TypeOK, L!FiledAtHome
  <2> QED BY <2>1, <2>2
<1>6. path' \in {None, "invite", "join"}
  BY DEF L!Answer, L!ClearAddress, L!IInv, L!TypeOK
<1> QED BY <1>3, <1>4, <1>5, <1>6 DEF L!Answer, L!remote, L!IInv, L!TypeOK, L!ChosenFollows

LEMMA NavigationValidatedInv == ASSUME L!IInv, L!Validated PROVE L!IInv'
  BY DEF L!Validated, L!chosen, L!remote, L!IInv, L!TypeOK, L!ChosenFollows, L!AskedAtHome, L!FiledAtHome

LEMMA NavigationNext == ASSUME L!IInv, L!Next \/ UNCHANGED L!navVars PROVE L!IInv'
<1>1. CASE UNCHANGED L!navVars
  BY <1>1 DEF L!navVars, L!chosen, L!address, L!remote, L!IInv, L!TypeOK, L!ChosenFollows, L!AskedAtHome, L!FiledAtHome
<1>2. ASSUME NEW s \in Servers, L!ChooseServer(s) \/ L!ListChats(s) \/ \E id \in L!Ids : L!ChooseChat(s, id)
      PROVE  L!IInv'
  BY <1>2, NavigationChooseServerInv, NavigationListChatsInv, NavigationChooseChatInv
<1>3. ASSUME NEW link \in L!Links, L!PopState(link) PROVE L!IInv'
  BY <1>3, NavigationPopStateInv
<1>4. ASSUME NEW i \in 1..MaxAsks, L!StartDirect(i) \/ L!Ends(i) PROVE L!IInv'
  BY <1>4, NavigationStartDirectInv, NavigationArriveInv, NavigationRefuseInv, NavigationAnswerInv DEF L!Ends
<1> QED BY <1>1, <1>2, <1>3, <1>4, NavigationRenderInv, NavigationValidatedInv DEF L!Next

\* What follows from the invariant.
LEMMA NavigationPromises == L!IInv => L!TypeOK /\ L!ScopeFollowsChat /\ L!FiledAtHome
  BY DEF L!IInv, L!ChosenFollows, L!ScopeFollowsChat

-----------------------------------------------------------------------------
(* All of them: the parts share no variable. *)

\* A step of the client is one of a part or leaves it alone.
LEMMA StepOfSessions == ASSUME [ClientNext]_clientVars PROVE [Next]_vars
  BY DEF ClientNext, InPart, clientVars

LEMMA StepOfDrafts == ASSUME [ClientNext]_clientVars PROVE D!Next \/ UNCHANGED D!drVars
<1>1. UNCHANGED drVars => UNCHANGED D!drVars
  BY DEF drVars, D!drVars
<1> QED BY <1>1 DEF ClientNext, InPart, clientVars

LEMMA StepOfStores ==
    ASSUME [ClientNext]_clientVars PROVE S!CacheNext \/ S!OutboxNext \/ UNCHANGED S!vars
<1>1. UNCHANGED stVars => UNCHANGED S!vars
  BY DEF stVars, S!vars, S!cacheVars, S!outVars
<1> QED BY <1>1 DEF ClientNext, InPart, clientVars

LEMMA StepOfSettings == ASSUME [ClientNext]_clientVars PROVE O!Next \/ UNCHANGED O!vars
<1>1. UNCHANGED seVars => UNCHANGED O!vars
  BY DEF seVars, O!vars
<1> QED BY <1>1 DEF ClientNext, InPart, clientVars

LEMMA StepOfBackups == ASSUME [ClientNext]_clientVars PROVE B!Next \/ UNCHANGED B!vars
<1>1. UNCHANGED baVars => UNCHANGED B!vars
  BY DEF baVars, B!vars
<1> QED BY <1>1 DEF ClientNext, InPart, clientVars

LEMMA StepOfGroups == ASSUME [ClientNext]_clientVars PROVE G!Next \/ UNCHANGED G!grVars
<1>1. UNCHANGED grVars => UNCHANGED G!grVars
  BY DEF grVars, G!grVars
<1> QED BY <1>1 DEF ClientNext, InPart, clientVars

LEMMA StepOfTyping == ASSUME [ClientNext]_clientVars PROVE T!Next \/ UNCHANGED T!tyVars
<1>1. UNCHANGED tyVars => UNCHANGED T!tyVars
  BY DEF tyVars, T!tyVars
<1> QED BY <1>1 DEF ClientNext, InPart, clientVars

LEMMA StepOfRealtime == ASSUME [ClientNext]_clientVars PROVE R!Next \/ UNCHANGED R!rtVars
<1>1. UNCHANGED rtVars => UNCHANGED R!rtVars
  BY DEF rtVars, R!rtVars
<1> QED BY <1>1 DEF ClientNext, InPart, clientVars

LEMMA StepOfPhotos == ASSUME [ClientNext]_clientVars PROVE P!Next \/ UNCHANGED P!vars
<1>1. UNCHANGED phVars => UNCHANGED P!vars
  BY DEF phVars, P!vars, P!page, P!avatars, P!list, P!session
<1> QED BY <1>1 DEF ClientNext, InPart, clientVars

LEMMA StepOfNotices == ASSUME [ClientNext]_clientVars PROVE N!Next \/ UNCHANGED N!vars
<1>1. UNCHANGED noVars => UNCHANGED N!vars
  BY DEF noVars, N!vars
<1> QED BY <1>1 DEF ClientNext, InPart, clientVars

LEMMA StepOfAttachments == ASSUME [ClientNext]_clientVars PROVE A!Next \/ UNCHANGED A!atVars
<1>1. UNCHANGED atVars => UNCHANGED A!atVars
  BY DEF atVars, A!atVars, A!page, A!server
<1> QED BY <1>1 DEF ClientNext, InPart, clientVars

LEMMA StepOfNavigation == ASSUME [ClientNext]_clientVars PROVE L!Next \/ UNCHANGED L!navVars
<1>1. UNCHANGED navVars => UNCHANGED L!navVars
  BY DEF navVars, L!navVars, L!chosen, L!address, L!remote
<1> QED BY <1>1 DEF ClientNext, InPart, clientVars

KeptInv == IInv /\ D!IInv /\ S!IInv /\ O!IInv /\ B!IInv /\ A!IInv

\* The six invariants hold together in every state of the client.
THEOREM Inductive == ClientSpec => []KeptInv
<1>1. ClientInit => KeptInv
  BY SessionsInit, DraftsInit, StoresInit, SettingsInit, BackupsInit, AttachmentsInit
     DEF ClientInit, KeptInv
<1>2. KeptInv /\ [ClientNext]_clientVars => KeptInv'
  <2> SUFFICES ASSUME KeptInv, [ClientNext]_clientVars PROVE KeptInv'
    OBVIOUS
  <2>1. IInv'
    BY SessionsNext, StepOfSessions DEF KeptInv
  <2>2. D!IInv'
    BY DraftsNext, StepOfDrafts DEF KeptInv
  <2>3. S!IInv'
    BY StoresNext, StepOfStores DEF KeptInv
  <2>4. O!IInv'
    BY SettingsNext, StepOfSettings DEF KeptInv
  <2>5. B!IInv'
    BY BackupsNext, StepOfBackups DEF KeptInv
  <2>6. A!IInv'
    BY AttachmentsNext, StepOfAttachments DEF KeptInv
  <2> QED BY <2>1, <2>2, <2>3, <2>4, <2>5, <2>6 DEF KeptInv
<1> QED BY <1>1, <1>2, PTL DEF ClientSpec

\* What a page or a device keeps, it keeps: a user's drafts, the thread that was
\* saved last, a queued message, a choice, a dismissed reminder, one session for
\* each one-time key, the parts of an upload.
THEOREM Kept == ClientSpec => []KeptOnDevice
<1>1. KeptInv => KeptOnDevice
  BY SessionsPromises, DraftsPromises, StoresPromises, SettingsPromises, BackupsPromises,
     AttachmentsPromises DEF KeptInv, KeptOnDevice, Of
<1> QED BY <1>1, Inductive, PTL

ShownInv == G!IInv /\ T!IInv /\ R!IInv /\ P!IInv /\ N!IInv /\ L!IInv

\* The six invariants hold together in every state of the client.
THEOREM ShownInductive == ClientSpec => []ShownInv
<1>1. ClientInit => ShownInv
  BY GroupsInit, TypingInit, RealtimeInit, PhotosInit, NoticesInit, NavigationInit
     DEF ClientInit, ShownInv
<1>2. ShownInv /\ [ClientNext]_clientVars => ShownInv'
  <2> SUFFICES ASSUME ShownInv, [ClientNext]_clientVars PROVE ShownInv'
    OBVIOUS
  <2>1. G!IInv'
    BY GroupsNext, StepOfGroups DEF ShownInv
  <2>2. T!IInv'
    BY TypingNext, StepOfTyping DEF ShownInv
  <2>3. R!IInv'
    BY RealtimeNext, StepOfRealtime DEF ShownInv
  <2>4. P!IInv'
    BY PhotosNext, StepOfPhotos DEF ShownInv
  <2>5. N!IInv'
    BY NoticesNext, StepOfNotices DEF ShownInv
  <2>6. L!IInv'
    BY NavigationNext, StepOfNavigation DEF ShownInv
  <2> QED BY <2>1, <2>2, <2>3, <2>4, <2>5, <2>6 DEF ShownInv
<1> QED BY <1>1, <1>2, PTL DEF ClientSpec

\* What a page shows of others is so: a group's roster, title and offers, who is
\* typing, the connection and the thread on it, the photos, what it tells of,
\* the server it asks.
THEOREM Shown == ClientSpec => []ShownIsTrue
<1>1. N!IInv => N!TypeOK /\ N!ToldOnce
  BY DEF N!IInv
<1>2. ShownInv => ShownIsTrue
  BY <1>1, GroupsPromises, TypingPromises, RealtimePromises, PhotosPromises,
     NavigationPromises DEF ShownInv, ShownIsTrue, Of
<1> QED BY <1>2, ShownInductive, PTL

\* What was seen in focus is not told of later; what arrives out of focus in the
\* open chat of a page that may tell is told of at once.
THEOREM Notified == ClientSpec => NoticesTell
<1>1. ShownInv /\ [ClientNext]_clientVars =>
         [\A m \in Notes : m \in seen => told'[m] =< told[m]]_N!vars
  <2> SUFFICES ASSUME ShownInv, [ClientNext]_clientVars, NEW m \in Notes, m \in seen
               PROVE  told'[m] =< told[m]
    OBVIOUS
  <2> QED BY StepOfNotices, NoticesStepSeen DEF ShownInv
<1>2. ShownInv /\ [ClientNext]_clientVars =>
         [\A m \in Notes \ Own :
             /\ granted /\ wanted /\ ~focused /\ loaded
             /\ loaded' /\ viewing' = viewing /\ m \in items' \ items
             => told'[m] = told[m] + 1]_N!vars
  <2> SUFFICES ASSUME ShownInv, [ClientNext]_clientVars, NEW m \in Notes \ Own,
                      granted, wanted, ~focused, loaded,
                      loaded', viewing' = viewing, m \in items' \ items
               PROVE  told'[m] = told[m] + 1
    OBVIOUS
  <2> QED BY StepOfNotices, NoticesStepTells DEF ShownInv
<1> QED BY <1>1, <1>2, ShownInductive, PTL
    DEF ClientSpec, NoticesTell, N!SeenIsNotTold, N!NewIsTold
=============================================================================

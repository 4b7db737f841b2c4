--------------------------- MODULE CallKeys_proofs ---------------------------
(* Theorems about CallKeys, for any devices, any number of overlapping      *)
(* syncs and any number of failures.                                        *)
EXTENDS CallKeys, TLAPS

-----------------------------------------------------------------------------
(* Runs: what a step leaves of them.                                        *)

\* All that a cancelled run has left of itself: everything but its result.
Like(r, q) ==
    r.at = q.at /\ r.key = q.key /\ r.dist = q.dist /\ r.to = q.to /\ r.seen = q.seen

\* Only the runs T of page d may have changed.
OthersLike(d, T) ==
    /\ runs' \in [Dev -> [Slots -> Runs]]
    /\ \A e \in Dev, t \in Slots : (e = d /\ t \in T) \/ Like(runs[e][t], runs'[e][t])

LEMMA NoRunType == NoRun \in Runs /\ NoRun.at = "idle" /\ NoRun.key = 0 /\ NoRun.dist = {}
                   /\ NoRun.seen = {}
  BY BoundAssumption DEF NoRun, Runs

LEMMA RunType == ASSUME TypeOK, NEW d \in Dev, NEW s \in Slots PROVE runs[d][s] \in Runs
  BY DEF TypeOK

LEMMA SameRuns == ASSUME TypeOK, NEW d \in Dev, runs' = runs PROVE OthersLike(d, {})
  BY DEF TypeOK, OthersLike, Like

LEMMA CancelledRuns ==
    ASSUME TypeOK, NEW d \in Dev
    PROVE  /\ Cancelled(d) \in [Slots -> Runs]
           /\ \A t \in Slots : Like(runs[d][t], Cancelled(d)[t])
  <1>1. \A r \in Runs : [r EXCEPT !.live = FALSE] \in Runs /\ Like(r, [r EXCEPT !.live = FALSE])
    BY DEF Runs, Like
  <1>2. \A t \in Slots : runs[d][t] \in Runs
    BY RunType
  <1> QED
    BY <1>1, <1>2 DEF Cancelled

LEMMA CancelRuns ==
    ASSUME TypeOK, NEW d \in Dev, runs' = [runs EXCEPT ![d] = Cancelled(d)]
    PROVE  OthersLike(d, {})
  <1>1. runs' \in [Dev -> [Slots -> Runs]]
    BY CancelledRuns DEF TypeOK
  <1>2. ASSUME NEW e \in Dev, NEW t \in Slots PROVE Like(runs[e][t], runs'[e][t])
    <2>1. CASE e = d
      BY <2>1, CancelledRuns DEF TypeOK
    <2>2. CASE e # d
      BY <2>2 DEF TypeOK, Like
    <2> QED
      BY <2>1, <2>2
  <1> QED
    BY <1>1, <1>2 DEF OthersLike

\* One run of one page moves.
LEMMA OneRunMoves ==
    ASSUME TypeOK, NEW d \in Dev, NEW s \in Slots, NEW q \in Runs,
           runs' = [runs EXCEPT ![d][s] = q]
    PROVE  OthersLike(d, {s}) /\ runs'[d][s] = q
  <1>1. runs' = [runs EXCEPT ![d] = [runs[d] EXCEPT ![s] = q]]
    BY DEF TypeOK
  <1>2. runs' \in [Dev -> [Slots -> Runs]]
    BY <1>1 DEF TypeOK
  <1> QED
    BY <1>1, <1>2 DEF TypeOK, OthersLike, Like

\* A cancelled page begins a run.
LEMMA NewRun ==
    ASSUME TypeOK, NEW d \in Dev, NEW s \in Slots, NEW q \in Runs,
           runs' = [runs EXCEPT ![d] = [Cancelled(d) EXCEPT ![s] = q]]
    PROVE  OthersLike(d, {s}) /\ runs'[d][s] = q
  <1>1. [Cancelled(d) EXCEPT ![s] = q] \in [Slots -> Runs]
    BY CancelledRuns
  <1>2. runs' \in [Dev -> [Slots -> Runs]] /\ runs'[d] = [Cancelled(d) EXCEPT ![s] = q]
    BY <1>1 DEF TypeOK
  <1>3. runs'[d][s] = q /\ \A t \in Slots : t = s \/ Like(runs[d][t], runs'[d][t])
    BY <1>2, CancelledRuns
  <1>4. \A e \in Dev, t \in Slots : e # d => Like(runs[e][t], runs'[e][t])
    BY DEF TypeOK, Like
  <1> QED
    BY <1>2, <1>3, <1>4 DEF OthersLike

-----------------------------------------------------------------------------
(* What the frames are shown to be.                                         *)

LEMMA FramesKept ==
    ASSUME TypeOK, EncryptedIsKeyed, NEW d \in Dev, NEW k \in 0 .. MaxKeys,
           NEW live \in BOOLEAN, Encrypts(d, k, live) \/ Errs(d, live)
    PROVE  /\ ctrl' \in [Dev -> 0 .. MaxKeys] /\ shown' \in [Dev -> States]
           /\ EncryptedIsKeyed'
  <1>1. CASE Encrypts(d, k, live)
    BY <1>1 DEF Encrypts, TypeOK, States, EncryptedIsKeyed, Plain
  <1>2. CASE Errs(d, live)
    BY <1>2 DEF Errs, TypeOK, States, EncryptedIsKeyed, Plain
  <1> QED
    BY <1>1, <1>2

LEMMA ShownKept ==
    ASSUME TypeOK, EncryptedIsKeyed, NEW d \in Dev,
           shown' = Negotiates(d) \/ shown' = Cleared(d) \/ shown' = shown,
           ctrl' = ctrl \/ (ctrl' = [ctrl EXCEPT ![d] = 0] /\ shown' = Cleared(d))
    PROVE  /\ ctrl' \in [Dev -> 0 .. MaxKeys] /\ shown' \in [Dev -> States]
           /\ EncryptedIsKeyed'
  <1>1. /\ shown' \in [Dev -> States]
        /\ \A e \in Dev : shown'[e] = "encrypted" => shown[e] = "encrypted"
        /\ shown' = Cleared(d) => shown'[d] # "encrypted"
    BY DEF Negotiates, Cleared, TypeOK, States
  <1>2. /\ ctrl' \in [Dev -> 0 .. MaxKeys]
        /\ \A e \in Dev : ctrl'[e] = ctrl[e] \/ (e = d /\ shown' = Cleared(d))
    <2>1. CASE ctrl' = ctrl
      BY <2>1 DEF TypeOK
    <2>2. CASE ctrl' = [ctrl EXCEPT ![d] = 0] /\ shown' = Cleared(d)
      BY <2>2, BoundAssumption DEF TypeOK
    <2> QED
      BY <2>1, <2>2
  <1> QED
    BY <1>1, <1>2 DEF EncryptedIsKeyed, Plain

-----------------------------------------------------------------------------
(* The parts of the invariant that are about runs.                          *)

\* What a run says of itself, when signals P are posted and m keys made.
Sound(d, r, P, m) ==
    /\ r.key <= m
    /\ d # Boss => r.at \in {"idle", "scan"}
    /\ r.at \in {"post", "sent"} => r.key # 0
    /\ r.seen \subseteq P

LEMMA RunsAreSound ==
    ASSUME IInv, NEW d \in Dev, NEW s \in Slots
    PROVE  Sound(d, runs[d][s], DOMAIN posted, made)
  BY DEF IInv, KeysAreMade, RunsAreTheirs, Sound

\* They follow when one run moves and is sound after it.
LEMMA RunsKept ==
    ASSUME IInv, NEW d \in Dev, NEW T \in SUBSET Slots, OthersLike(d, T),
           \A t \in T : Sound(d, runs'[d][t], DOMAIN posted', made'),
           made \in Nat, made' \in Nat, made <= made', DOMAIN posted \subseteq DOMAIN posted',
           key' \in [Dev -> 0 .. MaxKeys], \A e \in Dev : key'[e] <= made',
           \A i \in DOMAIN posted' : posted'[i].key <= made'
    PROVE  KeysAreMade' /\ RunsAreTheirs'
  <1>1. ASSUME NEW e \in Dev, NEW t \in Slots
        PROVE  Sound(e, runs'[e][t], DOMAIN posted', made')
    <2>1. CASE e = d /\ t \in T
      BY <2>1
    <2>2. CASE ~(e = d /\ t \in T)
      <3>1. Like(runs[e][t], runs'[e][t]) /\ runs[e][t] \in Runs /\ runs'[e][t] \in Runs
        BY <2>2, RunType DEF OthersLike, IInv
      <3>2. Sound(e, runs[e][t], DOMAIN posted, made)
        BY RunsAreSound
      <3> QED
        BY <3>1, <3>2 DEF Like, Sound, Runs
    <2> QED
      BY <2>1, <2>2
  <1> QED
    BY <1>1 DEF KeysAreMade, RunsAreTheirs, Sound

\* What was offered stays offered: a run that is about to post keeps its signal
\* or has posted it.
LEMMA OfferedStays ==
    ASSUME TypeOK, NEW d \in Dev, NEW T \in SUBSET Slots, OthersLike(d, T),
           DOMAIN posted \subseteq DOMAIN posted',
           \A i \in DOMAIN posted : posted'[i] = posted[i],
           \A t \in T : d = Boss /\ runs[d][t].at = "post" =>
               \A e \in runs[d][t].to : \E i \in DOMAIN posted' :
                   posted'[i].key = runs[d][t].key /\ e \in posted'[i].to,
           NEW k \in Nat
    PROVE  /\ \A e \in Dev : IsPosted(e, k) => IsPosted(e, k)'
           /\ \A e \in Dev : Offered(e, k) => Offered(e, k)'
  <1>1. \A e \in Dev : IsPosted(e, k) => IsPosted(e, k)'
    BY DEF IsPosted
  <1>2. ASSUME NEW e \in Dev, Offered(e, k) PROVE Offered(e, k)'
    <2>1. CASE IsPosted(e, k)
      BY <1>1, <2>1 DEF Offered
    <2>2. ASSUME NEW t \in Slots, runs[Boss][t].at = "post", runs[Boss][t].key = k,
                 e \in runs[Boss][t].to
          PROVE  Offered(e, k)'
      <3>1. CASE Boss = d /\ t \in T
        <4>1. IsPosted(e, k)'
          BY <2>2, <3>1 DEF IsPosted
        <4> QED
          BY <4>1, Zenon DEF Offered
      <3>2. CASE ~(Boss = d /\ t \in T)
        <4>1. Like(runs[Boss][t], runs'[Boss][t])
          BY <3>2, DevAssumption DEF OthersLike
        <4>2. runs'[Boss][t].at = "post" /\ runs'[Boss][t].key = k /\ e \in runs'[Boss][t].to
          BY <2>2, <4>1 DEF Like
        <4> QED
          BY <4>2, Zenon DEF Offered
      <3> QED
        BY <3>1, <3>2
    <2> QED
      BY <1>2, <2>1, <2>2 DEF Offered
  <1> QED
    BY <1>1, <1>2

\* What is claimed while at most one key is made and nothing has failed.
Calm == made <= 1 /\ fails = 0

LEMMA ServeKept ==
    ASSUME IInv, NEW d \in Dev, NEW T \in SUBSET Slots, OthersLike(d, T),
           DOMAIN posted \subseteq DOMAIN posted',
           \A i \in DOMAIN posted : posted'[i] = posted[i],
           \A t \in T : d = Boss /\ runs[d][t].at = "post" =>
               \A e \in runs[d][t].to : \E i \in DOMAIN posted' :
                   posted'[i].key = runs[d][t].key /\ e \in posted'[i].to,
           Calm' => Calm, Calm' /\ key[Boss] # 0 => key'[Boss] # 0,
           Calm' => dist'[Boss] = dist[Boss] \/ AllOffered(dist[Boss])',
           \A t \in T : Calm' /\ d = Boss =>
               /\ AllOffered(runs[Boss][t].dist)'
               /\ runs'[Boss][t].at = "sent" =>
                     \A e \in runs'[Boss][t].to : \E i \in DOMAIN posted' :
                         posted'[i].key = runs'[Boss][t].key /\ e \in posted'[i].to
    PROVE  RunsServe'
  <1> SUFFICES ASSUME Calm'
               PROVE  /\ AllOffered(dist[Boss])'
                      /\ \A s \in Slots :
                            /\ AllOffered(runs[Boss][s].dist)'
                            /\ runs'[Boss][s].at = "sent" =>
                                  \A e \in runs'[Boss][s].to : IsPosted(e, runs[Boss][s].key)'
    BY DEF RunsServe, Calm
  <1>1. /\ AllOffered(dist[Boss])
        /\ \A s \in Slots :
              /\ AllOffered(runs[Boss][s].dist)
              /\ runs[Boss][s].at = "sent" =>
                    \A e \in runs[Boss][s].to : IsPosted(e, runs[Boss][s].key)
    BY DEF IInv, RunsServe, Calm
  <1>2. Boss \in Dev /\ dist[Boss] \subseteq Dev /\ TypeOK
    BY DevAssumption DEF IInv, TypeOK
  <1>3. \A e \in Dev : Offered(e, 1) => Offered(e, 1)'
    BY <1>2, OfferedStays
  <1>4. ASSUME NEW D \in SUBSET Dev, AllOffered(D) PROVE AllOffered(D)'
    BY <1>3, <1>4 DEF AllOffered
  <1>5. AllOffered(dist[Boss])'
    <2>1. CASE dist'[Boss] = dist[Boss]
      <3> DEFINE D == dist[Boss]
      <3>1. AllOffered(D) /\ D \in SUBSET Dev
        BY <1>1, <1>2
      <3>2. D # {} => key'[Boss] # 0 /\ \A e \in D : Offered(e, 1)'
        BY <1>3, <3>1 DEF AllOffered
      <3> QED
        BY <2>1, <3>2 DEF AllOffered
    <2> QED
      BY <2>1
  <1>6. ASSUME NEW s \in Slots
        PROVE  /\ AllOffered(runs[Boss][s].dist)'
               /\ runs'[Boss][s].at = "sent" =>
                     \A e \in runs'[Boss][s].to : IsPosted(e, runs[Boss][s].key)'
    <2>1. CASE d = Boss /\ s \in T
      BY <2>1 DEF IsPosted
    <2>2. CASE ~(d = Boss /\ s \in T)
      <3> DEFINE r == runs[Boss][s]
      <3>1. Like(r, runs'[Boss][s]) /\ r \in Runs
        BY <1>2, <2>2, RunType DEF OthersLike
      <3>2. runs'[Boss][s].at = r.at /\ runs'[Boss][s].key = r.key
            /\ runs'[Boss][s].dist = r.dist /\ runs'[Boss][s].to = r.to
            /\ r.dist \subseteq Dev /\ r.to \subseteq Dev /\ r.key \in Nat
        BY <3>1 DEF Like, Runs
      <3>3. r.dist # {} => key'[Boss] # 0 /\ \A e \in r.dist : Offered(e, 1)'
        BY <1>1, <1>3, <3>2 DEF AllOffered
      <3>4. AllOffered(runs[Boss][s].dist)'
        BY <3>2, <3>3 DEF AllOffered
      <3>5. ASSUME r.at = "sent", NEW e \in r.to
            PROVE  \E i \in DOMAIN posted' : posted'[i].key = r.key /\ e \in posted'[i].to
        BY <1>1, <3>5 DEF IsPosted
      <3> HIDE DEF r
      <3> QED
        BY <3>2, <3>4, <3>5 DEF IsPosted
    <2> QED
      BY <2>1, <2>2
  <1> QED
    BY <1>5, <1>6

\* A step that makes, posts, drops and hands out nothing.
LEMMA QuietKept ==
    ASSUME IInv, NEW d \in Dev, OthersLike(d, {}), UNCHANGED <<posted, key, dist, made, fails>>
    PROVE  KeysAreMade' /\ RunsAreTheirs' /\ RunsServe'
  <1>1. made \in Nat /\ key \in [Dev -> 0 .. MaxKeys]
    BY BoundAssumption DEF IInv, TypeOK
  <1>2. KeysAreMade' /\ RunsAreTheirs'
    BY <1>1, RunsKept DEF IInv, KeysAreMade
  <1>3. RunsServe'
    BY ServeKept DEF Calm
  <1> QED
    BY <1>2, <1>3

\* Nothing is claimed after a failure.
LEMMA FailureServes == ASSUME IInv, fails' = fails + 1 PROVE RunsServe'
  BY DEF IInv, TypeOK, RunsServe

-----------------------------------------------------------------------------
(* The pages.                                                               *)

LEMMA BudgetTypes ==
    ASSUME TypeOK, NEW d \in Dev, Moves \/ Fails \/ Laps(d) \/ UNCHANGED spent
    PROVE  {moves', fails', laps'} \subseteq 0 .. Most
  BY SMTT(30), BoundAssumption DEF TypeOK, Moves, Fails, Laps, Budget, spent

LEMMA DueTypes == ASSUME TypeOK, NEW d \in Dev, NEW b \in BOOLEAN
                  PROVE  [due EXCEPT ![d] = @ \/ b] \in [Dev -> BOOLEAN]
  <1>1. (due[d] \/ b) \in BOOLEAN /\ due \in [Dev -> BOOLEAN]
    BY DEF TypeOK
  <1> QED
    BY <1>1

LEMMA HearingKept ==
    ASSUME IInv, NEW d \in Dev,
           Show(d) \/ HearParticipants(d) \/ HearSignal(d) \/ Link(d)
    PROVE  IInv'
  <1>1. UNCHANGED <<mode, posted, key, gen, dist, ctrl, runs, used, made, moves, fails, laps>>
    BY DEF Show, HearParticipants, HearSignal, Link, server, known, keys, frames, spent
  <1>2. joined' \subseteq Dev /\ page' \in [Dev -> {"off", "on", "linked"}]
        /\ parts' \in [Dev -> SUBSET Dev] /\ seen' \in [Dev -> SUBSET (DOMAIN posted')]
    <2>1. CASE Show(d)
      BY <2>1, <1>1 DEF Show, IInv, TypeOK
    <2>2. CASE HearParticipants(d)
      BY <2>2, <1>1 DEF HearParticipants, server, IInv, TypeOK
    <2>3. CASE HearSignal(d)
      BY <2>3, <1>1 DEF HearSignal, server, IInv, TypeOK
    <2>4. CASE Link(d)
      BY <2>4, <1>1 DEF Link, server, IInv, TypeOK
    <2> QED
      BY <2>1, <2>2, <2>3, <2>4
  <1>3. due' \in [Dev -> BOOLEAN]
    <2>1. CASE Show(d)
      BY <2>1 DEF Show, IInv, TypeOK
    <2>2. CASE HearParticipants(d)
      <3>1. (page[d] = "linked") \in BOOLEAN
        OBVIOUS
      <3> QED
        BY <2>2, <3>1, DueTypes, Zenon DEF HearParticipants, IInv
    <2>3. CASE HearSignal(d)
      <3>1. (mode = "direct" /\ page[d] = "linked") \in BOOLEAN
        OBVIOUS
      <3> QED
        BY <2>3, <3>1, DueTypes, Zenon DEF HearSignal, Wakes, IInv
    <2>4. CASE Link(d)
      BY <2>4 DEF Link, IInv, TypeOK
    <2> QED
      BY <2>1, <2>2, <2>3, <2>4
  <1>4. ctrl' \in [Dev -> 0 .. MaxKeys] /\ shown' \in [Dev -> States] /\ EncryptedIsKeyed'
    <2>1. shown' = Negotiates(d) \/ shown' = shown
      BY DEF Show, HearParticipants, HearSignal, Link, frames
    <2> QED
      BY <1>1, <2>1, ShownKept DEF IInv
  <1>5. KeysAreMade' /\ RunsAreTheirs' /\ RunsServe'
    BY <1>1, SameRuns, QuietKept DEF IInv
  <1>6. TypeOK'
    BY <1>1, <1>2, <1>3, <1>4 DEF IInv, TypeOK
  <1> QED
    BY <1>4, <1>5, <1>6 DEF IInv

LEMMA LinkLostKept == ASSUME IInv, NEW d \in Dev, LinkLost(d) PROVE IInv'
  <1>1. UNCHANGED <<mode, joined, posted, parts, seen, key, gen, dist, ctrl, used, made, fails>>
    BY DEF LinkLost, server, keys, Moves
  <1>2. OthersLike(d, {})
    BY CancelRuns DEF LinkLost, IInv
  <1>3. page' \in [Dev -> {"off", "on", "linked"}] /\ due' \in [Dev -> BOOLEAN]
    BY DEF LinkLost, IInv, TypeOK
  <1>4. ctrl' \in [Dev -> 0 .. MaxKeys] /\ shown' \in [Dev -> States] /\ EncryptedIsKeyed'
    BY <1>1, ShownKept DEF LinkLost, IInv
  <1>5. KeysAreMade' /\ RunsAreTheirs' /\ RunsServe'
    BY <1>1, <1>2, QuietKept
  <1>6. {moves', fails', laps'} \subseteq 0 .. Most
    BY BudgetTypes DEF LinkLost, IInv
  <1>7. TypeOK'
    BY <1>1, <1>2, <1>3, <1>4, <1>6 DEF OthersLike, IInv, TypeOK
  <1> QED
    BY <1>4, <1>5, <1>7 DEF IInv

\* The runs of a call that is dropped are gone or go on cancelled.
LEMMA DroppedRuns ==
    ASSUME IInv, NEW d \in Dev, Drop(d)
    PROVE  /\ OthersLike(d, Slots)
           /\ \A t \in Slots : Sound(d, runs'[d][t], DOMAIN posted, made)
  <1>1. TypeOK
    BY DEF IInv
  <1>2. CASE runs' = [runs EXCEPT ![d] = AllIdle]
    <2>1. AllIdle \in [Slots -> Runs] /\ \A t \in Slots : AllIdle[t] = NoRun
      BY NoRunType DEF AllIdle
    <2>2. runs' \in [Dev -> [Slots -> Runs]] /\ runs'[d] = AllIdle
          /\ \A e \in Dev : e # d => runs'[e] = runs[e]
      BY <1>1, <1>2, <2>1 DEF TypeOK
    <2>3. OthersLike(d, Slots)
      BY <2>2 DEF OthersLike, Like
    <2>4. Sound(d, NoRun, DOMAIN posted, made)
      BY <1>1, NoRunType DEF Sound, TypeOK
    <2> QED
      BY <2>1, <2>2, <2>3, <2>4
  <1>3. CASE runs' = [runs EXCEPT ![d] = Cancelled(d)]
    <2>1. runs' \in [Dev -> [Slots -> Runs]] /\ runs'[d] = Cancelled(d)
          /\ \A e \in Dev : e # d => runs'[e] = runs[e]
      BY <1>1, <1>3, CancelledRuns DEF TypeOK
    <2>2. OthersLike(d, Slots)
      BY <2>1 DEF OthersLike, Like
    <2>3. ASSUME NEW t \in Slots PROVE Sound(d, runs'[d][t], DOMAIN posted, made)
      <3>1. Like(runs[d][t], runs'[d][t])
        BY <1>1, <2>1, CancelledRuns
      <3>2. Sound(d, runs[d][t], DOMAIN posted, made)
        BY RunsAreSound
      <3> QED
        BY <3>1, <3>2 DEF Like, Sound
    <2> QED
      BY <2>2, <2>3
  <1>4. [s \in Slots |-> [runs[d][s] EXCEPT !.live = FALSE]] = Cancelled(d)
    BY DEF Cancelled
  <1>5. runs' = [runs EXCEPT ![d] = AllIdle] \/ runs' = [runs EXCEPT ![d] = Cancelled(d)]
    BY <1>1, <1>4 DEF Drop, TypeOK
  <1> QED
    BY <1>2, <1>3, <1>5

LEMMA DropKept == ASSUME IInv, NEW d \in Dev, Drop(d) PROVE IInv'
  <1>1. UNCHANGED <<mode, joined, posted, used, made>> /\ fails' = fails + 1
    BY DEF Drop, server, Fails
  <1>2. /\ OthersLike(d, Slots)
        /\ \A t \in Slots : Sound(d, runs'[d][t], DOMAIN posted, made)
    BY DroppedRuns
  <1>3. ctrl' \in [Dev -> 0 .. MaxKeys] /\ shown' \in [Dev -> States] /\ EncryptedIsKeyed'
    BY ShownKept DEF Drop, IInv
  <1>4. /\ page' \in [Dev -> {"off", "on", "linked"}] /\ due' \in [Dev -> BOOLEAN]
        /\ parts' \in [Dev -> SUBSET Dev] /\ seen' \in [Dev -> SUBSET (DOMAIN posted)]
        /\ gen' \in [Dev -> BOOLEAN] /\ dist' \in [Dev -> SUBSET Dev]
        /\ \A e \in Dev \ {Boss} : dist'[e] = {} /\ ~gen'[e]
    BY DEF Drop, IInv, TypeOK
  <1>5. key' \in [Dev -> 0 .. MaxKeys] /\ made \in Nat /\ \A e \in Dev : key'[e] <= made
    BY BoundAssumption DEF Drop, IInv, TypeOK, KeysAreMade
  <1>6. KeysAreMade' /\ RunsAreTheirs'
    BY <1>1, <1>2, <1>5, RunsKept DEF IInv, KeysAreMade
  <1>7. RunsServe'
    BY <1>1, FailureServes
  <1>8. {moves', fails', laps'} \subseteq 0 .. Most
    BY BudgetTypes DEF Drop, IInv
  <1>9. TypeOK'
    BY <1>1, <1>2, <1>3, <1>4, <1>5, <1>8 DEF OthersLike, IInv, TypeOK
  <1> QED
    BY <1>3, <1>6, <1>7, <1>9 DEF IInv

LEMMA SyncAtOnceKept == ASSUME IInv, NEW d \in Dev, SyncAtOnce(d) PROVE IInv'
  <1>1. UNCHANGED <<mode, joined, posted, page, parts, seen, key, gen, dist, used, made, moves,
                    fails, laps>>
    BY DEF SyncAtOnce, server, known, keys, spent
  <1>2. OthersLike(d, {})
    BY CancelRuns DEF SyncAtOnce, IInv
  <1>3. due' \in [Dev -> BOOLEAN]
    BY DEF SyncAtOnce, Start, IInv, TypeOK
  <1>4. ctrl' \in [Dev -> 0 .. MaxKeys] /\ shown' \in [Dev -> States] /\ EncryptedIsKeyed'
    <2>1. key[d] \in 0 .. MaxKeys /\ 0 \in 0 .. MaxKeys
      BY BoundAssumption DEF IInv, TypeOK
    <2>2. PICK k \in 0 .. MaxKeys : Encrypts(d, k, TRUE)
      BY <2>1 DEF SyncAtOnce
    <2> QED
      BY <2>2, FramesKept DEF IInv
  <1>5. KeysAreMade' /\ RunsAreTheirs' /\ RunsServe'
    BY <1>1, <1>2, QuietKept
  <1>6. TypeOK'
    BY <1>1, <1>2, <1>3, <1>4 DEF OthersLike, IInv, TypeOK
  <1> QED
    BY <1>4, <1>5, <1>6 DEF IInv

-----------------------------------------------------------------------------
(* The syncs.                                                               *)

\* Only the initiator asks for devices to hand a key to.
LEMMA OthersDoNotAsk == ASSUME IInv, NEW d \in Dev PROVE ToAsk(d) \in SUBSET Dev
                                                         /\ (d # Boss => ToAsk(d) = {})
  BY DEF IInv, TypeOK, ToAsk, MakeOnce, Make, Remote

LEMMA StartSyncKept ==
    ASSUME IInv, NEW d \in Dev, NEW s \in Slots, StartSync(d, s) PROVE IInv'
  <1> DEFINE q == [at |-> IF ToAsk(d) = {} THEN "scan" ELSE "ask", key |-> key[d],
                   dist |-> dist[d], to |-> ToAsk(d), seen |-> seen[d], live |-> TRUE]
  <1>1. UNCHANGED <<mode, joined, posted, page, parts, seen, key, gen, dist, ctrl, used, made,
                    fails>>
    BY DEF StartSync, server, known, keys, Laps
  <1>2. q \in Runs /\ Sound(d, q, DOMAIN posted, made) /\ q.at \notin {"post", "sent"}
    <2>1. key[d] \in 0 .. MaxKeys /\ dist[d] \in SUBSET Dev /\ seen[d] \in SUBSET (DOMAIN posted)
          /\ DOMAIN posted \subseteq Nat /\ key[d] <= made
      BY DEF IInv, TypeOK, KeysAreMade
    <2> QED
      BY <2>1, OthersDoNotAsk DEF Runs, Sound
  <1>3. q.dist = dist[d]
    OBVIOUS
  <1>4. runs' = [runs EXCEPT ![d] = [Cancelled(d) EXCEPT ![s] = q]] /\ runs[d][s] = NoRun
    BY DEF StartSync
  <1> HIDE DEF q
  <1>5. OthersLike(d, {s}) /\ runs'[d][s] = q
    BY <1>2, <1>4, NewRun DEF IInv
  <1>6. KeysAreMade' /\ RunsAreTheirs'
    <2>1. made \in Nat /\ key \in [Dev -> 0 .. MaxKeys]
      BY BoundAssumption DEF IInv, TypeOK
    <2> QED
      BY <1>1, <1>2, <1>5, <2>1, RunsKept DEF IInv, KeysAreMade
  <1>7. RunsServe'
    <2>1. Calm => AllOffered(dist[Boss])
      BY DEF IInv, RunsServe, Calm
    <2>2. TypeOK /\ \A e \in Dev : Offered(e, 1) => Offered(e, 1)'
      <3>1. TypeOK /\ runs[d][s].at # "post"
        BY <1>4, NoRunType DEF IInv
      <3> QED
        BY <1>1, <1>5, <3>1, OfferedStays
    <2>3. Calm => AllOffered(dist[Boss])'
      BY <1>1, <2>1, <2>2, DevAssumption DEF AllOffered, TypeOK
    <2>4. Calm /\ d = Boss => AllOffered(runs[Boss][s].dist)'
      <3>1. d = Boss => runs'[Boss][s].dist = dist'[Boss]
        BY <1>1, <1>3, <1>5
      <3> QED
        BY <2>3, <3>1 DEF AllOffered
    <2> QED
      BY <1>1, <1>2, <1>4, <1>5, <2>4, NoRunType, ServeKept DEF Calm
  <1>8. due' \in [Dev -> BOOLEAN] /\ {moves', fails', laps'} \subseteq 0 .. Most
    BY BudgetTypes DEF StartSync, Start, IInv, TypeOK
  <1>9. ctrl' \in [Dev -> 0 .. MaxKeys] /\ shown' \in [Dev -> States] /\ EncryptedIsKeyed'
    BY <1>1, ShownKept DEF StartSync, IInv
  <1>10. TypeOK'
    BY <1>1, <1>5, <1>8, <1>9 DEF OthersLike, IInv, TypeOK
  <1> QED
    BY <1>6, <1>7, <1>9, <1>10 DEF IInv

\* A key that is made is the first while one is claimed, and whom the group's is
\* noted for is about to be sent it.
LEMMA WrapKept ==
    ASSUME IInv, NEW d \in Dev, NEW s \in Slots, Wrap(d, s) PROVE IInv'
  <1> DEFINE r == runs[d][s]
             k == IF r.key = 0 THEN made + 1 ELSE r.key
             new == mode = "group" /\ r.key = 0
  <1>1. PICK ready \in SUBSET r.to :
           /\ r.at = "ask" /\ k <= MaxKeys
           /\ made' = (IF r.key = 0 THEN k ELSE made)
           /\ ready # {} /\ IF ready = r.to THEN UNCHANGED spent ELSE Moves
           /\ runs' = [runs EXCEPT ![d][s].at = "post", ![d][s].key = k, ![d][s].to = ready]
           /\ dist' = [dist EXCEPT ![d] = IF new THEN Noted(r, ready) ELSE @]
           /\ key' = [key EXCEPT ![d] = IF new THEN k ELSE @]
           /\ gen' = [gen EXCEPT ![d] = @ \/ new]
           /\ UNCHANGED <<server, known, frames, due, used>>
    BY DEF Wrap
  <1> DEFINE q == [r EXCEPT !.at = "post", !.key = k, !.to = ready]
  <1>2. r \in Runs /\ Sound(d, r, DOMAIN posted, made)
    BY RunType, RunsAreSound DEF IInv
  <1>3. d = Boss
    BY <1>1, <1>2 DEF Sound
  <1>4. made \in Nat /\ made' \in Nat /\ k \in 1 .. MaxKeys /\ k <= made' /\ made <= made'
        /\ made' \in 0 .. MaxKeys
    BY <1>1, <1>2, BoundAssumption DEF IInv, TypeOK, Sound, Runs
  <1>5. q \in Runs /\ q.at = "post" /\ q.key = k /\ q.to = ready /\ q.dist = r.dist
        /\ q.seen = r.seen
    <2> HIDE DEF k
    <2>1. k \in 0 .. MaxKeys /\ ready \in SUBSET Dev
      BY <1>2, <1>4, BoundAssumption DEF Runs
    <2> HIDE DEF r
    <2> QED
      BY <1>2, <2>1 DEF Runs
  <1>6. runs' = [runs EXCEPT ![d][s] = q]
    BY <1>1 DEF IInv, TypeOK
  <1>7. new \in BOOLEAN /\ ready \in SUBSET Dev
    BY <1>2 DEF Runs
  <1> HIDE DEF q, k, new
  <1>8. OthersLike(d, {s}) /\ runs'[d][s] = q
    BY <1>5, <1>6, OneRunMoves DEF IInv
  <1>9. UNCHANGED <<mode, joined, posted, page, parts, seen, ctrl, shown, due, used, fails>>
        /\ {moves', fails', laps'} \subseteq 0 .. Most
    BY <1>1, BudgetTypes DEF server, known, frames, spent, Moves, IInv
  <1>10. /\ key' \in [Dev -> 0 .. MaxKeys] /\ \A e \in Dev : key'[e] <= made'
         /\ dist' \in [Dev -> SUBSET Dev] /\ \A e \in Dev \ {Boss} : dist'[e] = {}
    <2>1. \A e \in Dev : key[e] \in 0 .. MaxKeys /\ key[e] <= made
      BY DEF IInv, TypeOK, KeysAreMade
    <2>2. key' \in [Dev -> 0 .. MaxKeys] /\ \A e \in Dev : key'[e] <= made'
      BY <1>1, <1>4, <2>1, BoundAssumption DEF IInv, TypeOK
    <2> QED
      BY <1>1, <1>3, <1>7, <2>2 DEF IInv, TypeOK, Noted
  <1>11. gen' \in [Dev -> BOOLEAN] /\ \A e \in Dev \ {Boss} : ~gen'[e]
    <2>1. (gen[d] \/ new) \in BOOLEAN
      BY <1>7 DEF IInv, TypeOK
    <2> QED
      BY <1>1, <1>3, <2>1 DEF IInv, TypeOK
  <1>12. Sound(d, q, DOMAIN posted', made')
    BY <1>2, <1>3, <1>4, <1>5, <1>9 DEF Sound
  <1>13. KeysAreMade' /\ RunsAreTheirs'
    <2>1. \A i \in DOMAIN posted' : posted'[i].key <= made'
      <3>1. \A i \in DOMAIN posted : posted[i].key <= made /\ posted[i] \in Signals
        BY DEF IInv, KeysAreMade, TypeOK
      <3>2. \A i \in DOMAIN posted : posted[i].key \in Nat
        BY <3>1, BoundAssumption DEF Signals
      <3> QED
        BY <1>4, <1>9, <3>1, <3>2
    <2> QED
      BY <1>4, <1>8, <1>9, <1>10, <1>12, <2>1, RunsKept
  <1>14. RunsServe'
    <2>1. Calm' => Calm
      BY <1>4, <1>9 DEF Calm
    <2>2. Calm' /\ r.key = 0 => made = 0 /\ k = 1
      BY <1>1, <1>4 DEF Calm, k
    <2>3. key[Boss] # 0 => key'[Boss] # 0
      BY <1>1, <1>3, <1>4 DEF IInv, TypeOK
    <2>4. TypeOK /\ \A e \in Dev : Offered(e, 1) => Offered(e, 1)'
      <3>1. TypeOK /\ r.at # "post"
        BY <1>1 DEF IInv
      <3> QED
        BY <1>8, <1>9, <3>1, OfferedStays
    <2>5. ASSUME Calm', new PROVE AllOffered(dist[Boss])'
      <3>1. dist'[Boss] = ready /\ key'[Boss] = 1
        BY <1>1, <1>3, <2>2, <2>5, DevAssumption DEF IInv, TypeOK, Noted, new
      <3>2. runs'[Boss][s].at = "post" /\ runs'[Boss][s].key = 1 /\ runs'[Boss][s].to = ready
        BY <1>3, <1>5, <1>8, <2>2, <2>5 DEF new
      <3>3. \A e \in ready : Offered(e, 1)'
        BY <3>2, Zenon DEF Offered
      <3> QED
        BY <3>1, <3>3 DEF AllOffered
    <2>6. ~new => dist'[Boss] = dist[Boss]
      BY <1>1, <1>3 DEF IInv, TypeOK
    <2>7. ASSUME Calm' PROVE AllOffered(runs[Boss][s].dist)'
      <3>1. AllOffered(r.dist) /\ r.dist \in SUBSET Dev
        BY <1>2, <1>3, <2>1, <2>7 DEF IInv, RunsServe, Calm, Runs
      <3>2. runs'[Boss][s].dist = r.dist
        BY <1>3, <1>5, <1>8
      <3> QED
        BY <2>3, <2>4, <3>1, <3>2 DEF AllOffered
    <2>8. runs'[Boss][s].at # "sent" /\ runs[d][s].at # "post"
      BY <1>1, <1>3, <1>5, <1>8
    <2> QED
      BY <1>8, <1>9, <2>1, <2>3, <2>5, <2>6, <2>7, <2>8, ServeKept
  <1>15. EncryptedIsKeyed'
    BY <1>9 DEF IInv, EncryptedIsKeyed, Plain
  <1>16. TypeOK'
    BY <1>4, <1>8, <1>9, <1>10, <1>11 DEF OthersLike, IInv, TypeOK
  <1> QED
    BY <1>13, <1>14, <1>15, <1>16 DEF IInv

\* A run that ends leaves its slot free.
LEMMA RunEnds ==
    ASSUME IInv, NEW d \in Dev, NEW s \in Slots, Free(d, s)
    PROVE  /\ OthersLike(d, {s}) /\ runs'[d][s] = NoRun
           /\ Sound(d, NoRun, DOMAIN posted, made)
  <1>1. OthersLike(d, {s}) /\ runs'[d][s] = NoRun
    BY NoRunType, OneRunMoves DEF Free, IInv
  <1>2. made \in Nat
    BY BoundAssumption DEF IInv, TypeOK
  <1>3. Sound(d, NoRun, DOMAIN posted, made)
    BY <1>2, NoRunType DEF Sound
  <1> QED
    BY <1>1, <1>3

LEMMA FailKept ==
    ASSUME IInv, NEW d \in Dev, NEW s \in Slots, NotReady(d, s) \/ PostFails(d, s)
    PROVE  IInv'
  <1> DEFINE r == runs[d][s]
  <1>1. UNCHANGED <<mode, joined, posted, page, parts, seen, key, gen, dist, due, used, made>>
        /\ Fails /\ Free(d, s) /\ (Errs(d, r.live) \/ Encrypts(d, r.key, r.live))
    BY DEF NotReady, PostFails, server, known, keys
  <1>2. OthersLike(d, {s}) /\ runs'[d][s] = NoRun
    BY <1>1, RunEnds
  <1>3. made \in Nat /\ Sound(d, NoRun, DOMAIN posted, made)
    <2>1. made \in Nat
      BY BoundAssumption DEF IInv, TypeOK
    <2> QED
      BY <1>1, <2>1, RunEnds
  <1>4. KeysAreMade' /\ RunsAreTheirs'
    <2>1. key' \in [Dev -> 0 .. MaxKeys] /\ (\A e \in Dev : key'[e] <= made')
          /\ \A i \in DOMAIN posted' : posted'[i].key <= made'
      BY <1>1 DEF IInv, TypeOK, KeysAreMade
    <2> QED
      BY <1>1, <1>2, <1>3, <2>1, RunsKept
  <1>5. RunsServe'
    BY <1>1, FailureServes DEF Fails
  <1>6. ctrl' \in [Dev -> 0 .. MaxKeys] /\ shown' \in [Dev -> States] /\ EncryptedIsKeyed'
    <2>1. r.key \in 0 .. MaxKeys /\ r.live \in BOOLEAN
      BY RunType DEF Runs, IInv
    <2> QED
      BY <1>1, <2>1, FramesKept DEF IInv
  <1>7. {moves', fails', laps'} \subseteq 0 .. Most
    BY <1>1, BudgetTypes DEF IInv
  <1>8. TypeOK'
    BY <1>1, <1>2, <1>6, <1>7 DEF OthersLike, IInv, TypeOK
  <1> QED
    BY <1>4, <1>5, <1>6, <1>8 DEF IInv

\* What a run was about to post, the server has.
LEMMA PostKept == ASSUME IInv, NEW d \in Dev, NEW s \in Slots, Post(d, s) PROVE IInv'
  <1> DEFINE r == runs[d][s]
             q == [r EXCEPT !.at = "sent"]
             w == Wrapped(r.key, d, r.to)
  <1>1. r \in Runs /\ r.at = "post" /\ Sound(d, r, DOMAIN posted, made) /\ TypeOK
    BY RunType, RunsAreSound DEF IInv, Post
  <1>2. runs' = [runs EXCEPT ![d][s] = q] /\ posted' = Append(posted, w)
        /\ UNCHANGED <<mode, joined, page, parts, seen, key, gen, dist, ctrl, shown, due, used,
                       made, moves, fails, laps>>
    BY <1>1 DEF Post, known, keys, frames, spent, TypeOK
  <1>3. w \in Signals /\ w.key = r.key /\ w.to = r.to
    BY <1>1, BoundAssumption DEF Wrapped, Signals, Runs, Sound
  <1>4. q \in Runs /\ q.at = "sent" /\ q.key = r.key /\ q.to = r.to /\ q.dist = r.dist
        /\ q.seen = r.seen
    BY <1>1 DEF Runs
  <1> HIDE DEF q, w
  <1>5. /\ posted' \in Seq(Signals) /\ DOMAIN posted \subseteq DOMAIN posted'
        /\ \A i \in DOMAIN posted : posted'[i] = posted[i]
        /\ \A i \in DOMAIN posted' : i \in DOMAIN posted \/ posted'[i] = w
        /\ Len(posted') \in DOMAIN posted' /\ posted'[Len(posted')] = w
    BY <1>1, <1>2, <1>3 DEF TypeOK
  <1>6. OthersLike(d, {s}) /\ runs'[d][s] = q
    BY <1>1, <1>2, <1>4, OneRunMoves
  <1>7. made \in Nat /\ made' = made /\ key' \in [Dev -> 0 .. MaxKeys]
        /\ \A e \in Dev : key'[e] <= made'
    BY <1>2, BoundAssumption DEF IInv, TypeOK, KeysAreMade
  <1>8. Sound(d, q, DOMAIN posted', made') /\ \A i \in DOMAIN posted' : posted'[i].key <= made'
    <2>1. r.key <= made /\ (d # Boss => FALSE) /\ r.key # 0 /\ r.seen \subseteq DOMAIN posted
      BY <1>1 DEF Sound
    <2> QED
      BY <1>3, <1>4, <1>5, <1>7, <2>1 DEF Sound, IInv, KeysAreMade
  <1>9. KeysAreMade' /\ RunsAreTheirs'
    BY <1>5, <1>6, <1>7, <1>8, RunsKept
  <1>10. RunsServe'
    <2>1. \A e \in r.to : \E i \in DOMAIN posted' : posted'[i].key = r.key /\ e \in posted'[i].to
      BY <1>3, <1>5
    <2>2. \A e \in Dev : Offered(e, 1) => Offered(e, 1)'
      <3>1. \A t \in {s} : d = Boss /\ runs[d][t].at = "post" =>
               \A e \in runs[d][t].to : \E i \in DOMAIN posted' :
                   posted'[i].key = runs[d][t].key /\ e \in posted'[i].to
        BY <2>1
      <3>2. {s} \in SUBSET Slots /\ 1 \in Nat /\ TypeOK /\ OthersLike(d, {s})
            /\ DOMAIN posted \subseteq DOMAIN posted'
            /\ \A i \in DOMAIN posted : posted'[i] = posted[i]
        BY <1>1, <1>5, <1>6
      <3> QED
        BY <3>1, <3>2, OfferedStays
    <2>3. ASSUME Calm', d = Boss PROVE AllOffered(runs[Boss][s].dist)'
      <3>1. AllOffered(r.dist) /\ r.dist \in SUBSET Dev
        BY <1>1, <1>2, <2>3 DEF IInv, RunsServe, Calm, Runs
      <3>2. runs'[Boss][s].dist = r.dist
        BY <1>4, <1>6, <2>3
      <3> QED
        BY <1>2, <2>2, <3>1, <3>2 DEF AllOffered
    <2>4. d = Boss => \A e \in runs'[Boss][s].to : \E i \in DOMAIN posted' :
                          posted'[i].key = runs'[Boss][s].key /\ e \in posted'[i].to
      BY <1>4, <1>6, <2>1
    <2> HIDE DEF r
    <2> QED
      BY SMTT(30), <1>2, <1>5, <1>6, <2>1, <2>3, <2>4, ServeKept DEF Calm, r
  <1>11. EncryptedIsKeyed'
    BY <1>2 DEF IInv, EncryptedIsKeyed, Plain
  <1>12. seen' \in [Dev -> SUBSET (DOMAIN posted')] /\ used' \in [Dev -> SUBSET (DOMAIN posted')]
    BY <1>1, <1>2, <1>5 DEF TypeOK
  <1>13. TypeOK'
    BY <1>1, <1>2, <1>5, <1>6, <1>12 DEF OthersLike, TypeOK
  <1> QED
    BY <1>9, <1>10, <1>11, <1>13 DEF IInv

\* Whom the key was sent to is served: the signal is there.
LEMMA SentKept == ASSUME IInv, NEW d \in Dev, NEW s \in Slots, Sent(d, s) PROVE IInv'
  <1> DEFINE r == runs[d][s]
  <1>1. r \in Runs /\ r.at = "sent" /\ Sound(d, r, DOMAIN posted, made) /\ TypeOK
    BY RunType, RunsAreSound DEF IInv, Sent
  <1>2. d = Boss /\ r.key \in 1 .. MaxKeys /\ r.key <= made /\ made \in Nat
    BY <1>1, BoundAssumption DEF Sound, Runs, TypeOK
  <1>3. UNCHANGED <<mode, joined, posted, page, parts, seen, due, used, made, moves, fails, laps>>
        /\ Free(d, s) /\ Encrypts(d, r.key, r.live)
    BY DEF Sent, server, known, spent
  <1>4. \/ /\ key' = [key EXCEPT ![d] = r.key] /\ gen' = [gen EXCEPT ![d] = TRUE]
           /\ dist' = dist
        \/ /\ dist' = [dist EXCEPT ![d] = IF r.dist = {} THEN @ ELSE Served(r)]
           /\ key' = key /\ gen' = gen
    BY DEF Sent
  <1>5. OthersLike(d, {s}) /\ runs'[d][s] = NoRun /\ Sound(d, NoRun, DOMAIN posted, made)
    BY <1>3, RunEnds
  <1>6. /\ key' \in [Dev -> 0 .. MaxKeys] /\ (\A e \in Dev : key'[e] <= made)
        /\ gen' \in [Dev -> BOOLEAN] /\ dist' \in [Dev -> SUBSET Dev]
        /\ \A e \in Dev \ {Boss} : dist'[e] = {} /\ ~gen'[e]
    <2>1. Served(r) \in SUBSET Dev /\ r.key \in 0 .. MaxKeys
      BY <1>1 DEF Served, Runs
    <2> HIDE DEF r
    <2>2. key \in [Dev -> 0 .. MaxKeys] /\ gen \in [Dev -> BOOLEAN] /\ dist \in [Dev -> SUBSET Dev]
          /\ (\A e \in Dev \ {Boss} : dist[e] = {} /\ ~gen[e]) /\ \A e \in Dev : key[e] <= made
      BY DEF IInv, TypeOK, KeysAreMade
    <2>3. CASE key' = [key EXCEPT ![d] = r.key] /\ gen' = [gen EXCEPT ![d] = TRUE] /\ dist' = dist
      <3>1. key' \in [Dev -> 0 .. MaxKeys] /\ \A e \in Dev : key'[e] <= made
        BY <1>2, <2>1, <2>2, <2>3
      <3> QED
        BY <1>2, <2>2, <2>3, <3>1
    <2>4. CASE dist' = [dist EXCEPT ![d] = IF r.dist = {} THEN @ ELSE Served(r)]
               /\ key' = key /\ gen' = gen
      BY <1>2, <2>1, <2>2, <2>4
    <2> QED
      BY <1>4, <2>3, <2>4
  <1>7. KeysAreMade' /\ RunsAreTheirs'
    <2>1. \A i \in DOMAIN posted' : posted'[i].key <= made'
      BY <1>3 DEF IInv, KeysAreMade
    <2> QED
      BY <1>2, <1>3, <1>5, <1>6, <2>1, RunsKept
  <1>8. RunsServe'
    <2>1. runs[d][s].at # "post"
      BY <1>1
    <2>2. \A e \in Dev : Offered(e, 1) => Offered(e, 1)'
      BY <1>1, <1>3, <1>5, <2>1, OfferedStays
    <2>3. key[Boss] # 0 => key'[Boss] # 0
      BY <1>1, <1>2, <1>4 DEF TypeOK
    <2>4. ASSUME Calm', dist'[Boss] # dist[Boss] PROVE AllOffered(dist[Boss])'
      <3>1. dist'[Boss] = Served(r) /\ r.dist # {} /\ key' = key
        BY <1>1, <1>2, <1>4, <2>4 DEF TypeOK
      <3>2. AllOffered(r.dist) /\ \A e \in r.to : IsPosted(e, r.key)
        BY <1>1, <1>2, <1>3, <2>4 DEF IInv, RunsServe, Calm
      <3>3. r.key = 1
        BY <1>2, <1>3, <2>4 DEF Calm
      <3>4. \A e \in Served(r) : e \in Dev /\ Offered(e, 1)
        BY <1>1, <3>1, <3>2, <3>3 DEF AllOffered, Served, Offered, Runs
      <3>5. key'[Boss] # 0
        BY <2>3, <3>1, <3>2 DEF AllOffered
      <3> QED
        BY <2>2, <3>1, <3>4, <3>5 DEF AllOffered
    <2>5. AllOffered(runs[Boss][s].dist)' /\ runs'[Boss][s].at # "sent"
      BY <1>2, <1>5, NoRunType DEF AllOffered
    <2> HIDE DEF r
    <2> QED
      BY <1>3, <1>5, <2>1, <2>3, <2>4, <2>5, ServeKept DEF Calm
  <1>9. ctrl' \in [Dev -> 0 .. MaxKeys] /\ shown' \in [Dev -> States] /\ EncryptedIsKeyed'
    <2>1. r.key \in 0 .. MaxKeys /\ r.live \in BOOLEAN
      BY <1>1 DEF Runs
    <2> QED
      BY <1>3, <2>1, FramesKept DEF IInv
  <1>10. TypeOK'
    BY <1>1, <1>3, <1>5, <1>6, <1>9 DEF OthersLike, TypeOK
  <1> QED
    BY <1>7, <1>8, <1>9, <1>10 DEF IInv

LEMMA ScanKept == ASSUME IInv, NEW d \in Dev, NEW s \in Slots, Scan(d, s) PROVE IInv'
  <1> DEFINE r == runs[d][s]
  <1>1. r \in Runs /\ r.at = "scan" /\ Sound(d, r, DOMAIN posted, made) /\ TypeOK
    BY RunType, RunsAreSound DEF IInv, Scan
  <1>2. UNCHANGED <<mode, joined, posted, page, parts, seen, gen, dist, due, made, moves, fails,
                    laps>>
        /\ Free(d, s)
    BY DEF Scan, server, known, spent
  <1>3. PICK k \in 0 .. MaxKeys :
           /\ Encrypts(d, k, r.live)
           /\ \/ UNCHANGED <<key, used>>
              \/ \E i \in DOMAIN posted :
                    /\ k # 0 /\ k <= made /\ key' = [key EXCEPT ![d] = k]
                    /\ used' = [used EXCEPT ![d] = @ \cup {i}]
    <2>1. CASE Encrypts(d, 0, r.live) /\ UNCHANGED <<key, used>>
      BY <2>1, BoundAssumption
    <2>2. ASSUME NEW i \in Mine(d, r), key' = [key EXCEPT ![d] = posted[i].key],
                 used' = [used EXCEPT ![d] = @ \cup {i}], Encrypts(d, posted[i].key, r.live)
          PROVE  \E k \in 0 .. MaxKeys :
                    /\ Encrypts(d, k, r.live)
                    /\ \/ UNCHANGED <<key, used>>
                       \/ \E j \in DOMAIN posted :
                             /\ k # 0 /\ k <= made /\ key' = [key EXCEPT ![d] = k]
                             /\ used' = [used EXCEPT ![d] = @ \cup {j}]
      <3>1. i \in DOMAIN posted
        BY <1>1 DEF Mine, Sound
      <3>2. posted[i].key \in 1 .. MaxKeys /\ posted[i].key <= made
        <4>1. posted[i] \in Signals /\ posted[i].key <= made
          BY <3>1 DEF TypeOK, IInv, KeysAreMade
        <4> QED
          BY <4>1 DEF Signals
      <3>3. posted[i].key \in 0 .. MaxKeys /\ posted[i].key # 0
        BY <3>2, BoundAssumption
      <3> QED
        BY <2>2, <3>1, <3>2, <3>3
    <2> QED
      BY <2>1, <2>2 DEF Scan
  <1>4. OthersLike(d, {s}) /\ runs'[d][s] = NoRun /\ Sound(d, NoRun, DOMAIN posted, made)
    BY <1>2, RunEnds
  <1>5. /\ key' \in [Dev -> 0 .. MaxKeys] /\ (\A e \in Dev : key'[e] <= made)
        /\ used' \in [Dev -> SUBSET (DOMAIN posted)]
        /\ key[Boss] # 0 => key'[Boss] # 0
    <2>1. key \in [Dev -> 0 .. MaxKeys] /\ used \in [Dev -> SUBSET (DOMAIN posted)]
          /\ Boss \in Dev /\ \A e \in Dev : key[e] <= made
      BY DevAssumption DEF IInv, TypeOK, KeysAreMade
    <2>2. CASE UNCHANGED <<key, used>>
      BY <2>1, <2>2
    <2>3. ASSUME NEW i \in DOMAIN posted, k # 0, k <= made, key' = [key EXCEPT ![d] = k],
                 used' = [used EXCEPT ![d] = @ \cup {i}]
          PROVE  /\ key' \in [Dev -> 0 .. MaxKeys] /\ (\A e \in Dev : key'[e] <= made)
                 /\ used' \in [Dev -> SUBSET (DOMAIN posted)]
                 /\ key[Boss] # 0 => key'[Boss] # 0
      <3>1. used' \in [Dev -> SUBSET (DOMAIN posted)]
        BY <2>1, <2>3
      <3>2. key' \in [Dev -> 0 .. MaxKeys] /\ \A e \in Dev : key'[e] = key[e] \/ key'[e] = k
        BY <2>1, <2>3
      <3> QED
        BY <2>1, <2>3, <3>1, <3>2
    <2> QED
      BY <1>3, <2>2, <2>3
  <1>6. KeysAreMade' /\ RunsAreTheirs'
    <2>1. (\A i \in DOMAIN posted' : posted'[i].key <= made') /\ made \in Nat
      BY <1>1, <1>2, BoundAssumption DEF IInv, KeysAreMade, TypeOK
    <2> QED
      BY <1>2, <1>4, <1>5, <2>1, RunsKept
  <1>7. RunsServe'
    <2>1. runs[d][s].at # "post"
      BY <1>1
    <2>2. d = Boss => AllOffered(runs[Boss][s].dist)' /\ runs'[Boss][s].at # "sent"
      BY <1>4, NoRunType DEF AllOffered
    <2> QED
      BY <1>2, <1>4, <1>5, <2>1, <2>2, ServeKept DEF Calm
  <1>8. ctrl' \in [Dev -> 0 .. MaxKeys] /\ shown' \in [Dev -> States] /\ EncryptedIsKeyed'
    <2>1. r.live \in BOOLEAN
      BY <1>1 DEF Runs
    <2> QED
      BY <1>3, <2>1, FramesKept DEF IInv
  <1>9. TypeOK'
    BY <1>1, <1>2, <1>4, <1>5, <1>8 DEF OthersLike, TypeOK
  <1> QED
    BY <1>6, <1>7, <1>8, <1>9 DEF IInv

-----------------------------------------------------------------------------
(* The invariant, and what follows from it.                                 *)

LEMMA InitKept == Init => IInv
  <1> SUFFICES ASSUME Init PROVE IInv
    OBVIOUS
  <1>1. AllIdle \in [Slots -> Runs] /\ \A s \in Slots : AllIdle[s] = NoRun
    BY NoRunType DEF AllIdle
  <1>2. MaxKeys \in Nat /\ Most \in Nat /\ Boss \in Dev
    BY BoundAssumption, DevAssumption
  <1>3. \A d \in Dev, s \in Slots : runs[d][s] = NoRun
    BY <1>1 DEF Init
  <1>4. TypeOK
    BY <1>1, <1>2 DEF Init, TypeOK, States
  <1>5. EncryptedIsKeyed
    BY DEF Init, EncryptedIsKeyed
  <1>6. KeysAreMade /\ RunsAreTheirs
    BY <1>3, NoRunType DEF Init, KeysAreMade, RunsAreTheirs
  <1>7. RunsServe
    BY <1>2, <1>3, NoRunType DEF Init, RunsServe, AllOffered
  <1> QED
    BY <1>4, <1>5, <1>6, <1>7 DEF IInv

LEMMA NextKept == ASSUME IInv, [Next]_vars PROVE IInv'
  <1>1. CASE Next
    BY <1>1, HearingKept, LinkLostKept, DropKept, SyncAtOnceKept, StartSyncKept, WrapKept,
       FailKept, PostKept, SentKept, ScanKept
       DEF Next, OfPage, OfRun
  <1>2. CASE UNCHANGED vars
    BY <1>2 DEF vars, server, known, keys, frames, spent, IInv, TypeOK, EncryptedIsKeyed, Plain,
       KeysAreMade, RunsAreTheirs, RunsServe, AllOffered, Offered, IsPosted
  <1> QED
    BY <1>1, <1>2

\* The inductive invariant holds whatever the pages, their overlapping syncs and
\* the network do.
THEOREM Inductive == Spec => []IInv
  <1>1. IInv /\ [Next]_vars => IInv'
    BY NextKept
  <1> QED
    BY <1>1, InitKept, PTL DEF Spec

\* Every variable keeps its type, and only the initiator makes keys.
THEOREM TypeCorrect == Spec => []TypeOK
  <1>1. IInv => TypeOK
    BY DEF IInv
  <1> QED
    BY <1>1, Inductive, PTL

\* A page says that its media is encrypted only with a key in its transforms.
THEOREM EncryptedMediaHasKey == Spec => []EncryptedIsKeyed
  <1>1. IInv => EncryptedIsKeyed
    BY DEF IInv
  <1> QED
    BY <1>1, Inductive, PTL

\* Whom the initiator counts as served the group's key was sent to, or is about to
\* be, while one key is made and nothing fails.
THEOREM ServedWereSent == Spec => []ServedHaveKey
  <1>1. IInv => ServedHaveKey
    <2> SUFFICES ASSUME IInv, made <= 1, fails = 0, NEW d \in dist[Boss]
                 PROVE  Offered(d, key[Boss])
      BY DEF ServedHaveKey
    <2>1. key[Boss] # 0 /\ Offered(d, 1)
      BY DEF IInv, RunsServe, AllOffered
    <2>2. key[Boss] = 1
      BY <2>1, DevAssumption, BoundAssumption DEF IInv, TypeOK, KeysAreMade
    <2> QED
      BY <2>1, <2>2
  <1> QED
    BY <1>1, Inductive, PTL
=============================================================================

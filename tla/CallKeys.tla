------------------------------- MODULE CallKeys -------------------------------
(* How the pages in a call come to encrypt their frames with one key: the   *)
(* device that started the call makes the key, wraps it for every other     *)
(* device and posts it as a signal; the others unwrap what is addressed to  *)
(* them.  Every change of what a page knows cancels its sync and starts     *)
(* another, but a cancelled sync runs on: all it no longer does is report   *)
(* its result.  Keys are numbered as they are made; 0 is no key.            *)
EXTENDS Naturals, Sequences, FiniteSets

CONSTANTS
    Dev, Boss,   \* devices, and the one that started the call
    Slots,       \* places for the syncs of a page that overlap
    MaxKeys,     \* keys that are made
    Most         \* calls dropped, links lost, devices not ready, failures, overlaps, in all

ASSUME DevAssumption == Boss \in Dev /\ Slots \subseteq Nat
ASSUME BoundAssumption == {MaxKeys, Most} \subseteq Nat

VARIABLES
    mode,           \* "direct" or "group"
    joined, posted, \* the server: participants, and the signals in order
    page,           \* "off", "on" (the call is shown), "linked"
    parts, seen,    \* callParticipants and callSignals of each page
    key, gen, dist, \* its key, whether it made one, the devices that have it
    ctrl, shown,    \* the key of its frames, and mediaEncryptionState
    due, runs,      \* whether the sync effect is to run, syncs on their way
    used,           \* the signals each device has unwrapped
    made, moves, fails, laps

server == <<mode, joined, posted>>
known == <<page, parts, seen>>
keys == <<key, gen, dist>>
frames == <<ctrl, shown>>
spent == <<moves, fails, laps>>
vars == <<server, known, keys, frames, due, runs, used, made, spent>>

NoRun == [at |-> "idle", key |-> 0, dist |-> {}, to |-> {}, seen |-> {}, live |-> FALSE]
AllIdle == [s \in Slots |-> NoRun]

Init ==
    /\ mode \in {"direct", "group"} /\ joined = {Boss} /\ posted = <<>>
    /\ page = [d \in Dev |-> IF d = Boss THEN "on" ELSE "off"]
    /\ parts = [d \in Dev |-> IF d = Boss THEN {Boss} ELSE {}] /\ seen = [d \in Dev |-> {}]
    /\ key = [d \in Dev |-> 0] /\ gen = [d \in Dev |-> FALSE] /\ dist = [d \in Dev |-> {}]
    /\ ctrl = [d \in Dev |-> 0]
    /\ shown = [d \in Dev |-> "disabled"]
    /\ due = [d \in Dev |-> FALSE] /\ runs = [d \in Dev |-> AllIdle]
    /\ used = [d \in Dev |-> {}] /\ made = 0 /\ moves = 0 /\ fails = 0 /\ laps = 0

Remote(d) == parts[d] \ {d}

\* Without a key frames pass as they are; what one key encrypts only that key
\* decrypts.
Plain(d) == ctrl[d] = 0
Decodes(d, e) == ctrl[d] = ctrl[e]

Budget == moves + fails + laps < Most
Moves == Budget /\ moves' = moves + 1 /\ UNCHANGED <<fails, laps>>
Fails == Budget /\ fails' = fails + 1 /\ UNCHANGED <<moves, laps>>

\* A sync that starts while another is on its way.
Laps(d) ==
    /\ UNCHANGED <<moves, fails>>
    /\ IF runs[d] = AllIdle THEN laps' = laps ELSE Budget /\ laps' = laps + 1

-----------------------------------------------------------------------------
(* What a page hears.                                                      *)

\* A direct call says that it negotiates, a group's state is left alone.
Negotiates(d) == [shown EXCEPT ![d] = IF mode = "direct" THEN "negotiating" ELSE @]

\* The page shows the call, with the participants and signals there are.
Show(d) ==
    /\ page[d] = "off" /\ (mode = "direct" => Cardinality(joined \cup {d}) <= 2)
    /\ joined' = joined \cup {d}
    /\ page' = [page EXCEPT ![d] = "on"]
    /\ parts' = [parts EXCEPT ![d] = joined'] /\ seen' = [seen EXCEPT ![d] = DOMAIN posted]
    /\ shown' = Negotiates(d)
    /\ UNCHANGED <<mode, posted, keys, ctrl, due, runs, used, made, spent>>

HearParticipants(d) ==
    /\ page[d] # "off" /\ parts[d] # joined
    /\ parts' = [parts EXCEPT ![d] = joined]
    /\ due' = [due EXCEPT ![d] = @ \/ page[d] = "linked"]
    /\ UNCHANGED <<server, page, seen, keys, frames, runs, used, made, spent>>

\* Mutant: a signal wakes the sync of group calls only.
WakesGroup(d) == [due EXCEPT ![d] = @ \/ (mode = "group" /\ page[d] = "linked")]
\* Signals are no dependency of the group's effect.
Wakes(d) == [due EXCEPT ![d] = @ \/ (mode = "direct" /\ page[d] = "linked")]

HearSignal(d) ==
    /\ page[d] # "off" /\ DOMAIN posted \ seen[d] # {}
    /\ \E i \in DOMAIN posted \ seen[d] :
          /\ \A j \in DOMAIN posted \ seen[d] : i <= j
          /\ seen' = [seen EXCEPT ![d] = @ \cup {i}]
    /\ due' = Wakes(d)
    /\ UNCHANGED <<server, page, parts, keys, frames, runs, used, made, spent>>

\* The frames get transforms with the key there is, if any.
Link(d) ==
    /\ page[d] = "on" /\ page' = [page EXCEPT ![d] = "linked"]
    /\ due' = [due EXCEPT ![d] = TRUE]
    /\ UNCHANGED <<server, parts, seen, keys, frames, runs, used, made, spent>>

Cancelled(d) == [s \in Slots |-> [runs[d][s] EXCEPT !.live = FALSE]]

LinkLost(d) ==
    /\ page[d] = "linked" /\ Moves
    /\ page' = [page EXCEPT ![d] = "on"] /\ due' = [due EXCEPT ![d] = FALSE]
    /\ runs' = [runs EXCEPT ![d] = Cancelled(d)] /\ shown' = Negotiates(d)
    /\ UNCHANGED <<server, parts, seen, keys, ctrl, used, made>>

\* Mutant: what was shown stays.
Forget(d) == shown
Cleared(d) == [shown EXCEPT ![d] = "disabled"]

\* The call is dropped: a background answer says so, or the page is reloaded.
Drop(d) ==
    /\ page[d] # "off" /\ Fails
    /\ page' = [page EXCEPT ![d] = "off"]
    /\ parts' = [parts EXCEPT ![d] = {}] /\ seen' = [seen EXCEPT ![d] = {}]
    /\ key' = [key EXCEPT ![d] = 0] /\ gen' = [gen EXCEPT ![d] = FALSE]
    /\ dist' = [dist EXCEPT ![d] = {}]
    /\ ctrl' = [ctrl EXCEPT ![d] = 0]
    /\ shown' = Cleared(d)
    /\ due' = [due EXCEPT ![d] = FALSE]
    /\ \/ runs' = [runs EXCEPT ![d] = AllIdle]
       \/ runs' = [runs EXCEPT ![d] = [s \in Slots |-> [@[s] EXCEPT !.live = FALSE]]]
    /\ UNCHANGED <<server, used, made>>

-----------------------------------------------------------------------------
(* The sync.                                                               *)

Free(d, s) == runs' = [runs EXCEPT ![d][s] = NoRun]

\* Whom a sync makes a key for, or hands the key to.  MakeOnce is also a
\* mutant of ToAsk: late comers are forgotten.
Make(d) == IF key[d] = 0 /\ ~gen[d] THEN Remote(d) ELSE {}
MakeOnce(d) == IF d = Boss THEN Make(d) ELSE {}
ToAsk(d) ==
    IF d = Boss /\ key[d] # 0 /\ mode = "group" THEN Remote(d) \ dist[d] ELSE MakeOnce(d)

\* Who has no key looks for one; a group's initiator does not.
Scans(d) == key[d] = 0 /\ (mode = "direct" \/ d # Boss)

\* A sync that has key k: the frames change, the result is shown if it may be.
Encrypts(d, k, live) ==
    /\ ctrl' = [ctrl EXCEPT ![d] = IF k = 0 THEN @ ELSE k]
    /\ shown' = [shown EXCEPT ![d] =
          IF ~live THEN @ ELSE IF k = 0 THEN "negotiating" ELSE "encrypted"]

Errs(d, live) ==
    /\ shown' = [shown EXCEPT ![d] = IF live THEN "error" ELSE @]
    /\ UNCHANGED ctrl

Start(d) == due[d] /\ page[d] = "linked" /\ due' = [due EXCEPT ![d] = FALSE]

\* There is nothing to wait for.
SyncAtOnce(d) ==
    /\ Start(d)
    /\ \/ mode = "direct" /\ Remote(d) = {} /\ Encrypts(d, 0, TRUE)
       \/ /\ ~(mode = "direct" /\ Remote(d) = {}) /\ ToAsk(d) = {} /\ ~Scans(d)
          /\ Encrypts(d, key[d], TRUE)
    /\ runs' = [runs EXCEPT ![d] = Cancelled(d)]
    /\ UNCHANGED <<server, known, keys, used, made, spent>>

StartSync(d, s) ==
    /\ Start(d) /\ runs[d][s] = NoRun /\ (\A t \in Slots : runs[d][t] = NoRun => s <= t)
    /\ ~(mode = "direct" /\ Remote(d) = {})
    /\ ToAsk(d) # {} \/ Scans(d)
    /\ Laps(d)
    /\ runs' = [runs EXCEPT ![d] = [Cancelled(d) EXCEPT ![s] =
          [at |-> IF ToAsk(d) = {} THEN "scan" ELSE "ask", key |-> key[d],
           dist |-> dist[d], to |-> ToAsk(d), seen |-> seen[d], live |-> TRUE]]]
    /\ shown' = Negotiates(d)
    /\ UNCHANGED <<server, known, keys, ctrl, used, made>>

\* Mutant: whoever was asked for counts as served.
NotedAll(r, ready) == r.to
Noted(r, ready) == ready

\* The sessions are there, perhaps not all; a new key is the group's at once.
Wrap(d, s) ==
    LET r == runs[d][s]
        k == IF r.key = 0 THEN made + 1 ELSE r.key
        new == mode = "group" /\ r.key = 0
    IN  /\ r.at = "ask" /\ k <= MaxKeys
        /\ made' = IF r.key = 0 THEN k ELSE made
        /\ \E ready \in SUBSET r.to :
              /\ ready # {} /\ IF ready = r.to THEN UNCHANGED spent ELSE Moves
              /\ runs' = [runs EXCEPT ![d][s].at = "post", ![d][s].key = k, ![d][s].to = ready]
              /\ dist' = [dist EXCEPT ![d] = IF new THEN Noted(r, ready) ELSE @]
        /\ key' = [key EXCEPT ![d] = IF new THEN k ELSE @]
        /\ gen' = [gen EXCEPT ![d] = @ \/ new]
        /\ UNCHANGED <<server, known, frames, due, used>>

\* No device is ready, or asking for its prekeys fails.
NotReady(d, s) ==
    LET r == runs[d][s] IN
    /\ r.at = "ask" /\ Fails /\ Free(d, s)
    /\ Errs(d, r.live) \/ Encrypts(d, r.key, r.live)
    /\ UNCHANGED <<server, known, keys, due, used, made>>

Wrapped(k, d, to) == [key |-> k, by |-> d, to |-> to]
Post(d, s) ==
    LET r == runs[d][s] IN
    /\ r.at = "post" /\ runs' = [runs EXCEPT ![d][s].at = "sent"]
    /\ posted' = Append(posted, Wrapped(r.key, d, r.to))
    /\ UNCHANGED <<mode, joined, known, keys, frames, due, used, made, spent>>

\* The post fails, before or after the server has the signal.
PostFails(d, s) ==
    LET r == runs[d][s] IN
    /\ r.at \in {"post", "sent"} /\ Fails /\ Free(d, s) /\ Errs(d, r.live)
    /\ UNCHANGED <<server, known, keys, due, used, made>>

Served(r) == r.dist \cup r.to

Sent(d, s) ==
    LET r == runs[d][s] IN
    /\ r.at = "sent" /\ Free(d, s) /\ Encrypts(d, r.key, r.live)
    /\ IF mode = "direct"
       THEN /\ key' = [key EXCEPT ![d] = r.key] /\ gen' = [gen EXCEPT ![d] = TRUE]
            /\ dist' = dist
       ELSE \* Who made the key has noted whom it is for.
            /\ dist' = [dist EXCEPT ![d] = IF r.dist = {} THEN @ ELSE Served(r)]
            /\ UNCHANGED <<key, gen>>
    /\ UNCHANGED <<server, known, due, used, made, spent>>

\* The newest signal for this device that can be unwrapped, if there is one.
For(d, i) == d \in posted[i].to /\ posted[i].by # d
Mine(d, r) == {i \in r.seen \ used[d] : For(d, i)}
Scan(d, s) ==
    LET r == runs[d][s] IN
    /\ r.at = "scan" /\ Free(d, s)
    /\ \/ /\ Mine(d, r) = {} /\ Encrypts(d, 0, r.live) /\ UNCHANGED <<key, used>>
       \/ \E i \in Mine(d, r) :
            /\ \A j \in Mine(d, r) : j <= i
            /\ key' = [key EXCEPT ![d] = posted[i].key]
            /\ used' = [used EXCEPT ![d] = @ \cup {i}]
            /\ Encrypts(d, posted[i].key, r.live)
    /\ UNCHANGED <<server, known, gen, dist, due, made, spent>>

-----------------------------------------------------------------------------
OfRun(d, s) ==
    \/ StartSync(d, s) \/ Wrap(d, s) \/ NotReady(d, s) \/ Post(d, s)
    \/ PostFails(d, s) \/ Sent(d, s) \/ Scan(d, s)

OfPage(d) ==
    \/ Show(d) \/ HearParticipants(d) \/ HearSignal(d) \/ Link(d) \/ LinkLost(d)
    \/ Drop(d) \/ SyncAtOnce(d)

Next == \E d \in Dev : OfPage(d) \/ \E s \in Slots : OfRun(d, s)

Spec == Init /\ [][Next]_vars

\* Pushes arrive, effects run, requests end; a page that shows the call links.
Fairness ==
    \A d \in Dev :
        /\ WF_vars(HearParticipants(d)) /\ WF_vars(HearSignal(d)) /\ WF_vars(Link(d))
        /\ WF_vars(SyncAtOnce(d))
        /\ WF_vars(\E s \in Slots : StartSync(d, s))
        /\ \A s \in Slots : WF_vars(Wrap(d, s)) /\ WF_vars(Post(d, s))
                            /\ WF_vars(Sent(d, s)) /\ WF_vars(Scan(d, s))

FairSpec == Spec /\ Fairness

-----------------------------------------------------------------------------
States == {"disabled", "negotiating", "encrypted", "error"}
Signals == [key: 1 .. MaxKeys, by: Dev, to: SUBSET Dev]
Runs == [at: {"idle", "ask", "post", "sent", "scan"}, key: 0 .. MaxKeys,
         dist: SUBSET Dev, to: SUBSET Dev, seen: SUBSET Nat, live: BOOLEAN]

(* The type of every variable; only the device that started the call makes *)
(* a key and hands it out (call-e2ee-sync.ts 92-100, 253-257).             *)
TypeOK ==
    /\ mode \in {"direct", "group"} /\ joined \subseteq Dev /\ posted \in Seq(Signals)
    /\ page \in [Dev -> {"off", "on", "linked"}]
    /\ parts \in [Dev -> SUBSET Dev] /\ seen \in [Dev -> SUBSET (DOMAIN posted)]
    /\ key \in [Dev -> 0 .. MaxKeys] /\ gen \in [Dev -> BOOLEAN]
    /\ dist \in [Dev -> SUBSET Dev] /\ \A d \in Dev \ {Boss} : dist[d] = {} /\ ~gen[d]
    /\ ctrl \in [Dev -> 0 .. MaxKeys]
    /\ shown \in [Dev -> States] /\ due \in [Dev -> BOOLEAN]
    /\ runs \in [Dev -> [Slots -> Runs]]
    /\ used \in [Dev -> SUBSET (DOMAIN posted)]
    /\ made \in 0 .. MaxKeys /\ {moves, fails, laps} \subseteq 0 .. Most

(* A page that says its media is encrypted has a key in its transforms     *)
(* (useCall.ts 686-716, 3081-3095; call-e2ee-sync.ts 162-178).             *)
EncryptedIsKeyed == \A d \in Dev : shown[d] = "encrypted" => ~Plain(d)

(* A device the initiator counts as served has been sent the group's key,  *)
(* or is about to be, while one key is made, no post fails and no call is  *)
(* dropped (call-e2ee-sync.ts 92-150).                                     *)
IsPosted(d, k) == \E i \in DOMAIN posted : posted[i].key = k /\ d \in posted[i].to
Offered(d, k) ==
    \/ IsPosted(d, k)
    \/ \E s \in Slots : LET r == runs[Boss][s] IN r.at = "post" /\ r.key = k /\ d \in r.to
ServedHaveKey ==
    made <= 1 /\ fails = 0 => \A d \in dist[Boss] : Offered(d, key[Boss])

(* The inductive invariant: no key is older than its making, only the      *)
(* initiator's runs ask and post, a run has read signals that are there,   *)
(* and whom a run found served when it began is served still.              *)
KeysAreMade ==
    /\ \A d \in Dev : key[d] <= made /\ \A s \in Slots : runs[d][s].key <= made
    /\ \A i \in DOMAIN posted : posted[i].key <= made
RunsAreTheirs ==
    \A d \in Dev, s \in Slots : LET r == runs[d][s] IN
        /\ d # Boss => r.at \in {"idle", "scan"}
        /\ r.at \in {"post", "sent"} => r.key # 0
        /\ r.seen \subseteq DOMAIN posted
AllOffered(D) == D # {} => key[Boss] # 0 /\ \A d \in D : Offered(d, 1)
RunsServe ==
    made <= 1 /\ fails = 0 =>
        /\ AllOffered(dist[Boss])
        /\ \A s \in Slots : LET r == runs[Boss][s] IN
              /\ AllOffered(r.dist)
              /\ r.at = "sent" => \A d \in r.to : IsPosted(d, r.key)

IInv == TypeOK /\ EncryptedIsKeyed /\ KeysAreMade /\ RunsAreTheirs /\ RunsServe

(* In a direct call both pages come to encrypt their frames with one key,  *)
(* when the initiator makes one key and nothing is lost                    *)
(* (useCall.ts 3110-3204).                                                 *)
Linked == {d \in Dev : page[d] = "linked"}
OneKey ==
    Cardinality(Linked) = 2 =>
        \A d, e \in Linked : Decodes(d, e) /\ ~Plain(d)
DirectAgrees ==
    [](mode = "direct" /\ made <= 1 /\ moves = 0 /\ fails = 0) => <>[]OneKey

(* In a group every page in the call comes to hold a signal with a key for *)
(* it (useCall.ts 3023-3108).  It may never look at it: the effect does    *)
(* not run when a signal arrives.                                          *)
GroupOffered ==
    [](mode = "group" /\ made <= 1 /\ fails = 0 /\ moves = 0) =>
        <>[](\A d \in Linked \ {Boss} : Boss \in Linked =>
                \E i \in seen[d] : d \in posted[i].to)

(* In both kinds of call, as far as the code goes.                         *)
KeysAgree == DirectAgrees /\ GroupOffered
=============================================================================

------------------------------ MODULE Sessions ------------------------------
(***************************************************************************)
(* The end-to-end sessions under every message and every call key          *)
(* (lib/signal-bridge.ts, the senders in hooks/useMessages.ts and          *)
(* hooks/useCall.ts, and the record store of desktop/src-tauri/src/signal).*)
(*                                                                         *)
(* A sender lists the devices of the chat, fetches the bundles of their    *)
(* users, and for one device after the other builds a session from the     *)
(* bundle and encrypts with the session then current; a call key is        *)
(* wrapped the same way, all sessions first.  hasSession always answers    *)
(* no, so a session is built for every message.  The server hands out the  *)
(* oldest one-time prekey that is not marked used and this path never      *)
(* marks one; the device that opens a first message marks its own copy.    *)
(*                                                                         *)
(* A session is its base key.  libsignal is external: building makes the   *)
(* new session current and archives the others; a message opens with a     *)
(* session of its base, which becomes current, or, when it carries a       *)
(* prekey the device still holds, with a session made from it.  Ratchets,  *)
(* identities (one per device address) and the cap on archived sessions    *)
(* (40) are left out.                                                      *)
(***************************************************************************)
EXTENDS Naturals, FiniteSets

CONSTANTS
    Devices,    \* the devices of a chat
    Linked,     \* those linked when it starts; the others are linked later
    MaxSends,   \* messages and key posts begun, over all devices
    MaxMisses,  \* prekey requests that fail
    NoKey

ASSUME DevicesAssumption == IsFiniteSet(Devices) /\ Linked \subseteq Devices /\ NoKey \notin Nat
ASSUME BoundsAssumption == MaxSends \in Nat /\ MaxMisses \in Nat

Purposes == {"message", "key"}
FirstKey == 1      \* the oldest one-time prekey of a device: it is never marked used

VARIABLES
    recs,      \* recs[d][p]: d's record of p: all its sessions, and the base of the current one
    oneTime,   \* oneTime[d]: the one-time prekeys d still holds
    linked,    \* the devices the server lists
    posts,     \* posts[d][u]: what d is sending
    mail,      \* envelopes stored for a device and not opened by it yet
    begun, made, misses

vars == <<recs, oneTime, linked, posts, mail, begun, made, misses>>

Idle == [at |-> "idle", todo |-> {}, bundles |-> {}, sealed |-> {}]

NoSession == [all |-> {}, now |-> 0]

Init ==
    /\ recs = [d \in Devices |-> [p \in Devices |-> NoSession]]
    /\ oneTime = [d \in Devices |-> {FirstKey, FirstKey + 1}]
    /\ linked = Linked
    /\ posts = [d \in Devices |-> [u \in Purposes |-> Idle]]
    /\ mail = {}
    /\ begun = 0 /\ made = 0 /\ misses = 0

-----------------------------------------------------------------------------
(* The record of a peer, as the store keeps it *)

\* MUTANT: a new session replaces the record instead of archiving it.
ArchiveNone(record, new) == [all |-> {new}, now |-> new.base]

Archive(record, new) == [all |-> record.all \cup {new}, now |-> new.base]

\* A session that opened a message is current, and no longer sends its prekey.
Promote(record, base) ==
    [all |-> {IF t.base = base THEN [t EXCEPT !.offered = NoKey] ELSE t : t \in record.all},
     now |-> base]

Current(record) == CHOOSE t \in record.all : t.base = record.now

HasBase(d, p, base) == \E t \in recs[d][p].all : t.base = base

Holds(d, key) == key \in oneTime[d]

\* A message opens with a session of its base, or with the prekey it names.
Opens(m) ==
    \/ HasBase(m.to, m.from, m.base)
    \/ m.key # NoKey /\ Holds(m.to, m.key)

-----------------------------------------------------------------------------
(* Sending *)

\* buildSession, from the bundle the server gives: always the oldest prekey.
Built(d, p) ==
    /\ recs' = [recs EXCEPT ![d][p] = Archive(@, [base |-> made + 1, offered |-> FirstKey,
                                                 key |-> FirstKey, mine |-> TRUE])]
    /\ made' = made + 1

\* encryptForDevice: a first message until the session has been answered.
Envelope(d, p, u) ==
    LET s == Current(recs[d][p])
    IN  [to |-> p, from |-> d, base |-> s.base, key |-> s.offered, of |-> u,
         no |-> Cardinality(posts[d][u].sealed) + begun * Cardinality(Devices)]

\* buildEncryptedMessagePayload lists the recipients; a call's sync its participants.
Begin(d, u) ==
    /\ d \in linked
    /\ posts[d][u].at = "idle"
    /\ begun < MaxSends
    /\ begun' = begun + 1
    /\ posts' = [posts EXCEPT ![d][u] = [Idle EXCEPT !.at = IF u = "message" THEN "fetch" ELSE "ensure",
                                                     !.todo = linked \ {d}]]
    /\ UNCHANGED <<recs, oneTime, linked, mail, made, misses>>

\* The bundles of the devices to build for; a user whose request fails is only warned of.
FetchPrekeys(d) ==
    LET p == posts[d]["message"] IN
    /\ p.at = "fetch"
    /\ \E got \in SUBSET p.todo :
         /\ misses + Cardinality(p.todo \ got) =< MaxMisses
         /\ misses' = misses + Cardinality(p.todo \ got)
         /\ posts' = [posts EXCEPT ![d]["message"].at = "seal", ![d]["message"].bundles = got]
    /\ UNCHANGED <<recs, oneTime, linked, mail, begun, made>>

Next1(todo) == CHOOSE p \in todo : TRUE

\* encryptMessage, one device: the session is built where there is a bundle ...
BuildForMessage(d) ==
    LET u == posts[d]["message"] IN
    /\ u.at = "seal" /\ u.todo # {} /\ Next1(u.todo) \in u.bundles
    /\ Built(d, Next1(u.todo))
    /\ posts' = [posts EXCEPT ![d]["message"].at = "encrypt"]
    /\ UNCHANGED <<oneTime, linked, mail, begun, misses>>

\* ... and the text is encrypted with the session current by then, if there is one.
Encrypt(d) ==
    LET u == posts[d]["message"]
        p == Next1(u.todo) IN
    /\ u.todo # {}
    /\ u.at = "encrypt" \/ (u.at = "seal" /\ p \notin u.bundles)
    /\ posts' = [posts EXCEPT ![d]["message"] =
           IF recs[d][p].all = {} THEN Idle
           ELSE [u EXCEPT !.at = "seal", !.todo = u.todo \ {p},
                          !.sealed = u.sealed \cup {Envelope(d, p, "message")}]]
    /\ UNCHANGED <<recs, oneTime, linked, mail, begun, made, misses>>

\* The server stores a message with an envelope for every active device, and no other.
Taken(d, sealed) == {m.to : m \in sealed} = linked \ {d}

Post(d) ==
    LET u == posts[d]["message"] IN
    /\ u.at = "seal" /\ u.todo = {}
    /\ mail' = IF Taken(d, u.sealed) THEN mail \cup u.sealed ELSE mail
    /\ posts' = [posts EXCEPT ![d]["message"] = Idle]
    /\ UNCHANGED <<recs, oneTime, linked, begun, made, misses>>

\* ensureSignalSessionForDevice, one device of a call after the other ...
EnsureSession(d) ==
    LET u == posts[d]["key"]
        p == Next1(u.todo) IN
    /\ u.at = "ensure" /\ u.todo # {}
    /\ posts' = [posts EXCEPT ![d]["key"].todo = @ \ {p}, ![d]["key"].bundles = @ \cup {p}]
    /\ Built(d, p)
    /\ UNCHANGED <<oneTime, linked, mail, begun, misses>>

\* ... but a device that is no participant, or has no full bundle, is left out.
EnsureSkips(d) ==
    LET u == posts[d]["key"] IN
    /\ u.at = "ensure" /\ u.todo # {}
    /\ misses < MaxMisses
    /\ misses' = misses + 1
    /\ posts' = [posts EXCEPT ![d]["key"].todo = @ \ {Next1(u.todo)}]
    /\ UNCHANGED <<recs, oneTime, linked, mail, begun, made>>

\* A request that fails ends the sync: no key goes out.
EnsureFails(d) ==
    /\ posts[d]["key"].at = "ensure" /\ posts[d]["key"].todo # {}
    /\ misses < MaxMisses
    /\ misses' = misses + 1
    /\ posts' = [posts EXCEPT ![d]["key"] = Idle]
    /\ UNCHANGED <<recs, oneTime, linked, mail, begun, made>>

\* deriveGroupCallKey wraps the key for the devices that are ready.
WrapKey(d) ==
    LET u == posts[d]["key"]
        p == Next1(u.bundles) IN
    /\ u.at = "ensure" /\ u.todo = {} /\ u.bundles # {}
    /\ posts' = [posts EXCEPT ![d]["key"].bundles = @ \ {p},
                              ![d]["key"].sealed = @ \cup {Envelope(d, p, "key")}]
    /\ UNCHANGED <<recs, oneTime, linked, mail, begun, made, misses>>

PostKey(d) ==
    LET u == posts[d]["key"] IN
    /\ u.at = "ensure" /\ u.todo = {} /\ u.bundles = {}
    /\ mail' = mail \cup u.sealed
    /\ posts' = [posts EXCEPT ![d]["key"] = Idle]
    /\ UNCHANGED <<recs, oneTime, linked, begun, made, misses>>

-----------------------------------------------------------------------------
(* Receiving *)

\* MUTANT: the prekey is not marked consumed.
SpendNot(d, key) == oneTime

Spend(d, key) == [oneTime EXCEPT ![d] = @ \ {key}]

\* signal_decrypt: with a session of the message's base ...
OpenInSession(m) ==
    /\ m \in mail
    /\ HasBase(m.to, m.from, m.base)
    /\ recs' = [recs EXCEPT ![m.to][m.from] = Promote(@, m.base)]
    /\ mail' = mail \ {m}
    /\ UNCHANGED <<oneTime, linked, posts, begun, made, misses>>

\* ... or with a session made from the prekey, which is consumed.
OpenFirst(m) ==
    /\ m \in mail
    /\ ~ HasBase(m.to, m.from, m.base)
    /\ m.key # NoKey /\ Holds(m.to, m.key)
    /\ recs' = [recs EXCEPT ![m.to][m.from] = Archive(@, [base |-> m.base, offered |-> NoKey,
                                                         key |-> m.key, mine |-> FALSE])]
    /\ oneTime' = Spend(m.to, m.key)
    /\ mail' = mail \ {m}
    /\ UNCHANGED <<linked, posts, begun, made, misses>>

\* linkDevice: another device of a user, with keys of its own.
Link(d) ==
    /\ d \in Devices \ linked
    /\ linked' = linked \cup {d}
    /\ UNCHANGED <<recs, oneTime, posts, mail, begun, made, misses>>

Next ==
    \/ \E d \in Devices, u \in Purposes : Begin(d, u)
    \/ \E d \in Devices : FetchPrekeys(d) \/ BuildForMessage(d) \/ Encrypt(d) \/ Post(d)
    \/ \E d \in Devices : EnsureSession(d) \/ EnsureSkips(d) \/ EnsureFails(d) \/ WrapKey(d) \/ PostKey(d)
    \/ \E m \in mail : OpenInSession(m) \/ OpenFirst(m)
    \/ \E d \in Devices : Link(d)

Spec == Init /\ [][Next]_vars

-----------------------------------------------------------------------------
(* Properties *)

Keys == {NoKey, FirstKey, FirstKey + 1}
SessionType == [base : 1 .. made, offered : Keys, key : Keys, mine : BOOLEAN]
EnvelopeType == [to : Devices, from : Devices, base : 1 .. made, key : Keys, of : Purposes, no : Nat]

Sending == [at : {"idle", "fetch", "seal", "encrypt", "ensure"}, todo : SUBSET Devices,
            bundles : SUBSET Devices, sealed : SUBSET EnvelopeType]

\* Types: every session and every envelope comes from a session that was built.
TypeOK ==
    /\ recs \in [Devices -> [Devices -> [all : SUBSET SessionType, now : 0 .. made]]]
    /\ oneTime \in [Devices -> SUBSET (Keys \ {NoKey})]
    /\ Linked \subseteq linked /\ linked \subseteq Devices
    /\ posts \in [Devices -> [Purposes -> Sending]]
    /\ mail \subseteq EnvelopeType
    /\ begun \in 0 .. MaxSends /\ made \in Nat /\ misses \in 0 .. MaxMisses

\* The sessions a device made from one of its one-time prekeys.
MadeFrom(d, key) ==
    {t \in UNION {recs[d][p].all : p \in Devices} : ~ t.mine /\ t.key = key}

\* One-time prekeys are one-time: whoever builds on it, and however often the
\* server hands it out, a device makes at most one session from a one-time
\* prekey of its own, in whatever order the messages of several senders arrive.
OneTimeKeysAreOneTime ==
    \A d \in Devices, k \in Keys \ {NoKey} : Cardinality(MadeFrom(d, k)) =< 1

\* The only message a device cannot open is a first message built on a
\* one-time prekey that another session has consumed.  What was encrypted in
\* a session the peer has (an answer, a message sent while the bundle could not
\* be had, one overtaken by a newer session, one of a send that crossed with an
\* arriving message between building and encrypting) always opens.
OnlySpentAreRefused ==
    \A m \in mail : ~ Opens(m) => /\ m.key # NoKey
                                  /\ MadeFrom(m.to, m.key) # {}

-----------------------------------------------------------------------------
(* What makes them inductive.                                              *)

\* A record has one session of a base, and a current one unless it is empty.
RecordsAreSound ==
    \A d, p \in Devices :
        /\ \A s, t \in recs[d][p].all : s.base = t.base => s = t
        /\ recs[d][p].all # {} => \E t \in recs[d][p].all : t.base = recs[d][p].now

\* A key is spent with the session that is made from it, and with no other.
SpentOnce ==
    /\ \A d, p \in Devices : \A t \in recs[d][p].all :
          ~ t.mine => t.offered = NoKey /\ t.key \notin oneTime[d]
    /\ \A d \in Devices, k \in Keys \ {NoKey} :
          /\ \A s, t \in MadeFrom(d, k) : s = t
          /\ k \notin oneTime[d] => MadeFrom(d, k) # {}

\* What offers no prekey is of a session both devices have ...
AnsweredAreShared ==
    \A d, p \in Devices : \A t \in recs[d][p].all :
        t.offered = NoKey => HasBase(p, d, t.base)

\* ... and so is what was sealed without one; its sender has the session.
SealedAreShared(m) ==
    HasBase(m.from, m.to, m.base) /\ (m.key = NoKey => HasBase(m.to, m.from, m.base))
InFlight == mail \cup UNION {posts[d][u].sealed : d \in Devices, u \in Purposes}

\* A key is wrapped for devices there is a session with.
WrapsInSessions ==
    \A d \in Devices : posts[d]["key"].at = "ensure" =>
        \A p \in posts[d]["key"].bundles : recs[d][p].all # {}

RecordsInv == RecordsAreSound /\ SpentOnce /\ AnsweredAreShared

IInv ==
    /\ TypeOK /\ RecordsInv /\ WrapsInSessions
    /\ \A m \in InFlight : SealedAreShared(m)
    /\ \A d \in Devices, u \in Purposes : IsFiniteSet(posts[d][u].sealed)

\* "buildSession itself is idempotent when called on an established session":
\* then a device opens every message it is sent.  VIOLATED: each message is a
\* first message on the same one-time prekey, and the second is refused.
EveryMessageOpens == \A m \in mail : Opens(m)
=============================================================================

# Vostok in TLA+

Models, model-checking runs and proofs for the Vostok chat server and its web
client. Paths below are relative to the repository; `server/` abbreviates
`apps/server/lib/vostok_server/` and `web/` abbreviates `apps/web/src/`.
`PROJECT.json` maps every definition to the lines it models, and lists the runs
with their mutants, the hazards and the theorems.

## 1. The system

Vostok is an Elixir/Phoenix server over PostgreSQL, with web (TypeScript),
desktop (Tauri), Android and iOS clients. Clients talk to the server over HTTP
and Phoenix channels; servers talk to each other over mutually authenticated
HTTPS. Content is end-to-end encrypted: the server orders, stores and routes,
the clients hold the keys and most of the protocol's state.

Three facts shape almost every race in the server:

* **No row is locked.** Ecto runs at PostgreSQL's READ COMMITTED; a request is
  a process that reads rows into structs, decides, and writes later. Only unique
  indexes and the row locks of single UPDATE statements arbitrate.
* **Ecto writes differences.** `Repo.update` of a changeset writes the fields
  whose new value differs from the *struct*; a field that the struct already has
  is not written, whatever the row has become.
* **Memory is lost, jobs are not rescued.** Timers, rooms, challenges, rate limits
  and the relay's queues live in processes. Oban is configured with its Cron plugin
  only, so a job that a crash leaves "executing" stays there.

And three shape those in the web client:

* **Every `await` is a gap.** A handler reads refs and captured state, waits for
  the server, the database or the crypto core, and then writes; whatever was
  clicked, pushed or rendered meanwhile has happened.
* **Two kinds of state.** A ref changes at once, a React state with the next
  render, and effects run after the render whose dependencies changed. Much of
  the code writes one, reads the other, or holds the closure of an older render.
* **Several copies.** Messages, drafts, tokens, settings and keys exist in memory, in
  IndexedDB or localStorage, and on the server, and are copied by effects and timers.

### Components and where they are modelled

| Component | State | Module |
|---|---|---|
| Call sessions, ring timer, cleanup job (`server/calls/*`, `workers/stale_call_cleanup_worker.ex`) | call and participant rows, unlinked timer tasks, ids a job selected | `CallSession`, with what a hang-up leaves in `CallHangup`, abstractly `CallLifecycle` |
| Call rooms (`membrane_room.ex`, `room_supervisor.ex`) | a process per call: members, endpoints, event queues | `CallSession` (existence, members), `CallEvents` (queues) |
| Federation (`federation.ex`, `federation/*`) | peers, delivery jobs on both sides, Oban jobs | `FederationDelivery`, abstractly `ExactlyOnce` |
| Sending (`web/hooks/useMessages.ts`, `lib/outbox-queue.ts`) | outbox records, requests, retries | `Outbox`, abstractly `ExactlyOnce` |
| Message thread (`useMessages.ts`, `utils/message-helpers.ts`) | thread in memory and on disk, plaintext caches, syncs | `Thread` |
| Calls of the page (`hooks/useCall.ts`, `lib/call-*.ts`) | the call shown, its transport, pending requests | `WebCall` |
| Call media keys (`lib/call-e2ee-sync.ts`, `media-e2ee.ts`) | keys, signals, transforms, marks of who was served | `CallKeys` |
| Local media (`useCall.ts`) | tracks, senders, bindings, captures under way | `CallMedia` |
| Call quality (`lib/call-quality*.ts`) | profile, counters, polls | `CallQuality` |
| Media events (`useCall.ts`, `membrane_room.ex`) | queue, polls, channel, peers and tracks | `CallEvents` |
| Servers and sign-in (`useServers.ts`, `useAuth.ts`, `App.tsx`) | list of servers, tokens, connections, sign-in session | `Accounts` |
| Realtime connection (`lib/realtime.ts`) | socket, token, channels, hooks | `Realtime` |
| Sessions (`lib/signal-bridge.ts`, `packages/crypto-core`) | libsignal records, one-time prekeys, archives | `Sessions` |
| Group page and roles (`useGroupChat.ts`, `messaging.ex`) | memberships, roster, titles, requests | `Groups` |
| Downloads, attachments | slots, queue; recorders, uploads, bubbles | `Downloads`, `Attachments` |
| Drafts, typing, stores, backups, photos, notices, settings, navigation | the copies each keeps and the timers between them | a module of that name |

Not modelled: rotation of call keys on the server, signals, invite links, the message
store's own rows, prekey and session rows, relay and presence on the server,
authentication, key backups, media rows and storage tiers, push, the HTTP layer,
admin pages, views, the crypto core, UI packages, the desktop and native clients,
deployment. `PROJECT.json` gives the reason for each.

### What makes each component correct, and why it is hard

* **Calls.** Answer, decline, hang-up, ring timeout and cleanup race on one row,
  each writing from a struct it read before. An ended call says why; a call that no
  request read alive is not reopened, given a room or joined; a room contains only
  listed participants; "completed" is told from "missed"; nothing rings for ever.
* **Federation and sending.** Requests and answers are lost, late and repeated, and a
  crash may come between a send and its record. A message is stored once, one that
  was refused is not stored, what counts as delivered is held, what is queued arrives.
* **A call on the page.** Pushes, polls, a background scan and clicks change the
  shown call while a bootstrap or a client of an older one is on its way. What the
  page says of its link is so, and it comes to rest when the server has no call.
* **Keys of a call.** Syncs overlap, post and fail. Who says "encrypted" has a key,
  who counts as served was sent it, a pair agrees on one.
* **The thread.** A key opens a message once, so a text that is lost stays lost; pages
  of messages, pushes and answers come in any order. What was readable stays readable,
  nothing older replaces a newer text, nothing shown vanishes.
* **Accounts.** Four asynchronous writers (bootstraps, the sign-in hook, restores,
  the user) change one list that restarts the first of them. A login stays with its
  server, a device with its keys, and the page comes to rest.
* **The rest of the page.** Each part holds something on behalf of the user (a draft,
  a queued record, a dismissal, a choice, a slot) across renders and requests, and may
  neither lose it, revive it, nor attribute it to another chat or call.

## 2. Modules

Every action is a handler or the piece of one between two waits; a variable's
comment says what it stands for in the code. Each module has one `TypeOK`, and its
properties follow the specification. Definitions marked *Mutant* in their comment
are plausible slips of the code; no specification uses them.

### Server

**`CallSession`.** The call commands, the ring timer, the rooms and the cleanup job over
one scope (a chat or a call room). A handler is a chain of actions, one per database
statement or room call; steps that touch nothing shared are joined to their
neighbours. `req[p]` is what the request process p holds: its step and the fields of
the structs it read. `Written(stored, seen, new)` is Ecto's changeset. Refused requests
change nothing and are not represented. Faults: a request that dies at any step, a
room that crashes and is restarted empty, a ring timer that dies, a job that fails, and a
restart of the server, which keeps the database and loses everything else.

**`CallLifecycle`** is what a client may count on: a call rings once, may become
active, ends, and once *closed* stays so. `CallSession` implements it under the
mapping `phase`, which reads a row as closed when it is ended and no accept that read
it as ringing is still to write. That accept is the one hole in the code's lifecycle:
it brings an ended call back, and the mapping makes the hole explicit.

**`CallHangup`** extends `CallSession` by one history variable, `overlap`, which records
what the requests that `end_call` ran beside may still do to the call: write it active,
boot its room, write a device's row, take a device into the room. `HangupTearsDown` says
that a hang-up that ran to its end leaves nothing but that.

**`FederationDelivery`.** Both ends of a delivery between one pair of servers: the queue,
Oban and `dispatch_delivery` on one, the transport, and the transaction of
`receive_delivery` on the other, read by read and insert by insert. A read sees
committed rows and its own, an insert of a key that another open transaction has
inserted waits for it (`Blocked`), and a violation ends the transaction with the
answer the code gives. `handle_dispatch_failure` reads its row again before it writes
(`Reload`). Faults are requests and answers that are lost or late, raises, and
restarts of either server. All deliveries are `message_relay_v1` events with an
accepted signature; a message is its client id; one late request stands for several
of the same delivery.

**`ExactlyOnce`**: items are offered, and stored at most once, each after it was
offered. `FederationDelivery` implements it with messages as items, so it also covers
one that was queued twice; `Outbox` implements it too.

### Web client: messages

**`Outbox`.** `sendDraftMessage`, the replay with its timer, and `create_message`. Runs
of the replay overlap: the interval does not wait, and each tab has its own. Database
calls are transactions and therefore single actions. The client tells errors apart by
their text, so the server has three stances towards a message: it takes it, refuses it
with a text the client knows, or with one it does not. Attempt counts matter only
through the delay, which passes in `BecomeDue`.

**`Thread`.** The open chat's messages: `ref` (`activeChatIdRef`, at once) and `chat`
(with the deferred render), `items`, the copies `mem` and `disk`, the keys the ratchet
has `used`, the texts in `plain` and `kept`. Projections of one chat exclude each other
as `runSerializedChatProjection` makes them; pushes, syncs, answers, older pages,
previews, sends, reloads and lost connections interleave freely.

**`Sessions`.** Building a session on a fetched prekey bundle, encrypting, opening,
with the peer's one-time keys and the archive of old states. libsignal is external:
what it keeps is modelled from how the store uses it.

**`Drafts`**, **`Typing`**, **`Notices`**, **`Stores`**, **`Attachments`**,
**`Downloads`**: the hooks of the same names with their timers, their database calls
and what they read before a wait.

### Web client: calls

**`WebCall`.** Which call the page shows (`cur`), as pushed, asked for, scanned or
clicked, and the transport: up to two bootstraps (`boots`), the client (`net`) with
its reconnect timer, and the handler of the button that was pressed (`op`).
**`CallKeys`.** `key` per device, the signals `posted`, the runs of the sync with what
each has read, the marks `dist` of who was served, the transforms and the badge.
**`CallMedia`**, **`CallQuality`**, **`CallEvents`**: captures and senders; the policy
and its polls; events on the channel, in the room's queue and in answers of polls.
The five share no variable: each takes from the others only what it reads (there is
a call, a client, a link), as an action of its environment.

### Web client: accounts and the rest

**`Accounts`.** The list of servers as stored (`entry`), the connections and their
statuses, the sign-in hook's session and its stored copy, every request on its way
(`tasks`), and whether a render is `due`. A render with its effects is one action.
**`Realtime`**, **`Groups`**, **`Backups`**, **`Photos`**, **`Settings`**,
**`Navigation`**: as their first comments say.

### Composition

`MCClient` and `MCClientLive` put parts that share no state next to each other, each
INSTANCEd with its variables renamed. `part` names the one that moves, `InPart` leaves
the others' variables alone, and `Of(part, P)` asks P of the part that moves: a run
over the union of the parts' behaviours, not their product, because there is nothing
to interleave. In `MCClientLive` the parts' fairness conditions are merged into
`Progress`, `Passing` and `Timers`: as `part` never changes, each is one condition on
the part that moves, and no more than the part's own specification states, or less.

`PROJECT.json` maps a definition to the lines it models. It leaves out the definitions that
only gather others, bound a run or name an absent value.

The other `MC` modules give a run its payloads, chats and symmetry sets.
`*_proofs` modules hold the theorems of section 6.

## 3. Runs

| Run | Question | Instance |
|---|---|---|
| `calls_race` | Can two racing requests put an unlisted device into a room, report an unanswered call as completed, serve a late request, leave more behind a hang-up than what it overlapped, or leave the lifecycle? | 1 call, 2 devices, 2 requests that start, accept, decline, join, leave or end |
| `calls_liveness` | Does an ended call say why, does a hang-up leave nothing beside the timer and the job, does every call end? | 1 call, 1 device, 1 request, also to look and to provision; cleanup, 1 crash or restart |
| `federation_relay` | Is what counts as delivered held, and do operators' decisions last? | 2 deliveries of 2 messages, one for an unknown chat; 2 handlers, 1 fault |
| `federation_liveness` | Is a message stored once and in the end, and does the job's end agree? | 2 deliveries of 1 message, 2 handlers, 2 faults of 3 attempts |
| `outbox_replay` | Is a queued message kept, stored once and in the end, never after a refusal, never revived? | 2 messages, 2 runs of the replay, every stance, 2 faults |
| `webcall` | Is what the page says of its link so, does the ending state end, does it come to rest? | 1 call, 2 chats, 2 bootstraps, 1 push, 1 click, 1 fault |
| `thread` | Do late answers leave the thread readable, complete and current? | 2 chats, 3 messages, pages of 1, 2 disturbances |
| `callkeys` | Do badge, marks and keys agree? | 3 devices, direct or group, 2 runs each, 2 keys, 1 disturbance |
| `accounts` | Do logins and devices stay where they belong, and does the page come to rest? | 2 servers, 1 user, 3 clicks or faults; blank, with a backup, or connected |
| `client` | Do thirteen parts keep what they promise at every step? | see `client.cfg`: 2 chats, 3 users, 2 to 6 acts each |
| `client_live` | Do six parts come to an end, do downloads stay safe, and does a call send what it shows? | see `client_live.cfg`: 2 to 4 acts each, 6 tracks, 4 senders |
| `sessions_rebuilt` | *violated*: every message can be opened | 2 devices, 4 sends |

`ReadsItsRevision`, `OwnLogin` and the like are named after what they say; their comments give
the code. `KeptOnDevice`, `ShownIsTrue`, `EventsAreShown`, `NoticesTell` (client) and
`PartsAreSafe`, `PartsEnd` (client_live) are conjunctions, one conjunct per part, of
the properties the part's module states.

**Why the bounds are enough.** Races on a row or a thread need two writers and the one
they disturb: two requests, two handlers, two runs, two syncs, beside the timer or the
job, which are actors of their own. A third of a kind waits for, or repeats, what the
second does. Two devices, messages, chats or servers are needed to tell own from
foreign; pages of one message make two messages overflow a page. Every `Max...` and
`Most` bounds how often something that the environment does *first* may happen; what
follows from it is not bounded. They are as large as five minutes of TLC allow, and
every action of every module is taken in some run. Looking at a call and provisioning an
endpoint race a hang-up as a join does, and are left to `calls_liveness` and to the theorems. `IdsLeft` in `CallSession` leaves an
id for every process that has found no live call, `Alone` in `Accounts` keeps two
bootstraps of different logins of one server apart, which restart each other without
end (section 5). `age`, `Elapse` and the half days of `Backups` have the values
the code's comparisons tell apart. Symmetry is used in runs without liveness only.

**Deadlock** is checked where the system never stops. `CHECK_DEADLOCK FALSE` stands
where it does: once everything is delivered, settled or used up nothing is left to do.

**Fairness.** Weak fairness throughout, and only of what the code schedules by itself:
a request that is being served or answered, a timer that was set, a render that is
due, a job that the cron or Oban inserts again, a poll's next tick. Nothing is assumed of
users, operators or peers, faults never have to happen, a late request may never
arrive. `federation_liveness` leaves out restarts of the sender, after which a job
stays executing, and has fewer faults than attempts, because Oban discards a job
after the last. `EventuallyStored` assumes that the server is willing from some time on;
`Converges` (WebCall) that it has no live call, `Converges` (Thread) that nothing of
the page's own is in the way.

## 4. Abstractions to know of

* `CallSession`: refused requests are absent; the deletion of old signals by the job too.
* `FederationDelivery`: Oban does not count retries by snooze, so they are not bounded;
  the relay user may exist at the start; received messages do not expire.
* `Outbox`: a run takes every due record in any order (the code: at most eight, by due
  time); `create_message` is one step, because its insert is the last thing that can be
  refused and is arbitrated by the unique index; IndexedDB opens always or never.
* `Thread`: which of the waiting projections of a chat comes next is left open, and syncs of
  one chat that wait for the one in flight are one; the cap of 500 cached texts is not
  reached; a crash between the use of a key and the write of its text is left out.
* `WebCall`: joining and leaving by hand and ad hoc calls are left out; declining is ending.
* `CallKeys`: the ratchet under the wrapping is external; a sync that outlives its call into
  the next one is left out.
* `CallMedia`: device constraints, hiding a background camera and `pagehide` are left out.
* `CallQuality`: how senders take a profile, and the effect that reapplies it, are left out.
* `CallEvents`: time passes in steps of the throttle's length, the windows are counted in
  them; TURN lists, the page's own removal and a second negotiation are left out.
* `Accounts`: a device is revoked only if it is an initial one; versions of a list of chats
  stop at one change; duplicates of one URL and the self chat are left out. A render is
  `useServers.ts:230-502` with the effects of `useAuth.ts:37-49` (`Forgets`) and `113-160`
  (`Silent`) and of `App.tsx:234-267` (`Attaches`); the two effects after it, `App.tsx:271-320`, are
  left out: they copy the active server's token and device into the page's context, and the
  context's device back into that server's record when a prekey was used.
* `Drafts`: the database answers before the user's next act (the guard `ops = <<>>` of
  `Acts`), so a key typed, or a chat opened, while a draft is being read or saved is not seen.
* `Sessions`: identities, ratchets and the archive's cap of 40 are abstracted; store
  operations are atomic; no prekeys are published after the registration.
* `Groups`: one member's page and other members who act on the server; invite links,
  permissions and avatars are left out.
* `Attachments`: reply targets, resizing and failing writes of the outbox are left out.
* `Downloads`: storage tracker, eviction and the metered check, which nothing wires, are
  left out. So are `searchAllCachedMessages`, `clearAllCaches`, `secure-kv-store.ts`,
  `useFederation`, the `useCallQuality` hook and `useDeviceSync` elsewhere: nothing calls them.

### What the history variables leave out

A history variable is written by no code; it lets a property name the case it leaves out. Where the
code does break in that case the hazard is in section 5, and no property catches it.

| Variable | What it records | What is then not promised |
|---|---|---|
| `overlap` (`CallHangup`) | what requests that a hang-up ran beside may still do | that they have not done it (`HangupTearsDown`): an accept brings the call back, a join or a look boots its room |
| `crossed` (`Groups`) | an action on a group was begun before an earlier one had ended | `PageAgrees`, `OffersAreGranted`, `OneOwner`: two quick transfers, a removal beside a rename; late loads of one action remain |
| `hasty` (`Typing`, of a page) | its user went on while a message was being sent | `StopFollows`: the send stops the timer of the new chat |
| `hasty` (`Accounts`, of a server) | it was left, or signed in to, with a request on its way, or its device revoked | `KeysAreTheDevices`, `SettledIsTrue` for that server; logins stay home (`OwnLogin`) all the same |
| `mixed` (`Accounts`) | a timer renewed one server's session for a hook that names another | `OwnLogin` for that server |
| `hasty` (`Realtime`) | a token changed while the socket was not connected | `HooksFollow` for the thread's and the indicator's channel (the call's follows all the same); `NoneIsStranded` is the same without the exception, and refuted |
| `chat.gap` (`Realtime`) | a message was sent after the sync and before the join | `CaughtUp` until the next sync |
| `overtaken` (`Stores`) | an older thread was written back over a newer save | `ReadsLatest` for that chat until it is saved again; the write-back itself is modelled |
| `kept` (`Settings`) | nothing was lost, closed away or overtaken | `ServerHasLatest` without it; `ChoicesStay` holds all the same |
| `rushed` (`Drafts`) | the user went on while a message was being sent | `DraftsAreKept` |
| `blurred` (`CallMedia`) | tracks were changed while the client took no change, a screen was shared, or a new stream was refused or asked for beside another handler | `SentIsShown`, `MutedIsSilent`, `NothingLeaks`: most overlaps of captures; what remains are losses of the link, the queue of the client's calls and the order of handlers |
| `late` (`Thread`) | an older revision of a message was read after a newer one | `ReadsItsRevision` for it; `Converges` |
| `room.hurried`, `page.aside`, `page.overtaken` (`CallEvents`) | a peer came back before his last events were forgotten; a poll's answer was set aside; a poll brought what the channel had still to bring | `NothingIsLost`, `ViewIsRoom`; `NothingIsLost`, `OffersAreAnswered`; `OneOfferEach` |

## 5. What modelling found

### The finding

`sessions_rebuilt`: `hasSession` always answers false, so every message builds a session,
on the oldest one-time prekey the server has, which the server only peeks at. The
recipient consumes that prekey with the first message and cannot open the second.
`signal-bridge.ts:127-130` calls the rebuild idempotent.

### Promises of comments and documents that the code does not keep

The modules state these as definitions; TLC refutes each, and they belong to no run.

| Definition | Promise | What the code does |
|---|---|---|
| `LeaveRemovesEndpoint` (`CallSession`) | leaving removes the device's endpoint (`docs/stage-6-8-ops.md:49`) | not when the call was read as ringing, to which a device may have been joined |
| `CleanupSparesOccupiedCalls` (`CallSession`) | the job ends calls without participants (its moduledoc) | the selection of ringing calls does not look at participants |
| `DuplicatesAccepted` (`FederationDelivery`) | duplicates do not trigger retries (`transport/mtls.ex:190`) | the lookup after the unique violation runs in the aborted transaction and raises: 500, a retry |
| `QueueDrains` (`Outbox`) | the client knows the answer for a message already stored (`crypto-helpers.ts:23`) | `chat_controller.ex:623` has no clause for it: 500 with a text the client does not know, so the record is retried for ever |
| `NoneIsStranded` (`Realtime`) | presence follows the connection (`usePresence.ts:18-20`) | a changed token while the socket is down, or a change of server, leaves hooks on a dead socket |
| `ShownIsTimed` (`Typing`) | every shown typist has a timer (`useTypingIndicator.ts:32`) | not after the watcher left the chat and came back |
| `FollowedOnMount` (`Navigation`) | the address is parsed on mount (`useDeepLinks.ts:29`) | its dependencies change with each render, so an invite path is joined again until the first answer clears it |
| `LossRecovers` (`WebCall`) | a page that reconnects recovers: `wasReconnecting`, `reconnect-recovered` and the replay of what was queued (`useCall.ts:1441-1468`) | what would connect the new client is queued for as long as the page reconnects (`useCall.ts:1687-1717`) |

The last of these breaks what the code is written for. A page that loses its link, or whose
bootstrap fails, sets `reconnecting` and builds a new client. While it is reconnecting,
`handleMembraneQueueBatch` queues every media event, the server's `connected` event
for the new client among them; only that client's `onConnected` empties the queue, and it is
this event that would call it. So the retry ends without a link, `wasReconnecting` is never
true there, and the page says that it reconnects until the call leaves it.

`OneLiveCall` holds for requests served one at a time only: two starts at once do
insert two live calls. A join or a read that overlaps a hang-up boots a room for the
ended call, which `HangupTearsDown` therefore leaves to `overlap`. Nothing in the
repository promises otherwise.

### Hazards beyond the list

`PROJECT.json` keeps forty hazards, the ones a property is about. Modelling and reading
met others that the code is exposed to, for which nothing is promised:

* *Server rows, checked then written:* call key rotations (`calls/commands.ex:418`), ownership
  transferred to oneself (`messaging.ex:457`), the use count of an invite link (571), two pins
  (1446), an edit against a deletion (1315), the claim of a prekey (2050), invitations
  (`auth/invite.ex:84`), media parts and eviction (`media.ex:51`, `eviction_worker.ex:112`), the first
  two deliveries of a peer, whose relay user only one can create (`federation.ex:564`), a failure
  written over an operator's record (821), jobs left executing (`config.exs:35`), messages
  queued for a channel that is replaced (`topic_channel.ex:226`).
* *Calls:* the link that never comes back (`useCall.ts:1687`, above); an endpoint left by a device that joined a ringing call (`calls/commands.ex:333`); overlapping
  syncs of the initiator make two keys (`call-e2ee-sync.ts:268`); a key distributed by a cancelled
  sync reaches the next call; polls that fail lose the events they emptied
  (`membrane_room.ex:365-369`); a call's screen capture is not stopped with it, and one that
  resolves after the call's end leaks; a new microphone is sent unmuted; a refused camera
  switch stops the microphone (`useCall.ts:1248` and around); overlapping quality polls apply an old profile.
* *Messages:* a push during an own pending message arms a timer that does nothing once the
  message is acknowledged (`useMessages.ts:332`); a page closed between the post and the record
  loses what failed (880); a late read of the disk overwrites a newer thread (403-414); an answer
  to a reaction brings an older revision back; previews out of order lose an edited text.
* *Drafts and attachments:* the composer keeps its text when another chat is opened; a quick
  change over three chats clears the wrong draft; "delete" of a round video sends it; a second
  click while a permission is pending leaks a stream; a failure while another chat is open leaves a bubble.
* *Accounts:* bootstraps of two logins of one server restart each other; a revoked login is
  renewed for ever; a restore by password stores the backup's token; a network failure of the
  renewal drops the login (`useServers.ts:268-286`); activity between the list and the subscription is missed.
* *Other parts:* a record queued in the fallback is invisible once the database opens, and a stale
  database copy wins; a dismissed reminder returns while a copy is overdue and another tab writes its
  record back (`RestoreBackupScreen.tsx:172` sets it back too); a network failure is remembered
  as "no photo"; settings changed within two seconds of closing are not synced, and a second
  account inherits and pushes the first's; two quick transfers give a group two owners, a transfer
  and a removal none; a download's slot is given back twice.

## 6. What is proved

With TLAPS, for every value of the constants (any sets of calls, devices, processes,
messages, handlers, servers, users, and any bounds), from the named assumptions of the
modules on their constants only (those of `MCClient`'s parts stand in `MCClient`, which gives the
constants their values: bounds are numbers, an absent value is none of the present ones). Each of the modules below has an inductive invariant `IInv`, which TLC
checked first; `Inductive` is `Spec => []IInv`, `TypeCorrect` is `Spec => []TypeOK`, and
the safety properties follow from them. Action properties are proved step by step
from `IInv`, refinements by mapping each step to a step of the abstract module or a
stutter.

| Module | Theorems | The inductive invariant, and why it is needed |
|---|---|---|
| `CallSession` | `EndedCallsSayWhy`, `RoomsAreListed`, `CompletedCallsWereAnswered`, `LateRequestsAreRefused`, `HangupsAreFinal`, `ImplementsLifecycle` | The properties speak of rows, and a request writes rows from what it holds, so `IInv` adds what is held. `ReasonsStay`: a reason that was read is stored, so an end that leaves the reason out, because its struct has it, is harmless. `RowsStay`, `AnswersStay`: a row or answer that was counted stays. `AnswersFollowRinging`, `AdmittedAlive`: who boots, joins or provisions read the call alive, so a call of which every request in progress has read the end (`Late`) is inert. `OnlyExistingCalls`: nothing holds a call before its row exists. `HangupsAreFinal` (over `CallHangup`, for any number of requests) has one more, `HangupInv`: what the requests beside a hang-up may still do is on record, before and after its end (`OverlapsRecorded`), so that nothing else can undo it; a call that an accept may bring back is at anyone's mercy (`OverlapOK`); and the steps of an end come in order, the rows before the room (`EndsInOrder`). |
| `FederationDelivery` | `AcceptedIsHeld`, `JobsShowWhy`, `DeliveredStays`, `OnlyOperatorsDecide`, `ImplementsExactlyOnce` | Three groups with disturbing actions of their own. Receiver: `HandlersApart` (a transaction past a step has found or inserted that step's row, and collides with nobody), without which a commit could add a delivery without its message. Link: `OneAnswer` tells an answer from an echo. Belief: `WorkersAgree`, a positive answer stands for a row, and a worker's struct agrees with its row where it writes, which is what `Reload` is for. |
| `Outbox` | `QueuedIsKept`, `RefusedIsNotStored`, `DeletedStaysDeleted`, `ImplementsExactlyOnce` | `AnswersTrue`: a run deletes a record only for an answer that stands for a row. `FirstTry`: until the one request of a send is served no other can store its message, so a refusal is the server's last word; this rests on `SendsOwn` and `OnlyQueued`, nobody else posts a message before its record exists. |
| `WebCall` | `StatusShown`, `EndingIsHandled` | `BootsNameCalls`, `OpNamesCall`: a bootstrap or a handler that answers or ends a call names one, and the answer to "end" shows no call, so that what clears `isEndingCall` finds a shown call to leave. `EndingIsUnderWay`: what is ending has its handler. |
| `CallKeys` | `EncryptedMediaHasKey`, `ServedWereSent` | `KeysAreMade`: no page, sync or signal has a key nobody made. `RunsAreTheirs`: only the initiator's syncs ask and post, and have a key then. `RunsServe`: while one key is made and nothing fails, whom the initiator counts as served, or a sync found served when it began, was offered that key, and a sync that is about to mark devices has posted to each: so overlapping syncs, which write the marks of their own start back, write true ones. |
| `CallQuality` (in `WebCall_proofs`) | `OneStep`, `WorseIsNoHigher`, `QualityInductive`, `QualityTypeCorrect`, `FreshCalls` | The first two speak of the policy, for every sample: counters stay under what they count to, the profile moves by one step, and worse statistics never ask for more. `NoCallNoPoll` makes `FreshWithoutCall` (in `CallAtRest`, which theorems and model share) inductive: without a call there is no client, and every poll that waits was cancelled. |
| `Thread` | `TextsAreCurrent`, `NewestStayShown` | `PagesAreSingle`: one revision of a message in a page. `CachesAreNewest`: both plaintext caches have the newest revision that was read, unless an answer was overtaken. `CopiesAreSound`: memory, disk and every read under way show current texts. `CopiesAreLogged`, `AnswersAreLogged`: nothing is anywhere that the server does not have, so the newest page is the newest page. `PageHolds`: a page that was fetched has every newest message that the sync's start showed. `NewestStayShown` is an action property, proved from `IInv` with lemmas on merging, deduplication and truncation; the order of equal places is a choice (`Place`), which the proof needs no property of. |
| `Accounts` | `LoginsStayHome` | Nine groups, one per place a login can be: the list, the connections, the chats, the backup, the hook, the stored session, and every request on its way (`OwnTask`). A login is checked nowhere in the code; it stays with its server only because each place is filled from places that keep it there. Logins and devices are numbered as they are made, so every group needs that both sequences only grow (`Grows`). The servers are finite (the list's order counts them). |
| `MCClient`: what stays on the device | `Inductive`, `Kept` | Six invariants, each the `IInv` of a part. `Sessions`: a record's current session is one of its sessions, a one-time key is spent with the one session made from it (`SpentOnce`), and what was sealed without a prekey is of a session both devices have (`SealedAreShared`, over the mail and every send under way). `Drafts`: while the user waits for a message that is being sent, what was left in a chat is what the database has or will have once its queue of requests is served, or is with the timer of the open chat (`LeftIsSaved`); a draft is read after it is saved (`ReadIsLeft`); what will be saved when the chat is left is what was left there (`LastIsLeft`). `Stores`: where the database always opens it has the last save of every chat it has anything of (`DatabaseLeads`), where it never opens localStorage has (`FallbackLeads`); a record is in one place, and is called for a retry or deletion after it was queued. `Settings`: what a timer is to send is what the page holds and has stored, and while nothing is lost or overtaken what is on its way, or at the server, is what the device that sent last holds. `Backups`: `HoldersAgree` is inductive with the types; that a dismissed reminder returns in the next band follows from arithmetic on days rounded up. `Attachments`: every pass of an upload lost a part, and a part that was passed over was lost in a pass that is not the last (`PassesAreLosses`: from it fewer losses than passes make no send fail); what is recorded was not sent yet (`RecordingsAreNew`), and a message is stored or queued by its own send, past its last failure, only (`ReachedByItsSend`). |
| `MCClient`: what is shown of others | `ShownInductive`, `Shown`, `Notified` | Six more, each the `IInv` of its part. `Groups`: while one action follows another (`~crossed`) at most one request is under way and it was begun from a page that agreed with the server (`Unwritten`: until it is written the page stays true, and the server grants what was offered; `Answerable`: once it is written the server has what the answer will make of the page), and each group has one owner, or nobody is in it (`Owned`). `Typing`: who is shown, or is about to be, typed in the chat his event names (`SaidThere`), and a page that did not go on while it was sending has said that it types in no chat but the one it is in, where its timer runs (`SaidHere`). `Realtime`: what the status has wrong about the current socket is told later (`StatusFollows`, about the order of what is told); the thread is to sync, a reconnection is still to come (`SyncComes`), or nothing is missing (`HearsAll`). `Photos`: what is cached is its user's and what is not was not asked for or is in flight (`CacheIsTrue`); an avatar shows its user's photo, waits for it, or there is none (`AvatarsAreTrue`); so it is for the list and the loops that report to it (`ListIsTrue`). `Notices`: a loaded thread is the open chat's (`ShownIsOpen`), while the page may tell it knows all it shows (`KnowsWhatItShows`), and what was told of it knows (`ToldIsKnown`). `Navigation`: unless the user chose another, the chosen server is that of the chat that was rendered last (`ChosenFollows`), and a server that granted a chat has it (`AskedAtHome`). `Notified` is an action property, proved from `Notices`. |

All prove `Inductive` and, but for `Accounts`, `TypeCorrect` (in `MCClient` the types are
conjuncts of `KeptOnDevice` and `ShownIsTrue`): the type invariant of `Accounts` bounds what numbers its requests, for TLC; the proof
needs the types of `IInv` only. The refinements rest on `IInv`: in `CallSession` every action moves each
call along an edge of `Moves` or leaves it, and the edge out of `closed` is excluded
because reopening takes an accept that still holds the call, which `phase` does not
call closed; in the other two a message is stored by one action, whose guard gives
that it was queued and is not stored.

Three properties were true in the runs and false in general: stated for any bounds, their
proofs could not be finished, and simulation with larger bounds found why. Each
now names the exception. `OwnLogin`: a timer's renewal of one server's session may
answer after the hook was given another's, and `useAuth.ts:190-213` keeps the other
server's name with it (`mixed`; the page's list then gets a login of the wrong
server). `ReadsItsRevision`: an answer that was overtaken brings an older revision
back to the thread, while the caches keep the newer text (`late`).
`MutedIsSilent`: a microphone that is changed while a link is being attached may stay
on (`blurred`).

### Only model-checked

* Liveness and everything under fairness: `EveryCallEnds`, `EventuallyDelivered`,
  `EventuallyStored`, `Converges`, `KeysAgree`, `ComesToRest`, `PartsEnd`. It is out of
  the prover's reach.
* `TextStays`: it needs that a thread has a message once. An older page that is applied
  after a push of one of its messages makes the code show the message twice, so
  the invariant would have to say where a copy without its text may be.
* `KeysAreTheDevices`, `SettledIsTrue`: they hold for the bootstraps that `Alone`
  lets run, and would need the order of every pair of answers in the invariant.
* `EventsAreShown`, `PartsAreSafe`: `CallEvents` and `Downloads` fold over sequences, which
  would take induction over data; `CallMedia`'s invariant would be as long as the
  module. Of the parts of `client_live`, `CallQuality` is proved about (`FreshCalls`), and
  the safety of `Attachments` and `Navigation` as parts of `client`; that they come to
  an end is not.
* The finding and the refuted promises of section 5, which are counterexamples.

## 7. Plan

The calls, federation, sending, the page's calls and keys, the thread and the
accounts have a model, runs and proofs. Next, in this order:

1. Proofs: `KeysAreTheDevices` for a server without a revoked device.
2. `RoomEvents`: the server's queues behind `CallEvents` with late engine messages.
3. `MessageStore`: create, edit, delete, pin, react, expiry; then `Memberships` with roles and
   invite links, and `PreKeys` (publish, claim, rekey).
4. `AuthState` (rate limiter, challenges, refresh tokens), `MediaUpload`, `DeviceRelay`.

## 8. Not modelled

Cryptography and encodings (data), the media engine, push and object stores (external;
what the code sees of them is a choice), presentation, the native clients' user
interfaces, deployment scripts and design assets. The components of section 1
that have no module are in `PROJECT.json` with their status and reason.

------------------------------ MODULE Settings ------------------------------
(***************************************************************************)
(* The settings of a user (hooks/useSettings.ts): a copy in the state of   *)
(* the page, one in localStorage, and one at the server for all devices.   *)
(*                                                                         *)
(* A change is stored here at once and sent two seconds after the last     *)
(* change, the whole of the settings each time; the server replaces what   *)
(* it has.  A page that signs in asks for the server's and lays its own    *)
(* over them.  A request that fails is not repeated, and a page that is    *)
(* closed before its timer sends nothing.                                  *)
(*                                                                         *)
(* Settings are on or off, off by default.  One account uses the devices.   *)
(***************************************************************************)
EXTENDS Naturals, FiniteSets

CONSTANTS
    Devices,
    Options,      \* the settings
    MaxChanges,   \* changes, sign-ins and reloads
    None

Unset == "unset"
Flipped(v) == IF v = "on" THEN "off" ELSE "on"
Nothing == [o \in Options |-> Unset]
Defaults == [o \in Options |-> "off"]

VARIABLES
    heldSettings, storedSettings,   \* of each device: the page's state, and localStorage
    fetched,      \* fetched[d]: the answer on its way to a page, None when there is none
    syncTimer,    \* syncTimer[d]: what is to be sent, None when nothing is
    syncs,        \* what has been sent and not arrived
    serverSettings,
    chosen,       \* history: what the user last chose on a device
    latest, kept, \* history: the device that sent last; no change was lost or overtaken
    changes

vars == <<heldSettings, storedSettings, fetched, syncTimer, syncs, serverSettings,
          chosen, latest, kept, changes>>

\* One set of settings over another.
Over(under, over) == [o \in Options |-> IF over[o] = Unset THEN under[o] ELSE over[o]]

Init ==
    /\ storedSettings \in [Devices -> {Nothing, [Nothing EXCEPT ![CHOOSE o \in Options : TRUE] = "on"]}]
    /\ heldSettings = [d \in Devices |-> Over(Defaults, storedSettings[d])]
    /\ fetched = [d \in Devices |-> None]
    /\ syncTimer = [d \in Devices |-> None]
    /\ syncs = {}
    /\ serverSettings = Nothing
    /\ chosen = storedSettings
    /\ latest = None /\ kept = TRUE
    /\ changes = 0

Acts == changes < MaxChanges /\ changes' = changes + 1

-----------------------------------------------------------------------------
(* From the server *)

\* fetchSettings: the server answers with what it has.
Fetch(d) ==
    /\ Acts
    /\ fetched[d] = None
    /\ fetched' = [fetched EXCEPT ![d] = serverSettings]
    /\ UNCHANGED <<heldSettings, storedSettings, syncTimer, syncs, serverSettings, chosen, latest, kept>>

\* MUTANT: the server's settings lie over the device's.
RemoteFirst(remote, local) == Over(Over(Defaults, local), remote)

Merged(remote, local) == Over(Over(Defaults, remote), local)

\* The answer arrives: merged with what is stored by then, and stored.
FetchAnswers(d) ==
    /\ fetched[d] # None
    /\ heldSettings' = [heldSettings EXCEPT ![d] = Merged(fetched[d], storedSettings[d])]
    /\ storedSettings' = [storedSettings EXCEPT ![d] = heldSettings'[d]]
    /\ fetched' = [fetched EXCEPT ![d] = None]
    /\ UNCHANGED <<syncTimer, syncs, serverSettings, chosen, latest, kept, changes>>

FetchFails(d) ==
    /\ fetched[d] # None
    /\ fetched' = [fetched EXCEPT ![d] = None]
    /\ UNCHANGED <<heldSettings, storedSettings, syncTimer, syncs, serverSettings, chosen, latest, kept, changes>>

-----------------------------------------------------------------------------
(* To the server *)

\* MUTANT: a timer that runs is left alone.
FirstOfMany(timer, next) == IF timer = None THEN next ELSE timer

\* debouncedSync: the last settings, once no change has come for two seconds.
Debounced(timer, next) == next

Store(d, next) ==
    /\ heldSettings' = [heldSettings EXCEPT ![d] = next]
    /\ storedSettings' = [storedSettings EXCEPT ![d] = next]
    /\ syncTimer' = [syncTimer EXCEPT ![d] = Debounced(@, next)]

\* updateSetting and toggle
Change(d, o) ==
    /\ Acts
    /\ Store(d, [heldSettings[d] EXCEPT ![o] = Flipped(@)])
    /\ chosen' = [chosen EXCEPT ![d][o] = Flipped(heldSettings[d][o])]
    /\ UNCHANGED <<fetched, syncs, serverSettings, latest, kept>>

\* resetGroup
Reset(d, group) ==
    /\ Acts
    /\ Store(d, [o \in Options |-> IF o \in group THEN Defaults[o] ELSE heldSettings[d][o]])
    /\ chosen' = [chosen EXCEPT ![d] = [o \in Options |-> IF o \in group THEN Defaults[o] ELSE @[o]]]
    /\ UNCHANGED <<fetched, syncs, serverSettings, latest, kept>>

\* The timer fires.
Sync(d) ==
    /\ syncTimer[d] # None
    /\ kept' = (kept /\ syncs = {})
    /\ syncs' = syncs \cup {[from |-> d, settings |-> syncTimer[d]]}
    /\ syncTimer' = [syncTimer EXCEPT ![d] = None]
    /\ latest' = d
    /\ UNCHANGED <<heldSettings, storedSettings, fetched, serverSettings, chosen, changes>>

\* The server replaces what it has; requests may overtake each other ...
Replace(s) ==
    /\ s \in syncs
    /\ serverSettings' = s.settings
    /\ syncs' = syncs \ {s}
    /\ UNCHANGED <<heldSettings, storedSettings, fetched, syncTimer, chosen, latest, kept, changes>>

\* ... and fail, which the page does not look at.
SyncFails(s) ==
    /\ s \in syncs
    /\ syncs' = syncs \ {s}
    /\ kept' = FALSE
    /\ UNCHANGED <<heldSettings, storedSettings, fetched, syncTimer, serverSettings, chosen, latest, changes>>

\* A page that is loaded again takes what is stored.
Reload(d) ==
    /\ Acts
    /\ heldSettings' = [heldSettings EXCEPT ![d] = Over(Defaults, storedSettings[d])]
    /\ fetched' = [fetched EXCEPT ![d] = None]
    /\ syncTimer' = [syncTimer EXCEPT ![d] = None]
    /\ kept' = (kept /\ syncTimer[d] = None)
    /\ UNCHANGED <<storedSettings, syncs, serverSettings, chosen, latest>>

Next ==
    \/ \E d \in Devices : Fetch(d) \/ FetchAnswers(d) \/ FetchFails(d) \/ Sync(d) \/ Reload(d)
    \/ \E d \in Devices, o \in Options : Change(d, o)
    \/ \E d \in Devices, group \in SUBSET Options \ {{}} : Reset(d, group)
    \/ \E s \in syncs : Replace(s) \/ SyncFails(s)

Spec == Init /\ [][Next]_vars

-----------------------------------------------------------------------------
(* Properties *)

Partial == [Options -> {Unset, "on", "off"}]
Full == [Options -> {"on", "off"}]

\* Types: a page always has a value for every setting, and sends all of them.
TypeOK ==
    /\ heldSettings \in [Devices -> Full] /\ storedSettings \in [Devices -> Partial]
    /\ fetched \in [Devices -> Partial \cup {None}]
    /\ syncTimer \in [Devices -> Full \cup {None}]
    /\ syncs \subseteq [from : Devices, settings : Full]
    /\ serverSettings \in Partial /\ chosen \in [Devices -> Partial]
    /\ latest \in Devices \cup {None} /\ kept \in BOOLEAN
    /\ changes \in 0 .. MaxChanges

\* What a user has chosen on a device stays there, in the page and over a
\* reload, although an answer of the server, asked for before the choice, may
\* arrive after it.
ChoicesStay ==
    \A d \in Devices, o \in Options : chosen[d][o] # Unset =>
        heldSettings[d][o] = chosen[d][o] /\ storedSettings[d][o] = chosen[d][o]

\* When nothing is left to send and nothing was lost, closed away or overtaken
\* on the way, the server has all the settings of the device that sent last.
ServerHasLatest ==
    kept /\ latest # None /\ syncs = {} /\ (\A d \in Devices : syncTimer[d] = None)
    => serverSettings = heldSettings[latest]

-----------------------------------------------------------------------------
(* What makes them inductive. *)

\* What a timer is to send is what the page holds and has stored.
TimersAreCurrent ==
    \A d \in Devices : syncTimer[d] # None => syncTimer[d] = heldSettings[d] /\ syncTimer[d] = storedSettings[d]

\* The device that sent last has stored all it holds; while nothing is lost or
\* overtaken, what is on its way, or what the server has when nothing is, is the
\* device's, unless its timer runs.
LatestIsOnItsWay ==
    /\ latest = None => syncs = {}
    /\ latest # None => storedSettings[latest] = heldSettings[latest]
    /\ kept /\ latest # None /\ syncTimer[latest] = None =>
          /\ \A s \in syncs : s.settings = heldSettings[latest]
          /\ syncs = {} => serverSettings = heldSettings[latest]

IInv == TypeOK /\ ChoicesStay /\ TimersAreCurrent /\ LatestIsOnItsWay
=============================================================================

------------------------------ MODULE Accounts ------------------------------
(* The servers a page is signed in to.  The list of servers is kept in the *)
(* browser; for each that is signed in the page bootstraps a connection:   *)
(* it renews the token, lists the chats, links a device if it has none and *)
(* subscribes.  The sign-in hook keeps a session of its own, which an      *)
(* effect copies into the list.  A bootstrap changes the list, and every   *)
(* change of the list runs the effect that starts bootstraps.              *)
(*                                                                         *)
(* Logins and devices are numbered as the servers make them; 0 is none.    *)
EXTENDS Naturals, Sequences, FiniteSetsExt

CONSTANTS
    Servers, Home,      \* Home: the server the page was loaded from
    Users,              \* who signs in
    Most                \* clicks, activity, expired tokens and failures, in all

ASSUME HomeAssumption == Home \in Servers /\ IsFiniteSet(Servers)
ASSUME BoundAssumption == Most \in Nat

VARIABLES
    \* The page.
    entry,  \* [Servers -> see NoEntry]: the list, as stored
    active, \* the server that is selected, or "none"
    conn,   \* [Servers -> see NoConn]: connectionsRef
    status, \* [Servers -> what the page says of the connection]
    chats,  \* [Servers -> whose chats it lists, and which version]
    hook,   \* see NoHook: the sign-in hook's session
    saved,  \* the session stored for the page's own server: login and token
    base,   \* the server the hook was last rendered for
    tasks,  \* requests on their way
    due,    \* whether a render is
    \* The servers.
    logins, devs, \* sequences: where, whose, whether still good (and the device's keys)
    ver,    \* [Servers -> the version of the user's chats]
    \* The rest.
    backup, \* [Servers -> see NoCopy]: the last backup file
    keys,   \* [Servers -> the keys in the key store]
    heard,  \* [Servers -> the version last announced to the page]
    used,   \* what of the bound is used
    faulty, \* whether something failed
    hasty,  \* the servers that were left, or signed in to, with a request on its
            \* way, and those with a revoked device
    mixed   \* those the hook named when it was given a renewed session of another

page == <<entry, active, conn, status, chats, hook, saved, base, tasks, due>>
servers == <<logins, devs, ver>>
marks == <<hasty, mixed>>
rest == <<backup, keys, heard, used, faulty, marks>>
vars == <<page, servers, rest>>

NoKey == [auth |-> 0, dev |-> 0]
NoEntry == [there |-> FALSE, sort |-> 0, on |-> TRUE, auth |-> 0, fresh |-> FALSE, dev |-> 0]
NoConn == [no |-> 0, boot |-> NoKey, ing |-> NoKey, req |-> 0, seen |-> 0, user |-> 0, tok |-> FALSE]
NoCopy == [listed |-> FALSE, sort |-> 0, auth |-> 0, pw |-> FALSE]
NoHook == [auth |-> 0, fresh |-> FALSE, at |-> "none"]
NoTask == [id |-> 0, by |-> "none", at |-> "none", s |-> "none", no |-> 0, key |-> NoKey,
           dev |-> 0, tok |-> FALSE, req |-> 0, ver |-> 0, key2 |-> 0]

\* A page with nothing stored, perhaps with a backup of the logins of another
\* page, or one that is connected to every server.
Blank ==
    /\ entry = [s \in Servers |-> NoEntry] /\ conn = [s \in Servers |-> NoConn] /\ status = [s \in Servers |-> "none"]
    /\ chats = [s \in Servers |-> [of |-> 0, ver |-> 0]] /\ keys = [s \in Servers |-> 0]
    /\ hook = NoHook /\ saved = [auth |-> 0, fresh |-> FALSE] /\ active = "none" /\ base = "none"
Numerals == 1 .. Cardinality(Servers)
Numbers == {l \in [Servers -> Numerals] : l[Home] = 1 /\ \A s, t \in Servers : l[s] = l[t] => s = t}
MadeLogins(l, u, ok) == [n \in Numerals |-> [s |-> CHOOSE s \in Servers : l[s] = n, u |-> u, ok |-> ok]]
MadeDevices(l, u) == [n \in Numerals |-> [s |-> CHOOSE s \in Servers : l[s] = n, u |-> u, ok |-> TRUE, k |-> n]]
Connected(l) ==
    LET key(s) == [auth |-> l[s], dev |-> l[s]]
    IN  /\ entry = [s \in Servers |-> [there |-> TRUE, sort |-> l[s], on |-> TRUE, auth |-> l[s],
                                      fresh |-> TRUE, dev |-> l[s]]]
        /\ keys = l
        /\ conn = [s \in Servers |-> [no |-> 1, boot |-> key(s), ing |-> NoKey, req |-> 1, seen |-> 1,
                                      user |-> l[s], tok |-> TRUE]]
        /\ status = [s \in Servers |-> "connected"] /\ chats = [s \in Servers |-> [of |-> l[s], ver |-> 0]]
        /\ hook = [auth |-> 1, fresh |-> TRUE, at |-> Home] /\ saved = [auth |-> 1, fresh |-> TRUE]
        /\ active = Home /\ base = Home
Init ==
    /\ \/ Blank /\ logins = <<>> /\ devs = <<>> /\ backup = [s \in Servers |-> NoCopy]
       \/ \E l \in Numbers, u \in Users, ok, pw \in BOOLEAN :
             /\ devs = MadeDevices(l, u)
             /\ \/ Connected(l) /\ ok /\ pw /\ backup = [s \in Servers |-> NoCopy]
                \/ Blank /\ ok # pw /\ backup = [s \in Servers |-> [listed |-> TRUE, sort |-> l[s], auth |-> l[s], pw |-> pw]]
             /\ logins = MadeLogins(l, u, ok)
    /\ tasks = {} /\ due = TRUE
    /\ ver = [s \in Servers |-> 0] /\ heard = [s \in Servers |-> 0]
    /\ used = 0 /\ faulty = FALSE /\ hasty = {} /\ mixed = {}

-----------------------------------------------------------------------------
(* What the page makes of the list.                                        *)

Usable(e) == e.there /\ e.on /\ e.auth # 0
FirstOf(es, S) == IF S = {} THEN "none" ELSE CHOOSE s \in S : \A t \in S : es[s].sort <= es[t].sort
Primary(es) == FirstOf(es, {s \in Servers : Usable(es[s])})
Preferred(es) ==
    IF Primary(es) # "none" THEN Primary(es)
    ELSE FirstOf(es, {s \in Servers : es[s].there /\ es[s].on})

\* The server the page works with, and the one its sign-in hook is for.
Selected(es, a) == a # "none" /\ es[a].there
ActiveServer(es, a) ==
    IF Selected(es, a) /\ es[a].on /\ (es[a].auth # 0 \/ Primary(es) = "none") THEN a
    ELSE IF Primary(es) # "none" THEN Primary(es)
    ELSE IF Selected(es, a) THEN a ELSE Preferred(es)
HookServer(es, a) == IF ActiveServer(es, a) = "none" THEN Home ELSE ActiveServer(es, a)

\* The sign-in screens are shown.
Onboarding ==
    IF \A s \in Servers : ~entry[s].there THEN hook.auth = 0
    ELSE Primary(entry) = "none"
            /\ ~(hook.auth # 0 /\ ActiveServer(entry, active) \in {"none", hook.at})

\* Whose chats are listed for a server.
Shown(s) == IF Usable(entry[s]) THEN chats[s] ELSE [of |-> 0, ver |-> 0]

-----------------------------------------------------------------------------
(* A render and its effects.                                               *)

Numbered(T, x) == [x EXCEPT !.id = Min({n \in 0 .. Cardinality(T) : [x EXCEPT !.id = n] \notin T})]
PlusAll(T, X) == T \cup {Numbered(T, x) : x \in X}
Plus(T, x) == PlusAll(T, {x})
Of(T, s) == {t \in T : t.s = s}
NewNo(s) == Min((1 .. Cardinality(tasks) + 1) \ {t.no : t \in Of(tasks, s)})

\* An entry is changed, or put at the end of the list.
Put(es, s, e) ==
    [es EXCEPT ![s] = [e EXCEPT !.there = TRUE,
                                !.sort = IF es[s].there THEN @ ELSE 1 + Cardinality({t \in Servers : es[t].there})]]
KeyOf(e) == [auth |-> e.auth, dev |-> e.dev]

\* The effect over the list, for one server: its connection goes, stays, or is
\* bootstrapped again.
Connection(s) ==
    IF ~Usable(entry[s]) THEN NoConn
    ELSE IF conn[s].no # 0 THEN conn[s] ELSE [NoConn EXCEPT !.no = NewNo(s)]
\* Mutants: a bootstrap that is on its way is not noticed; only the first is made.
StartsAgain(s) ==
    Usable(entry[s]) /\ ~(Connection(s).boot = KeyOf(entry[s]) /\ status[s] = "connected")
StartsOnce(s) ==
    Usable(entry[s]) /\ Connection(s).ing = NoKey /\ status[s] # "connected"
Starts(s) ==
    LET c == Connection(s)
        key == KeyOf(entry[s])
    IN  /\ Usable(entry[s]) /\ c.ing # key
        /\ ~(c.boot = key /\ c.ing = NoKey /\ status[s] = "connected")
Boot(s) ==
    [NoTask EXCEPT !.by = "boot", !.at = "refresh", !.s = s, !.no = Connection(s).no,
                   !.key = KeyOf(entry[s]), !.dev = entry[s].dev, !.tok = entry[s].fresh]
StatusOf(s) ==
    IF ~entry[s].there THEN "none" ELSE IF ~entry[s].on THEN "disconnected"
    ELSE IF entry[s].auth = 0 THEN "auth_required"
    ELSE IF Starts(s) THEN "connecting" ELSE status[s]

\* The hook's session belongs into the list, whatever is in it.
Attaches == hook.auth # 0 /\ hook.at # "none"
    /\ (~entry[hook.at].there \/ entry[hook.at].auth # hook.auth \/ entry[hook.at].fresh # hook.fresh)
\* Mutant: it goes to the server the page works with.
ToActive(es) ==
    LET s == HookServer(entry, active)
    IN  Put(es, s, [es[s] EXCEPT !.auth = hook.auth, !.fresh = hook.fresh])
Attached(es) == Put(es, hook.at, [es[hook.at] EXCEPT !.auth = hook.auth, !.fresh = hook.fresh])

\* Which server is selected instead.
Picks ==
    LET p == Primary(entry) IN
    IF ~Selected(entry, active)
    THEN IF Preferred(entry) # "none" THEN Preferred(entry) ELSE active
    ELSE IF ~Usable(entry[active]) /\ p # "none" THEN p ELSE active

\* The bound: two bootstraps of a server at once, and of one login, for those of
\* two logins can start each other again without end.
Alone(s) ==
    LET B == {t \in Of(tasks, s) : t.by = "boot"}
    IN  Cardinality(B) < 2 /\ \A t \in B : t.key.auth = entry[s].auth

\* The hook came (back) to the page's own server: it renews the stored session.
Silent(r) == r = Home /\ base # Home /\ saved.auth # 0
\* The hook works for another server now, and drops the session of the last one.
Forgets(r) == r # Home /\ hook.at # r

Render ==
    LET r == HookServer(entry, active)
        boots == {s \in Servers : Starts(s)}
        stay == {t \in tasks : t.by = "timer" => base = r /\ hook.auth # 0}
        one == IF Silent(r)
               THEN Plus(stay, [NoTask EXCEPT !.by = "silent", !.s = Home, !.tok = saved.fresh,
                                               !.key = [auth |-> saved.auth, dev |-> 0]])
               ELSE stay
    IN  /\ due /\ (\A s \in boots : Alone(s)) /\ base' = r
        /\ hook' = IF Forgets(r) THEN NoHook ELSE hook
        /\ entry' = IF Attaches THEN Attached(entry) ELSE entry
        /\ active' = IF Attaches /\ active = "none" THEN hook.at ELSE Picks
        /\ conn' = [s \in Servers |-> IF s \in boots THEN [Connection(s) EXCEPT !.ing = KeyOf(entry[s])]
                                       ELSE Connection(s)]
        /\ status' = [s \in Servers |-> StatusOf(s)]
        /\ tasks' = PlusAll(one, {Boot(s) : s \in boots})
        /\ due' = (entry' # entry \/ hook' # hook \/ active' # active)
        /\ UNCHANGED <<chats, saved, servers, rest>>

-----------------------------------------------------------------------------
(* A bootstrap, answer by answer.                                          *)

Moves(n) == used + n <= Most /\ base # "none" /\ used' = used + n /\ UNCHANGED faulty
Move == Moves(1)
Fault == used < Most /\ used' = used + 1 /\ faulty' = TRUE
Calm == UNCHANGED <<used, faulty>>
Without(t) == tasks' = tasks \ {t}
Goes(t, x) == tasks' = Plus(tasks \ {t}, x)
Own(t) == conn[t.s].no = t.no
Rewrite(s, e) == IF entry[s].there THEN [entry EXCEPT ![s] = e] ELSE entry
IsBoot(t, at) == t \in tasks /\ t.by = "boot" /\ t.at = at
Free(t) == [conn EXCEPT ![t.s].ing = IF Own(t) THEN NoKey ELSE @]

\* The token is renewed; the chats are asked for, under the next number.
Renewed(t) ==
    /\ IsBoot(t, "refresh") /\ logins[t.key.auth].ok /\ Calm /\ due' = TRUE
    /\ entry' = Rewrite(t.s, [entry[t.s] EXCEPT !.auth = t.key.auth, !.fresh = TRUE])
    /\ LET id == IF conn[t.s].no = 0 THEN 0 ELSE conn[t.s].req + 1
       IN  /\ conn' = [conn EXCEPT ![t.s].req = id]
           /\ Goes(t, [t EXCEPT !.at = "load", !.req = id])
    /\ UNCHANGED <<active, status, chats, hook, saved, base, servers, backup, keys, heard, marks>>

\* It is refused, or the request fails: the login goes from the list.
NotRenewed(t) ==
    /\ IsBoot(t, "refresh") /\ IF logins[t.key.auth].ok THEN Fault ELSE Calm
    /\ conn' = Free(t) /\ status' = [status EXCEPT ![t.s] = "auth_required"]
    /\ entry' = Rewrite(t.s, [entry[t.s] EXCEPT !.auth = 0, !.fresh = FALSE])
    /\ Without(t) /\ due' = TRUE
    /\ UNCHANGED <<active, chats, hook, saved, base, servers, backup, keys, heard, marks>>

Loaded(t) ==
    /\ IsBoot(t, "load") /\ Calm /\ Goes(t, [t EXCEPT !.at = "devices", !.ver = ver[t.s]])
    /\ UNCHANGED <<entry, active, conn, status, chats, hook, saved, base, due, servers, backup, keys, heard, marks>>
NotLoaded(t) ==
    /\ IsBoot(t, "load") /\ Fault /\ Without(t)
    /\ conn' = Free(t) /\ status' = [status EXCEPT ![t.s] = "error"]
    /\ UNCHANGED <<entry, active, chats, hook, saved, base, due, servers, backup, keys, heard, marks>>

\* A snapshot is dropped when one that was asked for later has been applied.
\* Mutant: it never is.
InOrder(c, req) == TRUE
IsLatest(c, req) == req >= c.seen
Applies(c, req) == c.no # 0 /\ IsLatest(c, req)

\* The end: the chats are listed, the page subscribes.
Finish(t, dev) ==
    LET c == conn[t.s]
        listed == Applies(c, t.req)
    IN  /\ chats' = IF listed THEN [chats EXCEPT ![t.s] = [of |-> t.key.auth, ver |-> t.ver]] ELSE chats
        /\ conn' = [conn EXCEPT ![t.s] =
                       [IF Own(t) THEN [c EXCEPT !.user = t.key.auth, !.tok = t.tok,
                                                 !.boot = t.key, !.ing = NoKey] ELSE c
                        EXCEPT !.seen = IF listed THEN t.req ELSE @]]
        /\ status' = [status EXCEPT ![t.s] = "connected"]
        /\ entry' = Rewrite(t.s, [entry[t.s] EXCEPT !.auth = t.key.auth, !.fresh = TRUE,
                                                    !.dev = IF dev # 0 THEN dev ELSE @])
        /\ Without(t) /\ due' = TRUE

\* The devices: one that the server does not know, or that is another user's,
\* is dropped; without one new keys are made and linked.
Known(t) == t.dev # 0 /\ devs[t.dev].ok /\ devs[t.dev].u = logins[t.key.auth].u
Made == Cardinality({d.k : d \in {devs[i] : i \in DOMAIN devs}} \cup {keys[s] : s \in Servers} \cup {0})
Listed(t, fails) ==
    LET drops == ~fails /\ t.dev # 0 /\ ~Known(t)
    IN  /\ IsBoot(t, "devices") /\ IF fails THEN Fault ELSE Calm
        /\ IF t.dev = 0 \/ drops
           THEN /\ keys' = [keys EXCEPT ![t.s] = Made]
                /\ Goes(t, [t EXCEPT !.at = "link", !.dev = 0, !.key2 = Made])
                /\ entry' = IF drops THEN Rewrite(t.s, [entry[t.s] EXCEPT !.dev = 0]) ELSE entry
                /\ due' = (due \/ drops)
                /\ UNCHANGED <<conn, status, chats>>
           ELSE Finish(t, t.dev) /\ UNCHANGED keys
        /\ UNCHANGED <<active, hook, saved, base, servers, backup, heard, marks>>

NewDevice(t) == [s |-> t.s, u |-> logins[t.key.auth].u, ok |-> TRUE, k |-> t.key2]
Linked(t) ==
    /\ IsBoot(t, "link") /\ Calm /\ devs' = Append(devs, NewDevice(t)) /\ Finish(t, Len(devs) + 1)
    /\ UNCHANGED <<active, hook, saved, base, logins, ver, backup, keys, heard, marks>>
NotLinked(t) ==
    /\ IsBoot(t, "link") /\ Fault /\ Finish(t, 0)
    /\ devs' \in {devs, Append(devs, NewDevice(t))}
    /\ UNCHANGED <<active, hook, saved, base, logins, ver, backup, keys, heard, marks>>

-----------------------------------------------------------------------------
(* Activity on a server, and the chats it makes the page fetch.            *)

\* The token a subscription was made with still serves; for the page's own
\* server a refused request renews the stored session and is repeated.
Serves(s) == conn[s].tok \/ (s = Home /\ saved.auth # 0 /\ logins[saved.auth].ok)

Activity(s) ==
    LET hears == conn[s].user # 0 IN
    /\ ver[s] < 2 /\ Move /\ ver' = [ver EXCEPT ![s] = @ + 1]
    /\ heard' = IF hears THEN [heard EXCEPT ![s] = ver'[s]] ELSE heard
    /\ IF hears
       THEN /\ conn' = [conn EXCEPT ![s].req = @ + 1]
            /\ tasks' = Plus(tasks, [NoTask EXCEPT !.by = "list", !.at = "asked", !.s = s, !.no = conn[s].no,
                           !.req = conn[s].req + 1, !.tok = Serves(s),
                           !.key = [auth |-> conn[s].user, dev |-> 0]])
       ELSE UNCHANGED <<conn, tasks>>
    /\ UNCHANGED <<entry, active, status, chats, hook, saved, base, due, logins, devs, backup, keys, marks>>

\* The server reads the chats, the page applies them; or nothing comes of it.
Answered(t) ==
    /\ t \in tasks /\ t.by = "list" /\ t.at = "asked" /\ Calm /\ t.tok
    /\ Goes(t, [t EXCEPT !.at = "answer", !.ver = ver[t.s]])
    /\ UNCHANGED <<entry, active, conn, status, chats, hook, saved, base, due, servers, backup, keys, heard, marks>>
Unanswered(t) ==
    /\ t \in tasks /\ t.by = "list" /\ IF t.tok THEN Fault ELSE faulty' = TRUE /\ UNCHANGED used
    /\ Without(t)
    /\ UNCHANGED <<entry, active, conn, status, chats, hook, saved, base, due, servers, backup, keys, heard, marks>>
Apply(t) ==
    /\ t \in tasks /\ t.by = "list" /\ t.at = "answer" /\ Calm /\ Without(t)
    /\ IF Applies(conn[t.s], t.req)
       THEN /\ chats' = [chats EXCEPT ![t.s] = [of |-> t.key.auth, ver |-> t.ver]]
            /\ conn' = [conn EXCEPT ![t.s].seen = t.req]
       ELSE UNCHANGED <<chats, conn>>
    /\ UNCHANGED <<entry, active, status, hook, saved, base, due, servers, backup, keys, heard, marks>>

-----------------------------------------------------------------------------
(* The sign-in hook.                                                       *)

Session(l, s) == [auth |-> l, fresh |-> TRUE, at |-> s]
NewLogin(s, u) == logins' = Append(logins, [s |-> s, u |-> u, ok |-> TRUE])
SaveIf(s, l, fresh) == IF s = Home THEN saved' = [auth |-> l, fresh |-> fresh] ELSE UNCHANGED saved

\* A user signs in: on the sign-in screens, for the server they are for, ...
SignIn ==
    /\ Onboarding /\ ~due /\ Move /\ \A t \in tasks : t.by # "login"
    /\ tasks' = Plus(tasks, [NoTask EXCEPT !.by = "login", !.at = "hook", !.s = base])
    /\ UNCHANGED <<entry, active, conn, status, chats, hook, saved, base, due, servers, backup, keys, heard, marks>>
\* ... or in the settings, for a server of the list.
SignInTo(s) ==
    /\ entry[s].there /\ entry[s].auth = 0 /\ ~Onboarding /\ Move /\ \A t \in tasks : t.by # "login"
    /\ tasks' = Plus(tasks, [NoTask EXCEPT !.by = "login", !.at = "settings", !.s = s])
    /\ UNCHANGED <<entry, active, conn, status, chats, hook, saved, base, due, servers, backup, keys, heard, marks>>
SignedIn(t, u) ==
    /\ t \in tasks /\ t.by = "login" /\ NewLogin(t.s, u) /\ Calm /\ Without(t) /\ due' = TRUE
    /\ mixed' = mixed
    /\ hasty' = hasty \cup {s \in {t.s} : Of(tasks \ {t}, s) # {} \/ (t.at = "settings" /\ hook.at = s)}
    /\ IF t.at = "hook"
       THEN /\ hook' = Session(Len(logins) + 1, t.s) /\ SaveIf(t.s, Len(logins) + 1, TRUE)
            /\ UNCHANGED <<entry, active>>
       ELSE /\ entry' = Rewrite(t.s, [entry[t.s] EXCEPT !.auth = Len(logins) + 1, !.fresh = TRUE])
            /\ active' = t.s /\ UNCHANGED <<hook, saved>>
    /\ UNCHANGED <<conn, status, chats, base, devs, ver, backup, keys, heard>>

\* The stored session is renewed when the page opens, and then from time to time.
RenewLater ==
    /\ base # "none" /\ hook.auth # 0 /\ ~hook.fresh /\ \A t \in tasks : t.by # "timer"
    /\ tasks' = Plus(tasks, [NoTask EXCEPT !.by = "timer", !.s = base,
                                           !.key = [auth |-> hook.auth, dev |-> 0]])
    /\ Calm /\ UNCHANGED <<entry, active, conn, status, chats, hook, saved, base, due, servers, backup, keys, heard, marks>>
\* Mutant: the new token is not kept.
NotKept(t, ok) == t.tok
Newest(t, ok) == ok \/ t.tok
HookRenewed(t, works) ==
    LET l == t.key.auth
        ok == works /\ logins[l].ok /\ logins[l].s = t.s
        wanted == t.by = "silent" \/ (ok /\ hook.auth # 0)
    IN  /\ t \in tasks /\ t.by \in {"silent", "timer"} /\ Without(t)
        /\ IF works THEN Calm ELSE Fault
        /\ hook' = IF ~wanted THEN hook
                   ELSE [auth |-> l, fresh |-> Newest(t, ok), at |-> IF t.by = "silent" THEN Home ELSE hook.at]
        /\ IF wanted /\ ok THEN SaveIf(t.s, l, TRUE) ELSE UNCHANGED saved
        /\ due' = (due \/ hook' # hook)
        /\ mixed' = mixed \cup {s \in {hook'.at} : hook'.auth = l /\ s # t.s /\ wanted}
        /\ UNCHANGED <<entry, active, conn, status, chats, base, servers, backup, keys, heard, hasty>>

-----------------------------------------------------------------------------
(* Backups: the list of servers with their tokens, perhaps with passwords. *)

\* As long as the bound leaves room to restore the file.
Export(pw) ==
    /\ ~Onboarding /\ Move /\ used + 3 <= Most
    /\ backup' = [s \in Servers |-> IF entry[s].there
                                   THEN [listed |-> TRUE, sort |-> entry[s].sort, auth |-> entry[s].auth,
                                         pw |-> pw /\ entry[s].auth # 0]
                                   ELSE NoCopy]
    /\ UNCHANGED <<page, servers, keys, heard, marks>>

\* A file is restored, on the sign-in screens for all its servers at once or in
\* the settings for one after another.  What a restore knows of the list and of
\* the selected server is of the moment it was started.  It counts twice.
Restore ==
    LET one(s) == [NoTask EXCEPT !.by = "restore", !.at = IF Onboarding THEN "hook" ELSE "settings", !.s = s,
                                 !.key = [auth |-> backup[s].auth, dev |-> 0], !.tok = backup[s].pw,
                                 !.req = IF entry[s].there THEN 1 ELSE 0, !.ver = backup[s].sort, !.no = IF active = "none" THEN 1 ELSE 0]
        R == {s \in Servers : backup[s].listed}
    IN  /\ R # {} /\ Moves(2) /\ \A t \in tasks : t.by # "restore"
        /\ tasks' = PlusAll(tasks, {one(s) : s \in R})
        /\ UNCHANGED <<entry, active, conn, status, chats, hook, saved, base, due, servers, backup, keys, heard, marks>>

IsRestore(t) ==
    /\ t \in tasks /\ t.by = "restore"
    /\ t.at = "settings" => \A x \in tasks : x.by = "restore" /\ x # t => t.ver < x.ver
Restores(t, l, fresh) ==
    /\ entry' = IF t.req = 1 THEN Rewrite(t.s, [entry[t.s] EXCEPT !.on = TRUE, !.auth = l, !.fresh = fresh])
                ELSE Put(entry, t.s, [entry[t.s] EXCEPT !.auth = l, !.fresh = fresh])
    /\ active' = IF t.no = 1 THEN t.s ELSE active
    /\ hasty' = hasty \cup {x \in {t.s} : Of(tasks \ {t}, x) # {} \/ hook.at = x} /\ mixed' = mixed

\* The token of the backup serves; ...
Restored(t) ==
    /\ IsRestore(t) /\ t.key.auth # 0 /\ logins[t.key.auth].ok /\ Calm /\ Without(t)
    /\ Restores(t, t.key.auth, TRUE) /\ due' = TRUE
    /\ UNCHANGED <<conn, status, chats, hook, saved, base, servers, backup, keys, heard>>
\* ... it does not, the password does: the sign-in screens then store the token
\* of the backup all the same; ...
RestoredByPassword(t, u) ==
    LET l == IF t.at = "settings" THEN Len(logins) + 1 ELSE t.key.auth
    IN  /\ IsRestore(t) /\ t.tok /\ NewLogin(t.s, u) /\ Without(t) /\ due' = TRUE
        /\ IF logins[t.key.auth].ok THEN t.at = "settings" /\ Fault ELSE Calm
        /\ Restores(t, l, TRUE)
        /\ UNCHANGED <<conn, status, chats, hook, saved, base, devs, ver, backup, keys, heard>>
\* ... the server cannot be reached, or neither does.
NotRestored(t) ==
    LET refused == t.key.auth = 0 \/ ~logins[t.key.auth].ok
        dropped == t.at = "hook" /\ ~(refused /\ ~t.tok)
    IN  /\ IsRestore(t) /\ IF refused /\ ~t.tok THEN Calm ELSE Fault
        /\ Without(t) /\ due' = TRUE
        /\ IF t.req = 1 \/ dropped THEN UNCHANGED <<entry, active>>
           ELSE /\ entry' = Put(entry, t.s, entry[t.s])
                /\ active' = IF t.no = 1 THEN t.s ELSE active
        /\ UNCHANGED <<conn, status, chats, hook, saved, base, servers, backup, keys, heard, marks>>

-----------------------------------------------------------------------------
(* Signing out, and the list of servers.                                   *)

Leaves(s) ==
    hasty' = hasty \cup {x \in {s} : Of(tasks, x) # {} \/ hook.at = x} /\ mixed' = mixed
SignOut(s) ==
    /\ entry[s].auth # 0 /\ Move /\ Leaves(s) /\ due' = TRUE
    /\ entry' = [entry EXCEPT ![s] = [@ EXCEPT !.auth = 0, !.fresh = FALSE, !.dev = 0]]
    /\ status' = [status EXCEPT ![s] = "auth_required"]
    /\ UNCHANGED <<active, conn, chats, hook, saved, base, tasks, servers, backup, keys, heard>>

\* The device is forgotten: for the page's own server the hook's session is
\* revoked first, and ends when the answer comes.
Forget ==
    LET a == ActiveServer(entry, active) IN
    /\ a # "none" /\ entry[a].auth # 0 /\ ~Onboarding /\ Move /\ Leaves(a) /\ due' = TRUE
    /\ \A t \in tasks : t.by # "out"
    /\ entry' = [entry EXCEPT ![a] = [@ EXCEPT !.auth = 0, !.fresh = FALSE, !.dev = 0]]
    /\ status' = [status EXCEPT ![a] = "auth_required"]
    /\ IF a # Home THEN UNCHANGED <<hook, saved, tasks>>
       ELSE IF hook.auth # 0
       THEN /\ tasks' = Plus(tasks, [NoTask EXCEPT !.by = "out", !.s = Home,
                                                   !.key = [auth |-> hook.auth, dev |-> 0]])
            /\ UNCHANGED <<hook, saved>>
       ELSE hook' = NoHook /\ saved' = [auth |-> 0, fresh |-> FALSE] /\ UNCHANGED tasks
    /\ UNCHANGED <<active, conn, chats, base, servers, backup, keys, heard>>
Forgotten(t, works) ==
    LET l == t.key.auth IN
    /\ t \in tasks /\ t.by = "out" /\ Without(t) /\ due' = TRUE
    /\ IF works THEN Calm ELSE Fault
    /\ logins' = IF works THEN [logins EXCEPT ![l].ok = FALSE] ELSE logins
    /\ hook' = NoHook /\ saved' = [auth |-> 0, fresh |-> FALSE]
    /\ UNCHANGED <<entry, active, conn, status, chats, base, devs, ver, backup, keys, heard, marks>>

\* A server is added, selected, switched off and on, or removed.
Add(s) ==
    /\ Move /\ ~entry[s].there /\ entry' = Put(entry, s, NoEntry)
    /\ active' = s /\ due' = TRUE
    /\ UNCHANGED <<conn, status, chats, hook, saved, base, tasks, servers, backup, keys, heard, marks>>
Select(s) ==
    /\ Move /\ entry[s].there /\ active # s /\ active' = s /\ due' = TRUE
    /\ UNCHANGED <<entry, conn, status, chats, hook, saved, base, tasks, servers, backup, keys, heard, marks>>
Toggle(s) ==
    /\ Move /\ entry[s].there /\ entry' = [entry EXCEPT ![s].on = ~@] /\ Leaves(s) /\ due' = TRUE
    /\ UNCHANGED <<active, conn, status, chats, hook, saved, base, tasks, servers, backup, keys, heard>>
Remove(s) ==
    /\ Move /\ entry[s].there /\ (\E t \in Servers \ {s} : entry[t].there) /\ Leaves(s) /\ due' = TRUE
    /\ entry' = [t \in Servers |->
                   IF t = s THEN NoEntry
                   ELSE [entry[t] EXCEPT !.sort = IF @ > entry[s].sort THEN @ - 1 ELSE @]]
    /\ conn' = [conn EXCEPT ![s] = NoConn]
    /\ chats' = [chats EXCEPT ![s] = [of |-> 0, ver |-> 0]]
    /\ active' = IF active = s THEN Preferred([entry EXCEPT ![s] = NoEntry]) ELSE active
    /\ UNCHANGED <<status, hook, saved, base, tasks, servers, backup, keys, heard>>

\* The device is revoked elsewhere.
Revoke(s) ==
    /\ Move /\ entry[s].dev \in 1 .. Cardinality(Servers) /\ devs[entry[s].dev].ok
    /\ devs' = [devs EXCEPT ![entry[s].dev].ok = FALSE]
    /\ hasty' = hasty \cup {s} /\ UNCHANGED <<page, logins, ver, backup, keys, heard, mixed>>

\* Access tokens expire.
Stale(e) == [e EXCEPT !.fresh = FALSE]
Expire ==
    /\ Move /\ entry' = [s \in Servers |-> Stale(entry[s])] /\ hook' = Stale(hook) /\ saved' = Stale(saved)
    /\ conn' = [s \in Servers |-> [conn[s] EXCEPT !.tok = FALSE]]
    /\ due' = due /\ UNCHANGED <<active, status, chats, base, tasks, servers, backup, keys, heard, marks>>

\* The page is loaded again, which counts twice.
Reload ==
    /\ Moves(2) /\ conn' = [s \in Servers |-> NoConn] /\ status' = [s \in Servers |-> "none"]
    /\ chats' = [s \in Servers |-> [of |-> 0, ver |-> 0]] /\ tasks' = {} /\ base' = "none"
    /\ hook' = IF HookServer(entry, active) = Home /\ saved.auth # 0
               THEN [auth |-> saved.auth, fresh |-> saved.fresh, at |-> Home] ELSE NoHook
    /\ heard' = [s \in Servers |-> 0] /\ due' = TRUE
    /\ UNCHANGED <<entry, active, saved, servers, backup, keys, marks>>

-----------------------------------------------------------------------------
Answers(t) ==
    \/ Renewed(t) \/ NotRenewed(t) \/ Loaded(t) \/ NotLoaded(t) \/ Linked(t) \/ NotLinked(t)
    \/ Answered(t) \/ Unanswered(t) \/ Apply(t)
    \/ \E b \in BOOLEAN : Listed(t, b) \/ HookRenewed(t, b) \/ Forgotten(t, b)
    \/ Restored(t) \/ NotRestored(t)
    \/ \E u \in Users : SignedIn(t, u) \/ RestoredByPassword(t, u)

OfServer(s) ==
    \/ Activity(s) \/ SignInTo(s) \/ SignOut(s) \/ Add(s) \/ Select(s) \/ Toggle(s) \/ Remove(s) \/ Revoke(s)

Next ==
    \/ Render \/ RenewLater \/ SignIn \/ Restore \/ Forget \/ Expire \/ Reload
    \/ \E pw \in BOOLEAN : Export(pw)
    \/ \E t \in tasks : Answers(t)
    \/ \E s \in Servers : OfServer(s)

Spec == Init /\ [][Next]_vars

\* Renders follow changes, requests end, timers fire.
Ends == \E t \in tasks : Answers(t)
FairSpec == Spec /\ WF_vars(Render) /\ WF_vars(RenewLater) /\ WF_vars(Ends)

-----------------------------------------------------------------------------
Logins == 0 .. Len(logins)
Tasks == [id: 0 .. 9, by: {"boot", "list", "login", "silent", "timer", "out", "restore"},
          at: {"refresh", "load", "devices", "link", "asked", "answer", "hook", "settings", "none"},
          s: Servers, no: 0 .. 9, key: [auth: Logins, dev: 0 .. Len(devs)], dev: 0 .. Len(devs),
          tok: BOOLEAN, req: 0 .. 9, ver: 0 .. 2, key2: Nat]

(* The type of every variable (useServers.ts 28-67, useAuth.ts 18-31).     *)
TypeOK ==
    /\ entry \in [Servers -> [there: BOOLEAN, sort: 0 .. Cardinality(Servers), on: BOOLEAN, auth: Logins, fresh: BOOLEAN, dev: 0 .. Len(devs)]]
    /\ active \in Servers \cup {"none"} /\ base \in Servers \cup {"none"}
    /\ \A s \in Servers : conn[s].no = 0 => conn[s] = [NoConn EXCEPT !.req = conn[s].req]
    /\ status \in [Servers -> {"none", "disconnected", "auth_required", "connecting", "connected", "error"}]
    /\ hook.auth \in Logins /\ saved.auth \in Logins /\ tasks \subseteq Tasks /\ due \in BOOLEAN
    /\ used \in 0 .. Most /\ faulty \in BOOLEAN /\ hasty \cup mixed \subseteq Servers

Quiet == tasks = {} /\ ~due
At(l, s) == l # 0 => logins[l].s = s

(* A login is used with the server that gave it and with no other, through *)
(* every change of server, sign-in and failure: in the list, in the hook   *)
(* and in the chats the page shows (App.tsx 234-267, useAuth.ts 37-49,     *)
(* 114-160, auth-routing.ts 17-30).  The exception: the answer to a timer's*)
(* renewal sets the hook's session although the hook has been given one of *)
(* another server meanwhile, and keeps that server's name                  *)
(* (useAuth.ts 190-213).                                                   *)
OwnLogin ==
    /\ At(saved.auth, Home) /\ (hook.auth # 0 /\ hook.at \notin mixed => At(hook.auth, hook.at))
    /\ \A s \in Servers \ mixed :
          /\ At(entry[s].auth, s) /\ At(conn[s].user, s) /\ At(Shown(s).of, s)
          /\ entry[s].dev # 0 => devs[entry[s].dev].s = s

(* The device a server's entry names is the one whose keys are in the      *)
(* key store, although every bootstrap without a device makes new keys: as *)
(* long as no device is revoked and no server is left, or signed in to,    *)
(* with a request on its way (useServers.ts 276-286, 385-422).             *)
KeysAreTheDevices ==
    \A s \in Servers \ hasty : entry[s].dev # 0 /\ devs[entry[s].dev].ok => keys[s] = devs[entry[s].dev].k

(* When nothing is on its way, the chats shown are at least as new as the  *)
(* last activity the page heard of, whatever the order in which the        *)
(* answers came, if all came (useServers.ts 119-171, 435-448).                           *)
HeardIsListed ==
    Quiet /\ ~faulty => \A s \in Servers \ hasty :
        Usable(entry[s]) /\ status[s] = "connected" =>
            Shown(s).ver >= heard[s] /\ Shown(s).of = entry[s].auth

(* A page with nothing on its way is connected to every server it is       *)
(* signed in to, for that login and that device, if nothing failed         *)
(* (useServers.ts 230-502).                                                *)
SettledIsConnected ==
    Quiet /\ ~faulty => \A s \in Servers \ hasty :
        Usable(entry[s]) => /\ status[s] = "connected" /\ conn[s].user = entry[s].auth
                            /\ conn[s].boot = KeyOf(entry[s])

SettledIsTrue == TypeOK /\ HeardIsListed /\ SettledIsConnected

(* Bootstraps do not start each other for ever: a page that is left alone  *)
(* comes to rest with its tokens renewed.  The exception is a page that    *)
(* holds a login which was revoked: it asks for its renewal for ever       *)
(* (useServers.ts 268-286, useAuth.ts 113-150, 167-235).                   *)
Refused == hook.auth # 0 /\ ~logins[hook.auth].ok
ComesToRest == <>[](Quiet /\ (hook.auth # 0 => hook.fresh)) \/ <>[]Refused
=============================================================================

----------------------------- MODULE Navigation -----------------------------
(* Which chat is open, which server the page's requests go to, and the     *)
(* links that lead into a chat: the address the page was opened with, and  *)
(* the answers to joins and new direct chats.                              *)
(*                                                                         *)
(* The user is signed in on every server (Accounts has what comes before). *)
(* A render and its effects are one step; what a click does reads the last *)
(* render.  A chat is its server and its id there.                         *)
EXTENDS Naturals

CONSTANTS
    Servers,        \* servers of the page
    LinkAt,         \* the server whose chat the invite link is of
    None,
    MaxUses,        \* uses of the invite link
    MaxAsks,        \* joins and new chats asked for
    MaxClicks       \* what the user does

VARIABLES
    active,     \* activeChatId, which is also kept in localStorage
    selected,   \* activeServerId
    scope,      \* the server of the default client, session token and device
    synced,     \* the chat the effect of activeChatId last ran for
    picked,     \* the server was chosen after the chat was rendered
    path,       \* the invite link in the address bar
    query,      \* the chat named in the address bar
    validating, \* useAuth asks whether the link is a registration invite
    listed,     \* chatsByServerId
    joined,     \* the servers: the user's chats
    uses,       \* the server: use_count of the link
    asks,       \* joins and new chats asked for
    clicks

address == <<path, query, validating>>
chosen == <<active, selected, picked>>
remote == <<joined, uses>>
navVars == <<chosen, scope, synced, address, listed, remote, asks, clicks>>

Ids == {"old", "linked", "direct"}
NoChat == [server |-> None, id |-> None]
Links == {NoChat} \cup [server : Servers \cup {None}, id : {"old"}]
Unasked == [at |-> "new", id |-> None, server |-> None]

Init ==
    /\ active \in {NoChat} \cup [server : Servers, id : {"old"}]
    /\ selected \in Servers /\ scope = None /\ synced = NoChat /\ picked = FALSE
    /\ path \in {None, "invite", "join"} /\ validating = (path = "invite")
    /\ query \in Links /\ (path # None => query = NoChat)
    /\ listed = [s \in Servers |-> {}] /\ joined = [s \in Servers |-> {"old"}]
    /\ uses = 0 /\ asks = [i \in 1..MaxAsks |-> Unasked] /\ clicks = 0

Click == clicks < MaxClicks /\ clicks' = clicks + 1
Open(c) == active' = c

-----------------------------------------------------------------------------
(* Choices.                                                                *)

\* A chat of the list, or a notification.
ChooseChat(s, id) ==
    /\ Click /\ id \in listed[s] /\ Open([server |-> s, id |-> id])
    /\ UNCHANGED <<selected, picked, scope, synced, address, listed, remote, asks>>

\* "Set as Active" in the settings.
ChooseServer(s) ==
    /\ Click /\ s # selected /\ selected' = s /\ picked' = TRUE
    /\ UNCHANGED <<active, scope, synced, address, listed, remote, asks>>

\* What a server lists may be older than what it has.
ListChats(s) ==
    /\ \E ids \in SUBSET joined[s] : listed' = [listed EXCEPT ![s] = ids]
    /\ UNCHANGED <<chosen, scope, synced, address, remote, asks, clicks>>

-----------------------------------------------------------------------------
(* Links.                                                                  *)

\* normalizeChatId: an id without its server is looked for in the lists.
Normalized(link) ==
    LET Having == {s \in Servers : link.id \in listed[s] \/ Servers = {s}}
    IN  IF link.server # None \/ Having = {} THEN {link}
        ELSE {[server |-> s, id |-> link.id] : s \in Having}

\* A link of the browser's history.
PopState(link) ==
    /\ Click /\ link # NoChat /\ \E c \in Normalized(link) : Open(c)
    /\ UNCHANGED <<selected, picked, scope, synced, address, listed, remote, asks>>

Free(i) == asks[i] = Unasked /\ \A j \in 1..(i - 1) : asks[j] # Unasked

\* What was asked keeps the server of the render it was asked in.
Ask(i, id, s) == asks' = [asks EXCEPT ![i] = [at |-> "sent", id |-> id, server |-> s]]

\* The effect of useDeepLinks runs with every render; an invite stays in the
\* address bar until it is answered.
FollowInvite ==
    IF path # None /\ \E i \in 1..MaxAsks : Free(i)
    THEN \E i \in 1..MaxAsks : Free(i) /\ Ask(i, "linked", selected)
    ELSE UNCHANGED asks

\* A chat named in the address bar is opened once.
FollowQuery == query # NoChat /\ (\E c \in Normalized(query) : Open(c)) /\ query' = NoChat

-----------------------------------------------------------------------------
(* A render and its effects.                                               *)

\* Any chat may be the first of the merged list.
Unlisted == \A s \in Servers : listed[s] = {}

OpenFirst ==
    \/ Unlisted /\ Open(NoChat)
    \/ \E s \in Servers : \E id \in listed[s] : Open([server |-> s, id |-> id])

DropOmitted ==
    IF active.server # None /\ active.id \in listed[active.server] THEN Open(active)
    ELSE OpenFirst

\* An open chat is kept when the list lacks it.
KeepOpen == IF active # NoChat THEN Open(active) ELSE OpenFirst

SyncNever == selected' = selected
\* The server follows the chat when the chat changes.
SyncServer ==
    selected' = IF active # synced /\ active.server # None THEN active.server ELSE selected

\* The default client, token and device become those of the chosen server.
Render ==
    /\ scope' = selected /\ SyncServer /\ synced' = active
    /\ picked' = (picked /\ active = synced)
    /\ FollowQuery \/ (query = NoChat /\ KeepOpen /\ query' = query)
    /\ FollowInvite
    /\ UNCHANGED <<path, validating, listed, remote, clicks>>

-----------------------------------------------------------------------------
(* Requests.                                                               *)

\* A new direct chat is asked for with the token and client of the scope.
StartDirect(i) ==
    /\ Click /\ scope # None /\ Free(i) /\ Ask(i, "direct", scope)
    /\ UNCHANGED <<chosen, scope, synced, address, listed, remote>>

Has(s, id) == joined' = [joined EXCEPT ![s] = @ \cup {id}]

\* join_via_invite_link counts a use for a member too.
Arrive(i) ==
    /\ asks[i].at = "sent"
    /\ \/ /\ asks[i].id = "linked" /\ asks[i].server = LinkAt /\ uses < MaxUses
          /\ uses' = uses + 1 /\ Has(LinkAt, "linked")
       \/ asks[i].id = "direct" /\ Has(asks[i].server, "direct") /\ uses' = uses
    /\ asks' = [asks EXCEPT ![i].at = "ok"]
    /\ UNCHANGED <<chosen, scope, synced, address, listed, clicks>>

\* The request is refused, or does not get there.
Refuse(i) ==
    /\ asks[i].at = "sent" /\ asks' = [asks EXCEPT ![i].at = "refused"]
    /\ UNCHANGED <<chosen, scope, synced, address, listed, remote, clicks>>

FileUnderSelected(i) == listed' = [listed EXCEPT ![selected] = @ \cup {asks[i].id}]
\* updateChatForServer, for the server that was asked.
File(i) == listed' = [listed EXCEPT ![asks[i].server] = @ \cup {asks[i].id}]

LeaveAddress(i) == path' = path
\* The address bar is cleared whatever the answer to a join.
ClearAddress(i) == path' = IF asks[i].id = "linked" THEN None ELSE path

Answer(i) ==
    /\ asks[i].at \in {"ok", "refused"} /\ ClearAddress(i)
    /\ IF asks[i].at = "ok"
       THEN File(i) /\ Open([server |-> asks[i].server, id |-> asks[i].id])
       ELSE UNCHANGED <<listed, active>>
    /\ asks' = [asks EXCEPT ![i].at = "done"]
    /\ UNCHANGED <<selected, picked, scope, synced, query, validating, remote, clicks>>

\* useAuth takes /invite/ for a registration invite, and clears the address.
Validated ==
    /\ validating /\ validating' = FALSE /\ path' = None
    /\ UNCHANGED <<chosen, scope, synced, query, listed, remote, asks, clicks>>

-----------------------------------------------------------------------------
Ends(i) == Arrive(i) \/ Refuse(i) \/ Answer(i)

Next ==
    \/ \E s \in Servers : ChooseServer(s) \/ ListChats(s) \/ \E id \in Ids : ChooseChat(s, id)
    \/ \E link \in Links : PopState(link)
    \/ Render \/ Validated
    \/ \E i \in 1..MaxAsks : StartDirect(i) \/ Ends(i)

Spec == Init /\ [][Next]_navVars

\* Pages render, requests end.
FairSpec == Spec /\ WF_navVars(Render) /\ \A i \in 1..MaxAsks : WF_navVars(Ends(i))

-----------------------------------------------------------------------------
\* The type of every variable.
Opened == {NoChat} \cup [server : Servers \cup {None}, id : Ids]

TypeOK ==
    /\ active \in Opened /\ synced \in Opened /\ query \in Links /\ picked \in BOOLEAN
    /\ selected \in Servers /\ scope \in Servers \cup {None}
    /\ path \in {None, "invite", "join"} /\ validating \in BOOLEAN
    /\ listed \in [Servers -> SUBSET Ids] /\ joined \in [Servers -> SUBSET Ids]
    /\ uses \in 0..MaxUses /\ clicks \in 0..MaxClicks
    /\ asks \in [1..MaxAsks -> [at : {"new", "sent", "ok", "refused", "done"},
                                id : Ids \cup {None}, server : Servers \cup {None}]]

\* Once the page has rendered, requests go to the server of the open chat,
\* unless the user chose another server since he opened it.
ScopeFollowsChat ==
    scope = selected /\ synced = active /\ active.server # None /\ ~picked
        => scope = active.server

\* A chat is filed under the server it is at, whatever is chosen meanwhile.
FiledAtHome == \A s \in Servers : listed[s] \subseteq joined[s]

\* An open chat is replaced by a click, an answer or a link, never by a list.
OpenStays ==
    [][active # NoChat /\ active' # active
         => clicks' # clicks \/ query' # query
            \/ \E i \in 1..MaxAsks : asks[i].at = "ok" /\ asks'[i].at = "done"]_navVars

\* An invite link does not stay in the address bar, where every render
\* would follow it again.
LinkGoes == []<>(path = None)

\* A link of the address bar is followed when the page is opened, once.
FollowedOnMount ==
    \A i, j \in 1..MaxAsks : asks[i].id = "linked" /\ asks[j].id = "linked" => i = j

-----------------------------------------------------------------------------
(* What makes them inductive.                                              *)

\* The chosen server is that of the chat which was rendered last, unless the
\* user chose another since.
ChosenFollows == ~picked /\ synced.server # None => selected = synced.server

\* Who is asked is a server, and what it granted it has.
AskedAtHome ==
    \A i \in 1..MaxAsks :
        /\ asks[i].at # "new" => asks[i].id \in Ids /\ asks[i].server \in Servers
        /\ asks[i].at = "ok" => asks[i].id \in joined[asks[i].server]

IInv == TypeOK /\ ChosenFollows /\ AskedAtHome /\ FiledAtHome
=============================================================================

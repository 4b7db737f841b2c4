------------------------------- MODULE Groups -------------------------------
(* A member's page and the groups it manages: the chat list, the form and  *)
(* the roster of the group that is open, the buttons offered in its profile*)
(* and the requests behind them, which the server reads first and writes   *)
(* afterwards.  The settings are the default ones: admins manage.          *)
(*                                                                         *)
(* A handler keeps the chat and the list of the render it was begun in, and*)
(* its answer is applied to the roster of whatever group is open by then.  *)
EXTENDS Naturals, FiniteSets

CONSTANTS Chats, Users, Me, Titles, None, MaxGroupActs

VARIABLES
    groups,     \* the server: title and roles of each group
    list,       \* chatsByServerId: the summaries of the page
    group,      \* activeChat
    roster,     \* groupMembers
    title,      \* groupRenameTitle
    load,       \* the roster that is being loaded, for the group that is open
    reqs,       \* requests in flight
    refused,    \* history: kinds of requests the server refused to a member
    crossed,    \* history: an action was begun before an earlier one had ended
    gActs

grVars == <<groups, list, group, roster, title, load, reqs, refused, crossed, gActs>>

Roles == {"owner", "admin", "member"}
Nobody == [u \in Users |-> None]
Members(c) == {u \in Users : groups[c].roles[u] # None}
NotListed == [title |-> None, names |-> {}, role |-> None]
Listed == {c \in Chats : list[c] # NotListed}

\* present_chat, for this user.
Summary(c) == [title |-> groups[c].title, names |-> Members(c), role |-> groups[c].roles[Me]]
Snapshot == [c \in Chats |-> IF Me \in Members(c) THEN Summary(c) ELSE NotListed]

Init ==
    /\ groups \in [Chats -> [title: {CHOOSE t \in Titles : TRUE},
                             roles: {f \in [Users -> Roles \cup {None}] :
                                        /\ f[Me] \in {"owner", "admin"}
                                        /\ Cardinality({u \in Users : f[u] = "owner"}) = 1}]]
    /\ list = Snapshot /\ group = None /\ roster = Nobody /\ title = None
    /\ load = None /\ reqs = {} /\ refused = {} /\ crossed = FALSE /\ gActs = 0

Act == gActs < MaxGroupActs /\ gActs' = gActs + 1
Quiet == reqs = {} /\ load = None

-----------------------------------------------------------------------------
(* The group that is open.                                                 *)

\* The form follows the summary; the roster stays until the new one is there.
Open(c) ==
    /\ group' = c /\ title' = list[c].title /\ load' = [chat |-> c, roles |-> None]

SelectChat(c) ==
    /\ Act /\ c \in Listed \ {group} /\ Open(c)
    /\ crossed' = (crossed \/ reqs # {})
    /\ UNCHANGED <<groups, list, roster, reqs, refused>>

ListMembers ==
    /\ load # None /\ load.roles = None
    /\ IF Me \in Members(load.chat)
       THEN load' = [load EXCEPT !.roles = groups[load.chat].roles]
       ELSE load' = [load EXCEPT !.roles = Nobody]
    /\ UNCHANGED <<groups, list, group, roster, title, reqs, refused, crossed, gActs>>

\* The load of a group that was left is cancelled: it is not kept in load.
MembersLoaded ==
    /\ load # None /\ load.roles # None
    /\ roster' = load.roles /\ load' = None
    /\ UNCHANGED <<groups, list, group, title, reqs, refused, crossed, gActs>>

\* The form's effect, when the title of the summary is another.
Follow ==
    title' = IF group # None /\ list'[group].title # list[group].title
             THEN list'[group].title ELSE title

\* A message in some group of the server makes the page fetch its chats.
Refresh ==
    /\ Act /\ list # Snapshot /\ list' = Snapshot
    /\ Follow /\ crossed' = (crossed \/ reqs # {})
    /\ UNCHANGED <<groups, group, roster, load, reqs, refused>>

-----------------------------------------------------------------------------
(* What the profile of a group offers.                                     *)

CanManage == list[group].role \in {"owner", "admin"}
CanPromote(u) == CanManage /\ roster[u] = "member" /\ u # Me
DemoteByAny(u) == CanManage /\ roster[u] = "admin" /\ u # Me
CanDemote(u) == list[group].role = "owner" /\ roster[u] = "admin" /\ u # Me
CanTransfer(u) == list[group].role = "owner" /\ roster[u] \in {"admin", "member"} /\ u # Me
CanRemove(u) == CanManage /\ roster[u] \in {"admin", "member"} /\ u # Me

Ask(kind, user, text) ==
    /\ Act /\ group # None /\ Cardinality(reqs) < 2
    /\ reqs' = reqs \cup {[kind |-> kind, chat |-> group, user |-> user, text |-> text,
                           snap |-> list, at |-> "sent"]}
    /\ crossed' = (crossed \/ ~Quiet)
    /\ UNCHANGED <<groups, list, group, roster, load, refused>>

AskFor(u) ==
    /\ group # None /\ UNCHANGED title
    /\ \/ CanPromote(u) /\ Ask("promote", u, None)
       \/ CanDemote(u) /\ Ask("demote", u, None)
       \/ CanTransfer(u) /\ Ask("transfer", u, None)
       \/ CanRemove(u) /\ Ask("remove", u, None)
       \/ CanManage /\ Ask("add", u, None)

AskToRename(t) ==
    /\ group # None /\ CanManage /\ t # list[group].title /\ title' = t /\ Ask("rename", None, t)

AskToGo ==
    /\ group # None /\ UNCHANGED title
    /\ \/ list[group].role = "admin" /\ Ask("leave", Me, None)
       \/ list[group].role = "owner" /\ Ask("delete", None, None)

-----------------------------------------------------------------------------
(* The server.                                                             *)

Role(c, u) == groups[c].roles[u]
Manages(c) == Role(c, Me) \in {"owner", "admin"}

\* Only an owner changes, or removes, another admin.
MayTouch(c, u) ==
    /\ Manages(c) /\ Role(c, u) \in {"admin", "member"}
    /\ Role(c, Me) = "admin" => Role(c, u) = "member"

Granted(r) ==
    CASE r.kind \in {"promote", "demote", "remove"} -> MayTouch(r.chat, r.user) /\ r.user # Me
      [] r.kind = "transfer" -> Role(r.chat, Me) = "owner" /\ Role(r.chat, r.user) # None
      [] r.kind \in {"add", "rename"} -> Manages(r.chat)
      [] r.kind = "leave" -> Role(r.chat, Me) \notin {None, "owner"}
      [] r.kind = "delete" -> Role(r.chat, Me) = "owner"

Moves(r, at) == reqs' = (reqs \ {r}) \cup {[r EXCEPT !.at = at]}

Authorize(r) ==
    /\ r.at = "sent"
    /\ IF Granted(r) THEN Moves(r, "checked") /\ UNCHANGED refused
       ELSE /\ Moves(r, "refused")
            /\ refused' = refused \cup {k \in {r.kind} : Me \in Members(r.chat)}
    /\ UNCHANGED <<groups, list, group, roster, title, load, crossed, gActs>>

SetRole(f, u, role) == [f EXCEPT ![u] = role]
TransferredOnly(f, u) == [f EXCEPT ![u] = "owner"]
Transferred(f, u) == [f EXCEPT ![Me] = "admin", ![u] = "owner"]

\* The rows that were read are written, whatever has been written since; a row
\* that is gone makes the request fail.
Written(r, f) ==
    CASE r.kind = "promote" -> SetRole(f, r.user, "admin")
      [] r.kind = "demote" -> SetRole(f, r.user, "member")
      [] r.kind = "transfer" -> Transferred(f, r.user)
      [] r.kind = "remove" -> SetRole(f, r.user, None)
      [] r.kind = "add" -> IF f[r.user] = None THEN SetRole(f, r.user, "member") ELSE f
      [] r.kind = "rename" -> f
      [] r.kind = "leave" -> SetRole(f, Me, None)
      [] r.kind = "delete" -> Nobody

Stands(r) == r.kind \in {"add", "rename", "delete"} \/ Role(r.chat, r.user) # None

Commit(r) ==
    /\ r.at = "checked"
    /\ IF Stands(r)
       THEN /\ groups' = [groups EXCEPT ![r.chat].roles = Written(r, @),
                                        ![r.chat].title = IF r.kind = "rename" THEN r.text ELSE @]
            /\ Moves(r, IF r.kind = "add" /\ Role(r.chat, r.user) # None THEN "none" ELSE "done")
       ELSE groups' = groups /\ Moves(r, "refused")
    /\ UNCHANGED <<list, group, roster, title, load, refused, crossed, gActs>>

-----------------------------------------------------------------------------
(* The answers.                                                            *)

\* setChatItems: the list of the handler's render with one chat changed, cut
\* down to what toRawChat keeps; it takes nothing in and nothing out.
Rewritten(r, s) ==
    IF r.snap[r.chat] = NotListed \/ r.snap[r.chat] = s THEN list
    ELSE [r.snap EXCEPT ![r.chat] = [s EXCEPT !.role = None]]

Named(r, names) == [r.snap[r.chat] EXCEPT !.names = names]

Fix(r, f) == roster' = [u \in Users |-> IF roster[u] = None THEN None ELSE f[u]]
FixNothing(r) == roster' = roster
FixNew(r) == roster' = [roster EXCEPT ![r.user] = "member"]

\* The first of the chats that are listed, once none is open.
Close == \/ \E c \in Listed : Open(c)
         \/ Listed = {} /\ group' = None /\ title' = None /\ load' = None

Done(r) ==
    \/ /\ r.kind \in {"promote", "demote"}
       /\ roster' = [roster EXCEPT ![r.user] = IF @ = None THEN None
                                               ELSE IF r.kind = "promote" THEN "admin" ELSE "member"]
       /\ UNCHANGED <<list, group, title, load>>
    \/ /\ r.kind = "transfer" /\ Fix(r, Transferred(roster, r.user))
       /\ list' = Rewritten(r, [r.snap[r.chat] EXCEPT !.role = "admin"])
       /\ Follow /\ UNCHANGED <<group, load>>
    \/ /\ r.kind = "remove" /\ roster' = [roster EXCEPT ![r.user] = None]
       /\ list' = Rewritten(r, Named(r, r.snap[r.chat].names \ {r.user}))
       /\ Follow /\ UNCHANGED <<group, load>>
    \/ /\ r.kind = "add" /\ FixNew(r)
       /\ list' = Rewritten(r, Named(r, r.snap[r.chat].names \cup {r.user}))
       /\ Follow /\ UNCHANGED <<group, load>>
    \/ /\ r.kind = "rename" /\ roster' = roster /\ title' = r.text
       /\ list' = Rewritten(r, [Summary(r.chat) EXCEPT !.title = r.text])
       /\ UNCHANGED <<group, load>>
    \/ /\ r.kind \in {"leave", "delete"} /\ Close /\ UNCHANGED <<list, roster>>

Answer(r) ==
    /\ r.at \in {"done", "none", "refused"} /\ reqs' = reqs \ {r}
    /\ IF r.at = "done" THEN Done(r) ELSE UNCHANGED <<list, group, roster, title, load>>
    /\ UNCHANGED <<groups, refused, crossed, gActs>>

-----------------------------------------------------------------------------
Next ==
    \/ \E c \in Chats : SelectChat(c)
    \/ ListMembers \/ MembersLoaded \/ Refresh \/ AskToGo
    \/ \E u \in Users : AskFor(u)
    \/ \E t \in Titles : AskToRename(t)
    \/ \E r \in reqs : Authorize(r) \/ Commit(r) \/ Answer(r)

Spec == Init /\ [][Next]_grVars

-----------------------------------------------------------------------------
\* The type of every variable.
TypeOK ==
    /\ groups \in [Chats -> [title: Titles, roles: [Users -> Roles \cup {None}]]]
    /\ list \in [Chats -> [title: Titles \cup {None}, names: SUBSET Users, role: Roles \cup {None}]]
    /\ group \in Chats \cup {None} /\ roster \in [Users -> Roles \cup {None}]
    /\ title \in Titles \cup {None} /\ Cardinality(reqs) <= 2
    /\ load # None => load.chat = group
    /\ crossed \in BOOLEAN /\ gActs \in 0 .. MaxGroupActs

\* One action after the other: the roster, the title and the names shown for a
\* group are the server's, though no answer makes the page fetch them again.
PageAgrees ==
    Quiet /\ ~crossed =>
        /\ group # None /\ Me \in Members(group) => roster = groups[group].roles
        /\ group # None /\ Me \in Members(group) => title = groups[group].title
        /\ \A c \in Chats : Me \in Members(c) => /\ list[c].title = groups[c].title
                                                /\ list[c].names = Members(c)

\* One action after the other: what the profile of one's group offers, the
\* server grants; save that an admin is offered to remove another one.
OffersAreGranted == ~crossed => refused \subseteq {"remove"}

\* One action after the other: a group that is not deleted has one owner.
OneOwner ==
    ~crossed => \A c \in Chats : Members(c) # {} =>
                    Cardinality({u \in Users : groups[c].roles[u] = "owner"}) = 1
-----------------------------------------------------------------------------
(* What makes them inductive.                                              *)

Rosters == [Users -> Roles \cup {None}]
Entries == [title: Titles \cup {None}, names: SUBSET Users, role: Roles \cup {None}]
Lists == [Chats -> Entries]
Loads == [chat: Chats, roles: Rosters \cup {None}]
Kinds == {"promote", "demote", "transfer", "remove", "add", "rename", "leave", "delete"}
Requests == [kind: Kinds, chat: Chats, user: Users \cup {None}, text: Titles \cup {None},
             snap: Lists, at: {"sent", "checked", "done", "none", "refused"}]
AboutUser == {"promote", "demote", "transfer", "remove", "add"}

Types ==
    /\ groups \in [Chats -> [title: Titles, roles: Rosters]]
    /\ list \in Lists /\ group \in Chats \cup {None} /\ roster \in Rosters
    /\ title \in Titles \cup {None} /\ load \in Loads \cup {None}
    /\ reqs \subseteq Requests /\ IsFiniteSet(reqs) /\ Cardinality(reqs) <= 2
    /\ crossed \in BOOLEAN /\ gActs \in 0 .. MaxGroupActs

\* A load is for the group that is open, and a request names whom it is about.
Aims(r) ==
    /\ r.kind \in AboutUser => r.user \in Users
    /\ r.kind \in AboutUser \ {"add"} => r.user # Me
    /\ r.kind = "leave" => r.user = Me
    /\ r.kind = "rename" => r.text \in Titles

Aimed == (load # None => load.chat = group) /\ \A r \in reqs : Aims(r)

Owned(f) == f = Nobody \/ \E o \in Users : \A u \in Users : f[u] = "owner" <=> u = o

Within(c) == Me \in Members(c)
ListTrue(c) == Within(c) => /\ list[c].title = groups[c].title /\ list[c].names = Members(c)
                            /\ list[c].role \in {None, groups[c].roles[Me]}
TitleTrue == group # None /\ Within(group) => title = groups[group].title
RosterTrue == group # None /\ Within(group) => roster = groups[group].roles
LoadTrue == load # None /\ Within(load.chat) => load.roles \in {None, groups[load.chat].roles}

\* No request: the page is the server's, or its roster is on its way.
AtRest ==
    reqs = {} => /\ \A c \in Chats : ListTrue(c)
                 /\ TitleTrue /\ LoadTrue /\ (load = None => RosterTrue)

\* The only request: begun from what the page had.
Alone(r) ==
    /\ reqs = {r} /\ load = None /\ r.chat = group /\ r.snap = list /\ list[group].role # None
    /\ \A c \in Chats \ {group} : ListTrue(c)

\* Until it is written the page stays as true as it was, but for a new title;
\* the server grants it, unless it removes an admin or one has left.
Unwritten(r) ==
    /\ ListTrue(group) /\ RosterTrue /\ (r.kind = "rename" \/ TitleTrue)
    /\ r.at = "sent" /\ Within(group) => Granted(r) \/ r.kind = "remove"
    /\ r.at = "checked" => Granted(r)
    /\ r.kind = "rename" => IF r.at = "refused" THEN ~Within(group) ELSE r.at # "none"

\* Once it is written the server has what the answer makes of the page.
Answerable(r) ==
    /\ roster \in Rosters
    /\ list[group].names = {u \in Users : roster[u] # None} /\ list[group].role = roster[Me]
    /\ IF r.kind \in {"leave", "delete"} THEN ~Within(group)
       ELSE groups[group].roles = Written(r, roster)
    /\ IF r.kind = "rename" THEN groups[group].title = r.text
       ELSE IF r.kind = "delete" THEN TRUE
       ELSE list[group].title = groups[group].title /\ title = groups[group].title
    /\ r.kind \in AboutUser \ {"add"} => roster[r.user] # None
    /\ r.kind = "add" => roster[r.user] = None

Orderly ==
    /\ \A c \in Chats : Owned(groups[c].roles)
    /\ refused \subseteq {"remove"}
    /\ AtRest
    /\ \A r \in reqs : Alone(r) /\ IF r.at = "done" THEN Answerable(r) ELSE Unwritten(r)

IInv == Types /\ Aimed /\ (~crossed => Orderly)
=============================================================================

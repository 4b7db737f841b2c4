------------------------------- MODULE Typing -------------------------------
(* The typing indicator: one page that shows who types in the chat it has  *)
(* open, and the pages of those who type; the server hands what a page says*)
(* of a chat to the chat's others, in order.                               *)
(*                                                                         *)
(* Timers run out at any time.  A page that sends a message calls          *)
(* stopTypingNow when the send is over, with the chat of the old render.   *)
EXTENDS Naturals, Sequences, FiniteSets

CONSTANTS Chats, Start, Typists, None, MaxTyping

VARIABLES
    watched,    \* the chat that is open on the watching page
    shown,      \* typingState: the chat and who types there
    clears,     \* typingTimersRef: those whose timer runs
    visit,      \* history: who began to type since the chat was opened
    typist,     \* each typist's page
    wire,       \* what the watching page has still to receive, by chat
    tActs

tyVars == <<watched, shown, clears, visit, typist, wire, tActs>>

\* said: what the page said last of each chat; began: history, where it typed.
Fresh == [chat |-> Start, typing |-> FALSE, timer |-> None, sending |-> None,
          hasty |-> FALSE, said |-> [c \in Chats |-> "stop"], began |-> {}]

Init ==
    /\ watched = Start /\ shown = [chat |-> None, users |-> {}] /\ clears = {} /\ visit = {}
    /\ typist = [u \in Typists |-> Fresh] /\ wire = [c \in Chats |-> <<>>] /\ tActs = 0

Does == tActs < MaxTyping /\ tActs' = tActs + 1
watcher == <<watched, shown, clears, visit>>

-----------------------------------------------------------------------------
(* Typing.                                                                 *)

\* pushTypingStart and pushTypingStop, broadcast_from.
Push(u, c, event) == wire' = [wire EXCEPT ![c] = Append(@, [user |-> u, event |-> event])]

SendTypingEvent(u) ==
    LET p == typist[u] IN
    /\ Does
    /\ IF p.typing THEN UNCHANGED wire ELSE Push(u, p.chat, "start")
    /\ typist' = [typist EXCEPT ![u] =
            [p EXCEPT !.typing = TRUE, !.timer = p.chat, !.said[p.chat] = "start",
                      !.hasty = @ \/ p.sending # None,
                      !.began = @ \cup {p.chat}]]
    /\ UNCHANGED watcher

Stops(u, p, c) ==
    /\ Push(u, c, "stop")
    /\ typist' = [typist EXCEPT ![u] = [p EXCEPT !.typing = FALSE, !.said[c] = "stop"]]

Inactive(u) ==
    /\ typist[u].timer # None
    /\ Stops(u, [typist[u] EXCEPT !.timer = None], typist[u].timer)
    /\ UNCHANGED <<watcher, tActs>>

SendMessage(u) ==
    /\ Does /\ typist[u].sending = None
    /\ typist' = [typist EXCEPT ![u].sending = typist[u].chat]
    /\ UNCHANGED <<watcher, wire>>

StopTypingNow(u) ==
    LET p == [typist[u] EXCEPT !.timer = None, !.sending = None] IN
    /\ typist[u].sending # None
    /\ IF p.typing THEN Stops(u, p, typist[u].sending)
       ELSE typist' = [typist EXCEPT ![u] = p] /\ UNCHANGED wire
    /\ UNCHANGED <<watcher, tActs>>

StopsQuietly(u, p, c) ==
    typist' = [typist EXCEPT ![u] = [p EXCEPT !.typing = FALSE]] /\ UNCHANGED wire
\* The effect's cleanup, of the chat that is left.
LeavesTyping(u, p, c) == Stops(u, p, c)

TypistLeaves(u, c) ==
    LET p == [typist[u] EXCEPT !.timer = None, !.chat = c,
                               !.hasty = @ \/ typist[u].sending # None] IN
    /\ Does /\ c # typist[u].chat
    /\ IF p.typing THEN LeavesTyping(u, p, typist[u].chat)
       ELSE typist' = [typist EXCEPT ![u] = p] /\ UNCHANGED wire
    /\ UNCHANGED watcher

-----------------------------------------------------------------------------
(* Watching.                                                               *)

Carried(c) == shown.users
\* The state is that of one chat: another's begins with nobody.
Kept(c) == IF shown.chat = c THEN shown.users ELSE {}

NoTimer(u) == clears
Timed(u) == clears \cup {u}

\* onTypingStart, onTypingStop; a chat that is not open has no handlers.
Receive(c) ==
    LET e == Head(wire[c]) IN
    /\ wire[c] # <<>> /\ wire' = [wire EXCEPT ![c] = Tail(@)]
    /\ \/ c # watched /\ UNCHANGED watcher
       \/ /\ c = watched /\ e.event = "start"
          /\ shown' = [chat |-> c, users |-> Kept(c) \cup {e.user}]
          /\ clears' = Timed(e.user) /\ visit' = visit \cup {e.user}
          /\ UNCHANGED watched
       \/ /\ c = watched /\ e.event = "stop"
          /\ shown' = IF shown.chat = c THEN [shown EXCEPT !.users = @ \ {e.user}] ELSE shown
          /\ clears' = clears \ {e.user}
          /\ UNCHANGED <<watched, visit>>
    /\ UNCHANGED <<typist, tActs>>

AutoClear(u) ==
    /\ u \in clears /\ clears' = clears \ {u}
    /\ shown' = IF shown.chat = watched THEN [shown EXCEPT !.users = @ \ {u}] ELSE shown
    /\ UNCHANGED <<watched, visit, typist, wire, tActs>>

\* The timers are cleared, what is shown is not.
WatcherLeaves(c) ==
    /\ Does /\ c # watched /\ watched' = c /\ clears' = {} /\ visit' = {}
    /\ UNCHANGED <<shown, typist, wire>>

-----------------------------------------------------------------------------
Runs(u) == Inactive(u) \/ StopTypingNow(u)
Arrives == \E c \in Chats : Receive(c)

Next ==
    \/ \E u \in Typists : \/ SendTypingEvent(u) \/ SendMessage(u) \/ Runs(u) \/ AutoClear(u)
                          \/ \E c \in Chats : TypistLeaves(u, c)
    \/ \E c \in Chats : WatcherLeaves(c)
    \/ Arrives

Spec == Init /\ [][Next]_tyVars

-----------------------------------------------------------------------------
\* Who the page shows to its user.
Seen == IF shown.chat = watched THEN shown.users ELSE {}

\* The type of every variable.
TypeOK ==
    /\ watched \in Chats /\ clears \subseteq Typists /\ visit \subseteq Typists
    /\ shown.chat \in Chats \cup {None} /\ shown.users \subseteq Typists
    /\ \A u \in Typists : {typist[u].timer, typist[u].sending} \subseteq Chats \cup {None}

\* Nobody is shown as typing in a chat in which he never typed.
TypedHere == \A u \in Seen : watched \in typist[u].began

\* Whoever began to type since the chat was opened is not shown for ever, even
\* if what he says afterwards never arrives: his timer runs.
FreshIsTimed == Seen \cap visit \subseteq clears

\* A page that said it types in a chat will say that it stopped, or said so:
\* also when it leaves the chat.  One whose user goes on while a message is
\* being sent may not, because the send stops the timer of the new chat.
StopFollows ==
    \A u \in Typists : ~typist[u].hasty =>
        \A c \in Chats : typist[u].said[c] = "start" => typist[u].timer = c

\* The hook's comment: a typist is cleared by itself if no stop event arrives.
ShownIsTimed == Seen \subseteq clears
-----------------------------------------------------------------------------
(* What makes them inductive.                                              *)

Events == [user: Typists, event: {"start", "stop"}]

\* A page of a typist; what it says is said of chats only.
Page == [chat: Chats, typing: BOOLEAN, timer: Chats \cup {None}, sending: Chats \cup {None},
         hasty: BOOLEAN, said: [Chats -> {"start", "stop"}], began: SUBSET Chats]

Types ==
    /\ watched \in Chats /\ clears \subseteq Typists /\ visit \subseteq Typists
    /\ shown \in [chat: Chats \cup {None}, users: SUBSET Typists]
    /\ typist \in [Typists -> Page] /\ wire \in [Chats -> Seq(Events)]

\* What is shown, or on its way, was typed there.
SaidThere ==
    /\ \A u \in shown.users : shown.chat \in typist[u].began
    /\ \A c \in Chats : \A i \in 1 .. Len(wire[c]) :
          wire[c][i].event = "start" => c \in typist[wire[c][i].user].began

\* A page that did not go on while it was sending is in the chat it last said
\* it types in, with the timer running.
Honest(p) ==
    ~p.hasty =>
        /\ p.sending \in {None, p.chat} /\ p.timer \in {None, p.chat}
        /\ \A c \in Chats : p.said[c] = "start" => c = p.chat /\ p.timer = c /\ p.typing

SaidHere == \A u \in Typists : Honest(typist[u])

IInv == Types /\ SaidThere /\ SaidHere /\ FreshIsTimed
=============================================================================

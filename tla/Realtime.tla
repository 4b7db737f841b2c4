------------------------------ MODULE Realtime ------------------------------
(* The page's connection to the server it works with: one socket that the  *)
(* hooks share, kept or replaced as its token changes, the channels they   *)
(* hold on it, and what the open chat misses while it is down.             *)
(*                                                                         *)
(* The hooks are the thread's and the call's, which run again with the     *)
(* context's token, the typing indicator's, with the server's, and the     *)
(* presence's, once.  The first two follow one render later.  Joins and    *)
(* syncs that fail, and what is on a channel but messages, are left out.   *)
EXTENDS Integers, Sequences

CONSTANTS
    MaxTokens,          \* tokens in a session, of one server and the next
    MaxOutages,
    MaxSent

VARIABLES
    rt,         \* the module: deviceSocket, its token, connectionStatus, hasEverConnected
                \* and chatChannels' entry for the open chat
    net,        \* the sockets made, in order: connecting, open, down, given up
    callbacks,  \* what they have to tell, in order
    toks,       \* the token of the server's scope, and of the context
    subs,       \* the socket each hook's channel is on
    chat,       \* the open chat: joined, pushed, shown, a sync due; history: whether a message
                \* was sent after the sync and before the join
    hasty,      \* history: a token changed while the socket was not connected
    outages

rtVars == <<rt, net, callbacks, toks, subs, chat, hasty, outages>>

OpenChat == [joined |-> FALSE, wire |-> <<>>, sent |-> 0, has |-> {}, sync |-> TRUE, gap |-> FALSE]

Init ==
    /\ rt = [cur |-> 1, tok |-> 1, status |-> "connecting", ever |-> FALSE, map |-> 1]
    /\ net = <<"opening">> /\ callbacks = <<>>
    /\ toks = [scope |-> 1, ctx |-> 1]
    /\ subs = [thread |-> 1, call |-> 1, typing |-> 1, presence |-> 1]
    /\ chat = OpenChat /\ hasty = FALSE /\ outages = 0

-----------------------------------------------------------------------------
(* The socket.                                                             *)

NeverKept(r) == FALSE
\* A connected socket outlives its token.
KeepAlive(r) == r.status = "connected"

\* ensureDeviceSocket, on the module's variables and the sockets.
EnsureSocket(s, t) ==
    CASE s.rt.cur # 0 /\ s.rt.tok = t -> s
      [] s.rt.cur # 0 /\ s.rt.tok # t /\ KeepAlive(s.rt) -> [s EXCEPT !.rt.tok = t]
      [] OTHER ->
            [rt  |-> [s.rt EXCEPT !.cur = Len(s.net) + 1, !.tok = t, !.status = "connecting", !.map = 0],
             net |-> Append([i \in DOMAIN s.net |-> IF i = s.rt.cur THEN "off" ELSE s.net[i]], "opening")]

\* ensureChatChannel: a channel of the current socket is used again, whatever the token.
EnsureChat(s, t) ==
    IF s.rt.map # 0 /\ s.rt.map = s.rt.cur THEN s
    ELSE LET e == EnsureSocket(s, t) IN [e EXCEPT !.rt.map = e.rt.cur]

Opens(i) ==
    /\ net[i] \in {"opening", "down"} /\ net' = [net EXCEPT ![i] = "open"]
    /\ callbacks' = Append(callbacks, [sock |-> i, status |-> "connected"])
    /\ UNCHANGED <<rt, toks, subs, chat, hasty, outages>>

Fails(i) ==
    /\ outages < MaxOutages /\ outages' = outages + 1
    /\ net[i] \in {"opening", "open"} /\ net' = [net EXCEPT ![i] = "down"]
    /\ callbacks' = Append(callbacks,
            [sock |-> i, status |-> IF net[i] = "open" THEN "disconnected" ELSE "error"])
    /\ chat' = IF i = subs.thread THEN [chat EXCEPT !.joined = FALSE, !.wire = <<>>] ELSE chat
    /\ UNCHANGED <<rt, toks, subs, hasty>>

\* A socket that was given up closes in its own time.
ClosesLate(i) ==
    /\ net[i] = "off" /\ net' = [net EXCEPT ![i] = "closed"]
    /\ callbacks' = Append(callbacks, [sock |-> i, status |-> "disconnected"])
    /\ UNCHANGED <<rt, toks, subs, chat, hasty, outages>>

NeverAgain(r) == FALSE
\* The listeners of a recovery are told of every connection but the first.
IsReconnect(r) == r.ever

AnySocket(r, c) == TRUE
Current(r, c) == c.sock = r.cur

\* onOpen, onClose and onError, then notifyStatusListeners.
Callback ==
    /\ callbacks # <<>> /\ callbacks' = Tail(callbacks)
    /\ LET c  == Head(callbacks)
           up == c.status = "connected"
       IN  IF Current(rt, c)
           THEN /\ rt' = [rt EXCEPT !.status = c.status, !.ever = @ \/ up]
                /\ chat' = [chat EXCEPT !.sync = @ \/ (up /\ IsReconnect(rt))]
           ELSE UNCHANGED <<rt, chat>>
    /\ UNCHANGED <<net, toks, subs, hasty, outages>>

-----------------------------------------------------------------------------
(* The hooks.                                                              *)

Here == [rt |-> rt, net |-> net]
Renders(s) == rt' = s.rt /\ net' = s.net

\* What the thread had on a socket that is gone is not heard any more.
Heard(s, on) ==
    IF s.net[on] = "off" \/ on # subs.thread THEN [chat EXCEPT !.joined = FALSE, !.wire = <<>>] ELSE chat

\* A token is refreshed: the first render has it for the typing indicator.
Refresh ==
    /\ toks.ctx = toks.scope /\ toks.scope < MaxTokens
    /\ toks' = [toks EXCEPT !.scope = @ + 1]
    /\ LET s == EnsureChat(Here, toks'.scope)
       IN  Renders(s) /\ subs' = [subs EXCEPT !.typing = s.rt.map]
    /\ UNCHANGED <<callbacks, chat, hasty, outages>>

\* Another server is chosen: setDefaultRealtimeBaseUrl, and the same.
Switch ==
    /\ toks.ctx = toks.scope /\ toks.scope < MaxTokens
    /\ toks' = [toks EXCEPT !.scope = @ + 1]
    /\ LET gone == [rt  |-> [rt EXCEPT !.cur = 0, !.tok = 0, !.status = "disconnected", !.map = 0],
                    net |-> [i \in DOMAIN net |-> IF i = rt.cur THEN "off" ELSE net[i]]]
           s == EnsureChat(gone, toks'.scope)
       IN  Renders(s) /\ subs' = [subs EXCEPT !.typing = s.rt.map, !.presence = 0]
    /\ chat' = [OpenChat EXCEPT !.sync = FALSE] /\ hasty' = FALSE
    /\ UNCHANGED <<callbacks, outages>>

\* The context has followed: the thread subscribes and syncs, then the call does.
Rerender ==
    /\ toks.ctx # toks.scope /\ toks' = [toks EXCEPT !.ctx = toks.scope]
    /\ LET s == EnsureChat(Here, toks.scope)
           e == EnsureSocket(s, toks.scope)
       IN  /\ Renders(e) /\ subs' = [subs EXCEPT !.thread = s.rt.map, !.call = e.rt.cur]
           /\ chat' = [Heard(e, s.rt.map) EXCEPT !.sync = TRUE]
    /\ hasty' = (hasty \/ (rt.tok # toks.scope /\ rt.status # "connected"))
    /\ UNCHANGED <<callbacks, outages>>

-----------------------------------------------------------------------------
(* The open chat.                                                          *)

Joins ==
    /\ toks.ctx = toks.scope /\ ~chat.joined /\ net[subs.thread] = "open"
    /\ chat' = [chat EXCEPT !.joined = TRUE]
    /\ UNCHANGED <<rt, net, callbacks, toks, subs, hasty, outages>>

\* A connection that the listeners will be told of is to come.
SyncAhead == rt.ever /\ ~(rt.status = "connected" /\ net[rt.cur] = "open")

Sent ==
    /\ chat.sent < MaxSent
    /\ chat' = [chat EXCEPT !.sent = @ + 1,
            !.wire = IF chat.joined THEN Append(@, chat.sent + 1) ELSE @,
            !.gap  = @ \/ (~chat.joined /\ ~chat.sync /\ ~SyncAhead)]
    /\ UNCHANGED <<rt, net, callbacks, toks, subs, hasty, outages>>

Pushed ==
    /\ chat.wire # <<>>
    /\ chat' = [chat EXCEPT !.wire = Tail(@), !.has = @ \cup {Head(chat.wire)}]
    /\ UNCHANGED <<rt, net, callbacks, toks, subs, hasty, outages>>

Syncs ==
    /\ chat.sync /\ chat' = [chat EXCEPT !.sync = FALSE, !.has = 1 .. chat.sent, !.gap = FALSE]
    /\ UNCHANGED <<rt, net, callbacks, toks, subs, hasty, outages>>

Next ==
    \/ \E i \in DOMAIN net : Opens(i) \/ Fails(i) \/ ClosesLate(i)
    \/ Callback \/ Refresh \/ Switch \/ Rerender \/ Joins \/ Sent \/ Pushed \/ Syncs

Spec == Init /\ [][Next]_rtVars

-----------------------------------------------------------------------------
\* The type of every variable.
TypeOK ==
    /\ rt.cur \in 0 .. Len(net) /\ rt.map \in 0 .. Len(net) /\ rt.tok \in 0 .. MaxTokens
    /\ rt.status \in {"connecting", "connected", "disconnected", "error"}
    /\ \A i \in DOMAIN net : net[i] \in {"opening", "open", "down", "off", "closed"}
    /\ \A h \in DOMAIN subs : subs[h] \in 0 .. Len(net)
    /\ chat.has \subseteq 1 .. chat.sent /\ chat.sync \in BOOLEAN /\ hasty \in BOOLEAN

Settled == toks.ctx = toks.scope
Told == callbacks = <<>>

\* Once the hooks have followed a token, the call's channel is on the current
\* socket, and so are the thread's and the indicator's, unless the token
\* changed while the socket was not connected.
HooksFollow ==
    Settled => /\ subs.call = rt.cur
               /\ hasty \/ (subs.thread = rt.cur /\ subs.typing = rt.cur)

\* The status shown is the current socket's, whatever the others still tell.
StatusIsSockets == Told => (rt.status = "connected" <=> net[rt.cur] = "open")

\* A thread at rest on the current socket shows every message, those sent
\* while it was down as well, but for one sent between the sync and the join.
CaughtUp ==
    Settled /\ Told /\ subs.thread = rt.cur /\ chat.joined /\ chat.wire = <<>> /\ ~chat.sync /\ ~chat.gap
        => chat.has = 1 .. chat.sent

\* No token leaves the thread's channel on a socket that is given up.
NoneIsStranded == Settled => subs.thread = rt.cur

-----------------------------------------------------------------------------
(* What makes them inductive.                                              *)

Status == {"connecting", "connected", "disconnected", "error"}
Socket == {"opening", "open", "down", "off", "closed"}
Numbers == 1 .. Len(callbacks)

Types ==
    /\ rt \in [cur: Nat \ {0}, tok: 0 .. MaxTokens, status: Status, ever: BOOLEAN, map: Nat]
    /\ net \in Seq(Socket) /\ callbacks \in Seq([sock: Nat, status: Status])
    /\ toks \in [scope: 1 .. MaxTokens, ctx: 1 .. MaxTokens]
    /\ subs \in [thread: Nat, call: Nat, typing: Nat, presence: Nat]
    /\ chat \in [joined: BOOLEAN, wire: Seq(Nat), sent: Nat, has: SUBSET Nat,
                 sync: BOOLEAN, gap: BOOLEAN]
    /\ hasty \in BOOLEAN

\* What is told of, and what a hook is on, is a socket that was made; what is
\* shown was sent.
Bounds ==
    /\ rt.cur =< Len(net)
    /\ \A i \in Numbers : callbacks[i].sock =< Len(net)
    /\ subs.thread \in 1 .. Len(net)
    /\ {subs.call, subs.typing, subs.presence} \subseteq 0 .. Len(net)
    /\ chat.has \subseteq 1 .. chat.sent
    /\ \A i \in 1 .. Len(chat.wire) : chat.wire[i] \in 1 .. chat.sent

\* The current socket is not given up; until the hooks have followed a token,
\* the module's channel is on it, and the indicator's with it.
CurrentIsLive ==
    /\ net[rt.cur] \notin {"off", "closed"} /\ rt.map \in {0, rt.cur}
    /\ ~Settled => rt.map = rt.cur /\ subs.typing = rt.cur
    /\ rt.status = "connected" => rt.ever

Up == net[rt.cur] = "open"
TellsUp(i) == callbacks[i].sock = rt.cur /\ callbacks[i].status = "connected"
TellsDown(i) == callbacks[i].sock = rt.cur /\ callbacks[i].status # "connected"

\* What the status, or something told of the current socket, has wrong is told
\* later.
StatusFollows ==
    /\ Up /\ rt.status # "connected" => \E j \in Numbers : TellsUp(j)
    /\ ~Up /\ rt.status = "connected" => \E j \in Numbers : TellsDown(j)
    /\ \A i \in Numbers :
          /\ Up /\ TellsDown(i) => \E j \in Numbers : j > i /\ TellsUp(j)
          /\ ~Up /\ TellsUp(i) => \E j \in Numbers : j > i /\ TellsDown(j)

\* The thread is to sync: a connection that is not the first is to come or to
\* be told of.
SyncComes ==
    \/ chat.sync
    \/ rt.ever /\ ~Up
    \/ \E i \in Numbers : /\ TellsUp(i)
                          /\ rt.ever \/ ~Up \/ \E j \in Numbers \ {i} : TellsUp(j)

\* What the thread has no prospect of, it has or is about to hear.
HearsAll ==
    /\ chat.joined => net[subs.thread] \in {"open", "off", "closed"}
    /\ ~chat.joined => chat.wire = <<>>
    /\ Settled /\ subs.thread = rt.cur /\ ~chat.gap /\ ~SyncComes =>
          \A m \in 1 .. chat.sent : m \in chat.has \/ \E i \in 1 .. Len(chat.wire) : chat.wire[i] = m

IInv == Types /\ Bounds /\ CurrentIsLive /\ HooksFollow /\ StatusFollows /\ HearsAll
=============================================================================

------------------------------- MODULE Drafts -------------------------------
(* What a user has begun to write in each chat: the composer, the debounced*)
(* save, the save when another chat is opened, and the drafts' database,   *)
(* whose requests are served in order.                                     *)
(*                                                                         *)
(* The database answers before the user acts again.                        *)
EXTENDS Naturals, Sequences

CONSTANTS Chats, Texts, None, MaxKeys

VARIABLES
    chat,       \* the chat that is open
    composer,   \* what the composer shows; None is blank
    last,       \* lastSavedTextRef
    timer,      \* saveTimerRef, with what its callback captured
    ops,        \* requests to the database
    drafts,     \* the database
    listed,     \* draftChatIds, shown in the sidebar
    sending,    \* the text of a message that is being sent
    wrote,      \* history: what the user left in each chat
    rushed,     \* history: the user went on while a message was being sent
    keys        \* what the user has done

drVars == <<chat, composer, last, timer, ops, drafts, listed, sending, wrote, rushed, keys>>

Text == Texts \cup {None}

Init ==
    /\ chat = None /\ composer = None /\ last = None /\ timer = None /\ ops = <<>>
    /\ drafts = [c \in Chats |-> None] /\ listed = drafts /\ wrote = drafts
    /\ sending = None /\ rushed = FALSE /\ keys = 0

Acts == keys < MaxKeys /\ keys' = keys + 1 /\ ops = <<>>

\* writeDraft, or clearDraft for a blank text.
Save(c, t) == [do |-> "save", chat |-> c, text |-> t]
Read(c) == [do |-> "read", chat |-> c, text |-> None]

-----------------------------------------------------------------------------
HandleDraftChange(t) ==
    /\ Acts /\ chat # None /\ composer' = t /\ last' = t
    /\ timer' = [chat |-> chat, text |-> t] /\ wrote' = [wrote EXCEPT ![chat] = t]
    /\ rushed' = (rushed \/ sending # None)
    /\ UNCHANGED <<chat, ops, drafts, listed, sending>>

TimerFires ==
    /\ timer # None /\ timer' = None
    /\ ops' = Append(ops, Save(timer.chat, timer.text))
    /\ UNCHANGED <<chat, composer, last, drafts, listed, sending, wrote, keys, rushed>>

\* The chat that is left is saved or cleared, the new one's draft is read;
\* the timer goes on, and the composer shows what it showed.
ChatChanges(c) ==
    /\ Acts /\ c # chat /\ chat' = c /\ last' = None
    /\ ops' = (IF chat = None THEN <<>> ELSE <<Save(chat, last)>>) \o <<Read(c)>>
    /\ rushed' = (rushed \/ sending # None)
    /\ UNCHANGED <<composer, timer, drafts, listed, sending, wrote>>

\* sendDraftMessage empties the composer and waits.
SendDraftMessage ==
    /\ Acts /\ chat # None /\ composer # None /\ sending = None
    /\ sending' = [chat |-> chat, text |-> composer] /\ composer' = None
    /\ wrote' = [wrote EXCEPT ![chat] = None]
    /\ UNCHANGED <<chat, last, timer, ops, drafts, listed, rushed>>

KeepTimer == timer
NoTimerLeft == None

\* handleMessageSent, of the chat it was sent in; a send that fails puts its
\* text back into the composer, whatever is open.
HandleMessageSent ==
    /\ sending # None /\ sending' = None
    /\ composer' \in {composer, sending.text}
    /\ last' = None /\ timer' = NoTimerLeft
    /\ ops' = Append(ops, Save(sending.chat, None))
    /\ UNCHANGED <<chat, drafts, listed, wrote, keys, rushed>>

-----------------------------------------------------------------------------
\* What was read is what will be saved when the chat is left.
TakeRead(t) == last' = t

Serve ==
    LET o == Head(ops) IN
    /\ ops # <<>> /\ ops' = Tail(ops)
    /\ IF o.do = "save"
       THEN /\ drafts' = [drafts EXCEPT ![o.chat] = o.text]
            /\ listed' = [listed EXCEPT ![o.chat] = o.text]
            /\ UNCHANGED <<composer, last>>
       ELSE /\ UNCHANGED <<drafts, listed>>
            /\ IF drafts[o.chat] = None THEN UNCHANGED <<composer, last>>
               ELSE composer' = drafts[o.chat] /\ TakeRead(drafts[o.chat])
    /\ UNCHANGED <<chat, timer, sending, wrote, keys, rushed>>

Next ==
    \/ \E t \in Text : HandleDraftChange(t)
    \/ \E c \in Chats : ChatChanges(c)
    \/ TimerFires \/ SendDraftMessage \/ HandleMessageSent \/ Serve

Spec == Init /\ [][Next]_drVars

-----------------------------------------------------------------------------
\* The type of every variable.
TypeOK ==
    /\ chat \in Chats \cup {None} /\ {composer, last} \subseteq Text
    /\ sending \in [chat: Chats, text: Text] \cup {None} /\ rushed \in BOOLEAN
    /\ timer \in [chat: Chats, text: Text] \cup {None}
    /\ \A i \in DOMAIN ops : ops[i] \in [do: {"save", "read"}, chat: Chats, text: Text]
    /\ {drafts, listed, wrote} \subseteq [Chats -> Text] /\ keys \in 0 .. MaxKeys

\* When nothing is under way, the database and the sidebar have for every chat
\* what its user left there last, and nothing once it was sent: also when chats
\* are changed, or a message sent, within the half second of the debounce.  A
\* user who goes on while a message is being sent may lose what he writes.
DraftsAreKept ==
    ~rushed /\ ops = <<>> /\ timer = None /\ sending = None => drafts = wrote /\ listed = wrote

-----------------------------------------------------------------------------
(* What makes them inductive, for a user who waits while a message is sent. *)

Requests == [do: {"save", "read"}, chat: Chats, text: Text]
SavesOf(c) == {i \in DOMAIN ops : ops[i].do = "save" /\ ops[i].chat = c}
Reads == {i \in DOMAIN ops : ops[i].do = "read"}

\* The database will have what the user left in a chat, once its requests are served.
WillHave(c) ==
    \/ SavesOf(c) = {} /\ drafts[c] = wrote[c]
    \/ \E i \in SavesOf(c) : ops[i].text = wrote[c] /\ \A j \in SavesOf(c) : j =< i

TimerOf(c) == timer # None /\ timer.chat = c
SendingOf(c) == sending # None /\ sending.chat = c

\* Of the open chat a timer may be needed for that, and of one with a message
\* under way what clears it afterwards; a chat that was left needs neither.
LeftIsSaved ==
    \A c \in Chats :
        /\ WillHave(c) \/ (TimerOf(c) /\ chat = c) \/ SendingOf(c)
        /\ TimerOf(c) => timer.text = wrote[c] \/ SendingOf(c)

\* A draft that is being read is what the user left, whatever is saved before it.
ReadIsLeft ==
    \A i \in Reads :
        /\ chat = ops[i].chat /\ last = None /\ drafts[chat] = wrote[chat]
        /\ \A j \in DOMAIN ops : j < i => ops[j].chat # chat

\* What will be saved when the open chat is left is what the user left there,
\* and nothing while a message of it is being sent.
LastIsLeft ==
    IF sending = None THEN chat # None /\ Reads = {} => last = wrote[chat]
    ELSE Reads = {} /\ sending.chat = chat /\ wrote[chat] = None

IInv ==
    /\ TypeOK /\ ops \in Seq(Requests) /\ listed = drafts
    /\ rushed \/ (LeftIsSaved /\ ReadIsLeft /\ LastIsLeft)
=============================================================================

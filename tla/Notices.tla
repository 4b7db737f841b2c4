------------------------------ MODULE Notices ------------------------------
(***************************************************************************)
(* Desktop notifications (hooks/useNotifications.ts, lib/notifications.ts):*)
(* which messages of the open chat a window that is out of focus tells of. *)
(*                                                                         *)
(* Two effects run after a render in which what they depend on changed.    *)
(* One forgets the ids it knows when another chat is opened; the other     *)
(* compares the messages shown with those ids, and looks at the focus only *)
(* then.  When a chat is opened the messages shown are still those of the  *)
(* chat before, until its thread is there.                                 *)
(*                                                                         *)
(* Replies in channels, the notification's wording and its sound are left  *)
(* out, and so are settings that change while nobody looks.                *)
(***************************************************************************)
EXTENDS Naturals, FiniteSets

CONSTANTS
    Chats,
    Notes,        \* messages, each of which arrives once
    Own,          \* those among them the user sends
    MaxLooks,     \* changes of focus and of the open chat
    None

VARIABLES
    focused, granted, wanted,  \* the window, the permission, the user's setting
    viewing, loaded,           \* the chat that is open, and whether its thread is shown
    threads,      \* the messages of each chat
    items,        \* messageItems: what the page shows
    known, first, \* previousMessageIdsRef and initialLoadRef
    told,         \* told[m]: notifications of m since the chat was opened
    seen,         \* history: messages shown in focus since the chat was opened
    looks

vars == <<focused, granted, wanted, viewing, loaded, threads, items, known, first, told, seen, looks>>

NotTold == [m \in Notes |-> 0]

Init ==
    /\ focused \in BOOLEAN
    /\ granted = FALSE /\ wanted = TRUE
    /\ viewing = None /\ loaded = FALSE
    /\ threads \in {[c \in Chats |-> {}], [c \in Chats |-> {CHOOSE m \in Notes \ Own : TRUE}]}
    /\ items = {} /\ known = {} /\ first = TRUE
    /\ told = NotTold /\ seen = {} /\ looks = 0

Looks == looks < MaxLooks /\ looks' = looks + 1

-----------------------------------------------------------------------------
(* The effects *)

\* MUTANT: what is shown in focus is not noted.
KnownUnseen(ids) == IF focused THEN known ELSE ids

KnownNow(ids) == ids

\* MUTANT: every message shown is told of, known or not.
NewAgain(ids) == ids \ Own

New(ids) == (ids \ known) \ Own

\* MUTANT: the flag of a first run stays.
StillFirst == first

FirstOver == FALSE

\* The watch effect, for the messages shown and the chat open after the step.
Watch(ids) ==
    IF viewing' = None \/ ~granted' \/ ~wanted'
    THEN UNCHANGED <<known, first, told>>
    ELSE /\ first' = FirstOver
         /\ known' = IF first THEN ids ELSE KnownNow(ids)
         /\ told' = IF first \/ focused THEN told
                    ELSE [m \in Notes |-> IF m \in New(ids) THEN told[m] + 1 ELSE told[m]]

\* Opening a chat: the first effect, then the second with what is still shown.
Restarts(ids) ==
    /\ told' = NotTold
    /\ IF granted /\ wanted THEN known' = ids /\ first' = FALSE
       ELSE known' = {} /\ first' = TRUE

Sees(ids) == seen' = IF focused' THEN seen \cup ids ELSE seen

-----------------------------------------------------------------------------
(* Steps *)

SelectChat(c) ==
    /\ Looks
    /\ c # viewing
    /\ viewing' = c /\ loaded' = FALSE
    /\ items' \in {items, {}}
    /\ Restarts(items')
    /\ seen' = {}
    /\ UNCHANGED <<focused, granted, wanted, threads>>

\* The thread of the chat is shown: from the cache, or from the server.  Only
\* a window in focus is sure not to tell of it (see README).
ThreadLoaded ==
    /\ viewing # None /\ ~loaded
    /\ loaded' = TRUE
    /\ items' = threads[viewing]
    /\ UNCHANGED <<focused, granted, wanted, viewing, threads, looks>>
    /\ Watch(items') /\ Sees(items')

\* A message arrives, or one of the user's own is sent.
Arrives(c, m) ==
    /\ \A d \in Chats : m \notin threads[d]
    /\ threads' = [threads EXCEPT ![c] = @ \cup {m}]
    /\ UNCHANGED <<focused, granted, wanted, viewing, loaded, looks>>
    /\ IF c = viewing /\ loaded
       THEN items' = threads'[c] /\ Watch(items') /\ Sees(items')
       ELSE UNCHANGED <<items, known, first, told, seen>>

\* The chat list changed, or another thing the effect depends on.
Rerender ==
    /\ UNCHANGED <<focused, granted, wanted, viewing, loaded, threads, items, seen, looks>>
    /\ Watch(items)

\* requestNotificationPermission answers, whenever the user does.
Grant ==
    /\ ~granted
    /\ granted' = TRUE
    /\ UNCHANGED <<focused, wanted, viewing, loaded, threads, items, seen, looks>>
    /\ Watch(items)

\* The setting, which the user changes in the window.
Toggle ==
    /\ Looks /\ focused
    /\ wanted' = ~wanted
    /\ UNCHANGED <<focused, granted, viewing, loaded, threads, items, seen>>
    /\ Watch(items)

\* Focus comes and goes with no render.
Focus ==
    /\ Looks
    /\ focused' = ~focused
    /\ Sees(IF loaded THEN items ELSE {})
    /\ UNCHANGED <<granted, wanted, viewing, loaded, threads, items, known, first, told>>

Next ==
    \/ \E c \in Chats : SelectChat(c)
    \/ ThreadLoaded
    \/ \E c \in Chats, m \in Notes : Arrives(c, m)
    \/ Rerender \/ Grant \/ Toggle \/ Focus

Spec == Init /\ [][Next]_vars

-----------------------------------------------------------------------------
(* Properties *)

\* Types: what is known or told of is in some thread.
TypeOK ==
    /\ focused \in BOOLEAN /\ granted \in BOOLEAN /\ wanted \in BOOLEAN
    /\ loaded \in BOOLEAN /\ first \in BOOLEAN
    /\ viewing \in Chats \cup {None}
    /\ threads \in [Chats -> SUBSET Notes]
    /\ items \cup known \cup seen \subseteq UNION {threads[c] : c \in Chats}
    /\ told \in [Notes -> Nat]
    /\ looks \in 0 .. MaxLooks

\* While a chat stays open, no message is told of twice, nor any of the user's own.
ToldOnce == \A m \in Notes : told[m] =< (IF m \in Own THEN 0 ELSE 1)

\* A message that has been shown in focus since the chat was opened is not told
\* of later, whatever the setting, the permission and the focus do.
SeenIsNotTold ==
    [][\A m \in Notes : m \in seen => told'[m] =< told[m]]_vars

\* A message that arrives in the chat that is open, in a window out of focus
\* that may tell of it, is told of at once: the run that only records what is
\* there has been before.
NewIsTold ==
    [][\A m \in Notes \ Own :
          /\ granted /\ wanted /\ ~focused /\ loaded
          /\ loaded' /\ viewing' = viewing /\ m \in items' \ items
          => told'[m] = told[m] + 1]_vars

-----------------------------------------------------------------------------
(* What makes them inductive.                                              *)

\* Once the thread is there it is what is shown, and what was seen is of it;
\* before that nothing was seen or told of.
ShownIsOpen ==
    /\ loaded => viewing \in Chats /\ items = threads[viewing] /\ seen \subseteq items
    /\ ~loaded => seen = {} /\ told = NotTold

\* While the page may tell, it knows all it shows; before it ever may, the run
\* that only records is still to come.
KnowsWhatItShows ==
    /\ viewing # None /\ granted /\ wanted => ~first /\ known = items
    /\ ~granted => first

ToldIsKnown == \A m \in Notes : told[m] # 0 => m \in known \cap items

IInv == TypeOK /\ ToldOnce /\ ShownIsOpen /\ KnowsWhatItShows /\ ToldIsKnown
=============================================================================

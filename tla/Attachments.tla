---------------------------- MODULE Attachments ----------------------------
(* Files and recordings on their way into a chat: the recorder, the upload *)
(* of an encrypted file in parts with its three passes, the retries until  *)
(* the chat's sessions are there, the post, and the bubble shown meanwhile.*)
(*                                                                         *)
(* A recording keeps the chat of the render it was begun in.  The user     *)
(* asks for one stream of a kind at a time; a chat's thread follows the    *)
(* chat that is open at once (Thread has what lies between).               *)
EXTENDS Naturals, FiniteSets

CONSTANTS
    Chats, Start,   \* chats, and the one that is open first
    Sends,          \* files and recordings the user may send
    Parts,          \* indexes of an upload's parts, from 0
    None,
    MaxAttempts,    \* attempts to encrypt the message
    MaxActs,        \* what the user does
    MaxLosses,      \* parts of uploads whose request or answer is lost
    MaxTroubles     \* other errors, lost answers, refusals

VARIABLES
    open,       \* the chat that is open
    rec,        \* the recorders of voice notes and round videos
    thumb,      \* roundVideoThumbnailRef: the recording it was taken of
    send,       \* each sendAttachmentFile
    bubbles,    \* optimistic messages in each chat's thread
    up,         \* the server: parts and completion of each upload
    stored,     \* the server: messages
    outbox,     \* messages left to the outbox
    acts, losses, troubles

page == <<open, rec, thumb>>
server == <<up, stored>>
atVars == <<page, send, bubbles, server, outbox, acts, losses, troubles>>

Kinds == {"voice", "round"}
Off == [at |-> "off", s |-> None, chat |-> None]
NotSent == [at |-> "new", kind |-> "file", chat |-> None, thumb |-> None,
            have |-> {}, pass |-> 0, next |-> 0, tries |-> 0]

Init ==
    /\ open = Start /\ rec = [k \in Kinds |-> Off] /\ thumb = None
    /\ send = [s \in Sends |-> NotSent] /\ bubbles = [c \in Chats |-> {}]
    /\ up = [s \in Sends |-> [parts |-> {}, done |-> FALSE]]
    /\ stored = {} /\ outbox = {} /\ acts = 0 /\ losses = 0 /\ troubles = 0

Act == acts < MaxActs /\ acts' = acts + 1 /\ UNCHANGED <<losses, troubles>>
Loss == losses < MaxLosses /\ losses' = losses + 1 /\ UNCHANGED <<acts, troubles>>
Trouble == troubles < MaxTroubles /\ troubles' = troubles + 1 /\ UNCHANGED <<acts, losses>>
Smooth == UNCHANGED <<acts, losses, troubles>>

-----------------------------------------------------------------------------
(* Recording.                                                              *)

SelectChat(c) ==
    /\ Act /\ c # open /\ open' = c
    /\ UNCHANGED <<rec, thumb, send, bubbles, server, outbox>>

\* Which recorder's bar stands in place of the composer.
RecorderShown(k) ==
    LET Busy(j) == rec[j].at \in {"on", "grabbing", "stopping"}
    IN  Busy(k) /\ (k = "voice" => ~Busy("round"))
Composer == \A k \in Kinds : rec[k].at \in {"off", "asking"}

Unused(s) == send[s].at = "new" /\ \A k \in Kinds : rec[k].s # s

\* The callbacks made here are those of the chat that is open now.
AskRecording(k, s) ==
    /\ Act /\ Composer /\ rec[k] = Off /\ Unused(s)
    /\ rec' = [rec EXCEPT ![k] = [at |-> "asking", s |-> s, chat |-> open]]
    /\ UNCHANGED <<open, thumb, send, bubbles, server, outbox>>

RecordingStarts(k) ==
    /\ rec[k].at = "asking" /\ rec' = [rec EXCEPT ![k].at = "on"]
    /\ UNCHANGED <<open, thumb, send, bubbles, server, outbox>> /\ Smooth

RecordingDenied(k) ==
    /\ rec[k].at = "asking" /\ rec' = [rec EXCEPT ![k] = Off] /\ Trouble
    /\ UNCHANGED <<open, thumb, send, bubbles, server, outbox>>

\* The button that sends a round video, and the one that is to delete it,
\* first take a picture from the camera.
StopRecording(k) ==
    /\ Act /\ RecorderShown(k) /\ rec[k].at = "on"
    /\ rec' = [rec EXCEPT ![k].at = IF k = "round" THEN "grabbing" ELSE "stopping"]
    /\ UNCHANGED <<open, thumb, send, bubbles, server, outbox>>

Grabbed(k) ==
    /\ rec[k].at = "grabbing" /\ rec' = [rec EXCEPT ![k].at = "stopping"]
    /\ \/ thumb' = rec[k].s /\ Smooth
       \/ thumb' = thumb /\ Trouble
    /\ UNCHANGED <<open, send, bubbles, server, outbox>>

DiscardRecording ==
    /\ Act /\ RecorderShown("voice") /\ rec["voice"].at = "on"
    /\ rec' = [rec EXCEPT !["voice"] = Off]
    /\ UNCHANGED <<open, thumb, send, bubbles, server, outbox>>

\* sendAttachmentFile up to its first wait: the picture goes to whatever is
\* sent next.
Begin(s, kind, c) ==
    /\ send' = [send EXCEPT ![s] = [NotSent EXCEPT !.at = "preparing", !.kind = kind,
                                                   !.chat = c, !.thumb = thumb]]
    /\ thumb' = None

RecordingStopped(k) ==
    /\ rec[k].at = "stopping" /\ rec' = [rec EXCEPT ![k] = Off]
    /\ Begin(rec[k].s, k, rec[k].chat)
    /\ UNCHANGED <<open, bubbles, server, outbox>> /\ Smooth

RecordingEmpty(k) ==
    /\ rec[k].at = "stopping" /\ rec' = [rec EXCEPT ![k] = Off] /\ Trouble
    /\ UNCHANGED <<open, thumb, send, bubbles, server, outbox>>

PickFile(s) ==
    /\ Act /\ Composer /\ Unused(s) /\ Begin(s, "file", open)
    /\ UNCHANGED <<open, rec, bubbles, server, outbox>>

-----------------------------------------------------------------------------
(* The thread, which is changed only while its chat is open.               *)

Shown(s) == [bubbles EXCEPT ![send[s].chat] =
                IF open = send[s].chat THEN @ \cup {s} ELSE @]
TakenDown(s) == [bubbles EXCEPT ![send[s].chat] =
                IF open = send[s].chat THEN @ \ {s} ELSE @]

At(s, at) == send' = [send EXCEPT ![s].at = at]

Prepared(s) ==
    /\ send[s].at = "preparing" /\ At(s, "create") /\ bubbles' = Shown(s)
    /\ UNCHANGED <<page, server, outbox>> /\ Smooth

\* The outer catch.  An error about encryption leaves the bubble.
Fail(s, transient) ==
    /\ At(s, "failed") /\ bubbles' = IF transient THEN bubbles ELSE TakenDown(s)

-----------------------------------------------------------------------------
(* The upload.                                                             *)

CreateUpload(s) ==
    /\ send[s].at = "create"
    /\ \/ At(s, "upload") /\ UNCHANGED bubbles /\ Smooth
       \/ Fail(s, FALSE) /\ Trouble
    /\ UNCHANGED <<page, server, outbox>>

PassesFewer == 2
Passes == 3
Ahead(s) == {p \in Parts : p >= send[s].next /\ p \notin send[s].have}
NextPart(s) == {p \in Ahead(s) : \A q \in Ahead(s) : p <= q}

\* The server keeps a part it has.
AppendPart(s, p) == up' = [up EXCEPT ![s].parts = @ \cup {p}]

PartUploaded(s) ==
    /\ send[s].at = "upload"
    /\ \E p \in NextPart(s) :
          /\ AppendPart(s, p)
          /\ send' = [send EXCEPT ![s].have = up'[s].parts, ![s].next = p + 1]
    /\ UNCHANGED <<page, bubbles, stored, outbox>> /\ Smooth

\* The request or its answer is lost: what the server has is asked for,
\* unless this was the last pass.
PartLost(s) ==
    /\ Loss /\ send[s].at = "upload"
    /\ \E p \in NextPart(s) :
          /\ AppendPart(s, p) \/ UNCHANGED up
          /\ IF send[s].pass + 1 >= Passes THEN Fail(s, FALSE)
             ELSE /\ send' = [send EXCEPT ![s].at = "asking", ![s].next = p + 1]
                  /\ UNCHANGED bubbles
    /\ UNCHANGED <<page, stored, outbox>>

UploadState(s) ==
    /\ send[s].at = "asking"
    /\ \/ send' = [send EXCEPT ![s].at = "upload", ![s].have = up[s].parts]
          /\ UNCHANGED bubbles /\ Smooth
       \/ Fail(s, FALSE) /\ Trouble
    /\ UNCHANGED <<page, server, outbox>>

AllParts(s) == send[s].have = Parts

PassEnds(s) ==
    /\ send[s].at = "upload" /\ Ahead(s) = {}
    /\ IF AllParts(s) THEN At(s, "complete")
       ELSE send' = [send EXCEPT ![s].pass = @ + 1, ![s].next = 0]
    /\ UNCHANGED <<page, bubbles, server, outbox>> /\ Smooth

HasEvery(s) == up[s].parts = Parts

\* The server takes only what is whole.
CompleteUpload(s) ==
    /\ send[s].at = "complete"
    /\ \/ /\ HasEvery(s) /\ up' = [up EXCEPT ![s].done = TRUE]
          /\ At(s, "build") /\ bubbles' = Shown(s) /\ Smooth
       \/ /\ HasEvery(s) /\ up' = [up EXCEPT ![s].done = TRUE]
          /\ Fail(s, FALSE) /\ Trouble
       \/ Fail(s, FALSE) /\ up' = up /\ (IF HasEvery(s) THEN Trouble ELSE Smooth)
    /\ UNCHANGED <<page, stored, outbox>>

-----------------------------------------------------------------------------
(* The message.                                                            *)

GiveUp(s) == send[s].tries + 1 = MaxAttempts

BuildPayload(s) ==
    /\ send[s].at = "build"
    /\ \/ At(s, "post") /\ UNCHANGED bubbles /\ Smooth
       \/ /\ Smooth /\ ~GiveUp(s) /\ UNCHANGED bubbles
          /\ send' = [send EXCEPT ![s].tries = @ + 1]
       \/ Trouble /\ GiveUp(s) /\ \E transient \in BOOLEAN : Fail(s, transient)
    /\ UNCHANGED <<page, server, outbox>>

Posted(s) ==
    /\ send[s].at = "post" /\ At(s, "ingest") /\ stored' = stored \cup {s}
    /\ UNCHANGED <<page, bubbles, up, outbox>> /\ Smooth

LeaveQuiet(s) == At(s, "failed") /\ outbox' = outbox
LeaveForgotten(s) == At(s, "queued") /\ outbox' = outbox
\* queueMessageForOutbox; the record carries the payload.
Leave(s) == At(s, "queued") /\ outbox' = outbox \cup {s}

PostLost(s) ==
    /\ Trouble /\ send[s].at = "post" /\ Leave(s)
    /\ stored' = stored \cup {s} \/ stored' = stored
    /\ UNCHANGED <<page, bubbles, up>>

\* An answer that shouldQueueOutboxSendFailure takes for final.
PostRefused(s) ==
    /\ Trouble /\ send[s].at = "post" /\ Fail(s, FALSE)
    /\ UNCHANGED <<page, server, outbox>>

\* The answer replaces the bubble, or cannot be read.
Ingested(s) ==
    /\ send[s].at = "ingest" /\ At(s, "sent")
    /\ \/ bubbles' = TakenDown(s) /\ Smooth
       \/ bubbles' = bubbles /\ Trouble
    /\ UNCHANGED <<page, server, outbox>>

-----------------------------------------------------------------------------
(* Around it.                                                              *)

\* replayOutboxMessages; the server has one message per client id.
Replayed(s) ==
    /\ s \in outbox /\ outbox' = outbox \ {s} /\ stored' = stored \cup {s}
    /\ UNCHANGED <<page, send, bubbles, up>> /\ Smooth

SyncNothing == bubbles' = bubbles
\* mergeSyncedMessageThread: a message from the server replaces its bubble.
SyncThread == bubbles' = [bubbles EXCEPT ![open] = @ \ stored]

Sync ==
    /\ bubbles[open] \cap stored # {} /\ SyncThread
    /\ UNCHANGED <<page, send, server, outbox>> /\ Smooth

-----------------------------------------------------------------------------
Goes(s) ==
    \/ Prepared(s) \/ CreateUpload(s) \/ PartUploaded(s) \/ UploadState(s) \/ PassEnds(s)
    \/ CompleteUpload(s) \/ BuildPayload(s) \/ Posted(s) \/ Ingested(s) \/ Replayed(s)

Next ==
    \/ \E c \in Chats : SelectChat(c)
    \/ \E k \in Kinds : \/ \E s \in Sends : AskRecording(k, s)
                        \/ RecordingStarts(k) \/ RecordingDenied(k) \/ StopRecording(k)
                        \/ Grabbed(k) \/ RecordingStopped(k) \/ RecordingEmpty(k)
    \/ DiscardRecording \/ Sync
    \/ \E s \in Sends : PickFile(s) \/ Goes(s) \/ PartLost(s) \/ PostLost(s) \/ PostRefused(s)

Spec == Init /\ [][Next]_atVars

\* Requests end, the outbox is replayed and the open chat synced.
FairSpec ==
    /\ Spec /\ WF_atVars(Sync) /\ \A s \in Sends : WF_atVars(Goes(s))

-----------------------------------------------------------------------------
\* The type of every variable; what is sent has its chat.
Steps == {"new", "preparing", "create", "upload", "asking", "complete", "build", "post",
          "ingest", "sent", "queued", "failed"}

TypeOK ==
    /\ open \in Chats /\ thumb \in Sends \cup {None}
    /\ rec \in [Kinds -> [at: {"off", "asking", "on", "grabbing", "stopping"},
                          s: Sends \cup {None}, chat: Chats \cup {None}]]
    /\ \A s \in Sends : /\ send[s].at \in Steps /\ send[s].have \subseteq Parts
                        /\ send[s].pass < Passes /\ send[s].tries < MaxAttempts
                        /\ send[s].at # "new" => send[s].chat \in Chats
    /\ bubbles \in [Chats -> SUBSET Sends]
    /\ up \in [Sends -> [parts: SUBSET Parts, done: BOOLEAN]]
    /\ stored \subseteq Sends /\ outbox \subseteq Sends

\* Fewer lost parts than passes, and no other trouble, make no send fail.
LossesAreMadeUp ==
    losses < 3 /\ troubles = 0 => \A s \in Sends : send[s].at # "failed"

\* The user is told that sending failed only if the message is not, and will
\* not be, in the chat: sending it again makes no second one.
FailureIsTrue == \A s \in Sends : send[s].at = "failed" => s \notin stored \cup outbox

\* What is sent is stored in the end, or the user is told (a send that has
\* begun is never new again).
Settles == \A s \in Sends : []<>(send[s].at = "new" \/ s \in stored \/ send[s].at = "failed")

\* In a chat that stays open no bubble stays beside the message it stands for.
BubblesGo ==
    \A c \in Chats : <>[](open = c) => <>[](bubbles[c] \cap stored = {})

-----------------------------------------------------------------------------
(* What makes them inductive.                                              *)

Sending == [at: Steps, kind: Kinds \cup {"file"}, chat: Chats \cup {None},
            thumb: Sends \cup {None}, have: SUBSET Parts, pass: Nat, next: Nat, tries: Nat]

Types ==
    /\ open \in Chats /\ thumb \in Sends \cup {None}
    /\ rec \in [Kinds -> [at: {"off", "asking", "on", "grabbing", "stopping"},
                          s: Sends \cup {None}, chat: Chats \cup {None}]]
    /\ send \in [Sends -> Sending] /\ bubbles \in [Chats -> SUBSET Sends]
    /\ up \in [Sends -> [parts: SUBSET Parts, done: BOOLEAN]]
    /\ stored \subseteq Sends /\ outbox \subseteq Sends
    /\ acts \in Nat /\ losses \in Nat /\ troubles \in Nat

\* What is being recorded was not sent yet, and is recorded once.
RecordingsAreNew ==
    /\ \A k \in Kinds :
          IF rec[k].at = "off" THEN rec[k].s = None
          ELSE rec[k].s \in Sends /\ rec[k].chat \in Chats /\ send[rec[k].s].at = "new"
    /\ rec["voice"].s = rec["round"].s => rec["voice"].s = None

SendsAreBegun ==
    \A s \in Sends : /\ send[s].at # "new" => send[s].chat \in Chats
                     /\ send[s].pass < Passes /\ send[s].tries < MaxAttempts

\* Each pass lost a part: a part that was passed over was lost in this one, and
\* this is not the last; what is completed is whole.
PassesAreLosses ==
    \A s \in Sends :
        /\ send[s].have \subseteq up[s].parts /\ send[s].pass <= losses
        /\ \A p \in Parts \ send[s].have :
              p < send[s].next => send[s].pass + 1 <= losses /\ send[s].pass + 1 < Passes
        /\ send[s].at = "complete" => send[s].have = Parts

\* A message is at the server, or left to the outbox, by its own send only.
ReachedByItsSend ==
    \A s \in Sends : s \in stored \cup outbox => send[s].at \in {"ingest", "sent", "queued"}

IInv ==
    Types /\ RecordingsAreNew /\ SendsAreBegun /\ PassesAreLosses /\ ReachedByItsSend
        /\ LossesAreMadeUp
=============================================================================

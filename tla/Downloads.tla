----------------------------- MODULE Downloads -----------------------------
(* The attachments of a thread: downloaded by themselves, a few at a time, *)
(* or when they are tapped, decrypted, kept as object URLs up to a bound.  *)
(*                                                                         *)
(* A slot is given back when a download is cancelled and once more when    *)
(* its fetch comes to an end, and twice when the media is gone: activeCount*)
(* is what the manager believes, the runs are what happens.                *)
EXTENDS Integers, Sequences, FiniteSets, SequencesExt

CONSTANTS
    Thread,         \* the attachments of the thread, in its order
    Kind,           \* what each of them is
    Auto,           \* those the settings let download by themselves
    None,           \* no run
    MaxConcurrent,  \* slots
    MaxReady,       \* automatic downloads kept beside the latest
    MaxTaps         \* what the user and the network do

VARIABLES
    dl,             \* the manager: entries, queue, activeCount, runs
    token,          \* a session token is there
    taps

dlVars == <<dl, token, taps>>

Uploads == {Thread[i] : i \in 1 .. Len(Thread)}
Runs == 1 .. Cardinality(Uploads) + MaxTaps

NoRun == [up |-> None, at |-> "none", aborted |-> FALSE]

Init ==
    /\ dl = [st |-> [u \in Uploads |-> "idle"], pri |-> [u \in Uploads |-> "auto"],
             ctl |-> [u \in Uploads |-> None], known |-> <<>>, queue |-> <<>>, count |-> 0,
             runs |-> [r \in Runs |-> NoRun]]
    /\ token = TRUE /\ taps = 0

-----------------------------------------------------------------------------
(* The class's private methods, on the manager's state.                    *)

Running(d) == {r \in Runs : d.runs[r].at # "none"}
Down(n) == IF n > 0 THEN n - 1 ELSE 0

EnsureEntry(d, u) ==
    IF Contains(d.known, u) THEN d ELSE [d EXCEPT !.known = Append(@, u)]

StartDownload(d, u) ==
    LET r == CHOOSE x \in Runs \ Running(d) : \A y \in Runs \ Running(d) : x <= y
    IN  IF ~token THEN [d EXCEPT !.st[u] = "error"]
        ELSE [d EXCEPT !.st[u] = "downloading", !.ctl[u] = r, !.count = @ + 1,
                       !.runs[r] = [up |-> u, at |-> "fetching", aborted |-> FALSE]]

\* Takes from the queue while there is a slot.
ProcessQueue(d) ==
    LET Take(e, u) ==
            IF e.count < MaxConcurrent
            THEN IF e.st[u] = "queued" THEN StartDownload(e, u) ELSE e
            ELSE [e EXCEPT !.queue = Append(@, u)]
    IN  FoldLeft(Take, [d EXCEPT !.queue = <<>>], d.queue)

OverflowLate == MaxReady + 1
Overflow == MaxReady

\* Too many automatic downloads beside u: those entered first are let go.
TrimAutoReadyEntries(d, u) ==
    LET ready == SelectSeq(d.known, LAMBDA v : v # u /\ d.pri[v] = "auto" /\ d.st[v] = "ready")
        gone == {ready[i] : i \in 1 .. Len(ready) - Overflow}
    IN  [d EXCEPT !.st = [v \in Uploads |-> IF v \in gone THEN "idle" ELSE @[v]]]

FinallyQuiet(d, r) ==
    [d EXCEPT !.ctl[d.runs[r].up] = None, !.count = Down(@), !.runs[r] = NoRun]
FinallyKeepsSlot(d, r) ==
    ProcessQueue([d EXCEPT !.ctl[d.runs[r].up] = None, !.runs[r] = NoRun])

\* The end of a run, however it ended.
Finally(d, r) ==
    ProcessQueue([d EXCEPT !.ctl[d.runs[r].up] = None, !.count = Down(@),
                           !.runs[r] = NoRun])

Enqueue(d, u) ==
    IF d.st[u] \notin {"idle", "cancelled"} \/ u \notin Auto THEN d
    ELSE ProcessQueue([EnsureEntry(d, u) EXCEPT !.pri[u] = "auto", !.st[u] = "queued",
                                                !.queue = Append(@, u)])

-----------------------------------------------------------------------------
(* The thread and its user.                                                *)

Idle == SelectSeq(Thread, LAMBDA u : dl.st[u] = "idle")

\* The thread's effect, after every render: whatever is idle is offered.
ProcessAutoDownloads ==
    /\ dl' = FoldLeft(Enqueue, dl, Idle)
    /\ UNCHANGED <<token, taps>>

\* What a tap does depends on how the attachment is drawn.
PhotoTaps == {"idle", "cancelled", "error"}
VideoTaps == {"idle", "cancelled", "error"}
RoundTaps == {"idle", "cancelled", "error"}
FileTaps == {"idle", "cancelled", "error"}
VoiceTaps == {"idle", "cancelled", "error", "expired"}
Taps == [photo |-> PhotoTaps, video |-> VideoTaps, round |-> RoundTaps,
         file |-> FileTaps, voice |-> VoiceTaps]

Busy == {"downloading", "decrypting", "queued"}

\* An aborted fetch is rejected before the user can do anything else.
Rejected == \A r \in Runs : ~(dl.runs[r].aborted /\ dl.runs[r].at = "fetching")
Taps1 == taps < MaxTaps /\ taps' = taps + 1

Download(u) ==
    /\ Taps1 /\ Rejected /\ dl.st[u] \in Taps[Kind[u]]
    /\ dl' = StartDownload([EnsureEntry(dl, u) EXCEPT !.pri[u] = "manual"], u)
    /\ UNCHANGED token

Abort(d, u) ==
    IF d.ctl[u] = None THEN d ELSE [d EXCEPT !.runs[d.ctl[u]].aborted = TRUE]

\* A voice note shows no button to cancel.
Cancel(u) ==
    /\ Taps1 /\ Rejected /\ Kind[u] # "voice" /\ dl.st[u] \in Busy
    /\ dl' = IF dl.st[u] = "queued"
             THEN [dl EXCEPT !.st[u] = "cancelled",
                             !.queue = SelectSeq(@, LAMBDA v : v # u)]
             ELSE ProcessQueue([Abort(dl, u) EXCEPT !.st[u] = "cancelled",
                                                    !.count = Down(@)])
    /\ UNCHANGED token

UpdateToken ==
    /\ Taps1 /\ token' = ~token
    /\ UNCHANGED dl

-----------------------------------------------------------------------------
(* A run: fetched, decrypted, and its end.                                 *)

Set(r, at, status) == [dl EXCEPT !.runs[r].at = at, !.st[dl.runs[r].up] = status]

\* A piece of the answer: the progress is written whatever the state.
Progress(r) ==
    /\ dl.runs[r].at = "fetching" /\ ~dl.runs[r].aborted
    /\ dl.st[dl.runs[r].up] # "downloading"
    /\ dl' = Set(r, "fetching", "downloading")
    /\ UNCHANGED <<token, taps>>

Fetched(r) ==
    /\ dl.runs[r].at = "fetching" /\ ~dl.runs[r].aborted
    /\ dl' = Set(r, "decrypting", "decrypting")
    /\ UNCHANGED <<token, taps>>

Gone(r) ==
    /\ Taps1 /\ dl.runs[r].at = "fetching" /\ ~dl.runs[r].aborted
    /\ dl' = Finally(ProcessQueue([Set(r, "fetching", "expired") EXCEPT !.count = Down(@)]), r)
    /\ UNCHANGED token

Fails(r) ==
    /\ Taps1
    /\ dl.runs[r].at = "decrypting" \/ (dl.runs[r].at = "fetching" /\ ~dl.runs[r].aborted)
    /\ dl' = Finally(Set(r, dl.runs[r].at, "error"), r)
    /\ UNCHANGED token

\* Nothing asks whether the download was cancelled while it was decrypted.
Decrypted(r) ==
    /\ dl.runs[r].at = "decrypting"
    /\ dl' = Finally(TrimAutoReadyEntries(Set(r, "decrypting", "ready"), dl.runs[r].up), r)
    /\ UNCHANGED <<token, taps>>

Rejects(r) ==
    /\ dl.runs[r].at = "fetching" /\ dl.runs[r].aborted
    /\ dl' = Finally(Set(r, "fetching", "cancelled"), r)
    /\ UNCHANGED <<token, taps>>

-----------------------------------------------------------------------------
Ends(r) == Fetched(r) \/ Decrypted(r) \/ Rejects(r)

Next ==
    \/ ProcessAutoDownloads \/ UpdateToken
    \/ \E u \in Uploads : Download(u) \/ Cancel(u)
    \/ \E r \in Runs : Ends(r) \/ Progress(r) \/ Gone(r) \/ Fails(r)

Spec == Init /\ [][Next]_dlVars

\* Every fetch is answered or fails, every decryption ends.
FairSpec == Spec /\ \A r \in Runs : WF_dlVars(Ends(r))

-----------------------------------------------------------------------------
\* The type of the manager's state; a run in flight belongs to an attachment.
Status == {"idle", "queued", "downloading", "decrypting", "ready", "error",
           "expired", "cancelled"}

TypeOK ==
    /\ dl.st \in [Uploads -> Status] /\ dl.pri \in [Uploads -> {"auto", "manual"}]
    /\ dl.ctl \in [Uploads -> Runs \cup {None}]
    /\ Range(dl.known) \subseteq Uploads /\ Range(dl.queue) \subseteq Uploads
    /\ dl.count \in 0 .. Cardinality(Runs)
    /\ \A r \in Runs : dl.runs[r].at # "none" => dl.runs[r].up \in Uploads
    /\ token \in BOOLEAN /\ taps \in 0 .. MaxTaps

\* No slot is lost for good: the manager never believes more downloads to run
\* than do, though cancelled and expired ones make it believe in fewer.
SlotsComeBack == dl.count <= Cardinality(Running(dl))

\* The automatic downloads that are kept ready are bounded.
ReadyIsBounded ==
    Cardinality({u \in Uploads : dl.pri[u] = "auto" /\ dl.st[u] = "ready"}) <= MaxReady + 1

\* A queued attachment leaves the queue, whatever is cancelled, gone or tapped.
QueueMoves == \A u \in Uploads : []<>(dl.st[u] # "queued")
=============================================================================

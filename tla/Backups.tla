------------------------------ MODULE Backups ------------------------------
(***************************************************************************)
(* Backups of the server list: the reminder of hooks/useBackupState.ts,    *)
(* the files of lib/backup-crypto.ts, and the two places that write both   *)
(* (export and import in settings, and the restore screen).                *)
(*                                                                         *)
(* What is known of the last backup is one record in localStorage.  A      *)
(* page's banner and its settings each hold a copy; a change writes the    *)
(* whole copy back and tells the other holders of the same page, not those *)
(* of another tab.  The reminder's text is worked out when a copy changes, *)
(* not as time goes by.                                                    *)
(*                                                                         *)
(* Time is in half days, so that a fraction of a day is told from a whole  *)
(* one.  The code's LifetimeDays is 30, and its other two constants are 7. *)
(* A file is the damage done to it and what it was made with; a key        *)
(* derived from another password or another salt fails the tag.            *)
(***************************************************************************)
EXTENDS Integers, FiniteSets

CONSTANTS
    Pages, LifetimeDays, ExpiryWarnDays, OverdueDays,
    LastHalfDay,  \* half days the model runs for
    MaxExports,
    None

Views == {"banner", "settings"}
NoBackup == [expires |-> None, dismissed |-> None]

VARIABLES
    halfDay, backup,   \* the time, and the record in localStorage
    copies,       \* copies[p][v]: the copy of a holder
    reminders,    \* reminders[p][v]: whether it shows a reminder
    exporting,    \* exporting[p]: when the export in flight began
    files,        \* the expiry of each backup file exported
    writer        \* history: the page that wrote the record

vars == <<halfDay, backup, copies, reminders, exporting, files, writer>>

-----------------------------------------------------------------------------
(* The reminder *)

\* Days from t until e, rounded up.
DaysLeft(e, t) == (e - t + 1) \div 2

computeBackupStatus(b, t) ==
    IF b.expires = None THEN "none"
    ELSE CASE b.expires - t < - 2 * OverdueDays -> "overdue"
           [] b.expires - t \in - 2 * OverdueDays .. 0 -> "expired"
           [] b.expires - t \in 1 .. 2 * ExpiryWarnDays -> "expiring_soon"
           [] OTHER -> "fresh"

\* MUTANT: a dismissal counts in whichever band it was made.
DismissedEver(b, t) == b.dismissed # None

\* A dismissal counts in the band it was made in.
Dismissed(b, t) ==
    /\ b.dismissed # None
    /\ LET days == DaysLeft(b.expires, b.dismissed) IN
       \/ computeBackupStatus(b, t) = "expiring_soon" /\ days \in 1 .. ExpiryWarnDays
       \/ computeBackupStatus(b, t) = "expired" /\ days \in 1 - OverdueDays .. 0

\* getBackupReminderText: whether there is a text.
Reminds(b, t) == computeBackupStatus(b, t) \in {"expiring_soon", "expired", "overdue"} /\ ~ Dismissed(b, t)

-----------------------------------------------------------------------------
(* The record and its copies *)

Init ==
    /\ halfDay = 0
    /\ backup = NoBackup
    /\ copies = [p \in Pages |-> [v \in Views |-> NoBackup]]
    /\ reminders = [p \in Pages |-> [v \in Views |-> FALSE]]
    /\ exporting = [p \in Pages |-> None]
    /\ files = {}
    /\ writer = CHOOSE p \in Pages : TRUE

\* MUTANT: the other holders of the page are not told.
TellNobody(p, v, b) == [copies EXCEPT ![p][v] = b]

\* The event of save: each holder of the page loads the record.
Tell(p, v, b) == [copies EXCEPT ![p] = [w \in Views |-> b]]

\* updateState: the holder's copy with the patch, saved as a whole.
Update(p, v, b) ==
    /\ backup' = b
    /\ copies' = Tell(p, v, b)
    /\ reminders' = [reminders EXCEPT ![p] = [w \in Views |-> Reminds(copies'[p][w], halfDay)]]
    /\ writer' = p

DismissReminder(p) ==
    /\ reminders[p]["banner"]
    /\ Update(p, "banner", [copies[p]["banner"] EXCEPT !.dismissed = halfDay])
    /\ UNCHANGED <<halfDay, exporting, files>>

\* A holder that mounts, or a page that is loaded again, reads the record.
Mount(p, v) ==
    /\ copies' = [copies EXCEPT ![p] = IF v = "banner" THEN [w \in Views |-> backup]
                                       ELSE [@ EXCEPT ![v] = backup]]
    /\ reminders' = [reminders EXCEPT ![p] = [w \in Views |->
           IF copies'[p][w] # copies[p][w] \/ w = v THEN Reminds(copies'[p][w], halfDay) ELSE @[w]]]
    /\ exporting' = IF v = "banner" THEN [exporting EXCEPT ![p] = None] ELSE exporting
    /\ UNCHANGED <<halfDay, backup, files, writer>>

-----------------------------------------------------------------------------
(* Files *)

\* handleExport reads the clock, checks logins and derives a key ...
Export(p) ==
    /\ exporting[p] = None
    /\ Cardinality(files) < MaxExports
    /\ exporting' = [exporting EXCEPT ![p] = halfDay]
    /\ UNCHANGED <<halfDay, backup, copies, reminders, files, writer>>

\* ... which a wrong password ends without a file ...
ExportFails(p) ==
    /\ exporting[p] # None
    /\ exporting' = [exporting EXCEPT ![p] = None]
    /\ UNCHANGED <<halfDay, backup, copies, reminders, files, writer>>

\* ... and hands the file out.
Exported(p) ==
    /\ exporting[p] # None
    /\ LET e == exporting[p] + 2 * LifetimeDays IN
       /\ files' = files \cup {e}
       /\ Update(p, "settings", [expires |-> e, dismissed |-> None])
    /\ exporting' = [exporting EXCEPT ![p] = None]
    /\ UNCHANGED halfDay

\* What may have become of a file: cut short, or changed in one of its fields.
Damages == {"none", "cut", "magic", "version", "saltLength", "salt", "nonce", "text"}

\* The file picker takes what begins with the magic.
Picked(damage) == damage # "magic"

\* MUTANT: the header's version is not looked at.
ParsesAnyVersion(damage) == damage # "magic"

\* parseHeader: the header's own checks; a salt of another length leaves a file
\* that is too short or parts it elsewhere.
Parses(damage) == damage \notin {"magic", "version"}

\* The tag is over the text with its nonce, under a key from password and salt;
\* it does not cover the header.
TagHolds(damage, right) == right /\ damage \in {"none", "magic", "version"}

\* importBackupFile; the record is that of the file, with any reminder due again.
Import(p, e, damage, right) ==
    /\ e \in files
    /\ Picked(damage) /\ Parses(damage) /\ TagHolds(damage, right)
    /\ Update(p, "settings", [expires |-> e, dismissed |-> None])
    /\ UNCHANGED <<halfDay, exporting, files>>

TimePasses ==
    /\ halfDay < LastHalfDay
    /\ halfDay' = halfDay + 1
    /\ UNCHANGED <<backup, copies, reminders, exporting, files, writer>>

Next ==
    \/ \E p \in Pages : DismissReminder(p) \/ Export(p) \/ ExportFails(p) \/ Exported(p)
    \/ \E p \in Pages, v \in Views : Mount(p, v)
    \/ \E p \in Pages, e \in files, damage \in Damages, right \in BOOLEAN : Import(p, e, damage, right)
    \/ TimePasses

Spec == Init /\ [][Next]_vars

-----------------------------------------------------------------------------
(* Properties *)

Records == [expires : files \cup {None}, dismissed : 0 .. halfDay \cup {None}]

\* Types: a record is of a file that was exported, dismissed in the past.
TypeOK ==
    /\ halfDay \in 0 .. LastHalfDay
    /\ backup \in Records
    /\ copies \in [Pages -> [Views -> Records]]
    /\ reminders \in [Pages -> [Views -> BOOLEAN]]
    /\ exporting \in [Pages -> 0 .. halfDay \cup {None}]
    /\ writer \in Pages

\* The banner and the settings of the page that wrote the record last hold
\* that record, whatever they held and whatever another tab wrote between: an
\* export made in settings takes the reminder off the banner.
HoldersAgree == \A v \in Views : copies[writer][v] = backup

\* "If dismissed in the same threshold band, don't show again", and otherwise
\* show: the two sums that tell the bands apart, over time with fractions and
\* over days rounded up, agree for a backup that expires soon and for one that
\* has expired (but for the one instant that ends the band; a backup long
\* overdue cannot be dismissed at all).
RemindsOncePerBand ==
    \A p \in Pages, v \in Views :
        LET b == copies[p][v]
            status == computeBackupStatus(b, halfDay) IN
        /\ b.dismissed # None
        /\ status \in {"expiring_soon", "expired"}
        /\ b.expires - b.dismissed # - 2 * OverdueDays
        => (Reminds(b, halfDay) <=> status # computeBackupStatus(b, b.dismissed))

\* An import takes up a whole file opened with its own password only; a file
\* changed anywhere, the header no tag covers included, is refused.
OnlyWholeFiles ==
    \A e \in files, damage \in Damages, right \in BOOLEAN :
        Parses(damage) /\ TagHolds(damage, right) => damage = "none" /\ right

-----------------------------------------------------------------------------

\* What makes them inductive: expiries are times.
IInv == TypeOK /\ files \subseteq Nat /\ HoldersAgree
=============================================================================

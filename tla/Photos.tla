------------------------------- MODULE Photos -------------------------------
(***************************************************************************)
(* Profile photos (hooks/useProfilePhotos.ts): one cache and one set of    *)
(* requests in flight for a page, under every avatar and every list of     *)
(* participants.                                                           *)
(*                                                                         *)
(* An avatar asks when it is shown for a user the cache does not know; a   *)
(* list asks for its users one after the other, and a list that has        *)
(* changed leaves its old loop running with nobody to report to.  No       *)
(* photo, and a request that failed, are both remembered as none, for the  *)
(* page and, half a second later, for the browser's session.               *)
(*                                                                         *)
(* A user stands for a user on a server, and for the URL of the photo.     *)
(* Forgetting a photo after an upload is left out: nothing calls it.       *)
(***************************************************************************)
EXTENDS Naturals, FiniteSets

CONSTANTS
    Avatars, Users,
    MaxShows,     \* changes of what is shown
    None

VARIABLES
    pictured,     \* the users who have a photo
    photoCache,   \* photoCache[u]: the photo, "none", or "unknown"
    fetching, asked,   \* requests in flight, and requests made since the page was loaded
    failed,       \* users whose request has failed
    avatarOf,     \* the user of each avatar
    waits,        \* the user whose answer an avatar waits for
    resolved,     \* resolved[a]: the last answer an avatar has had, with its user
    drawn,        \* what it rendered last, when it was shown or had an answer
    loops, listed, photos,   \* the loops of the list, its users, the photos it shows
    noPhoto, noPhotoTimer,   \* what the session remembers, and the timer before it is written
    shows

page == <<photoCache, fetching, asked, failed>>
avatars == <<avatarOf, waits, resolved, drawn>>
list == <<loops, listed, photos>>
session == <<noPhoto, noPhotoTimer>>
vars == <<pictured, page, avatars, list, session, shows>>

Unknown == "unknown"
NoPhoto == "none"
Nothing == [of |-> None, photo |-> NoPhoto]

Restored(remembered) == [u \in Users |-> IF u \in remembered THEN NoPhoto ELSE Unknown]

Init ==
    /\ pictured \in SUBSET Users
    /\ photoCache = Restored({})
    /\ fetching = {} /\ asked = [u \in Users |-> 0] /\ failed = {}
    /\ avatarOf = [a \in Avatars |-> None]
    /\ waits = [a \in Avatars |-> None]
    /\ resolved = [a \in Avatars |-> Nothing]
    /\ drawn = [a \in Avatars |-> NoPhoto]
    /\ loops = {} /\ listed = {} /\ photos = {}
    /\ noPhoto = {} /\ noPhotoTimer = FALSE
    /\ shows = 0

Acts == shows < MaxShows /\ shows' = shows + 1

-----------------------------------------------------------------------------
(* Requests *)

\* MUTANT: a request in flight is not joined.
AsksAgain(u) == photoCache[u] = Unknown

\* resolvePhoto: what is cached or in flight is not asked for.
Asks(u) == photoCache[u] = Unknown /\ u \notin fetching

Resolve(u) ==
    /\ fetching' = IF Asks(u) THEN fetching \cup {u} ELSE fetching
    /\ asked' = IF Asks(u) THEN [asked EXCEPT ![u] = @ + 1] ELSE asked

\* MUTANT: the answer it had last, whoever it was for.
LastAnswer(u, answer) == IF answer.of # None THEN answer.photo ELSE photoCache[u]

\* What an avatar of u renders.
Rendered(u, answer) == IF answer.of = u THEN answer.photo ELSE photoCache[u]

\* Everyone who waits for a user has the answer with the cache, and renders.
Told(u, photo) ==
    /\ resolved' = [a \in Avatars |-> IF waits[a] = u THEN [of |-> u, photo |-> photo] ELSE resolved[a]]
    /\ waits' = [a \in Avatars |-> IF waits[a] = u THEN None ELSE waits[a]]
    /\ drawn' = [a \in Avatars |-> IF waits[a] = u THEN Rendered(avatarOf[a], resolved'[a]) ELSE drawn[a]]

\* A request is answered, or fails: no photo then, and that is remembered.
FetchEnds(u, ok) ==
    /\ u \in fetching
    /\ LET photo == IF ok /\ u \in pictured THEN u ELSE NoPhoto IN
       /\ photoCache' = [photoCache EXCEPT ![u] = photo]
       /\ Told(u, photo)
       /\ noPhotoTimer' = (noPhotoTimer \/ photo = NoPhoto)
    /\ failed' = IF ok THEN failed ELSE failed \cup {u}
    /\ fetching' = fetching \ {u}
    /\ UNCHANGED <<pictured, asked, avatarOf, list, noPhoto, shows>>

-----------------------------------------------------------------------------
(* Avatars: useProfilePhoto *)

\* MUTANT: an avatar that finds a request under way does not wait for it.
WaitsForOwn(u) == Asks(u)

WaitsFor(u) == photoCache[u] = Unknown

\* The effect of an avatar that is shown for another user; the former wait is off.
Show(a, u) ==
    /\ Acts
    /\ u # avatarOf[a]
    /\ avatarOf' = [avatarOf EXCEPT ![a] = u]
    /\ waits' = [waits EXCEPT ![a] = IF WaitsFor(u) THEN u ELSE None]
    /\ drawn' = [drawn EXCEPT ![a] = Rendered(u, resolved[a])]
    /\ Resolve(u)
    /\ UNCHANGED <<pictured, photoCache, failed, resolved, list, session>>

-----------------------------------------------------------------------------
(* Lists: useProfilePhotos *)

\* Another list of users: a loop of its own; the former one reports to nobody.
List(users) ==
    /\ Acts
    /\ users # listed
    /\ listed' = users
    /\ loops' = {[l EXCEPT !.live = FALSE] : l \in loops} \cup
                (IF users = {} THEN {} ELSE {[todo |-> users, got |-> {}, live |-> TRUE]})
    /\ photos' = IF users = {} THEN {} ELSE photos
    /\ UNCHANGED <<pictured, page, avatars, session>>

First(users) == CHOOSE u \in users : TRUE

\* The next user of a loop: asked for ...
LoopAsks(l) ==
    /\ l \in loops /\ l.todo # {}
    /\ Asks(First(l.todo))
    /\ Resolve(First(l.todo))
    /\ UNCHANGED <<pictured, photoCache, failed, avatars, list, session, shows>>

\* ... or known: its photo is kept.
LoopTakes(l) ==
    /\ l \in loops /\ l.todo # {}
    /\ LET u == First(l.todo) IN
       /\ photoCache[u] # Unknown
       /\ loops' = (loops \ {l}) \cup
              {[l EXCEPT !.todo = @ \ {u}, !.got = IF photoCache[u] = NoPhoto THEN @ ELSE @ \cup {u}]}
    /\ UNCHANGED <<pictured, page, avatars, listed, photos, session, shows>>

Live(l) == l.live

LoopEnds(l) ==
    /\ l \in loops /\ l.todo = {}
    /\ loops' = loops \ {l}
    /\ photos' = IF Live(l) THEN l.got ELSE photos
    /\ UNCHANGED <<pictured, page, avatars, listed, session, shows>>

-----------------------------------------------------------------------------
(* The session *)

\* persistNoPhotoCache, half a second later.
Persist ==
    /\ noPhotoTimer
    /\ noPhotoTimer' = FALSE
    /\ noPhoto' = {u \in Users : photoCache[u] = NoPhoto}
    /\ UNCHANGED <<pictured, page, avatars, list, shows>>

Reload ==
    /\ Acts
    /\ photoCache' = Restored(noPhoto)
    /\ failed' = failed \cap noPhoto
    /\ fetching' = {} /\ asked' = [u \in Users |-> 0]
    /\ avatarOf' = [a \in Avatars |-> None]
    /\ waits' = [a \in Avatars |-> None]
    /\ resolved' = [a \in Avatars |-> Nothing]
    /\ drawn' = [a \in Avatars |-> NoPhoto]
    /\ loops' = {} /\ listed' = {} /\ photos' = {}
    /\ noPhotoTimer' = FALSE
    /\ UNCHANGED <<pictured, noPhoto>>

Next ==
    \/ \E u \in Users, ok \in BOOLEAN : FetchEnds(u, ok)
    \/ \E a \in Avatars, u \in Users : Show(a, u)
    \/ \E users \in SUBSET Users : List(users)
    \/ \E l \in loops : LoopAsks(l) \/ LoopTakes(l) \/ LoopEnds(l)
    \/ Persist
    \/ Reload

Spec == Init /\ [][Next]_vars

-----------------------------------------------------------------------------
(* Properties *)

Photo == Users \cup {NoPhoto}

\* Types: a photo is of a user who has one.
TypeOK ==
    /\ pictured \subseteq Users
    /\ photoCache \in [Users -> Photo \cup {Unknown}]
    /\ fetching \subseteq Users /\ asked \in [Users -> Nat]
    /\ avatarOf \in [Avatars -> Users \cup {None}] /\ waits \in [Avatars -> Users \cup {None}]
    /\ resolved \in [Avatars -> [of : Users \cup {None}, photo : Photo]]
    /\ drawn \in [Avatars -> Photo \cup {Unknown}]
    /\ loops \subseteq [todo : SUBSET Users, got : SUBSET pictured, live : BOOLEAN]
    /\ listed \subseteq Users /\ photos \subseteq pictured
    /\ noPhoto \cup failed \subseteq Users /\ noPhotoTimer \in BOOLEAN
    /\ shows \in 0 .. MaxShows

\* However many avatars and lists show a user, and in whatever order they come
\* and go, a page asks for a photo once.
AskedOnce == \A u \in Users : asked[u] =< 1

\* An avatar never shows the photo of the user it was shown for before.
ShowsOwn == \A a \in Avatars : drawn[a] \in {avatarOf[a], NoPhoto, Unknown}

\* When no request and no loop is under way, every avatar of a user who has a
\* photo shows it, and the list has the photos of its own users and of no
\* others, but for users whose request has failed in this session.
PhotosAppear ==
    fetching = {} =>
        /\ \A a \in Avatars : avatarOf[a] \in pictured \ failed => drawn[a] = avatarOf[a]
        /\ loops = {} => /\ (listed \cap pictured) \ failed \subseteq photos
                         /\ photos \subseteq listed

-----------------------------------------------------------------------------
(* What makes them inductive.                                              *)

\* A user without a photo, or whose request has failed.
HasNone(u) == u \notin pictured \ failed

\* What is cached is so, and what is not was not asked for, or is in flight.
CacheIsTrue ==
    \A u \in Users :
        /\ photoCache[u] = u => u \in pictured
        /\ photoCache[u] \in {u, NoPhoto, Unknown}
        /\ photoCache[u] = NoPhoto \/ u \in noPhoto => HasNone(u)
        /\ u \in fetching => photoCache[u] = Unknown
        /\ asked[u] =< IF Asks(u) THEN 0 ELSE 1

\* An avatar that has nothing to show waits for a request that is in flight.
AvatarsAreTrue ==
    \A a \in Avatars :
        LET u == avatarOf[a]
            r == resolved[a]
        IN  /\ r.of # None => r.photo = r.of \/ (r.photo = NoPhoto /\ HasNone(r.of))
            /\ waits[a] # None => waits[a] = u /\ u \in fetching
            /\ \/ u # None /\ drawn[a] = u
               \/ u # None /\ drawn[a] = Unknown /\ waits[a] = u
               \/ drawn[a] = NoPhoto /\ HasNone(u)

\* A loop that reports has the photos of those it is done with; where none does,
\* the list has its own.
ListIsTrue ==
    /\ \A l \in loops :
          l.live => /\ l.todo \cup l.got \subseteq listed
                    /\ \A u \in listed \ l.todo : HasNone(u) \/ u \in l.got
    /\ (\A l \in loops : ~l.live) =>
          photos \subseteq listed /\ \A u \in listed : HasNone(u) \/ u \in photos

IInv == TypeOK /\ CacheIsTrue /\ AvatarsAreTrue /\ ListIsTrue
=============================================================================

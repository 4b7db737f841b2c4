--------------------------- MODULE Accounts_proofs ---------------------------
(* Theorems about Accounts, for any finite set of servers, any users and   *)
(* any number of clicks, expired tokens and failures.                      *)
EXTENDS Accounts, SequenceTheorems, FiniteSetTheorems, WellFoundedInduction, TLAPS

-----------------------------------------------------------------------------
(* The invariant, with the types it needs: what only counts or names a     *)
(* request has none.                                                       *)

\* Login l, or device d, is none or was given by server s.
GivenBy(l, s) == l = 0 \/ (l \in DOMAIN logins /\ logins[l].s = s)
MadeBy(d, s) == d = 0 \/ (d \in DOMAIN devs /\ devs[d].s = s)

LoginType == [s: Servers, u: Users, ok: BOOLEAN]
IsDevice(d) == d = [s |-> d.s, u |-> d.u, ok |-> d.ok, k |-> d.k]
ServerInv ==
    /\ logins \in Seq(LoginType) /\ ver \in [Servers -> Nat]
    /\ \E D : devs \in Seq(D) /\ \A d \in D : IsDevice(d)

PageInv == active \in Servers \cup {"none"} /\ base \in Servers \cup {"none"}

Entries == [there: BOOLEAN, sort: Nat, on: BOOLEAN, auth: Nat, fresh: BOOLEAN, dev: Nat]
EntryInv ==
    /\ entry \in [Servers -> Entries]
    /\ \A s \in Servers \ mixed : GivenBy(entry[s].auth, s) /\ MadeBy(entry[s].dev, s)

IsConn(c) ==
    /\ c = [no |-> c.no, boot |-> c.boot, ing |-> c.ing, req |-> c.req, seen |-> c.seen,
            user |-> c.user, tok |-> c.tok]
    /\ c.user \in Nat
ConnInv ==
    /\ conn = [s \in Servers |-> conn[s]] /\ \A s \in Servers : IsConn(conn[s])
    /\ \A s \in Servers \ mixed : GivenBy(conn[s].user, s)

ChatsInv ==
    /\ chats \in [Servers -> [of: Nat, ver: Nat]]
    /\ \A s \in Servers \ mixed : GivenBy(chats[s].of, s)

BackupInv ==
    /\ backup \in [Servers -> [listed: BOOLEAN, sort: Nat, auth: Nat, pw: BOOLEAN]]
    /\ \A s \in Servers \ mixed : GivenBy(backup[s].auth, s)

\* The hook may be given a login of a server it does not name: of a mixed one.
HookInv ==
    /\ hook \in [auth: Nat, fresh: BOOLEAN, at: Servers \cup {"none"}]
    /\ hook.auth \in 0 .. Len(logins) /\ (hook.at \notin mixed => GivenBy(hook.auth, hook.at))
SavedInv == saved \in [auth: Nat, fresh: BOOLEAN] /\ GivenBy(saved.auth, Home)

IsTask(t) ==
    /\ t = [id |-> t.id, by |-> t.by, at |-> t.at, s |-> t.s, no |-> t.no, key |-> t.key,
            dev |-> t.dev, tok |-> t.tok, req |-> t.req, ver |-> t.ver, key2 |-> t.key2]
    /\ t.s \in Servers /\ t.key \in [auth: Nat, dev: Nat] /\ t.dev \in Nat /\ t.ver \in Nat
OwnTask(t) ==
    /\ t.by \in {"boot", "list", "restore"} /\ t.s \notin mixed => GivenBy(t.key.auth, t.s) /\ MadeBy(t.dev, t.s)
    /\ t.by = "silent" => t.s = Home /\ GivenBy(t.key.auth, Home)
    /\ t.by = "timer" => t.key.auth \in DOMAIN logins
TaskInv == \A t \in tasks : IsTask(t) /\ OwnTask(t)

IInv ==
    /\ ServerInv /\ PageInv /\ EntryInv /\ ConnInv /\ ChatsInv
    /\ BackupInv /\ HookInv /\ SavedInv /\ TaskInv

-----------------------------------------------------------------------------
(* Logins and devices are only added, and stay with their server.          *)

Grows ==
    /\ mixed \subseteq mixed'
    /\ DOMAIN logins \subseteq DOMAIN logins' /\ \A i \in DOMAIN logins : logins'[i].s = logins[i].s
    /\ DOMAIN devs \subseteq DOMAIN devs' /\ \A i \in DOMAIN devs : devs'[i].s = devs[i].s

LEMMA GivenStays == ASSUME Grows, NEW l, NEW s, GivenBy(l, s) PROVE GivenBy(l, s)'
  BY DEF Grows, GivenBy
LEMMA MadeStays == ASSUME Grows, NEW d, NEW s, MadeBy(d, s) PROVE MadeBy(d, s)'
  BY DEF Grows, MadeBy

LEMMA ServersStay ==
    ASSUME ServerInv, UNCHANGED <<logins, devs, mixed>>
    PROVE  Grows /\ (UNCHANGED ver => ServerInv')
  BY DEF ServerInv, Grows, IsDevice
LEMMA MixedGrows ==
    ASSUME ServerInv, UNCHANGED <<logins, devs>>, mixed \subseteq mixed'
    PROVE  Grows /\ (UNCHANGED ver => ServerInv')
  BY DEF ServerInv, Grows, IsDevice
LEMMA LoginMade ==
    ASSUME ServerInv, NEW s \in Servers, NEW u \in Users, NewLogin(s, u), UNCHANGED <<devs, ver, mixed>>,
           NEW n, n = Len(logins) + 1
    PROVE  Grows /\ ServerInv' /\ GivenBy(n, s)' /\ n \in Nat /\ n \in 0 .. Len(logins')
  <1>1. [s |-> s, u |-> u, ok |-> TRUE] \in LoginType /\ logins \in Seq(LoginType)
    BY DEF LoginType, ServerInv
  <1>2. logins' = Append(logins, [s |-> s, u |-> u, ok |-> TRUE])
    BY DEF NewLogin
  <1>3. /\ Len(logins) \in Nat /\ DOMAIN logins = 1 .. Len(logins) /\ DOMAIN logins' = 1 .. Len(logins) + 1
        /\ logins' \in Seq(LoginType) /\ \A i \in DOMAIN logins : logins'[i] = logins[i]
        /\ logins'[Len(logins) + 1] = [s |-> s, u |-> u, ok |-> TRUE]
    BY <1>1, <1>2, AppendProperties
  <1>4. logins'[Len(logins) + 1].s = s
    BY <1>3
  <1>5. Grows
    BY <1>3 DEF Grows
  <1>6. ServerInv'
    BY <1>3 DEF ServerInv, IsDevice
  <1>7. GivenBy(n, s)'
    <2>1. Len(logins) + 1 \in DOMAIN logins'
      BY <1>3
    <2> QED
      BY <1>4, <2>1 DEF GivenBy
  <1> QED
    BY <1>3, <1>5, <1>6, <1>7
LEMMA DeviceMade ==
    ASSUME ServerInv, NEW d, IsDevice(d), devs' = Append(devs, d), UNCHANGED <<logins, ver, mixed>>,
           NEW n, n = Len(devs) + 1
    PROVE  Grows /\ ServerInv' /\ MadeBy(n, d.s)' /\ n \in Nat
  <1>1. PICK D : devs \in Seq(D) /\ \A x \in D : IsDevice(x)
    BY DEF ServerInv
  <1>2. devs \in Seq(D \cup {d})
    BY <1>1
  <1>3. /\ Len(devs) \in Nat /\ DOMAIN devs = 1 .. Len(devs) /\ DOMAIN devs' = 1 .. Len(devs) + 1
        /\ devs' \in Seq(D \cup {d}) /\ \A i \in DOMAIN devs : devs'[i] = devs[i]
        /\ devs'[Len(devs) + 1] = d
    BY <1>2, AppendProperties
  <1>4. Grows
    BY <1>3 DEF Grows
  <1>5. ServerInv'
    <2>1. \A x \in D \cup {d} : IsDevice(x)
      BY <1>1
    <2>2. \E E : devs' \in Seq(E) /\ \A x \in E : IsDevice(x)
      BY <1>3, <2>1
    <2> QED
      BY <2>2 DEF ServerInv, IsDevice
  <1>6. MadeBy(n, d.s)'
    BY <1>3 DEF MadeBy
  <1> QED
    BY <1>3, <1>4, <1>5, <1>6

\* What a step leaves alone stays as it was.
LEMMA EntryStays == ASSUME EntryInv, Grows, UNCHANGED entry PROVE EntryInv'
  BY GivenStays, MadeStays DEF EntryInv, Grows
LEMMA ConnStays == ASSUME ConnInv, Grows, UNCHANGED conn PROVE ConnInv'
  BY GivenStays DEF ConnInv, Grows, IsConn
LEMMA ChatsStay == ASSUME ChatsInv, Grows, UNCHANGED chats PROVE ChatsInv'
  BY GivenStays DEF ChatsInv, Grows
LEMMA BackupStays == ASSUME BackupInv, Grows, UNCHANGED backup PROVE BackupInv'
  BY GivenStays DEF BackupInv, Grows
LEMMA HookStays == ASSUME HookInv, ServerInv, ServerInv', Grows, UNCHANGED hook PROVE HookInv'
  <1>1. Len(logins) \in Nat /\ Len(logins') \in Nat
    BY DEF ServerInv
  <1>2. DOMAIN logins = 1 .. Len(logins) /\ DOMAIN logins' = 1 .. Len(logins')
    BY DEF ServerInv
  <1>3. hook.auth \in 0 .. Len(logins')
    BY <1>1, <1>2 DEF HookInv, Grows
  <1> QED
    BY <1>3, GivenStays DEF HookInv, Grows
LEMMA SavedStays == ASSUME SavedInv, Grows, UNCHANGED saved PROVE SavedInv'
  BY GivenStays DEF SavedInv
LEMMA PageStays == ASSUME PageInv, UNCHANGED <<active, base>> PROVE PageInv'
  BY DEF PageInv
LEMMA TaskStays == ASSUME Grows, NEW t, OwnTask(t) PROVE OwnTask(t)'
  BY GivenStays, MadeStays DEF OwnTask, Grows
LEMMA TasksStay == ASSUME TaskInv, Grows, tasks' \subseteq tasks PROVE TaskInv'
  BY TaskStays DEF TaskInv, IsTask

-----------------------------------------------------------------------------
(* The server that is chosen.                                              *)

Less == {ss \in Nat \X Nat : ss[1] < ss[2]}
LEMMA LessIsOpToRel == Less = OpToRel(<, Nat)
  BY DEF OpToRel, Less

\* The first of some servers is one of them.
LEMMA FirstIsOne ==
    ASSUME NEW es \in [Servers -> Entries], NEW S \in SUBSET Servers
    PROVE  FirstOf(es, S) \in S \cup {"none"}
  <1>1. CASE S = {}
    BY <1>1 DEF FirstOf
  <1>2. CASE S # {}
    <2> DEFINE N == {es[s].sort : s \in S}
    <2>1. N \in SUBSET Nat /\ N # {}
      BY <1>2 DEF Entries
    <2>2. PICK x \in N : \A y \in N : <<y, x>> \notin Less
      BY <2>1, LessIsOpToRel, NatLessThanWellFounded, WFMin
    <2>3. PICK s \in S : x = es[s].sort
      BY <2>2
    <2>4. ASSUME NEW t \in S PROVE es[s].sort <= es[t].sort
      <3>1. es[t].sort \in N /\ es[t].sort \in Nat /\ x \in Nat
        BY <2>1, <2>2
      <3>2. <<es[t].sort, x>> \in Nat \X Nat
        BY <3>1
      <3>3. ~(es[t].sort < x)
        BY <2>2, <3>1, <3>2 DEF Less
      <3> QED
        BY <2>3, <3>1, <3>3
    <2>5. (CHOOSE r \in S : \A t \in S : es[r].sort <= es[t].sort) \in S
      BY <2>4
    <2> QED
      BY <1>2, <2>5 DEF FirstOf
  <1> QED
    BY <1>1, <1>2

LEMMA PreferredIsOne ==
    ASSUME NEW es \in [Servers -> Entries]
    PROVE  Primary(es) \in Servers \cup {"none"} /\ Preferred(es) \in Servers \cup {"none"}
  BY FirstIsOne DEF Primary, Preferred
LEMMA ActiveIsOne ==
    ASSUME NEW es \in [Servers -> Entries], NEW a \in Servers \cup {"none"}
    PROVE  ActiveServer(es, a) \in Servers \cup {"none"} /\ HookServer(es, a) \in Servers
  BY PreferredIsOne, HomeAssumption DEF ActiveServer, HookServer

-----------------------------------------------------------------------------
(* What a step does to the list, the connections and the requests.         *)

\* An entry that server s may have.
Fits(e, s) == e \in Entries /\ (s \notin mixed => GivenBy(e.auth, s) /\ MadeBy(e.dev, s))

LEMMA OwnFits == ASSUME EntryInv, Grows, NEW s \in Servers, NEW e, e = entry[s] PROVE Fits(e, s)'
  BY GivenStays, MadeStays DEF EntryInv, Fits, Grows
LEMMA EntrySet ==
    ASSUME EntryInv, Grows, NEW s \in Servers, NEW e, Fits(e, s)', entry' = [entry EXCEPT ![s] = e]
    PROVE  EntryInv'
  <1>1. entry \in [Servers -> Entries] /\ e \in Entries
    BY DEF EntryInv, Fits
  <1>2. entry' \in [Servers -> Entries] /\ \A t \in Servers : entry'[t] = IF t = s THEN e ELSE entry[t]
    BY <1>1
  <1>3. ASSUME NEW t \in Servers, NEW x, x = entry'[t] PROVE Fits(x, t)'
    BY <1>2, <1>3, OwnFits
  <1>4. ASSUME NEW t \in Servers \ mixed' PROVE GivenBy(entry[t].auth, t)' /\ MadeBy(entry[t].dev, t)'
    <2> DEFINE x == entry'[t]
    <2> HIDE DEF x
    <2>1. x = entry'[t]
      BY DEF x
    <2>2. PICK y : y = x
      OBVIOUS
    <2>3. GivenBy(y.auth, t)' /\ MadeBy(y.dev, t)'
      BY <1>3, <1>4, <2>1, <2>2 DEF Fits
    <2> QED
      BY <2>1, <2>2, <2>3 DEF GivenBy, MadeBy
  <1> QED
    BY <1>2, <1>4 DEF EntryInv
LEMMA Rewritten ==
    ASSUME EntryInv, Grows, NEW s \in Servers, NEW e, Fits(e, s)', entry' = Rewrite(s, e)
    PROVE  EntryInv'
  BY EntrySet, EntryStays DEF Rewrite
LEMMA PutIn ==
    ASSUME EntryInv, Grows, NEW s \in Servers, NEW e, Fits(e, s)', entry' = Put(entry, s, e)
    PROVE  EntryInv'
  <1> DEFINE n == IF entry[s].there THEN e.sort ELSE 1 + Cardinality({t \in Servers : entry[t].there})
             f == [e EXCEPT !.there = TRUE, !.sort = n]
  <1>1. Cardinality({t \in Servers : entry[t].there}) \in Nat
    BY HomeAssumption, FS_Subset, FS_CardinalityType
  <1>2. e \in Entries
    BY DEF Fits
  <1>3. n \in Nat
    BY <1>1, <1>2 DEF Entries
  <1> HIDE DEF n
  <1>4. f \in Entries /\ f.auth = e.auth /\ f.dev = e.dev
    BY <1>2, <1>3 DEF Entries
  <1>5. ASSUME NEW g, g = f PROVE Fits(g, s)'
    BY <1>4, <1>5 DEF Fits
  <1>6. entry' = [entry EXCEPT ![s] = f]
    BY DEF Put, n
  <1> QED
    BY <1>5, <1>6, EntrySet

\* A connection's new record, and new chats.
LEMMA ConnSet ==
    ASSUME ConnInv, Grows, NEW s \in Servers, NEW c, IsConn(c), s \notin mixed' => GivenBy(c.user, s)',
           conn' = [conn EXCEPT ![s] = c]
    PROVE  ConnInv'
  <1>1. conn = [t \in Servers |-> conn[t]]
    BY DEF ConnInv
  <1>2. conn' = [t \in Servers |-> IF t = s THEN c ELSE conn[t]]
    BY <1>1
  <1>3. conn' = [t \in Servers |-> conn'[t]] /\ \A t \in Servers : conn'[t] = IF t = s THEN c ELSE conn[t]
    BY <1>2
  <1>4. \A t \in Servers : IsConn(conn[t]')
    BY <1>3 DEF ConnInv
  <1>5. ASSUME NEW t \in Servers \ mixed' PROVE GivenBy(conn[t].user, t)'
    <2>1. CASE t = s
      BY <1>3, <1>5, <2>1 DEF GivenBy
    <2>2. CASE t # s
      BY <1>3, <1>5, <2>2, GivenStays DEF ConnInv, Grows, GivenBy
    <2> QED
      BY <2>1, <2>2
  <1> QED
    BY <1>3, <1>4, <1>5 DEF ConnInv, IsConn
LEMMA ChatsSet ==
    ASSUME ChatsInv, Grows, NEW s \in Servers, NEW l \in Nat, NEW v \in Nat,
           s \notin mixed' => GivenBy(l, s)', chats' = [chats EXCEPT ![s] = [of |-> l, ver |-> v]]
    PROVE  ChatsInv'
  <1>1. /\ chats' \in [Servers -> [of: Nat, ver: Nat]] /\ chats'[s].of = l
        /\ \A t \in Servers \ {s} : chats'[t] = chats[t]
    BY DEF ChatsInv
  <1>2. ASSUME NEW t \in Servers \ mixed' PROVE GivenBy(chats[t].of, t)'
    <2>1. CASE t = s
      BY <1>1, <1>2, <2>1 DEF GivenBy
    <2>2. CASE t # s
      BY <1>1, <1>2, <2>2, GivenStays DEF ChatsInv, Grows, GivenBy
    <2> QED
      BY <2>1, <2>2
  <1> QED
    BY <1>1, <1>2 DEF ChatsInv

\* A request is a request whatever its number.
LEMMA NumberedIs ==
    ASSUME NEW T, NEW x, IsTask(x)
    PROVE  /\ IsTask(Numbered(T, x)) /\ (OwnTask(x) => OwnTask(Numbered(T, x)))
           /\ (OwnTask(x)' => OwnTask(Numbered(T, x))')
  <1> DEFINE n == Min({k \in 0 .. Cardinality(T) : [x EXCEPT !.id = k] \notin T})
             y == [x EXCEPT !.id = n]
  <1>1. x = [id |-> x.id, by |-> x.by, at |-> x.at, s |-> x.s, no |-> x.no, key |-> x.key,
             dev |-> x.dev, tok |-> x.tok, req |-> x.req, ver |-> x.ver, key2 |-> x.key2]
    BY DEF IsTask
  <1> HIDE DEF n
  <1>2. y = [id |-> n, by |-> x.by, at |-> x.at, s |-> x.s, no |-> x.no, key |-> x.key,
             dev |-> x.dev, tok |-> x.tok, req |-> x.req, ver |-> x.ver, key2 |-> x.key2]
    BY <1>1
  <1>3. Numbered(T, x) = y
    BY DEF Numbered, n
  <1> HIDE DEF y
  <1>4. /\ y.id = n /\ y.by = x.by /\ y.at = x.at /\ y.s = x.s /\ y.no = x.no /\ y.key = x.key
        /\ y.dev = x.dev /\ y.tok = x.tok /\ y.req = x.req /\ y.ver = x.ver /\ y.key2 = x.key2
    BY <1>2
  <1>5. IsTask(y)
    BY <1>2, <1>4 DEF IsTask
  <1>6. OwnTask(x) => OwnTask(y)
    BY <1>4 DEF OwnTask
  <1>7. OwnTask(x)' => OwnTask(y)'
    BY <1>4 DEF OwnTask
  <1> QED
    BY <1>3, <1>5, <1>6, <1>7
AreTasks(T) == \A t \in T : IsTask(t) /\ OwnTask(t)
LEMMA AddedAre ==
    ASSUME NEW T, AreTasks(T), NEW X, \A x \in X : IsTask(x) /\ OwnTask(x)
    PROVE  AreTasks(PlusAll(T, X))
  BY NumberedIs DEF AreTasks, PlusAll
LEMMA TasksAre == ASSUME Grows, NEW T, AreTasks(T), tasks' = T PROVE TaskInv'
  BY TaskStays DEF AreTasks, TaskInv, IsTask
LEMMA TaskAdded ==
    ASSUME TaskInv, Grows, NEW T, T \subseteq tasks, NEW x, IsTask(x), OwnTask(x), tasks' = Plus(T, x)
    PROVE  TaskInv'
  <1>1. AreTasks(T)
    BY DEF TaskInv, AreTasks
  <1> QED
    BY <1>1, AddedAre, TasksAre DEF Plus

\* A request goes on.
LEMMA TaskGoes ==
    ASSUME TaskInv, Grows, NEW t \in tasks, NEW x, Goes(t, x),
           x = [t EXCEPT !.at = x.at, !.req = x.req, !.ver = x.ver, !.dev = x.dev, !.key2 = x.key2],
           x.ver \in Nat, x.dev \in {0, t.dev}
    PROVE  TaskInv'
  <1>1. IsTask(t) /\ OwnTask(t)
    BY DEF TaskInv
  <1>2. x = [id |-> t.id, by |-> t.by, at |-> x.at, s |-> t.s, no |-> t.no, key |-> t.key,
             dev |-> x.dev, tok |-> t.tok, req |-> x.req, ver |-> x.ver, key2 |-> x.key2]
    BY <1>1 DEF IsTask
  <1>3. x.id = t.id /\ x.by = t.by /\ x.s = t.s /\ x.no = t.no /\ x.key = t.key /\ x.tok = t.tok
    BY <1>2
  <1>4. IsTask(x)
    BY <1>1, <1>2, <1>3 DEF IsTask
  <1>5. OwnTask(x)
    BY <1>1, <1>3 DEF OwnTask, MadeBy
  <1> QED
    BY <1>4, <1>5, TaskAdded DEF Goes

\* A connection with another field.
LEMMA ConnFields ==
    ASSUME NEW c, IsConn(c), NEW x
    PROVE  /\ IsConn([c EXCEPT !.req = x]) /\ [c EXCEPT !.req = x].user = c.user
           /\ IsConn([c EXCEPT !.ing = x]) /\ [c EXCEPT !.ing = x].user = c.user
           /\ IsConn([c EXCEPT !.seen = x]) /\ [c EXCEPT !.seen = x].user = c.user
           /\ IsConn([c EXCEPT !.tok = x]) /\ [c EXCEPT !.tok = x].user = c.user
           /\ IsConn([c EXCEPT !.no = x]) /\ [c EXCEPT !.no = x].user = c.user
  <1>1. c = [no |-> c.no, boot |-> c.boot, ing |-> c.ing, req |-> c.req, seen |-> c.seen,
            user |-> c.user, tok |-> c.tok] /\ c.user \in Nat
    BY DEF IsConn
  <1>2. [c EXCEPT !.req = x] = [no |-> c.no, boot |-> c.boot, ing |-> c.ing, req |-> x, seen |-> c.seen,
            user |-> c.user, tok |-> c.tok]
    BY <1>1
  <1>3. [c EXCEPT !.ing = x] = [no |-> c.no, boot |-> c.boot, ing |-> x, req |-> c.req, seen |-> c.seen,
            user |-> c.user, tok |-> c.tok]
    BY <1>1
  <1>4. [c EXCEPT !.seen = x] = [no |-> c.no, boot |-> c.boot, ing |-> c.ing, req |-> c.req, seen |-> x,
            user |-> c.user, tok |-> c.tok]
    BY <1>1
  <1>5. [c EXCEPT !.tok = x] = [no |-> c.no, boot |-> c.boot, ing |-> c.ing, req |-> c.req, seen |-> c.seen,
            user |-> c.user, tok |-> x]
    BY <1>1
  <1>6. IsConn([c EXCEPT !.req = x]) /\ [c EXCEPT !.req = x].user = c.user
    BY <1>1, <1>2 DEF IsConn
  <1>7. IsConn([c EXCEPT !.ing = x]) /\ [c EXCEPT !.ing = x].user = c.user
    BY <1>1, <1>3 DEF IsConn
  <1>8. IsConn([c EXCEPT !.seen = x]) /\ [c EXCEPT !.seen = x].user = c.user
    BY <1>1, <1>4 DEF IsConn
  <1>9. IsConn([c EXCEPT !.tok = x]) /\ [c EXCEPT !.tok = x].user = c.user
    BY <1>1, <1>5 DEF IsConn
  <1>10. [c EXCEPT !.no = x] = [no |-> x, boot |-> c.boot, ing |-> c.ing, req |-> c.req, seen |-> c.seen,
            user |-> c.user, tok |-> c.tok]
    BY <1>1
  <1>11. IsConn([c EXCEPT !.no = x]) /\ [c EXCEPT !.no = x].user = c.user
    BY <1>1, <1>10 DEF IsConn
  <1> QED
    BY <1>6, <1>7, <1>8, <1>9, <1>11
LEMMA NewConn == IsConn(NoConn) /\ NoConn.user = 0
  <1>1. IsConn([no |-> 0, boot |-> NoKey, ing |-> NoKey, req |-> 0, seen |-> 0, user |-> 0, tok |-> FALSE])
    BY DEF IsConn
  <1> QED
    BY <1>1 DEF NoConn

\* One connection changes, but not its login.
LEMMA ConnChanged ==
    ASSUME ConnInv, Grows, NEW s \in Servers, NEW c, IsConn(c), c.user \in {0, conn[s].user},
           conn' = [conn EXCEPT ![s] = c]
    PROVE  ConnInv'
  <1>1. s \notin mixed => GivenBy(c.user, s)
    BY DEF ConnInv, GivenBy
  <1>2. s \notin mixed' => GivenBy(c.user, s)'
    BY <1>1, GivenStays DEF Grows
  <1> QED
    BY <1>2, ConnSet

-----------------------------------------------------------------------------
(* The initial states.                                                     *)

LEMMA BlankIs ==
    ASSUME Blank
    PROVE  EntryInv /\ PageInv /\ ConnInv /\ ChatsInv /\ SavedInv
           /\ (ServerInv => HookInv)
  <1>1. NoEntry \in Entries /\ NoEntry.auth = 0 /\ NoEntry.dev = 0
    BY DEF NoEntry, Entries
  <1>2. EntryInv
    BY <1>1 DEF Blank, EntryInv, GivenBy, MadeBy
  <1>3. ConnInv
    BY NewConn DEF Blank, ConnInv, GivenBy
  <1>4. PageInv /\ ChatsInv /\ SavedInv
    BY DEF Blank, PageInv, ChatsInv, SavedInv, GivenBy
  <1>5. ASSUME ServerInv PROVE HookInv
    <2>1. 0 \in 0 .. Len(logins)
      BY <1>5 DEF ServerInv
    <2> QED
      BY <2>1 DEF Blank, HookInv, NoHook, GivenBy
  <1> QED
    BY <1>2, <1>3, <1>4, <1>5

\* Every server has made one of the first logins and devices.
LEMMA NumbersAre ==
    ASSUME NEW l \in Numbers
    PROVE  /\ Cardinality(Servers) \in Nat /\ l \in [Servers -> Numerals] /\ l[Home] = 1
           /\ \A n \in Numerals : (CHOOSE s \in Servers : l[s] = n) \in Servers
           /\ \A t \in Servers : (CHOOSE s \in Servers : l[s] = l[t]) = t
  <1>1. /\ l \in [Servers -> Numerals] /\ l[Home] = 1 /\ \A s, t \in Servers : l[s] = l[t] => s = t
    BY DEF Numbers
  <1>2. Cardinality(Servers) \in Nat
    BY HomeAssumption, FS_CardinalityType
  <1>3. IsFiniteSet(Numerals) /\ Cardinality(Numerals) = Cardinality(Servers)
    BY <1>2, FS_Interval DEF Numerals
  <1>4. l \in Surjection(Servers, Numerals)
    <2>1. l \in Injection(Servers, Numerals)
      BY <1>1 DEF Injection, IsInjective
    <2> QED
      BY <1>3, <2>1, FS_Injection
  <1>5. \A n \in Numerals : \E s \in Servers : l[s] = n
    BY <1>4 DEF Surjection
  <1> QED
    BY <1>1, <1>2, <1>5

LEMMA MadeAre ==
    ASSUME NEW l \in Numbers, NEW u \in Users, NEW ok \in BOOLEAN, logins = MadeLogins(l, u, ok),
           devs = MadeDevices(l, u), ver = [s \in Servers |-> 0]
    PROVE  /\ ServerInv /\ Len(logins) \in Nat
           /\ \A s \in Servers : l[s] \in Nat /\ l[s] \in 0 .. Len(logins) /\ GivenBy(l[s], s) /\ MadeBy(l[s], s)
  <1> DEFINE N == Cardinality(Servers)
             D == [s: Servers, u: Users, ok: BOOLEAN, k: Numerals]
  <1>1. N \in Nat /\ Numerals = 1 .. N
    BY NumbersAre DEF Numerals
  <1>2. logins \in [1 .. N -> LoginType] /\ DOMAIN logins = 1 .. N /\ Len(logins) = N
    <2>1. \A n \in Numerals : [s |-> CHOOSE s \in Servers : l[s] = n, u |-> u, ok |-> ok] \in LoginType
      BY NumbersAre DEF LoginType
    <2>2. logins \in [1 .. N -> LoginType]
      BY <1>1, <2>1 DEF MadeLogins
    <2>3. logins \in Seq(LoginType)
      BY <1>1, <2>2
    <2> QED
      BY <1>1, <2>2, <2>3
  <1>3. devs \in [1 .. N -> D] /\ DOMAIN devs = 1 .. N
    <2>1. \A n \in Numerals : [s |-> CHOOSE s \in Servers : l[s] = n, u |-> u, ok |-> TRUE, k |-> n] \in D
      BY NumbersAre
    <2>2. devs = [n \in 1 .. N |-> [s |-> CHOOSE s \in Servers : l[s] = n, u |-> u, ok |-> TRUE, k |-> n]]
      BY <1>1 DEF MadeDevices
    <2> HIDE DEF D
    <2> QED
      BY <1>1, <2>1, <2>2
  <1>4. \A d \in D : IsDevice(d)
    BY DEF IsDevice
  <1>5. ServerInv
    <2> HIDE DEF D, N
    <2>1. logins \in Seq(LoginType) /\ devs \in Seq(D)
      BY <1>1, <1>2, <1>3
    <2>2. \E E : devs \in Seq(E) /\ \A d \in E : IsDevice(d)
      BY <1>4, <2>1
    <2> QED
      BY <2>1, <2>2 DEF ServerInv
  <1>6. ASSUME NEW s \in Servers
        PROVE  l[s] \in Nat /\ l[s] \in 0 .. Len(logins) /\ GivenBy(l[s], s) /\ MadeBy(l[s], s)
    <2>1. l[s] \in 1 .. N
      BY <1>1, NumbersAre
    <2>2. logins[l[s]].s = s
      BY <1>1, <2>1, NumbersAre DEF MadeLogins
    <2>3. devs[l[s]].s = s
      BY <1>1, <2>1, NumbersAre DEF MadeDevices
    <2> QED
      BY <1>1, <1>2, <1>3, <2>1, <2>2, <2>3 DEF GivenBy, MadeBy
  <1> QED
    BY <1>1, <1>2, <1>5, <1>6

LEMMA ConnectedIs ==
    ASSUME NEW l, Connected(l), Home \in Servers, ServerInv, l[Home] = 1,
           \A s \in Servers : l[s] \in Nat /\ l[s] \in 0 .. Len(logins) /\ GivenBy(l[s], s) /\ MadeBy(l[s], s)
    PROVE  EntryInv /\ PageInv /\ ConnInv /\ ChatsInv /\ HookInv /\ SavedInv
  <1>1. EntryInv
    <2>1. \A s \in Servers : entry[s] \in Entries /\ entry[s].auth = l[s] /\ entry[s].dev = l[s]
      BY DEF Connected, Entries
    <2>2. entry \in [Servers -> Entries]
      BY <2>1 DEF Connected
    <2> QED
      BY <2>1, <2>2 DEF EntryInv
  <1>2. ConnInv
    <2>1. \A s \in Servers : IsConn(conn[s]) /\ conn[s].user = l[s]
      BY DEF Connected, IsConn
    <2>2. conn = [s \in Servers |-> conn[s]]
      BY DEF Connected
    <2> QED
      BY <2>1, <2>2 DEF ConnInv
  <1>3. ChatsInv
    BY DEF Connected, ChatsInv
  <1>4. PageInv
    BY DEF Connected, PageInv
  <1>5. HookInv /\ SavedInv
    BY DEF Connected, HookInv, SavedInv
  <1> QED
    BY <1>1, <1>2, <1>3, <1>4, <1>5

LEMMA InitHolds == Init => IInv
  <1> SUFFICES ASSUME Init PROVE IInv
    OBVIOUS
  <1>1. TaskInv
    BY DEF Init, TaskInv
  <1>2. CASE Blank /\ logins = <<>> /\ devs = <<>> /\ backup = [s \in Servers |-> NoCopy]
    <2>1. ServerInv
      <3>1. <<>> \in Seq({}) /\ <<>> \in Seq(LoginType) /\ ver \in [Servers -> Nat]
        BY DEF Init
      <3> QED
        BY SMTT(30), <1>2, <3>1 DEF ServerInv
    <2>2. BackupInv
      BY <1>2 DEF BackupInv, NoCopy, GivenBy
    <2> QED
      BY <1>1, <1>2, <2>1, <2>2, BlankIs DEF IInv
  <1>3. CASE \E l \in Numbers, u \in Users, ok, pw \in BOOLEAN :
                /\ devs = MadeDevices(l, u)
                /\ \/ Connected(l) /\ ok /\ pw /\ backup = [s \in Servers |-> NoCopy]
                   \/ /\ Blank /\ ok # pw
                      /\ backup = [s \in Servers |-> [listed |-> TRUE, sort |-> l[s], auth |-> l[s], pw |-> pw]]
                /\ logins = MadeLogins(l, u, ok)
    <2>1. PICK l \in Numbers, u \in Users, ok \in BOOLEAN, pw \in BOOLEAN :
                /\ devs = MadeDevices(l, u)
                /\ \/ Connected(l) /\ ok /\ pw /\ backup = [s \in Servers |-> NoCopy]
                   \/ /\ Blank /\ ok # pw
                      /\ backup = [s \in Servers |-> [listed |-> TRUE, sort |-> l[s], auth |-> l[s], pw |-> pw]]
                /\ logins = MadeLogins(l, u, ok)
      BY <1>3
    <2>2. /\ ServerInv /\ Len(logins) \in Nat /\ l[Home] = 1
          /\ \A s \in Servers : l[s] \in Nat /\ l[s] \in 0 .. Len(logins) /\ GivenBy(l[s], s) /\ MadeBy(l[s], s)
      BY <2>1, MadeAre, NumbersAre DEF Init
    <2>3. CASE Connected(l) /\ backup = [s \in Servers |-> NoCopy]
      <3>1. BackupInv
        BY <2>3 DEF BackupInv, NoCopy, GivenBy
      <3> QED
        BY <1>1, <2>2, <2>3, <3>1, ConnectedIs, HomeAssumption DEF IInv
    <2>4. CASE Blank /\ backup = [s \in Servers |-> [listed |-> TRUE, sort |-> l[s], auth |-> l[s], pw |-> pw]]
      <3>1. BackupInv
        BY <2>2, <2>4 DEF BackupInv
      <3> QED
        BY <1>1, <2>2, <2>4, <3>1, BlankIs DEF IInv
    <2> QED
      BY <2>1, <2>3, <2>4
  <1> QED
    BY <1>2, <1>3 DEF Init

-----------------------------------------------------------------------------
(* The steps, one by one.                                                  *)

LEMMA FinishKeeps ==
    ASSUME IInv, Grows, NEW t \in tasks, t.by = "boot", NEW d \in Nat,
           d # 0 /\ t.s \notin mixed' => MadeBy(d, t.s)', Finish(t, d)
    PROVE  EntryInv' /\ ConnInv' /\ ChatsInv' /\ TaskInv'
  <1>0. PICK c : c = conn[t.s]
    OBVIOUS
  <1>1. /\ IsTask(t) /\ OwnTask(t) /\ EntryInv /\ ConnInv /\ ChatsInv /\ TaskInv
        /\ t.s \in Servers /\ t.key.auth \in Nat /\ t.ver \in Nat
    BY DEF IInv, TaskInv, IsTask
  <1>2. t.s \notin mixed' => GivenBy(t.key.auth, t.s)'
    BY <1>1, GivenStays DEF OwnTask, Grows
  <1>3. EntryInv'
    <2> DEFINE e0 == [entry[t.s] EXCEPT !.auth = t.key.auth, !.fresh = TRUE, !.dev = IF d # 0 THEN d ELSE @]
    <2>1. PICK e : e = e0
      OBVIOUS
    <2>2. entry[t.s] \in Entries
      BY <1>1 DEF EntryInv
    <2>3. e \in Entries /\ e.auth = t.key.auth /\ e.dev = IF d # 0 THEN d ELSE entry[t.s].dev
      BY <1>1, <2>1, <2>2 DEF Entries
    <2>4. t.s \notin mixed' => MadeBy(e.dev, t.s)'
      <3>1. CASE d # 0
        BY <2>3, <3>1 DEF MadeBy
      <3>2. CASE d = 0
        BY <1>1, <2>3, <3>2, MadeStays DEF EntryInv, Grows, MadeBy
      <3> QED
        BY <3>1, <3>2
    <2>5. Fits(e, t.s)'
      BY <1>2, <2>3, <2>4 DEF Fits
    <2> QED
      BY <1>1, <2>1, <2>5, Rewritten DEF Finish
  <1>4. ConnInv'
    <2> DEFINE x0 == [c EXCEPT !.user = t.key.auth, !.tok = t.tok, !.boot = t.key, !.ing = NoKey]
    <2>1. PICK x : x = IF Own(t) THEN x0 ELSE c
      OBVIOUS
    <2>2. IsConn(c) /\ (t.s \notin mixed' => GivenBy(c.user, t.s)')
      BY <1>0, <1>1, GivenStays DEF ConnInv, Grows
    <2>3. IsConn(x) /\ x.user \in {t.key.auth, c.user}
      <3>1. c = [no |-> c.no, boot |-> c.boot, ing |-> c.ing, req |-> c.req, seen |-> c.seen,
                 user |-> c.user, tok |-> c.tok]
        BY <2>2 DEF IsConn
      <3>2. CASE Own(t)
        <4>1. x = [no |-> c.no, boot |-> t.key, ing |-> NoKey, req |-> c.req, seen |-> c.seen,
                   user |-> t.key.auth, tok |-> t.tok]
          BY <2>1, <3>1, <3>2
        <4> QED
          BY <1>1, <4>1 DEF IsConn
      <3>3. CASE ~Own(t)
        BY <2>1, <2>2, <3>3
      <3> QED
        BY <3>2, <3>3
    <2>4. PICK y : y = [x EXCEPT !.seen = IF Applies(c, t.req) THEN t.req ELSE @]
      OBVIOUS
    <2>5. IsConn(y) /\ y.user = x.user
      <3>1. y = [x EXCEPT !.seen = IF Applies(c, t.req) THEN t.req ELSE x.seen]
        BY <2>4
      <3> QED
        BY ZenonT(60), <2>3, <3>1, ConnFields
    <2>6. t.s \notin mixed' => GivenBy(y.user, t.s)'
      BY <1>2, <2>2, <2>3, <2>5 DEF GivenBy
    <2>7. conn' = [conn EXCEPT ![t.s] = y]
      BY <1>0, <2>1, <2>4 DEF Finish
    <2> QED
      BY <1>1, <2>5, <2>6, <2>7, ConnSet
  <1>5. ChatsInv'
    BY <1>1, <1>2, ChatsSet, ChatsStay DEF Finish
  <1>6. TaskInv'
    BY <1>1, TasksStay DEF Finish, Without
  <1> QED
    BY <1>3, <1>4, <1>5, <1>6

LEMMA RenewedKeeps == ASSUME IInv, NEW t \in tasks, Renewed(t) PROVE IInv'
  <1>1. /\ IsTask(t) /\ OwnTask(t) /\ t.by = "boot" /\ t.s \in Servers /\ t.key.auth \in Nat
        /\ t.ver \in Nat
    BY DEF IInv, TaskInv, IsTask, Renewed, IsBoot
  <1>2. Grows /\ ServerInv'
    BY ServersStay DEF IInv, Renewed, servers, marks
  <1>3. PageInv' /\ ChatsInv' /\ BackupInv' /\ HookInv' /\ SavedInv'
    BY <1>2, PageStays, ChatsStay, BackupStays, HookStays, SavedStays DEF IInv, Renewed
  <1>4. EntryInv'
    <2>1. PICK e : e = [entry[t.s] EXCEPT !.auth = t.key.auth, !.fresh = TRUE]
      OBVIOUS
    <2>2. e \in Entries /\ e.auth = t.key.auth /\ e.dev = entry[t.s].dev
      BY <1>1, <2>1 DEF IInv, EntryInv, Entries
    <2>3. Fits(e, t.s)'
      BY <1>1, <1>2, <2>2, GivenStays, MadeStays DEF Fits, IInv, EntryInv, OwnTask, Grows
    <2> QED
      BY <1>1, <1>2, <2>1, <2>3, Rewritten DEF IInv, Renewed
  <1>5. ConnInv'
    <2>1. PICK id : id = IF conn[t.s].no = 0 THEN 0 ELSE conn[t.s].req + 1
      OBVIOUS
    <2>2. PICK c : c = [conn[t.s] EXCEPT !.req = id]
      OBVIOUS
    <2>3. IsConn(c) /\ c.user = conn[t.s].user
      BY <1>1, <2>2, ConnFields DEF IInv, ConnInv
    <2>4. conn' = [conn EXCEPT ![t.s] = c]
      BY <2>1, <2>2 DEF Renewed
    <2> QED
      BY <1>1, <1>2, <2>3, <2>4, ConnChanged DEF IInv
  <1>6. TaskInv'
    <2>1. PICK id : Goes(t, [t EXCEPT !.at = "load", !.req = id])
      BY DEF Renewed
    <2>2. PICK x : x = [t EXCEPT !.at = "load", !.req = id]
      OBVIOUS
    <2>3. /\ x = [t EXCEPT !.at = x.at, !.req = x.req, !.ver = x.ver, !.dev = x.dev, !.key2 = x.key2]
          /\ x.ver = t.ver /\ x.dev = t.dev
      BY <1>1, <2>2 DEF IsTask
    <2> QED
      BY <1>1, <1>2, <2>1, <2>2, <2>3, TaskGoes DEF IInv
  <1> QED
    BY <1>2, <1>3, <1>4, <1>5, <1>6 DEF IInv

\* An answer frees its connection.
LEMMA FreeIs == ASSUME ConnInv, Grows, NEW t, t.s \in Servers, conn' = Free(t) PROVE ConnInv'
  <1>1. PICK c : c = IF Own(t) THEN [conn[t.s] EXCEPT !.ing = NoKey] ELSE conn[t.s]
    OBVIOUS
  <1>2. IsConn(c) /\ c.user = conn[t.s].user
    BY <1>1, ConnFields DEF ConnInv
  <1>3. conn' = [conn EXCEPT ![t.s] = c]
    <2>1. IsConn(conn[t.s]) /\ conn = [s \in Servers |-> conn[s]]
      BY DEF ConnInv
    <2>2. CASE Own(t)
      BY <1>1, <2>1, <2>2 DEF Free
    <2>3. CASE ~Own(t)
      BY <1>1, <2>1, <2>3 DEF Free, IsConn
    <2> QED
      BY <2>2, <2>3
  <1> QED
    BY <1>2, <1>3, ConnChanged

LEMMA NotRenewedKeeps == ASSUME IInv, NEW t \in tasks, NotRenewed(t) PROVE IInv'
  <1>1. t.s \in Servers
    BY DEF IInv, TaskInv, IsTask
  <1>2. Grows /\ ServerInv'
    BY ServersStay DEF IInv, NotRenewed, servers, marks
  <1>3. PageInv' /\ ChatsInv' /\ BackupInv' /\ HookInv' /\ SavedInv' /\ ConnInv' /\ TaskInv'
    BY <1>1, <1>2, PageStays, ChatsStay, BackupStays, HookStays, SavedStays, FreeIs, TasksStay
    DEF IInv, NotRenewed, Without
  <1>4. EntryInv'
    <2>1. PICK e : e = [entry[t.s] EXCEPT !.auth = 0, !.fresh = FALSE]
      OBVIOUS
    <2>2. e \in Entries /\ e.auth = 0 /\ e.dev = entry[t.s].dev
      BY <1>1, <2>1 DEF IInv, EntryInv, Entries
    <2>3. Fits(e, t.s)'
      BY <1>1, <1>2, <2>2, MadeStays DEF Fits, IInv, EntryInv, Grows, GivenBy
    <2> QED
      BY <1>1, <1>2, <2>1, <2>3, Rewritten DEF IInv, NotRenewed
  <1> QED
    BY <1>2, <1>3, <1>4 DEF IInv

LEMMA LoadedKeeps == ASSUME IInv, NEW t \in tasks, Loaded(t) PROVE IInv'
  <1>1. IsTask(t) /\ t.s \in Servers /\ t.ver \in Nat /\ ver[t.s] \in Nat
    BY DEF IInv, TaskInv, ServerInv, IsTask
  <1>2. Grows /\ ServerInv'
    BY ServersStay DEF IInv, Loaded, servers, marks
  <1>3. PageInv' /\ EntryInv' /\ ConnInv' /\ ChatsInv' /\ BackupInv' /\ HookInv' /\ SavedInv'
    BY <1>2, PageStays, EntryStays, ConnStays, ChatsStay, BackupStays, HookStays, SavedStays DEF IInv, Loaded
  <1>4. TaskInv'
    <2>1. PICK x : x = [t EXCEPT !.at = "devices", !.ver = ver[t.s]]
      OBVIOUS
    <2>2. /\ x = [t EXCEPT !.at = x.at, !.req = x.req, !.ver = x.ver, !.dev = x.dev, !.key2 = x.key2]
          /\ x.ver = ver[t.s] /\ x.dev = t.dev
      BY <1>1, <2>1 DEF IsTask
    <2> QED
      BY <1>1, <1>2, <2>1, <2>2, TaskGoes DEF IInv, Loaded
  <1> QED
    BY <1>2, <1>3, <1>4 DEF IInv

LEMMA NotLoadedKeeps == ASSUME IInv, NEW t \in tasks, NotLoaded(t) PROVE IInv'
  <1>1. t.s \in Servers
    BY DEF IInv, TaskInv, IsTask
  <1>2. Grows /\ ServerInv'
    BY ServersStay DEF IInv, NotLoaded, servers, marks
  <1>3. PageInv' /\ EntryInv' /\ ChatsInv' /\ BackupInv' /\ HookInv' /\ SavedInv' /\ ConnInv' /\ TaskInv'
    BY <1>1, <1>2, PageStays, EntryStays, ChatsStay, BackupStays, HookStays, SavedStays, FreeIs, TasksStay
    DEF IInv, NotLoaded, Without
  <1> QED
    BY <1>2, <1>3 DEF IInv

LEMMA ListedKeeps == ASSUME IInv, NEW t \in tasks, NEW fails \in BOOLEAN, Listed(t, fails) PROVE IInv'
  <1>1. /\ IsTask(t) /\ OwnTask(t) /\ t.by = "boot" /\ t.s \in Servers /\ t.dev \in Nat /\ t.ver \in Nat
    BY DEF IInv, TaskInv, IsTask, Listed, IsBoot
  <1>2. Grows /\ ServerInv'
    BY ServersStay DEF IInv, Listed, servers, marks
  <1>3. PageInv' /\ BackupInv' /\ HookInv' /\ SavedInv'
    BY <1>2, PageStays, BackupStays, HookStays, SavedStays DEF IInv, Listed
  <1>4. CASE Finish(t, t.dev)
    <2>1. t.s \notin mixed' => MadeBy(t.dev, t.s)'
      BY <1>1, <1>2, MadeStays DEF OwnTask, Grows
    <2> QED
      BY <1>1, <1>2, <1>3, <1>4, <2>1, FinishKeeps DEF IInv
  <1>5. CASE /\ Goes(t, [t EXCEPT !.at = "link", !.dev = 0, !.key2 = Made]) /\ UNCHANGED <<conn, status, chats>>
             /\ entry' = Rewrite(t.s, [entry[t.s] EXCEPT !.dev = 0]) \/ UNCHANGED entry
    <2>1. TaskInv'
      <3>1. PICK x : x = [t EXCEPT !.at = "link", !.dev = 0, !.key2 = Made]
        OBVIOUS
      <3>2. /\ x = [t EXCEPT !.at = x.at, !.req = x.req, !.ver = x.ver, !.dev = x.dev, !.key2 = x.key2]
            /\ x.ver = t.ver /\ x.dev = 0
        BY <1>1, <3>1 DEF IsTask
      <3> QED
        BY <1>1, <1>2, <1>5, <3>1, <3>2, TaskGoes DEF IInv
    <2>2. EntryInv'
      <3>1. PICK e : e = [entry[t.s] EXCEPT !.dev = 0]
        OBVIOUS
      <3>2. e \in Entries /\ e.auth = entry[t.s].auth /\ e.dev = 0
        BY <1>1, <3>1 DEF IInv, EntryInv, Entries
      <3>3. Fits(e, t.s)'
        BY <1>1, <1>2, <3>2, GivenStays DEF Fits, IInv, EntryInv, Grows, MadeBy
      <3> QED
        BY <1>1, <1>2, <1>5, <3>1, <3>3, Rewritten, EntryStays DEF IInv
    <2>3. ConnInv' /\ ChatsInv'
      BY <1>2, <1>5, ConnStays, ChatsStay DEF IInv
    <2> QED
      BY <1>2, <1>3, <2>1, <2>2, <2>3 DEF IInv
  <1> QED
    BY <1>4, <1>5 DEF Listed

LEMMA NewDeviceIs == ASSUME NEW t, NEW d, d = NewDevice(t) PROVE IsDevice(d) /\ d.s = t.s
  BY DEF NewDevice, IsDevice
LEMMA LinkedKeeps == ASSUME IInv, NEW t \in tasks, Linked(t) PROVE IInv'
  <1>1. t.by = "boot" /\ t.s \in Servers
    BY DEF IInv, TaskInv, IsTask, Linked, IsBoot
  <1>2. PICK n : n = Len(devs) + 1
    OBVIOUS
  <1>3. PICK d : d = NewDevice(t)
    OBVIOUS
  <1>4. Grows /\ ServerInv' /\ MadeBy(n, t.s)' /\ n \in Nat
    BY <1>2, <1>3, NewDeviceIs, DeviceMade DEF IInv, Linked, marks
  <1>5. PageInv' /\ BackupInv' /\ HookInv' /\ SavedInv'
    BY <1>4, PageStays, BackupStays, HookStays, SavedStays DEF IInv, Linked
  <1>6. Finish(t, n)
    BY <1>2 DEF Linked
  <1>7. EntryInv' /\ ConnInv' /\ ChatsInv' /\ TaskInv'
    BY <1>1, <1>4, <1>6, FinishKeeps
  <1> QED
    BY <1>4, <1>5, <1>7 DEF IInv
LEMMA NotLinkedKeeps == ASSUME IInv, NEW t \in tasks, NotLinked(t) PROVE IInv'
  <1>1. t.by = "boot" /\ t.s \in Servers /\ Finish(t, 0)
    BY DEF IInv, TaskInv, IsTask, NotLinked, IsBoot
  <1>2. Grows /\ ServerInv'
    <2>1. CASE devs' = devs
      BY <2>1, ServersStay DEF IInv, NotLinked, marks
    <2>2. CASE devs' # devs
      <3>1. PICK d : d = NewDevice(t)
        OBVIOUS
      <3>2. PICK n : n = Len(devs) + 1
        OBVIOUS
      <3> QED
        BY <2>2, <3>1, <3>2, NewDeviceIs, DeviceMade DEF IInv, NotLinked, marks
    <2> QED
      BY <2>1, <2>2
  <1>3. PageInv' /\ BackupInv' /\ HookInv' /\ SavedInv'
    BY <1>2, PageStays, BackupStays, HookStays, SavedStays DEF IInv, NotLinked
  <1>4. EntryInv' /\ ConnInv' /\ ChatsInv' /\ TaskInv'
    BY <1>1, <1>2, FinishKeeps
  <1> QED
    BY <1>2, <1>3, <1>4 DEF IInv

\* A request that sets out.
LEMMA NewTask ==
    ASSUME NEW x, NEW by, NEW at, NEW s \in Servers, NEW no,
           NEW a \in Nat, NEW dev \in Nat, NEW tok, NEW req, NEW v \in Nat,
           x = [id |-> 0, by |-> by, at |-> at, s |-> s, no |-> no, key |-> [auth |-> a, dev |-> dev],
                dev |-> dev, tok |-> tok, req |-> req, ver |-> v, key2 |-> 0]
    PROVE  IsTask(x) /\ x.by = by /\ x.s = s /\ x.key.auth = a /\ x.dev = dev
  <1>1. /\ x.id = 0 /\ x.by = by /\ x.at = at /\ x.s = s /\ x.no = no /\ x.key = [auth |-> a, dev |-> dev]
        /\ x.dev = dev /\ x.tok = tok /\ x.req = req /\ x.ver = v /\ x.key2 = 0
    OBVIOUS
  <1>2. x.key \in [auth: Nat, dev: Nat] /\ x.key.auth = a
    BY <1>1
  <1>3. x = [id |-> x.id, by |-> x.by, at |-> x.at, s |-> x.s, no |-> x.no, key |-> x.key,
             dev |-> x.dev, tok |-> x.tok, req |-> x.req, ver |-> x.ver, key2 |-> x.key2]
    BY <1>1
  <1> QED
    BY <1>1, <1>2, <1>3 DEF IsTask

LEMMA ActivityKeeps == ASSUME IInv, NEW s \in Servers, Activity(s) PROVE IInv'
  <1>1. Grows /\ ServerInv'
    <2>1. Grows
      BY ServersStay DEF IInv, Activity, marks
    <2>2. ver' \in [Servers -> Nat]
      BY DEF IInv, ServerInv, Activity
    <2> QED
      BY <2>1, <2>2 DEF IInv, ServerInv, Activity, IsDevice
  <1>2. PageInv' /\ EntryInv' /\ ChatsInv' /\ BackupInv' /\ HookInv' /\ SavedInv'
    BY <1>1, PageStays, EntryStays, ChatsStay, BackupStays, HookStays, SavedStays DEF IInv, Activity
  <1>3. CASE conn[s].user # 0
    <2>1. IsConn(conn[s]) /\ conn[s].user \in Nat /\ (s \notin mixed => GivenBy(conn[s].user, s))
      BY DEF IInv, ConnInv, IsConn
    <2>2. ConnInv'
      <3>1. PICK c : c = [conn[s] EXCEPT !.req = @ + 1]
        OBVIOUS
      <3>2. IsConn(c) /\ c.user = conn[s].user
        BY <2>1, <3>1, ConnFields
      <3>3. conn' = [conn EXCEPT ![s] = c]
        BY <1>3, <3>1 DEF Activity
      <3> QED
        BY <1>1, <3>2, <3>3, ConnChanged DEF IInv
    <2>3. TaskInv'
      <3>0. PICK b : b = Serves(s)
        OBVIOUS
      <3>1. PICK x : x = [NoTask EXCEPT !.by = "list", !.at = "asked", !.s = s, !.no = conn[s].no,
                           !.req = conn[s].req + 1, !.tok = b,
                           !.key = [auth |-> conn[s].user, dev |-> 0]]
        OBVIOUS
      <3>2. x = [id |-> 0, by |-> "list", at |-> "asked", s |-> s, no |-> conn[s].no,
                 key |-> [auth |-> conn[s].user, dev |-> 0], dev |-> 0, tok |-> b, req |-> conn[s].req + 1,
                 ver |-> 0, key2 |-> 0]
        BY <3>1 DEF NoTask
      <3>3. IsTask(x) /\ x.by = "list" /\ x.s = s /\ x.key.auth = conn[s].user /\ x.dev = 0
        BY <2>1, <3>2, NewTask
      <3>4. OwnTask(x)
        BY <2>1, <3>3 DEF OwnTask, MadeBy
      <3>5. tasks' = Plus(tasks, x)
        BY <1>3, <3>0, <3>1 DEF Activity
      <3> QED
        BY <1>1, <3>3, <3>4, <3>5, TaskAdded DEF IInv
    <2> QED
      BY <1>1, <1>2, <2>2, <2>3 DEF IInv
  <1>4. CASE conn[s].user = 0
    BY <1>1, <1>2, <1>4, ConnStays, TasksStay DEF IInv, Activity
  <1> QED
    BY <1>3, <1>4

LEMMA AnsweredKeeps == ASSUME IInv, NEW t \in tasks, Answered(t) PROVE IInv'
  <1>1. IsTask(t) /\ t.s \in Servers /\ t.ver \in Nat /\ ver[t.s] \in Nat
    BY DEF IInv, TaskInv, ServerInv, IsTask
  <1>2. Grows /\ ServerInv'
    BY ServersStay DEF IInv, Answered, servers, marks
  <1>3. PageInv' /\ EntryInv' /\ ConnInv' /\ ChatsInv' /\ BackupInv' /\ HookInv' /\ SavedInv'
    BY <1>2, PageStays, EntryStays, ConnStays, ChatsStay, BackupStays, HookStays, SavedStays DEF IInv, Answered
  <1>4. TaskInv'
    <2>1. PICK x : x = [t EXCEPT !.at = "answer", !.ver = ver[t.s]]
      OBVIOUS
    <2>2. /\ x = [t EXCEPT !.at = x.at, !.req = x.req, !.ver = x.ver, !.dev = x.dev, !.key2 = x.key2]
          /\ x.ver = ver[t.s] /\ x.dev = t.dev
      BY <1>1, <2>1 DEF IsTask
    <2> QED
      BY <1>1, <1>2, <2>1, <2>2, TaskGoes DEF IInv, Answered
  <1> QED
    BY <1>2, <1>3, <1>4 DEF IInv
LEMMA UnansweredKeeps == ASSUME IInv, NEW t \in tasks, Unanswered(t) PROVE IInv'
  <1>1. Grows /\ ServerInv'
    BY ServersStay DEF IInv, Unanswered, servers, marks
  <1>2. PageInv' /\ EntryInv' /\ ConnInv' /\ ChatsInv' /\ BackupInv' /\ HookInv' /\ SavedInv' /\ TaskInv'
    BY <1>1, PageStays, EntryStays, ConnStays, ChatsStay, BackupStays, HookStays, SavedStays, TasksStay
    DEF IInv, Unanswered, Without
  <1> QED
    BY <1>1, <1>2 DEF IInv
LEMMA ApplyKeeps == ASSUME IInv, NEW t \in tasks, Apply(t) PROVE IInv'
  <1>1. t.by = "list" /\ OwnTask(t) /\ t.s \in Servers /\ t.key.auth \in Nat /\ t.ver \in Nat
    BY DEF IInv, TaskInv, IsTask, Apply
  <1>2. Grows /\ ServerInv'
    BY ServersStay DEF IInv, Apply, servers, marks
  <1>3. PageInv' /\ EntryInv' /\ BackupInv' /\ HookInv' /\ SavedInv' /\ TaskInv'
    BY <1>2, PageStays, EntryStays, BackupStays, HookStays, SavedStays, TasksStay DEF IInv, Apply, Without
  <1>4. ConnInv' /\ ChatsInv'
    <2>1. CASE Applies(conn[t.s], t.req)
      <3>1. t.s \notin mixed' => GivenBy(t.key.auth, t.s)'
        BY <1>1, <1>2, GivenStays DEF OwnTask, Grows
      <3>2. PICK c : c = [conn[t.s] EXCEPT !.seen = t.req]
        OBVIOUS
      <3>3. IsConn(c) /\ c.user = conn[t.s].user
        BY <1>1, <3>2, ConnFields DEF IInv, ConnInv
      <3>4. conn' = [conn EXCEPT ![t.s] = c]
        BY <2>1, <3>2 DEF Apply
      <3> QED
        BY <1>1, <1>2, <2>1, <3>1, <3>3, <3>4, ConnChanged, ChatsSet DEF IInv, Apply
    <2>2. CASE ~Applies(conn[t.s], t.req)
      BY <1>2, <2>2, ConnStays, ChatsStay DEF IInv, Apply
    <2> QED
      BY <2>1, <2>2
  <1> QED
    BY <1>2, <1>3, <1>4 DEF IInv

LEMMA SignInKeeps == ASSUME IInv, SignIn PROVE IInv'
  <1>1. Grows /\ ServerInv'
    BY ServersStay DEF IInv, SignIn, servers, marks
  <1>2. PageInv' /\ EntryInv' /\ ConnInv' /\ ChatsInv' /\ BackupInv' /\ HookInv' /\ SavedInv'
    BY <1>1, PageStays, EntryStays, ConnStays, ChatsStay, BackupStays, HookStays, SavedStays DEF IInv, SignIn
  <1>3. TaskInv'
    <2>1. PICK x : x = [NoTask EXCEPT !.by = "login", !.at = "hook", !.s = base]
      OBVIOUS
    <2>2. x = [id |-> 0, by |-> "login", at |-> "hook", s |-> base, no |-> 0, key |-> [auth |-> 0, dev |-> 0],
               dev |-> 0, tok |-> FALSE, req |-> 0, ver |-> 0, key2 |-> 0]
      BY <2>1 DEF NoTask, NoKey
    <2>3. base \in Servers
      BY DEF IInv, PageInv, SignIn, Move, Moves
    <2>4. IsTask(x) /\ x.by = "login"
      BY <2>2, <2>3, NewTask
    <2>5. OwnTask(x)
      BY <2>4 DEF OwnTask
    <2> QED
      BY <1>1, <2>1, <2>4, <2>5, TaskAdded DEF IInv, SignIn
  <1> QED
    BY <1>1, <1>2, <1>3 DEF IInv
LEMMA SignInToKeeps == ASSUME IInv, NEW s \in Servers, SignInTo(s) PROVE IInv'
  <1>1. Grows /\ ServerInv'
    BY ServersStay DEF IInv, SignInTo, servers, marks
  <1>2. PageInv' /\ EntryInv' /\ ConnInv' /\ ChatsInv' /\ BackupInv' /\ HookInv' /\ SavedInv'
    BY <1>1, PageStays, EntryStays, ConnStays, ChatsStay, BackupStays, HookStays, SavedStays DEF IInv, SignInTo
  <1>3. TaskInv'
    <2>1. PICK x : x = [NoTask EXCEPT !.by = "login", !.at = "settings", !.s = s]
      OBVIOUS
    <2>2. x = [id |-> 0, by |-> "login", at |-> "settings", s |-> s, no |-> 0, key |-> [auth |-> 0, dev |-> 0],
               dev |-> 0, tok |-> FALSE, req |-> 0, ver |-> 0, key2 |-> 0]
      BY <2>1 DEF NoTask, NoKey
    <2>3. s \in Servers
      OBVIOUS
    <2>4. IsTask(x) /\ x.by = "login"
      BY <2>2, <2>3, NewTask
    <2>5. OwnTask(x)
      BY <2>4 DEF OwnTask
    <2> QED
      BY <1>1, <2>1, <2>4, <2>5, TaskAdded DEF IInv, SignInTo
  <1> QED
    BY <1>1, <1>2, <1>3 DEF IInv

\* The session that is stored.
LEMMA Kept ==
    ASSUME SavedInv, Grows, NEW s, NEW l \in Nat, NEW f \in BOOLEAN, s = Home => GivenBy(l, Home)', SaveIf(s, l, f)
    PROVE  SavedInv'
  <1>1. CASE s = Home
    <2>1. saved' = [auth |-> l, fresh |-> f]
      BY <1>1 DEF SaveIf
    <2>2. saved' \in [auth: Nat, fresh: BOOLEAN] /\ saved'.auth = l
      BY <2>1
    <2> QED
      BY <1>1, <2>2 DEF SavedInv, GivenBy
  <1>2. CASE s # Home
    BY <1>2, SavedStays DEF SaveIf
  <1> QED
    BY <1>1, <1>2
LEMMA HookSet ==
    ASSUME ServerInv', NEW l \in 0 .. Len(logins'), NEW f \in BOOLEAN, NEW s \in Servers \cup {"none"},
           s \notin mixed' => GivenBy(l, s)', hook' = [auth |-> l, fresh |-> f, at |-> s]
    PROVE  HookInv'
  <1>1. Len(logins') \in Nat
    BY DEF ServerInv
  <1>2. /\ hook' \in [auth: Nat, fresh: BOOLEAN, at: Servers \cup {"none"}]
        /\ hook'.auth = l /\ hook'.at = s
    BY <1>1
  <1> QED
    BY <1>2 DEF HookInv, GivenBy
LEMMA NoHookIs == ASSUME ServerInv', hook' = NoHook PROVE HookInv'
  <1>1. 0 \in 0 .. Len(logins')
    BY DEF ServerInv
  <1> QED
    BY <1>1, HookSet DEF NoHook, GivenBy

LEMMA SignedInKeeps == ASSUME IInv, NEW t \in tasks, NEW u \in Users, SignedIn(t, u) PROVE IInv'
  <1>1. t.s \in Servers
    BY DEF IInv, TaskInv, IsTask
  <1>2. PICK n : n = Len(logins) + 1
    OBVIOUS
  <1>3. Grows /\ ServerInv' /\ GivenBy(n, t.s)' /\ n \in Nat /\ n \in 0 .. Len(logins')
    BY <1>1, <1>2, LoginMade DEF IInv, SignedIn
  <1>4. ConnInv' /\ ChatsInv' /\ BackupInv' /\ TaskInv'
    BY <1>3, ConnStays, ChatsStay, BackupStays, TasksStay DEF IInv, SignedIn, Without
  <1>5. CASE t.at = "hook"
    <2>1. EntryInv' /\ PageInv'
      BY <1>3, <1>5, EntryStays, PageStays DEF IInv, SignedIn
    <2>2. hook' = [auth |-> n, fresh |-> TRUE, at |-> t.s] /\ SaveIf(t.s, n, TRUE)
      BY <1>2, <1>5 DEF SignedIn, Session
    <2>3. HookInv' /\ SavedInv'
      BY <1>1, <1>3, <2>2, HookSet, Kept DEF IInv
    <2> QED
      BY <1>3, <1>4, <2>1, <2>3 DEF IInv
  <1>6. CASE t.at # "hook"
    <2>1. HookInv' /\ SavedInv'
      BY <1>3, <1>6, HookStays, SavedStays DEF IInv, SignedIn
    <2>2. PageInv'
      BY <1>1, <1>6 DEF IInv, PageInv, SignedIn
    <2>3. EntryInv'
      <3>1. PICK e : e = [entry[t.s] EXCEPT !.auth = n, !.fresh = TRUE]
        OBVIOUS
      <3>2. e \in Entries /\ e.auth = n /\ e.dev = entry[t.s].dev
        BY <1>1, <1>3, <3>1 DEF IInv, EntryInv, Entries
      <3>3. Fits(e, t.s)'
        BY <1>1, <1>3, <3>2, MadeStays DEF Fits, IInv, EntryInv, Grows
      <3> QED
        BY <1>1, <1>2, <1>3, <1>6, <3>1, <3>3, Rewritten DEF IInv, SignedIn
    <2> QED
      BY <1>3, <1>4, <2>1, <2>2, <2>3 DEF IInv
  <1> QED
    BY <1>5, <1>6

LEMMA RenewLaterKeeps == ASSUME IInv, RenewLater PROVE IInv'
  <1>1. Grows /\ ServerInv'
    BY ServersStay DEF IInv, RenewLater, servers, marks
  <1>2. PageInv' /\ EntryInv' /\ ConnInv' /\ ChatsInv' /\ BackupInv' /\ HookInv' /\ SavedInv'
    BY <1>1, PageStays, EntryStays, ConnStays, ChatsStay, BackupStays, HookStays, SavedStays DEF IInv, RenewLater
  <1>3. TaskInv'
    <2>1. PICK x : x = [NoTask EXCEPT !.by = "timer", !.s = base, !.key = [auth |-> hook.auth, dev |-> 0]]
      OBVIOUS
    <2>2. x = [id |-> 0, by |-> "timer", at |-> "none", s |-> base, no |-> 0,
               key |-> [auth |-> hook.auth, dev |-> 0],
               dev |-> 0, tok |-> FALSE, req |-> 0, ver |-> 0, key2 |-> 0]
      BY <2>1 DEF NoTask
    <2>3. base \in Servers /\ hook.auth \in Nat /\ hook.auth \in DOMAIN logins
      BY DEF IInv, PageInv, HookInv, ServerInv, RenewLater
    <2>4. IsTask(x) /\ x.by = "timer" /\ x.key.auth = hook.auth
      BY <2>2, <2>3, NewTask
    <2>5. OwnTask(x)
      BY <2>3, <2>4 DEF OwnTask
    <2> QED
      BY <1>1, <2>1, <2>4, <2>5, TaskAdded DEF IInv, RenewLater
  <1> QED
    BY <1>1, <1>2, <1>3 DEF IInv

LEMMA HookRenewedKeeps == ASSUME IInv, NEW t \in tasks, NEW works \in BOOLEAN, HookRenewed(t, works) PROVE IInv'
  <1>1. IsTask(t) /\ OwnTask(t) /\ t.s \in Servers /\ t.key.auth \in Nat /\ t.by \in {"silent", "timer"}
    BY DEF IInv, TaskInv, IsTask, HookRenewed
  <1>2. UNCHANGED <<logins, devs, ver>> /\ mixed \subseteq mixed'
    BY DEF HookRenewed, servers
  <1>3. Grows /\ ServerInv'
    BY <1>2, MixedGrows DEF IInv
  <1>4. PageInv' /\ EntryInv' /\ ConnInv' /\ ChatsInv' /\ BackupInv' /\ TaskInv'
    BY <1>3, PageStays, EntryStays, ConnStays, ChatsStay, BackupStays, TasksStay DEF IInv, HookRenewed, Without
  <1>5. PICK l : l = t.key.auth
    OBVIOUS
  <1>6. l \in Nat /\ l \in 0 .. Len(logins') /\ (t.by = "silent" => t.s = Home /\ GivenBy(l, Home))
    BY <1>1, <1>2, <1>5 DEF OwnTask, IInv, ServerInv, GivenBy
  <1>7. PICK ok \in BOOLEAN : ok = (works /\ logins[l].ok /\ logins[l].s = t.s)
    OBVIOUS
  <1>8. PICK wanted \in BOOLEAN : wanted = (t.by = "silent" \/ (ok /\ hook.auth # 0))
    OBVIOUS
  <1>9. (wanted /\ t.by = "timer") => l \in DOMAIN logins /\ logins[l].s = t.s
    BY <1>1, <1>5, <1>7, <1>8 DEF OwnTask
  <1>10. IF wanted /\ ok THEN SaveIf(t.s, l, TRUE) ELSE UNCHANGED saved
    BY <1>5, <1>7, <1>8 DEF HookRenewed
  <1>11. SavedInv'
    <2>1. wanted /\ t.s = Home => GivenBy(l, Home)
      BY <1>1, <1>6, <1>9 DEF GivenBy
    <2> QED
      BY <1>3, <1>6, <1>10, <2>1, Kept, SavedStays, GivenStays DEF IInv
  <1>12. HookInv'
    <2>1. CASE ~wanted
      <3>1. hook' = hook
        BY <1>5, <1>7, <1>8, <2>1 DEF HookRenewed
      <3> QED
        BY <1>3, <3>1, HookStays DEF IInv
    <2>2. CASE wanted
      <3>1. PICK f \in BOOLEAN : f = Newest(t, ok)
        BY DEF Newest
      <3>2. PICK a : a = IF t.by = "silent" THEN Home ELSE hook.at
        OBVIOUS
      <3>3. hook' = [auth |-> l, fresh |-> f, at |-> a]
        BY <1>5, <1>7, <1>8, <2>2, <3>1, <3>2 DEF HookRenewed
      <3>4. a \in Servers \cup {"none"}
        BY <3>2, HomeAssumption DEF IInv, HookInv
      <3>5. a # t.s => a \in mixed'
        <4>1. hook'.at = a /\ hook'.auth = l
          BY <3>3
        <4> QED
          BY <1>5, <1>7, <1>8, <2>2, <4>1 DEF HookRenewed
      <3>6. a = t.s => GivenBy(l, a)
        BY <1>1, <1>6, <1>9, <2>2 DEF GivenBy
      <3>7. a \notin mixed' => GivenBy(l, a)'
        BY <1>3, <3>5, <3>6, GivenStays
      <3> QED
        BY <1>3, <1>6, <3>3, <3>4, <3>7, HookSet
    <2> QED
      BY <2>1, <2>2
  <1> QED
    BY <1>3, <1>4, <1>11, <1>12 DEF IInv

LEMMA ExportKeeps == ASSUME IInv, NEW pw \in BOOLEAN, Export(pw) PROVE IInv'
  <1>1. Grows /\ ServerInv'
    BY ServersStay DEF IInv, Export, servers, marks
  <1>2. PageInv' /\ EntryInv' /\ ConnInv' /\ ChatsInv' /\ HookInv' /\ SavedInv' /\ TaskInv'
    BY <1>1, PageStays, EntryStays, ConnStays, ChatsStay, HookStays, SavedStays, TasksStay DEF IInv, Export, page
  <1>3. BackupInv'
    <2> DEFINE copy(s) == [listed |-> TRUE, sort |-> entry[s].sort, auth |-> entry[s].auth, pw |-> pw /\ entry[s].auth # 0]
    <2>1. ASSUME NEW s \in Servers
          PROVE  /\ backup'[s] \in [listed: BOOLEAN, sort: Nat, auth: Nat, pw: BOOLEAN]
                 /\ backup'[s].auth \in {0, entry[s].auth}
      <3>1. PICK b \in BOOLEAN : b = (pw /\ entry[s].auth # 0)
        OBVIOUS
      <3>2. entry[s].sort \in Nat /\ entry[s].auth \in Nat
        BY DEF IInv, EntryInv, Entries
      <3>3. CASE entry[s].there
        <4>1. backup'[s] = [listed |-> TRUE, sort |-> entry[s].sort, auth |-> entry[s].auth, pw |-> b]
          BY <3>1, <3>3 DEF Export
        <4> QED
          BY <3>2, <4>1
      <3>4. CASE ~entry[s].there
        BY <3>4 DEF Export, NoCopy
      <3> QED
        BY <3>3, <3>4
    <2>2. ASSUME NEW s \in Servers \ mixed' PROVE GivenBy(backup[s].auth, s)'
      <3>1. PICK x : x = backup'[s].auth
        OBVIOUS
      <3>2. GivenBy(x, s)
        BY <1>1, <2>1, <2>2, <3>1 DEF Grows, IInv, EntryInv, GivenBy
      <3>3. GivenBy(x, s)'
        BY <1>1, <3>2, GivenStays
      <3> QED
        BY <3>1, <3>3 DEF GivenBy
    <2>3. backup' = [s \in Servers |-> backup'[s]]
      BY DEF Export
    <2> QED
      BY <2>1, <2>2, <2>3 DEF BackupInv
  <1> QED
    BY <1>1, <1>2, <1>3 DEF IInv

LEMMA RestoreKeeps == ASSUME IInv, Restore PROVE IInv'
  <1>1. Grows /\ ServerInv'
    BY ServersStay DEF IInv, Restore, servers, marks
  <1>2. PageInv' /\ EntryInv' /\ ConnInv' /\ ChatsInv' /\ BackupInv' /\ HookInv' /\ SavedInv'
    BY <1>1, PageStays, EntryStays, ConnStays, ChatsStay, BackupStays, HookStays, SavedStays DEF IInv, Restore
  <1>3. TaskInv'
    <2> DEFINE one(s) == [NoTask EXCEPT !.by = "restore", !.at = IF Onboarding THEN "hook" ELSE "settings", !.s = s,
                                 !.key = [auth |-> backup[s].auth, dev |-> 0], !.tok = backup[s].pw,
                                 !.req = IF entry[s].there THEN 1 ELSE 0, !.ver = backup[s].sort,
                                 !.no = IF active = "none" THEN 1 ELSE 0]
               R == {s \in Servers : backup[s].listed}
    <2>1. ASSUME NEW s \in R PROVE IsTask(one(s)) /\ OwnTask(one(s))
      <3>1. backup[s].auth \in Nat /\ backup[s].sort \in Nat /\ (s \notin mixed => GivenBy(backup[s].auth, s))
        BY <2>1 DEF IInv, BackupInv
      <3>2. PICK x : x = one(s)
        OBVIOUS
      <3>3. x = [id |-> 0, by |-> "restore", at |-> IF Onboarding THEN "hook" ELSE "settings", s |-> s,
                 no |-> IF active = "none" THEN 1 ELSE 0, key |-> [auth |-> backup[s].auth, dev |-> 0], dev |-> 0,
                 tok |-> backup[s].pw, req |-> IF entry[s].there THEN 1 ELSE 0, ver |-> backup[s].sort, key2 |-> 0]
        BY <3>2 DEF NoTask
      <3>4. IsTask(x) /\ x.by = "restore" /\ x.s = s /\ x.key.auth = backup[s].auth /\ x.dev = 0
        BY <3>1, <3>3, NewTask
      <3>5. OwnTask(x)
        BY <3>1, <3>4 DEF OwnTask, MadeBy
      <3> QED
        BY <3>2, <3>4, <3>5
    <2>2. tasks' = PlusAll(tasks, {one(s) : s \in R})
      BY DEF Restore
    <2>3. AreTasks(tasks)
      BY DEF IInv, TaskInv, AreTasks
    <2> HIDE DEF one, R
    <2>4. \A x \in {one(s) : s \in R} : IsTask(x) /\ OwnTask(x)
      BY <2>1
    <2> QED
      BY <1>1, <2>2, <2>3, <2>4, AddedAre, TasksAre
  <1> QED
    BY <1>1, <1>2, <1>3 DEF IInv

\* A server of the file is in the list again.
LEMMA RestoresKeeps ==
    ASSUME IInv, Grows, NEW t \in tasks, NEW l \in Nat, t.s \notin mixed' => GivenBy(l, t.s)',
           Restores(t, l, TRUE), UNCHANGED base
    PROVE  EntryInv' /\ PageInv'
  <1>1. t.s \in Servers
    BY DEF IInv, TaskInv, IsTask
  <1>2. entry[t.s] \in Entries
    BY <1>1 DEF IInv, EntryInv
  <1>3. EntryInv'
    <2>1. CASE t.req = 1
      <3>1. PICK e : e = [entry[t.s] EXCEPT !.on = TRUE, !.auth = l, !.fresh = TRUE]
        OBVIOUS
      <3>2. e \in Entries /\ e.auth = l /\ e.dev = entry[t.s].dev
        BY <1>2, <3>1 DEF Entries
      <3>3. Fits(e, t.s)'
        BY <1>1, <3>2, MadeStays DEF Fits, IInv, EntryInv, Grows
      <3> QED
        BY <1>1, <2>1, <3>1, <3>3, Rewritten DEF IInv, Restores
    <2>2. CASE t.req # 1
      <3>1. PICK e : e = [entry[t.s] EXCEPT !.auth = l, !.fresh = TRUE]
        OBVIOUS
      <3>2. e \in Entries /\ e.auth = l /\ e.dev = entry[t.s].dev
        BY <1>2, <3>1 DEF Entries
      <3>3. Fits(e, t.s)'
        BY <1>1, <3>2, MadeStays DEF Fits, IInv, EntryInv, Grows
      <3> QED
        BY <1>1, <2>2, <3>1, <3>3, PutIn DEF IInv, Restores
    <2> QED
      BY <2>1, <2>2
  <1>4. PageInv'
    BY <1>1 DEF IInv, PageInv, Restores
  <1> QED
    BY <1>3, <1>4

LEMMA RestoredKeeps == ASSUME IInv, NEW t \in tasks, Restored(t) PROVE IInv'
  <1>1. OwnTask(t) /\ t.by = "restore" /\ t.key.auth \in Nat
    BY DEF IInv, TaskInv, IsTask, Restored, IsRestore
  <1>2. Grows /\ ServerInv'
    BY ServersStay DEF IInv, Restored, Restores, servers
  <1>3. ConnInv' /\ ChatsInv' /\ BackupInv' /\ HookInv' /\ SavedInv' /\ TaskInv'
    BY <1>2, ConnStays, ChatsStay, BackupStays, HookStays, SavedStays, TasksStay DEF IInv, Restored, Without
  <1>4. t.s \notin mixed' => GivenBy(t.key.auth, t.s)'
    BY <1>1, <1>2, GivenStays DEF OwnTask, Grows
  <1>5. EntryInv' /\ PageInv'
    BY <1>1, <1>2, <1>4, RestoresKeeps DEF Restored
  <1> QED
    BY <1>2, <1>3, <1>5 DEF IInv
LEMMA RestoredByPasswordKeeps ==
    ASSUME IInv, NEW t \in tasks, NEW u \in Users, RestoredByPassword(t, u) PROVE IInv'
  <1>1. OwnTask(t) /\ t.by = "restore" /\ t.s \in Servers /\ t.key.auth \in Nat
    BY DEF IInv, TaskInv, IsTask, RestoredByPassword, IsRestore
  <1>2. PICK n : n = Len(logins) + 1
    OBVIOUS
  <1>3. Grows /\ ServerInv' /\ GivenBy(n, t.s)' /\ n \in Nat
    BY <1>1, <1>2, LoginMade DEF IInv, RestoredByPassword, Restores
  <1>4. ConnInv' /\ ChatsInv' /\ BackupInv' /\ HookInv' /\ SavedInv' /\ TaskInv'
    BY <1>3, ConnStays, ChatsStay, BackupStays, HookStays, SavedStays, TasksStay DEF IInv, RestoredByPassword, Without
  <1>5. PICK l : l = IF t.at = "settings" THEN n ELSE t.key.auth
    OBVIOUS
  <1>6. l \in Nat /\ Restores(t, l, TRUE)
    BY <1>1, <1>2, <1>3, <1>5 DEF RestoredByPassword
  <1>7. t.s \notin mixed' => GivenBy(l, t.s)'
    <2>1. CASE t.at = "settings"
      BY <1>3, <1>5, <2>1 DEF GivenBy
    <2>2. CASE t.at # "settings"
      <3>1. l = t.key.auth
        BY <1>5, <2>2
      <3>2. t.s \notin mixed' => GivenBy(l, t.s)
        BY <1>1, <1>3, <3>1 DEF OwnTask, Grows
      <3> QED
        BY <1>3, <3>2, GivenStays
    <2> QED
      BY <2>1, <2>2
  <1>8. EntryInv' /\ PageInv'
    BY <1>3, <1>6, <1>7, RestoresKeeps DEF RestoredByPassword
  <1> QED
    BY <1>3, <1>4, <1>8 DEF IInv
LEMMA NotRestoredKeeps == ASSUME IInv, NEW t \in tasks, NotRestored(t) PROVE IInv'
  <1>1. t.s \in Servers
    BY DEF IInv, TaskInv, IsTask
  <1>2. Grows /\ ServerInv'
    BY ServersStay DEF IInv, NotRestored, servers, marks
  <1>3. ConnInv' /\ ChatsInv' /\ BackupInv' /\ HookInv' /\ SavedInv' /\ TaskInv'
    BY <1>2, ConnStays, ChatsStay, BackupStays, HookStays, SavedStays, TasksStay DEF IInv, NotRestored, Without
  <1>4. PageInv'
    BY <1>1 DEF IInv, PageInv, NotRestored
  <1>5. EntryInv'
    <2>1. CASE UNCHANGED entry
      BY <1>2, <2>1, EntryStays DEF IInv
    <2>2. CASE entry' = Put(entry, t.s, entry[t.s])
      <3>1. PICK e : e = entry[t.s]
        OBVIOUS
      <3>2. Fits(e, t.s)'
        BY <1>1, <1>2, <3>1, OwnFits DEF IInv
      <3> QED
        BY <1>1, <1>2, <2>2, <3>1, <3>2, PutIn DEF IInv
    <2> QED
      BY <2>1, <2>2 DEF NotRestored
  <1> QED
    BY <1>2, <1>3, <1>4, <1>5 DEF IInv

\* The session goes from an entry.
LEMMA LeftFits ==
    ASSUME IInv, NEW s \in Servers, NEW e, e = [entry[s] EXCEPT !.auth = 0, !.fresh = FALSE, !.dev = 0]
    PROVE  Fits(e, s)'
  <1>1. e \in Entries /\ e.auth = 0 /\ e.dev = 0
    BY DEF IInv, EntryInv, Entries
  <1> QED
    BY <1>1 DEF Fits, GivenBy, MadeBy
LEMMA SignOutKeeps == ASSUME IInv, NEW s \in Servers, SignOut(s) PROVE IInv'
  <1>1. Grows /\ ServerInv'
    BY ServersStay DEF IInv, SignOut, Leaves, servers
  <1>2. PageInv' /\ ConnInv' /\ ChatsInv' /\ BackupInv' /\ HookInv' /\ SavedInv' /\ TaskInv'
    BY <1>1, PageStays, ConnStays, ChatsStay, BackupStays, HookStays, SavedStays, TasksStay DEF IInv, SignOut
  <1>3. EntryInv'
    <2>1. PICK e : e = [entry[s] EXCEPT !.auth = 0, !.fresh = FALSE, !.dev = 0]
      OBVIOUS
    <2> QED
      BY <1>1, <2>1, LeftFits, EntrySet DEF IInv, SignOut
  <1> QED
    BY <1>1, <1>2, <1>3 DEF IInv

LEMMA NotSaved == ASSUME saved' = [auth |-> 0, fresh |-> FALSE] PROVE SavedInv'
  BY DEF SavedInv, GivenBy
LEMMA ForgetKeeps == ASSUME IInv, Forget PROVE IInv'
  <1>1. PICK s : s = ActiveServer(entry, active)
    OBVIOUS
  <1>2. s \in Servers
    BY <1>1, ActiveIsOne DEF IInv, EntryInv, PageInv, Forget
  <1>3. Grows /\ ServerInv'
    BY ServersStay DEF IInv, Forget, Leaves, servers
  <1>4. PageInv' /\ ConnInv' /\ ChatsInv' /\ BackupInv'
    BY <1>3, PageStays, ConnStays, ChatsStay, BackupStays DEF IInv, Forget
  <1>5. EntryInv'
    <2>1. PICK e : e = [entry[s] EXCEPT !.auth = 0, !.fresh = FALSE, !.dev = 0]
      OBVIOUS
    <2>2. entry' = [entry EXCEPT ![s] = e]
      BY <1>1, <2>1 DEF Forget
    <2> QED
      BY <1>2, <1>3, <2>1, <2>2, LeftFits, EntrySet DEF IInv
  <1>6. HookInv' /\ SavedInv' /\ TaskInv'
    <2>1. CASE UNCHANGED <<hook, saved, tasks>>
      BY <1>3, <2>1, HookStays, SavedStays, TasksStay DEF IInv
    <2>2. CASE hook' = NoHook /\ saved' = [auth |-> 0, fresh |-> FALSE] /\ UNCHANGED tasks
      BY <1>3, <2>2, NoHookIs, NotSaved, TasksStay DEF IInv
    <2>3. CASE /\ tasks' = Plus(tasks, [NoTask EXCEPT !.by = "out", !.s = Home,
                                                       !.key = [auth |-> hook.auth, dev |-> 0]])
               /\ UNCHANGED <<hook, saved>>
      <3>1. PICK x : x = [NoTask EXCEPT !.by = "out", !.s = Home, !.key = [auth |-> hook.auth, dev |-> 0]]
        OBVIOUS
      <3>2. x = [id |-> 0, by |-> "out", at |-> "none", s |-> Home, no |-> 0,
                 key |-> [auth |-> hook.auth, dev |-> 0],
                 dev |-> 0, tok |-> FALSE, req |-> 0, ver |-> 0, key2 |-> 0]
        BY <3>1 DEF NoTask
      <3>3. hook.auth \in Nat
        BY DEF IInv, HookInv
      <3>4. IsTask(x) /\ x.by = "out"
        BY <3>2, <3>3, HomeAssumption, NewTask
      <3>5. OwnTask(x)
        BY <3>4 DEF OwnTask
      <3> QED
        BY <1>3, <2>3, <3>1, <3>4, <3>5, TaskAdded, HookStays, SavedStays DEF IInv
    <2> QED
      BY <2>1, <2>2, <2>3 DEF Forget
  <1> QED
    BY <1>3, <1>4, <1>5, <1>6 DEF IInv

LEMMA LoginEnds ==
    ASSUME ServerInv, NEW l, logins' = [logins EXCEPT ![l].ok = FALSE] \/ UNCHANGED logins,
           UNCHANGED <<devs, ver, mixed>>
    PROVE  Grows /\ ServerInv'
  <1>1. logins \in Seq(LoginType) /\ Len(logins) \in Nat /\ logins \in [1 .. Len(logins) -> LoginType]
    BY DEF ServerInv
  <1>2. CASE UNCHANGED logins
    BY <1>2, ServersStay
  <1>3. CASE logins' = [logins EXCEPT ![l].ok = FALSE]
    <2>1. logins' \in [1 .. Len(logins) -> LoginType] /\ \A i \in 1 .. Len(logins) : logins'[i].s = logins[i].s
      BY <1>1, <1>3 DEF LoginType
    <2>2. logins' \in Seq(LoginType)
      BY <1>1, <2>1
    <2>3. Grows
      BY <1>1, <2>1 DEF Grows
    <2> QED
      BY <2>2, <2>3 DEF ServerInv, IsDevice
  <1> QED
    BY <1>2, <1>3
LEMMA ForgottenKeeps == ASSUME IInv, NEW t \in tasks, NEW works \in BOOLEAN, Forgotten(t, works) PROVE IInv'
  <1>1. Grows /\ ServerInv'
    BY LoginEnds DEF IInv, Forgotten, marks
  <1>2. PageInv' /\ EntryInv' /\ ConnInv' /\ ChatsInv' /\ BackupInv' /\ HookInv' /\ SavedInv' /\ TaskInv'
    BY <1>1, PageStays, EntryStays, ConnStays, ChatsStay, BackupStays, NoHookIs, NotSaved, TasksStay
    DEF IInv, Forgotten, Without
  <1> QED
    BY <1>1, <1>2 DEF IInv

LEMMA NoEntryFits == ASSUME NEW s, NEW e, e = NoEntry PROVE Fits(e, s)'
  <1>1. e \in Entries /\ e.auth = 0 /\ e.dev = 0
    BY DEF NoEntry, Entries
  <1> QED
    BY <1>1 DEF Fits, GivenBy, MadeBy
LEMMA AddKeeps == ASSUME IInv, NEW s \in Servers, Add(s) PROVE IInv'
  <1>1. Grows /\ ServerInv'
    BY ServersStay DEF IInv, Add, servers, marks
  <1>2. ConnInv' /\ ChatsInv' /\ BackupInv' /\ HookInv' /\ SavedInv' /\ TaskInv'
    BY <1>1, ConnStays, ChatsStay, BackupStays, HookStays, SavedStays, TasksStay DEF IInv, Add
  <1>3. PageInv'
    BY DEF IInv, PageInv, Add
  <1>4. EntryInv'
    <2>1. PICK e : e = NoEntry
      OBVIOUS
    <2> QED
      BY <1>1, <2>1, NoEntryFits, PutIn DEF IInv, Add
  <1> QED
    BY <1>1, <1>2, <1>3, <1>4 DEF IInv
LEMMA SelectKeeps == ASSUME IInv, NEW s \in Servers, Select(s) PROVE IInv'
  <1>1. Grows /\ ServerInv'
    BY ServersStay DEF IInv, Select, servers, marks
  <1>2. EntryInv' /\ ConnInv' /\ ChatsInv' /\ BackupInv' /\ HookInv' /\ SavedInv' /\ TaskInv'
    BY <1>1, EntryStays, ConnStays, ChatsStay, BackupStays, HookStays, SavedStays, TasksStay DEF IInv, Select
  <1>3. PageInv'
    BY DEF IInv, PageInv, Select
  <1> QED
    BY <1>1, <1>2, <1>3 DEF IInv
LEMMA ToggleKeeps == ASSUME IInv, NEW s \in Servers, Toggle(s) PROVE IInv'
  <1>1. Grows /\ ServerInv'
    BY ServersStay DEF IInv, Toggle, Leaves, servers
  <1>2. PageInv' /\ ConnInv' /\ ChatsInv' /\ BackupInv' /\ HookInv' /\ SavedInv' /\ TaskInv'
    BY <1>1, PageStays, ConnStays, ChatsStay, BackupStays, HookStays, SavedStays, TasksStay DEF IInv, Toggle
  <1>3. EntryInv'
    <2>1. PICK b \in BOOLEAN : b = ~entry[s].on
      OBVIOUS
    <2>2. PICK e : e = [entry[s] EXCEPT !.on = b]
      OBVIOUS
    <2>3. entry[s] \in Entries
      BY DEF IInv, EntryInv
    <2>4. e \in Entries /\ e.auth = entry[s].auth /\ e.dev = entry[s].dev
      BY <2>2, <2>3 DEF Entries
    <2>5. entry' = [entry EXCEPT ![s] = [entry[s] EXCEPT !.on = ~entry[s].on]]
      BY <2>3 DEF Toggle, IInv, EntryInv, Entries
    <2>6. entry' = [entry EXCEPT ![s] = e]
      BY <2>1, <2>2, <2>5
    <2>7. Fits(e, s)'
      BY <1>1, <2>4, GivenStays, MadeStays DEF Fits, IInv, EntryInv, Grows
    <2> QED
      BY <1>1, <2>6, <2>7, EntrySet DEF IInv
  <1> QED
    BY <1>1, <1>2, <1>3 DEF IInv

\* Every entry changes, but not its login or device; or it goes.
LEMMA EntriesChanged ==
    ASSUME EntryInv, Grows, entry' \in [Servers -> Entries],
           \A s \in Servers : entry'[s].auth \in {0, entry[s].auth} /\ entry'[s].dev \in {0, entry[s].dev}
    PROVE  EntryInv'
  <1>1. ASSUME NEW s \in Servers \ mixed' PROVE GivenBy(entry[s].auth, s)' /\ MadeBy(entry[s].dev, s)'
    <2>1. PICK x, d : x = entry'[s].auth /\ d = entry'[s].dev
      OBVIOUS
    <2>2. s \notin mixed
      BY <1>1 DEF Grows
    <2>3. GivenBy(x, s) /\ MadeBy(d, s)
      BY <1>1, <2>1, <2>2 DEF EntryInv, GivenBy, MadeBy
    <2>4. GivenBy(x, s)' /\ MadeBy(d, s)'
      BY <2>3, GivenStays, MadeStays
    <2> QED
      BY <2>1, <2>4 DEF GivenBy, MadeBy
  <1> QED
    BY <1>1 DEF EntryInv

LEMMA RemoveKeeps == ASSUME IInv, NEW s \in Servers, Remove(s) PROVE IInv'
  <1>1. Grows /\ ServerInv'
    BY ServersStay DEF IInv, Remove, Leaves, servers
  <1>2. BackupInv' /\ HookInv' /\ SavedInv' /\ TaskInv'
    BY <1>1, BackupStays, HookStays, SavedStays, TasksStay DEF IInv, Remove
  <1>3. NoEntry \in Entries /\ NoEntry.auth = 0 /\ NoEntry.dev = 0
    BY DEF NoEntry, Entries
  <1>4. PageInv'
    <2>1. [entry EXCEPT ![s] = NoEntry] \in [Servers -> Entries]
      BY <1>3 DEF IInv, EntryInv
    <2>2. Preferred([entry EXCEPT ![s] = NoEntry]) \in Servers \cup {"none"}
      BY <2>1, PreferredIsOne
    <2> QED
      BY <2>2 DEF IInv, PageInv, Remove
  <1>5. EntryInv'
    <2>1. ASSUME NEW t \in Servers
          PROVE  /\ entry'[t] \in Entries
                 /\ entry'[t].auth \in {0, entry[t].auth} /\ entry'[t].dev \in {0, entry[t].dev}
      <3>1. entry[t] \in Entries /\ entry[s] \in Entries
        BY DEF IInv, EntryInv
      <3>2. CASE t = s
        BY <1>3, <3>2 DEF Remove
      <3>3. CASE t # s
        <4>1. PICK n : n = IF entry[t].sort > entry[s].sort THEN entry[t].sort - 1 ELSE entry[t].sort
          OBVIOUS
        <4>2. n \in Nat
          BY <3>1, <4>1 DEF Entries
        <4>3. entry'[t] = [entry[t] EXCEPT !.sort = n]
          BY <3>3, <4>1 DEF Remove
        <4> QED
          BY <3>1, <4>2, <4>3 DEF Entries
      <3> QED
        BY <3>2, <3>3
    <2>2. entry' = [t \in Servers |-> entry'[t]]
      BY DEF Remove
    <2>3. entry' \in [Servers -> Entries]
      BY <2>1, <2>2
    <2> QED
      BY <1>1, <2>1, <2>3, EntriesChanged DEF IInv
  <1>6. ConnInv'
    <2>1. PICK c : c = NoConn
      OBVIOUS
    <2>2. IsConn(c) /\ c.user = 0
      BY <2>1, NewConn
    <2> QED
      BY <1>1, <2>1, <2>2, ConnChanged DEF IInv, Remove
  <1>7. ChatsInv'
    <2>1. s \notin mixed' => GivenBy(0, s)'
      BY DEF GivenBy
    <2> QED
      BY <1>1, <2>1, ChatsSet DEF IInv, Remove
  <1> QED
    BY <1>1, <1>2, <1>4, <1>5, <1>6, <1>7 DEF IInv

LEMMA RevokeKeeps == ASSUME IInv, NEW s \in Servers, Revoke(s) PROVE IInv'
  <1>1. PICK D : devs \in Seq(D) /\ \A x \in D : IsDevice(x)
    BY DEF IInv, ServerInv
  <1>2. PICK i : devs' = [devs EXCEPT ![i].ok = FALSE]
    BY DEF Revoke
  <1> DEFINE E == D \cup {[x EXCEPT !.ok = FALSE] : x \in D}
  <1>3. \A x \in E : IsDevice(x)
    BY <1>1 DEF IsDevice
  <1>4. /\ Len(devs) \in Nat /\ devs \in [1 .. Len(devs) -> D] /\ DOMAIN devs = 1 .. Len(devs)
    BY <1>1
  <1>5. \A j \in 1 .. Len(devs) : devs'[j] = IF j = i THEN [devs[j] EXCEPT !.ok = FALSE] ELSE devs[j]
    BY <1>2, <1>4
  <1>6. devs' \in [1 .. Len(devs) -> E]
    BY <1>2, <1>4, <1>5
  <1>7. devs' \in Seq(E)
    BY <1>4, <1>6
  <1>8. ASSUME NEW j \in 1 .. Len(devs) PROVE devs'[j].s = devs[j].s
    <2>1. devs[j] = [s |-> devs[j].s, u |-> devs[j].u, ok |-> devs[j].ok, k |-> devs[j].k]
      BY <1>1, <1>4 DEF IsDevice
    <2> QED
      BY <1>5, <2>1
  <1>9. Grows /\ ServerInv'
    <2>1. Grows
      BY <1>4, <1>6, <1>8 DEF Grows, Revoke
    <2>2. \E F : devs' \in Seq(F) /\ \A x \in F : IsDevice(x)
      BY <1>3, <1>7
    <2> QED
      BY <2>1, <2>2 DEF IInv, ServerInv, Revoke, IsDevice
  <1>10. PageInv' /\ EntryInv' /\ ConnInv' /\ ChatsInv' /\ BackupInv' /\ HookInv' /\ SavedInv' /\ TaskInv'
    BY <1>9, PageStays, EntryStays, ConnStays, ChatsStay, BackupStays, HookStays, SavedStays, TasksStay
    DEF IInv, Revoke, page
  <1> QED
    BY <1>9, <1>10 DEF IInv

LEMMA ExpireKeeps == ASSUME IInv, Expire PROVE IInv'
  <1>1. Grows /\ ServerInv'
    BY ServersStay DEF IInv, Expire, servers, marks
  <1>2. PageInv' /\ ChatsInv' /\ BackupInv' /\ TaskInv'
    BY <1>1, PageStays, ChatsStay, BackupStays, TasksStay DEF IInv, Expire
  <1>3. EntryInv'
    <2>1. ASSUME NEW s \in Servers
          PROVE  entry'[s] \in Entries /\ entry'[s].auth = entry[s].auth /\ entry'[s].dev = entry[s].dev
      <3>1. entry[s] \in Entries /\ entry'[s] = [entry[s] EXCEPT !.fresh = FALSE]
        BY DEF IInv, EntryInv, Expire, Stale
      <3> QED
        BY <3>1 DEF Entries
    <2>2. entry' \in [Servers -> Entries]
      BY <2>1 DEF Expire
    <2> QED
      BY <1>1, <2>1, <2>2, EntriesChanged DEF IInv
  <1>4. ConnInv'
    <2>1. ASSUME NEW s \in Servers, NEW c, c = conn'[s] PROVE IsConn(c) /\ c.user = conn[s].user
      <3>1. IsConn(conn[s]) /\ c = [conn[s] EXCEPT !.tok = FALSE]
        BY <2>1 DEF IInv, ConnInv, Expire
      <3>2. PICK d : d = conn[s]
        OBVIOUS
      <3> QED
        BY <3>1, <3>2, ConnFields
    <2>2. conn' = [s \in Servers |-> conn'[s]]
      BY DEF Expire
    <2> QED
      BY <1>1, <2>1, <2>2, GivenStays DEF ConnInv, IsConn, IInv, Grows, GivenBy
  <1>5. HookInv'
    <2>1. PICK l, f, a : l = hook.auth /\ f = FALSE /\ a = hook.at
      OBVIOUS
    <2>2. /\ l \in 0 .. Len(logins') /\ a \in Servers \cup {"none"} /\ (a \notin mixed' => GivenBy(l, a)')
      BY <1>1, <2>1, GivenStays DEF IInv, HookInv, Grows, Expire, servers
    <2>3. hook' = [auth |-> l, fresh |-> f, at |-> a]
      BY <2>1 DEF IInv, HookInv, Expire, Stale
    <2> QED
      BY <1>1, <2>1, <2>2, <2>3, HookSet
  <1>6. SavedInv'
    <2>1. PICK l \in Nat : l = saved.auth
      BY DEF IInv, SavedInv
    <2>2. saved' = [auth |-> l, fresh |-> FALSE]
      BY <2>1 DEF IInv, SavedInv, Expire, Stale
    <2>3. GivenBy(l, Home)'
      BY <1>1, <2>1, GivenStays DEF IInv, SavedInv
    <2>4. SaveIf(Home, l, FALSE)
      BY <2>2 DEF SaveIf
    <2> QED
      BY <1>1, <2>3, <2>4, Kept DEF IInv
  <1> QED
    BY <1>1, <1>2, <1>3, <1>4, <1>5, <1>6 DEF IInv

\* Nothing is connected, and no chats are listed.
LEMMA NoConns == ASSUME conn' = [s \in Servers |-> NoConn] PROVE ConnInv'
  <1>1. \A s \in Servers : conn'[s] = NoConn /\ IsConn(NoConn) /\ NoConn.user = 0
    BY NewConn
  <1>2. \A s \in Servers : IsConn(conn[s])'
    BY <1>1 DEF IsConn
  <1>3. \A s \in Servers : GivenBy(conn[s].user, s)'
    BY <1>1 DEF GivenBy
  <1>4. conn' = [s \in Servers |-> conn'[s]]
    OBVIOUS
  <1> QED
    BY <1>2, <1>3, <1>4 DEF ConnInv
LEMMA NoChats == ASSUME chats' = [s \in Servers |-> [of |-> 0, ver |-> 0]] PROVE ChatsInv'
  BY DEF ChatsInv, GivenBy
LEMMA ReloadKeeps == ASSUME IInv, Reload PROVE IInv'
  <1>1. Grows /\ ServerInv'
    BY ServersStay DEF IInv, Reload, servers, marks
  <1>2. EntryInv' /\ ConnInv' /\ ChatsInv' /\ BackupInv' /\ SavedInv' /\ TaskInv'
    BY <1>1, EntryStays, NoConns, NoChats, BackupStays, SavedStays, TasksStay DEF IInv, Reload
  <1>3. PageInv'
    BY DEF IInv, PageInv, Reload
  <1>4. HookInv'
    <2>1. CASE hook' = NoHook
      BY <1>1, <2>1, NoHookIs
    <2>2. CASE hook' = [auth |-> saved.auth, fresh |-> saved.fresh, at |-> Home]
      <3>1. PICK l, f : l = saved.auth /\ f = saved.fresh
        OBVIOUS
      <3>2. GivenBy(l, Home)' /\ f \in BOOLEAN
        BY <1>1, <3>1, GivenStays DEF IInv, SavedInv
      <3>3. l \in 0 .. Len(logins')
        <4>1. logins' = logins /\ DOMAIN logins = 1 .. Len(logins) /\ Len(logins) \in Nat
          BY DEF IInv, ServerInv, Reload, servers
        <4> QED
          BY <3>1, <4>1 DEF IInv, SavedInv, GivenBy
      <3> QED
        BY <1>1, <2>2, <3>1, <3>2, <3>3, HookSet, HomeAssumption
    <2> QED
      BY <2>1, <2>2 DEF Reload
  <1> QED
    BY <1>1, <1>2, <1>3, <1>4 DEF IInv

\* A render: what becomes of a connection, and the requests that set out.
LEMMA RenderConns == ASSUME IInv, Grows, Render PROVE ConnInv'
  <1> DEFINE B == {s \in Servers : Starts(s)}
  <1>1. ASSUME NEW s \in Servers, NEW c, c = conn'[s] PROVE IsConn(c) /\ c.user \in {0, conn[s].user}
    <2>1. IsConn(conn[s])
      BY DEF IInv, ConnInv
    <2>2. PICK d : d = Connection(s)
      OBVIOUS
    <2>3. IsConn(d) /\ d.user \in {0, conn[s].user}
      <3>1. CASE d = NoConn
        BY <3>1, NewConn
      <3>2. CASE d = conn[s]
        BY <2>1, <3>2
      <3>3. CASE d = [NoConn EXCEPT !.no = NewNo(s)]
        <4>1. PICK n : n = NewNo(s)
          OBVIOUS
        <4> QED
          BY <3>3, <4>1, NewConn, ConnFields
      <3> QED
        BY <2>2, <3>1, <3>2, <3>3 DEF Connection
    <2>4. PICK k : k = KeyOf(entry[s])
      OBVIOUS
    <2>5. c = [d EXCEPT !.ing = k] \/ c = d
      BY <1>1, <2>2, <2>4 DEF Render
    <2>6. IsConn([d EXCEPT !.ing = k]) /\ [d EXCEPT !.ing = k].user = d.user
      BY <2>3, ConnFields
    <2>7. IsConn(c) /\ c.user = d.user
      BY <2>3, <2>5, <2>6
    <2> QED
      BY <2>3, <2>7
  <1>2. conn' = [s \in Servers |-> conn'[s]]
    BY DEF Render
  <1>3. \A s \in Servers : IsConn(conn[s])'
    BY <1>1 DEF IsConn
  <1>4. ASSUME NEW s \in Servers \ mixed' PROVE GivenBy(conn[s].user, s)'
    <2>1. PICK x : x = conn'[s].user
      OBVIOUS
    <2>2. x \in {0, conn[s].user}
      BY <1>1, <1>4, <2>1
    <2>3. GivenBy(x, s)
      BY <1>4, <2>2 DEF IInv, ConnInv, Grows, GivenBy
    <2>4. GivenBy(x, s)'
      BY <2>3, GivenStays
    <2> QED
      BY <2>1, <2>4 DEF GivenBy
  <1> QED
    BY <1>2, <1>3, <1>4 DEF ConnInv

LEMMA RenderTasks == ASSUME IInv, Grows, Render PROVE TaskInv'
  <1> DEFINE r == HookServer(entry, active)
             stay == {t \in tasks : t.by = "timer" => base = r /\ hook.auth # 0}
             silence == [NoTask EXCEPT !.by = "silent", !.s = Home, !.tok = saved.fresh,
                                       !.key = [auth |-> saved.auth, dev |-> 0]]
             boots == {s \in Servers : Starts(s)}
  <1>1. AreTasks(stay)
    BY DEF AreTasks, IInv, TaskInv
  <1>2. IsTask(silence) /\ OwnTask(silence)
    <2>1. PICK x : x = silence
      OBVIOUS
    <2>2. x = [id |-> 0, by |-> "silent", at |-> "none", s |-> Home, no |-> 0,
               key |-> [auth |-> saved.auth, dev |-> 0],
               dev |-> 0, tok |-> saved.fresh, req |-> 0, ver |-> 0, key2 |-> 0]
      BY <2>1 DEF NoTask
    <2>3. saved.auth \in Nat /\ GivenBy(saved.auth, Home)
      BY DEF IInv, SavedInv
    <2>4. IsTask(x) /\ x.by = "silent" /\ x.s = Home /\ x.key.auth = saved.auth
      BY <2>2, <2>3, HomeAssumption, NewTask
    <2>5. OwnTask(x)
      BY <2>3, <2>4 DEF OwnTask
    <2> QED
      BY <2>1, <2>4, <2>5
  <1>3. ASSUME NEW s \in Servers PROVE IsTask(Boot(s)) /\ OwnTask(Boot(s))
    <2>1. PICK x : x = Boot(s)
      OBVIOUS
    <2>2. PICK n, f : n = Connection(s).no /\ f = entry[s].fresh
      OBVIOUS
    <2>3. x = [id |-> 0, by |-> "boot", at |-> "refresh", s |-> s, no |-> n,
               key |-> [auth |-> entry[s].auth, dev |-> entry[s].dev],
               dev |-> entry[s].dev, tok |-> f, req |-> 0, ver |-> 0, key2 |-> 0]
      BY <2>1, <2>2 DEF Boot, KeyOf, NoTask
    <2>4. /\ entry[s].auth \in Nat /\ entry[s].dev \in Nat
          /\ s \notin mixed => GivenBy(entry[s].auth, s) /\ MadeBy(entry[s].dev, s)
      BY DEF IInv, EntryInv, Entries
    <2>5. IsTask(x) /\ x.by = "boot" /\ x.s = s /\ x.key.auth = entry[s].auth /\ x.dev = entry[s].dev
      BY <2>3, <2>4, NewTask
    <2>6. OwnTask(x)
      BY <2>4, <2>5 DEF OwnTask
    <2> QED
      BY <2>1, <2>5, <2>6
  <1>4. PICK one : tasks' = PlusAll(one, {Boot(s) : s \in boots}) /\ one \in {stay, Plus(stay, silence)}
    BY DEF Render
  <1>5. AreTasks(Plus(stay, silence))
    <2> HIDE DEF stay, silence
    <2>1. \A x \in {silence} : IsTask(x) /\ OwnTask(x)
      BY <1>2
    <2> QED
      BY <1>1, <2>1, AddedAre DEF Plus
  <1>6. AreTasks(one)
    BY <1>1, <1>4, <1>5
  <1>7. \A x \in {Boot(s) : s \in boots} : IsTask(x) /\ OwnTask(x)
    BY <1>3
  <1> HIDE DEF boots
  <1>8. AreTasks(PlusAll(one, {Boot(s) : s \in boots}))
    BY <1>6, <1>7, AddedAre
  <1> QED
    BY <1>4, <1>8, TasksAre

LEMMA RenderKeeps == ASSUME IInv, Render PROVE IInv'
  <1>1. Grows /\ ServerInv'
    BY ServersStay DEF IInv, Render, servers, rest, marks
  <1>2. ChatsInv' /\ BackupInv' /\ SavedInv'
    BY <1>1, ChatsStay, BackupStays, SavedStays DEF IInv, Render, rest
  <1>3. HookInv'
    BY <1>1, HookStays, NoHookIs DEF IInv, Render
  <1>4. Attaches => hook.at \in Servers
    BY DEF Attaches, IInv, HookInv
  <1>5. PageInv'
    <2>1. HookServer(entry, active) \in Servers
      BY ActiveIsOne DEF IInv, EntryInv, PageInv
    <2>2. Picks \in Servers \cup {"none"}
      BY PreferredIsOne DEF IInv, EntryInv, PageInv, Picks
    <2> QED
      BY <1>4, <2>1, <2>2 DEF PageInv, Render
  <1>6. EntryInv'
    <2>1. CASE ~Attaches
      BY <1>1, <2>1, EntryStays DEF IInv, Render
    <2>2. CASE Attaches
      <3>1. PICK s : s = hook.at
        OBVIOUS
      <3>2. PICK e : e = [entry[s] EXCEPT !.auth = hook.auth, !.fresh = hook.fresh]
        OBVIOUS
      <3>3. s \in Servers /\ hook.auth \in Nat /\ hook.fresh \in BOOLEAN /\ entry[s] \in Entries
        BY <1>4, <2>2, <3>1 DEF IInv, HookInv, EntryInv
      <3>4. e \in Entries /\ e.auth = hook.auth /\ e.dev = entry[s].dev
        BY <3>2, <3>3 DEF Entries
      <3>5. Fits(e, s)'
        BY <1>1, <3>1, <3>3, <3>4, GivenStays, MadeStays DEF Fits, IInv, EntryInv, HookInv, Grows
      <3>6. entry' = Put(entry, s, e)
        BY <2>2, <3>1, <3>2 DEF Render, Attached
      <3> QED
        BY <1>1, <3>3, <3>5, <3>6, PutIn DEF IInv
    <2> QED
      BY <2>1, <2>2
  <1>7. ConnInv' /\ TaskInv'
    BY <1>1, RenderConns, RenderTasks
  <1> QED
    BY <1>1, <1>2, <1>3, <1>5, <1>6, <1>7 DEF IInv

-----------------------------------------------------------------------------
(* The theorems.                                                           *)

LEMMA AnswersKeep == ASSUME IInv, NEW t \in tasks, Answers(t) PROVE IInv'
  <1>1. CASE Renewed(t) \/ NotRenewed(t) \/ Loaded(t) \/ NotLoaded(t) \/ Linked(t) \/ NotLinked(t)
    BY <1>1, RenewedKeeps, NotRenewedKeeps, LoadedKeeps, NotLoadedKeeps, LinkedKeeps, NotLinkedKeeps
  <1>2. CASE Answered(t) \/ Unanswered(t) \/ Apply(t) \/ Restored(t) \/ NotRestored(t)
    BY <1>2, AnsweredKeeps, UnansweredKeeps, ApplyKeeps, RestoredKeeps, NotRestoredKeeps
  <1>3. CASE \E b \in BOOLEAN : Listed(t, b) \/ HookRenewed(t, b) \/ Forgotten(t, b)
    BY <1>3, ListedKeeps, HookRenewedKeeps, ForgottenKeeps
  <1>4. CASE \E u \in Users : SignedIn(t, u) \/ RestoredByPassword(t, u)
    BY <1>4, SignedInKeeps, RestoredByPasswordKeeps
  <1> QED
    BY <1>1, <1>2, <1>3, <1>4 DEF Answers
LEMMA NextKeeps == IInv /\ [Next]_vars => IInv'
  <1> SUFFICES ASSUME IInv, [Next]_vars PROVE IInv'
    OBVIOUS
  <1>1. CASE Render \/ RenewLater \/ SignIn \/ Restore \/ Forget \/ Expire \/ Reload
    BY <1>1, RenderKeeps, RenewLaterKeeps, SignInKeeps, RestoreKeeps, ForgetKeeps, ExpireKeeps, ReloadKeeps
  <1>2. CASE \E pw \in BOOLEAN : Export(pw)
    BY <1>2, ExportKeeps
  <1>3. CASE \E t \in tasks : Answers(t)
    BY <1>3, AnswersKeep
  <1>4. CASE \E s \in Servers : OfServer(s)
    <2>1. PICK s \in Servers : OfServer(s)
      BY <1>4
    <2> QED
      BY <2>1, ActivityKeeps, SignInToKeeps, SignOutKeeps, AddKeeps, SelectKeeps, ToggleKeeps, RemoveKeeps,
         RevokeKeeps DEF OfServer
  <1>5. CASE UNCHANGED vars
    <2>1. Grows /\ ServerInv'
      BY <1>5, ServersStay DEF IInv, vars, servers, rest, marks
    <2> QED
      BY <1>5, <2>1, PageStays, EntryStays, ConnStays, ChatsStay, BackupStays, HookStays, SavedStays, TasksStay
      DEF IInv, vars, page, rest
  <1> QED
    BY <1>1, <1>2, <1>3, <1>4, <1>5 DEF Next

\* The invariant of every run: what every list, connection, backup, session and
\* request on its way names was made by the server it is kept for, but for the
\* servers a late renewal has mixed up (useServers.ts, useAuth.ts, App.tsx).
THEOREM Inductive == Spec => []IInv
  <1> QED
    BY InitHolds, NextKeeps, PTL DEF Spec

\* A login is used with the server that gave it, and a device with the server
\* it was linked to (App.tsx 234-267, useAuth.ts 37-49, 114-160).
THEOREM LoginsStayHome == Spec => []OwnLogin
  <1>1. IInv => OwnLogin
    <2> SUFFICES ASSUME IInv PROVE OwnLogin
      OBVIOUS
    <2>1. At(saved.auth, Home) /\ (hook.auth # 0 /\ hook.at \notin mixed => At(hook.auth, hook.at))
      BY DEF IInv, SavedInv, HookInv, GivenBy, At
    <2>2. ASSUME NEW s \in Servers \ mixed
          PROVE  /\ At(entry[s].auth, s) /\ At(conn[s].user, s) /\ At(Shown(s).of, s)
                 /\ entry[s].dev # 0 => devs[entry[s].dev].s = s
      <3>1. At(entry[s].auth, s) /\ (entry[s].dev # 0 => devs[entry[s].dev].s = s)
        BY <2>2 DEF IInv, EntryInv, GivenBy, MadeBy, At
      <3>2. At(conn[s].user, s)
        BY <2>2 DEF IInv, ConnInv, GivenBy, At
      <3>3. At(Shown(s).of, s)
        BY <2>2 DEF IInv, ChatsInv, GivenBy, At, Shown
      <3> QED
        BY <3>1, <3>2, <3>3
    <2> QED
      BY <2>1, <2>2 DEF OwnLogin
  <1> QED
    BY <1>1, Inductive, PTL
=============================================================================

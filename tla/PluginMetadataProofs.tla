-------------------------- MODULE PluginMetadataProofs --------------------------
(***************************************************************************)
(* Proofs about the metadata of a plugin: the types of its state, that     *)
(* what the status calls available belongs to the source the plugin names, *)
(* that a JAR fetched anew does not become younger, and that a plugin at   *)
(* rest lists its servers and is due for another fetch.                    *)
(*                                                                         *)
(* None of them is inductive.  The reconcile works on a copy of the        *)
(* status and on the source it read, so the invariant speaks of the copy   *)
(* first: what it says of the copy at "write" is what the write makes true *)
(* of the status, unless the plugin was edited meanwhile, and then another *)
(* reconcile is queued.                                                    *)
(***************************************************************************)
EXTENDS PluginMetadata, TLAPS

AvailFields == {"type", "ref", "hash", "version", "mc", "age", "released"}
StatusFields == {"repo", "resolved", "avail", "matched"}
Repos == {"none", "available", "orphaned", "unavailable"}
Resolutions == {"none", "true", "fallback", "mismatch", "invalid", "unsupported"}
Kinds == {"ok", "hit", "error", "mismatch", "invalid", "unsupported"}

\* One entry of metadata, of the status or of the copy.
IsAvail(a) ==
    a # None => /\ DOMAIN a = AvailFields
                /\ a.age \in 0..Old /\ a.released \in 0..Old
                /\ a.version # None

IsStatus(st) ==
    /\ DOMAIN st = StatusFields
    /\ st.repo \in Repos /\ st.resolved \in Resolutions
    /\ IsAvail(st.avail)

WorldTypes ==
    /\ source \in Sources /\ server \in Servers
    /\ upstream \in [Refs -> UNION {Contents[x] : x \in Refs}]
    /\ cache \in [Refs -> (UNION {Contents[x] : x \in Refs}) \cup {None}]
    /\ \A x \in Refs : upstream[x] \in Contents[x] /\ cache[x] \in Contents[x] \cup {None}
    /\ up \in BOOLEAN

ReconcileTypes ==
    /\ pc \in {"idle", "fetch", "write"}
    /\ snap \in Sources \cup {None}
    /\ pc # "idle" => snap \in Sources
    /\ IsStatus(status) /\ IsStatus(new)
    /\ again \in {"done", "timer", "error"} /\ fetched \in BOOLEAN
    /\ queued \in BOOLEAN /\ timer \in BOOLEAN /\ stale \in BOOLEAN

BoundTypes == edits \in 0..MaxEdits /\ changes \in 0..MaxChanges /\ faults \in 0..MaxFaults

Types == WorldTypes /\ ReconcileTypes /\ BoundTypes

\* The metadata a is what the source s asks for.
Current(s, a) ==
    a # None => /\ a.ref = s.ref
                /\ (s.type = "url" /\ s.checksum # None) => a.hash = s.checksum

Good(s, st) == st.repo = "available" => Current(s, st.avail)

\* Of the same JAR, the metadata a is not younger than b.
Kept(a, b) ==
    (/\ a # None /\ b # None
     /\ a.type = "url" /\ b.type = "url"
     /\ a.hash = b.hash) => a.released >= b.released

\* What the reconcile knows at each of its steps, and what is left when it is over.
CopyIsCurrent ==
    /\ (pc # "idle" /\ stale) => queued
    /\ (pc # "idle" /\ ~stale) => snap = source
    /\ pc = "write" => Good(snap, new)
    /\ (pc = "idle" /\ ~queued) => Good(source, status)

CopyIsOld ==
    /\ pc = "fetch" => new.avail = status.avail
    /\ pc = "write" => Kept(new.avail, status.avail)

MetadataInv == Types /\ CopyIsCurrent /\ CopyIsOld

-----------------------------------------------------------------------------
(* Fetching.                                                               *)

\* What convertToPluginVersionInfo builds is an entry of metadata.
LEMMA InfoSound ==
    ASSUME NEW s, NEW c, NEW v, NEW d \in 0..Old, v # None
    PROVE  /\ IsAvail(Info(s, c, v, d))
           /\ Info(s, c, v, d).type = s.type /\ Info(s, c, v, d).ref = s.ref
           /\ Info(s, c, v, d).hash = c.hash /\ Info(s, c, v, d).released = d
<1>1. 0 \in 0..Old
    BY MetadataAssumption DEF Old
<1> QED
    BY <1>1 DEF Info, IsAvail, AvailFields

\* A JAR always has a version: its own, the one the user wrote or the placeholder.
LEMMA JARHasVersion ==
    ASSUME NEW s, NEW c
    PROVE  VersionOf(s, c) # None
BY MetadataAssumption DEF VersionOf

\* The release date written for a JAR is the one of the same JAR before.
LEMMA ReleasedSound ==
    ASSUME NEW a, NEW c, IsAvail(a)
    PROVE  /\ Released(a, c) \in 0..Old
           /\ (a # None /\ a.hash = c.hash) => Released(a, c) = a.released
BY MetadataAssumption DEF Released, IsAvail, Old

\* The outcome r of a fetch for the source s when the copy holds a.
Outcome(s, a, r) ==
    /\ r.kind \in Kinds
    /\ IsAvail(r.avail)
    /\ r.kind # "ok" => r.avail = a
    /\ r.kind \in {"ok", "hit"} => Current(s, r.avail)
    /\ r.kind = "ok" => Kept(r.avail, a)

\* fetchURLMetadata offers the metadata of the URL asked for, of the checksum asked
\* for, dated as before when the JAR is the same.
LEMMA FetchURLSound ==
    ASSUME NEW s, NEW a, IsAvail(a)
    PROVE  Outcome(s, a, FetchURL(s, a))
<1> DEFINE c == upstream[s.ref]
           i == Info(s, c, VersionOf(s, c), Released(a, c))
<1>1. /\ IsAvail(i) /\ i.type = s.type /\ i.ref = s.ref /\ i.hash = c.hash
      /\ i.released = Released(a, c)
    BY InfoSound, JARHasVersion, ReleasedSound
<1>2. Kept(i, a)
    <2>1. (a # None /\ a.hash = i.hash) => i.released = a.released /\ a.released \in Nat
        BY <1>1, ReleasedSound, MetadataAssumption DEF IsAvail, Old
    <2> QED
        BY <2>1 DEF Kept
<1>3. (s.checksum = None \/ s.checksum = c.hash) => Current(s, i)
    BY <1>1 DEF Current
<1> HIDE DEF i
<1>4. CASE ~s.valid
    <2>1. FetchURL(s, a) = [kind |-> "invalid", avail |-> a]
        BY <1>4, Zenon DEF FetchURL, Result
    <2> QED
        BY <2>1 DEF Outcome, Kinds
<1>5. CASE s.valid /\ URLCacheValid(s, a)
    <2>1. FetchURL(s, a) = [kind |-> "hit", avail |-> a]
        BY <1>5, Zenon DEF FetchURL, Result
    <2>2. Current(s, a)
        BY <1>5 DEF URLCacheValid, Current
    <2> QED
        BY <2>1, <2>2 DEF Outcome, Kinds
<1>6. CASE s.valid /\ ~URLCacheValid(s, a)
    <2>1. FetchURL(s, a) = IF ~up \/ c.big THEN Result("error", a)
                           ELSE IF s.checksum # None /\ s.checksum # c.hash
                                THEN Result("mismatch", a) ELSE Result("ok", i)
        BY <1>6, Zenon DEF FetchURL, i
    <2>2. \/ FetchURL(s, a) = [kind |-> "error", avail |-> a]
          \/ FetchURL(s, a) = [kind |-> "mismatch", avail |-> a]
          \/ /\ FetchURL(s, a) = [kind |-> "ok", avail |-> i]
             /\ s.checksum = None \/ s.checksum = c.hash
        BY <2>1, Zenon DEF Result
    <2> QED
        BY <2>2, <1>1, <1>2, <1>3 DEF Outcome, Kinds
<1> QED
    BY <1>4, <1>5, <1>6

\* fetchHangarMetadata offers the metadata of the project asked for, from the cache or not.
LEMMA FetchHangarSound ==
    ASSUME NEW s, NEW a, IsAvail(a), s.type = "hangar"
    PROVE  Outcome(s, a, FetchHangar(s, a))
<1> DEFINE c == IF cache[s.ref] # None THEN cache[s.ref] ELSE upstream[s.ref]
           i == Info(s, c, c.version, Old)
           e == IF c.version = None THEN None ELSE i
<1>1. c.version # None =>
        IsAvail(i) /\ i.type = s.type /\ i.ref = s.ref
    <2>1. Old \in 0..Old
        BY MetadataAssumption DEF Old
    <2> QED
        BY <2>1, InfoSound
<1>2. IsAvail(e) /\ Current(s, e) /\ Kept(e, a)
    <2>1. CASE c.version = None
        <3>1. e = None
            BY <2>1
        <3> QED
            BY <3>1 DEF IsAvail, Current, Kept
    <2>2. CASE c.version # None
        <3>1. e = i
            BY <2>2
        <3> HIDE DEF i, c
        <3>2. e.type = "hangar" /\ e.ref = s.ref /\ IsAvail(e)
            BY <1>1, <2>2, <3>1
        <3> QED
            BY <3>2 DEF Current, Kept
    <2> QED
        BY <2>1, <2>2
<1> HIDE DEF e
<1>3. \/ FetchHangar(s, a) = [kind |-> "error", avail |-> a]
      \/ FetchHangar(s, a) = [kind |-> "ok", avail |-> e]
    BY Zenon DEF FetchHangar, Result, e
<1> QED
    BY <1>2, <1>3 DEF Outcome, Kinds

\* fetchPluginMetadata, whatever the type of the source
LEMMA FetchSound ==
    ASSUME NEW s, NEW a, IsAvail(a)
    PROVE  Outcome(s, a, FetchPluginMetadata(s, a))
<1>1. CASE s.type = "url"
    <2>1. FetchPluginMetadata(s, a) = FetchURL(s, a)
        BY <1>1 DEF FetchPluginMetadata
    <2> QED
        BY <2>1, FetchURLSound
<1>2. CASE s.type = "hangar"
    <2>1. FetchPluginMetadata(s, a) = FetchHangar(s, a)
        BY <1>2 DEF FetchPluginMetadata
    <2> QED
        BY <1>2, <2>1, FetchHangarSound
<1>3. CASE s.type \notin {"url", "hangar"}
    <2>1. FetchPluginMetadata(s, a) = [kind |-> "unsupported", avail |-> a]
        BY <1>3 DEF FetchPluginMetadata, Result
    <2> QED
        BY <2>1 DEF Outcome, Kinds
<1> QED
    BY <1>1, <1>2, <1>3

-----------------------------------------------------------------------------
(* The copy of the status.                                                 *)

\* What a copy of the status st holds after a fetch for s.
Fetched(s, st, n) == IsStatus(n) /\ Good(s, n) /\ Kept(n.avail, st.avail)

\* Metadata is as old as itself.
LEMMA KeptReflexive ==
    ASSUME NEW a, IsAvail(a)
    PROVE  Kept(a, a)
BY MetadataAssumption DEF IsAvail, Kept, Old

\* syncPluginMetadata and handleRepositoryError call metadata available only when it
\* was fetched, or found fresh, for the source.
LEMMA SyncSound ==
    ASSUME NEW s, NEW st, NEW r, IsStatus(st), Outcome(s, st.avail, r)
    PROVE  Fetched(s, st, SyncPluginMetadata(st, r))
<1> DEFINE n == SyncPluginMetadata(st, r)
<1>0. Kept(st.avail, st.avail)
    BY KeptReflexive DEF IsStatus
<1>1. CASE r.kind = "ok"
    <2>1. n = [st EXCEPT !.repo = "available", !.avail = r.avail]
        BY <1>1, Zenon DEF SyncPluginMetadata
    <2>2. /\ DOMAIN n = StatusFields /\ n.repo = "available" /\ n.avail = r.avail
          /\ n.resolved = st.resolved
        BY <2>1 DEF IsStatus, StatusFields
    <2> HIDE DEF n
    <2>3. Fetched(s, st, n)
        BY <1>1, <2>2 DEF Fetched, Outcome, IsStatus, Good, Repos
    <2> QED
        BY <2>3 DEF n
<1>2. CASE r.kind = "hit"
    <2>1. n = st
        BY <1>2 DEF SyncPluginMetadata
    <2> HIDE DEF n
    <2>3. Fetched(s, st, n)
        BY <1>0, <1>2, <2>1 DEF Fetched, Outcome, Good
    <2> QED
        BY <2>3 DEF n
<1>3. CASE r.kind = "error"
    <2>1. n = [st EXCEPT !.repo = IF st.avail # None THEN "orphaned" ELSE "unavailable"]
        BY <1>3 DEF SyncPluginMetadata
    <2>2. /\ DOMAIN n = StatusFields /\ n.repo \in {"orphaned", "unavailable"}
          /\ n.avail = st.avail /\ n.resolved = st.resolved
        BY <2>1 DEF IsStatus, StatusFields
    <2> HIDE DEF n
    <2>3. Fetched(s, st, n)
        BY <1>0, <2>2 DEF Fetched, IsStatus, Good, Repos
    <2> QED
        BY <2>3 DEF n
<1>4. CASE r.kind \in {"mismatch", "invalid", "unsupported"}
    <2>1. n = [st EXCEPT !.repo = "unavailable", !.resolved = r.kind]
        BY <1>4 DEF SyncPluginMetadata
    <2>2. /\ DOMAIN n = StatusFields /\ n.repo = "unavailable"
          /\ n.avail = st.avail /\ n.resolved = r.kind
        BY <2>1 DEF IsStatus, StatusFields
    <2> HIDE DEF n
    <2>3. Fetched(s, st, n)
        BY <1>0, <1>4, <2>2 DEF Fetched, IsStatus, Good, Repos, Resolutions
    <2> QED
        BY <2>3 DEF n
<1> QED
    BY <1>1, <1>2, <1>3, <1>4 DEF Outcome, Kinds

\* The condition VersionResolved takes one of its values.
LEMMA ResolvedSound ==
    ASSUME NEW s, NEW st, NEW r, IsStatus(st), Outcome(s, st.avail, r)
    PROVE  Resolved(s, st, r) \in Resolutions
<1>1. SyncPluginMetadata(st, r).resolved \in Resolutions
    BY SyncSound DEF Fetched, IsStatus
<1>2. \/ Resolved(s, st, r) = "fallback"
      \/ Resolved(s, st, r) = "true"
      \/ Resolved(s, st, r) = SyncPluginMetadata(st, r).resolved
    <2> DEFINE f == Fallback(s, r)
               h == HasVersions(st, r)
               y == SyncPluginMetadata(st, r).resolved
    <2>1. Resolved(s, st, r) =
            CASE f -> "fallback"
              [] ~f /\ h -> IF st.resolved = "fallback" /\ (s.type # "url" \/ r.kind # "ok")
                            THEN "fallback" ELSE "true"
              [] OTHER -> y
        BY Zenon DEF Resolved
    <2> HIDE DEF f, h, y
    <2> QED
        BY <2>1, Zenon DEF y
<1> QED
    BY <1>1, <1>2 DEF Resolutions

\* The conditions and the list of servers are set beside the metadata.
LEMMA CopyFetched ==
    ASSUME NEW s, NEW st, NEW m, NEW v \in Resolutions, NEW y, Fetched(s, st, y)
    PROVE  /\ Fetched(s, st, [y EXCEPT !.resolved = v, !.matched = m])
           /\ Fetched(s, st, [y EXCEPT !.resolved = v])
BY DEF Fetched, IsStatus, StatusFields, Good

\* doReconcile, with or without the servers
LEMMA FetchEffect ==
    ASSUME Types, Fetch \/ FetchWithoutServers
    PROVE  /\ snap \in Sources
           /\ Fetched(snap, new, new')
           /\ pc' = "write" /\ again' \in {"done", "timer", "error"} /\ fetched' \in BOOLEAN
           /\ cache' = Cached(snap, FetchPluginMetadata(snap, new.avail))
           /\ UNCHANGED <<source, upstream, up, server, status, snap, queued, timer, stale>>
           /\ BoundTypes'
<1> DEFINE r == FetchPluginMetadata(snap, new.avail)
           y == SyncPluginMetadata(new, r)
<1>1. snap \in Sources /\ IsStatus(new)
    BY DEF Types, ReconcileTypes, Fetch, FetchWithoutServers
<1>2. Outcome(snap, new.avail, r)
    BY <1>1, FetchSound DEF IsStatus
<1>3. Fetched(snap, new, y) /\ Resolved(snap, new, r) \in Resolutions
    BY <1>1, <1>2, SyncSound, ResolvedSound
<1>4. /\ Fetched(snap, new, [y EXCEPT !.resolved = Resolved(snap, new, r),
                                      !.matched = Matched(new, r)])
      /\ Fetched(snap, new, [y EXCEPT !.resolved = Resolved(snap, new, r)])
    BY <1>3, CopyFetched
<1>5. CASE Fetch
    <2>1. /\ new' = [y EXCEPT !.resolved = Resolved(snap, new, r), !.matched = Matched(new, r)]
          /\ cache' = Cached(snap, r)
          /\ again' = "timer" \/ again' = "done"
          /\ fetched' = (r.kind = "ok")
          /\ pc' = "write"
          /\ UNCHANGED <<source, upstream, up, server, status, snap, queued, timer, stale,
                         edits, changes, faults>>
        BY <1>5, Zenon DEF Fetch, world, bounds
    <2> QED
        BY <1>1, <1>4, <2>1 DEF Types, BoundTypes
<1>6. CASE FetchWithoutServers
    <2>1. /\ \/ new' = [y EXCEPT !.resolved = Resolved(snap, new, r)]
             \/ new' = y
          /\ cache' = Cached(snap, r)
          /\ again' = "error"
          /\ fetched' = (r.kind = "ok")
          /\ pc' = "write"
          /\ UNCHANGED <<source, upstream, up, server, status, snap, queued, timer, stale,
                         edits, changes>>
          /\ faults < MaxFaults /\ faults' = faults + 1
        BY <1>6, Zenon DEF FetchWithoutServers, world
    <2>2. BoundTypes'
        BY <2>1, MetadataAssumption DEF Types, BoundTypes
    <2> QED
        BY <1>1, <1>3, <1>4, <2>1, <2>2
<1> QED
    BY <1>5, <1>6

-----------------------------------------------------------------------------
(* Time.                                                                   *)

\* Growing older changes nothing but the two ages, which stop at the bound.
LEMMA OlderSound ==
    ASSUME NEW a, IsAvail(a)
    PROVE  /\ IsAvail(Older(a))
           /\ a = None => Older(a) = None
           /\ a # None => /\ Older(a).ref = a.ref /\ Older(a).hash = a.hash
                          /\ Older(a).type = a.type
                          /\ Older(a).released =
                                IF a.released < Old THEN a.released + 1 ELSE a.released
<1>1. CASE a = None
    BY <1>1 DEF Older, IsAvail
<1>2. CASE a # None
    <2> DEFINE o == Older(a)
    <2>1. o = [a EXCEPT !.age = IF a.age < Old THEN a.age + 1 ELSE a.age,
                        !.released = IF a.released < Old THEN a.released + 1 ELSE a.released]
        BY <1>2 DEF Older
    <2>2. DOMAIN a = AvailFields /\ a.age \in 0..Old /\ a.released \in 0..Old /\ Old \in Nat
        BY <1>2, MetadataAssumption DEF IsAvail, Old
    <2>3. /\ DOMAIN o = AvailFields
          /\ o.age = IF a.age < Old THEN a.age + 1 ELSE a.age
          /\ o.released = IF a.released < Old THEN a.released + 1 ELSE a.released
          /\ o.ref = a.ref /\ o.hash = a.hash /\ o.type = a.type /\ o.version = a.version
        BY <2>1, <2>2 DEF AvailFields
    <2> HIDE DEF o
    <2>4. o.age \in 0..Old /\ o.released \in 0..Old /\ o.version # None
        BY <1>2, <2>2, <2>3 DEF IsAvail
    <2>5. IsAvail(o)
        BY <2>3, <2>4 DEF IsAvail
    <2> QED
        BY <1>2, <2>3, <2>5 DEF o
<1> QED
    BY <1>1, <1>2

\* Time does not take from a status what a fetch gave it.
LEMMA AgedStatus ==
    ASSUME NEW s, NEW st, NEW o, IsStatus(st), IsStatus(o)
    PROVE  LET n == [st EXCEPT !.avail = Older(@)]
               m == [o EXCEPT !.avail = Older(@)]
           IN  /\ IsStatus(n)
               /\ n.avail = Older(st.avail)
               /\ Good(s, st) => Good(s, n)
               /\ Kept(st.avail, o.avail) => Kept(n.avail, m.avail)
<1> DEFINE n == [st EXCEPT !.avail = Older(@)]
           m == [o EXCEPT !.avail = Older(@)]
<1>1. /\ DOMAIN n = StatusFields /\ n.avail = Older(st.avail) /\ m.avail = Older(o.avail)
      /\ n.repo = st.repo /\ n.resolved = st.resolved
    BY DEF IsStatus, StatusFields
<1> HIDE DEF n, m
<1>2. IsAvail(st.avail) /\ IsAvail(o.avail)
    BY DEF IsStatus
<1> DEFINE a == st.avail
           b == o.avail
<1>3. IsStatus(n)
    BY <1>1, <1>2, OlderSound DEF IsStatus
<1>4. Good(s, st) => Good(s, n)
    BY <1>1, <1>2, OlderSound DEF Good, Current
<1>5. Kept(a, b) => Kept(n.avail, m.avail)
    <2> SUFFICES ASSUME Kept(a, b), a # None, b # None, Older(a).type = "url",
                        Older(b).type = "url", Older(a).hash = Older(b).hash
                 PROVE  Older(a).released >= Older(b).released
        BY <1>1, <1>2, OlderSound DEF Kept
    <2>1. a.released >= b.released
        BY <1>2, OlderSound DEF Kept
    <2>2. a.released \in 0..Old /\ b.released \in 0..Old /\ Old \in Nat
        BY <1>2, MetadataAssumption DEF IsAvail, Old
    <2>3. /\ Older(a).released = IF a.released < Old THEN a.released + 1 ELSE a.released
          /\ Older(b).released = IF b.released < Old THEN b.released + 1 ELSE b.released
        BY <1>2, OlderSound
    <2> QED
        BY <2>1, <2>2, <2>3
<1> QED
    BY <1>1, <1>3, <1>4, <1>5 DEF n, m

\* A tick makes the status and the copy older together.
LEMMA TickEffect ==
    ASSUME Types, Tick
    PROVE  /\ IsStatus(status') /\ IsStatus(new')
           /\ \A s : (Good(s, status) => Good(s, status')) /\ (Good(s, new) => Good(s, new'))
           /\ new.avail = status.avail => new'.avail = status'.avail
           /\ Kept(new.avail, status.avail) => Kept(new'.avail, status'.avail)
           /\ Kept(status'.avail, status.avail)
<1>1. IsStatus(status) /\ IsStatus(new)
    BY DEF Types, ReconcileTypes
<1>2. /\ status' = [status EXCEPT !.avail = Older(@)]
      /\ new' = [new EXCEPT !.avail = Older(@)]
    BY DEF Tick
<1>3. IsStatus(status') /\ IsStatus(new')
    BY <1>1, <1>2, AgedStatus
<1>4. ASSUME NEW s
      PROVE  (Good(s, status) => Good(s, status')) /\ (Good(s, new) => Good(s, new'))
    BY <1>1, <1>2, AgedStatus
<1>5. new'.avail = Older(new.avail) /\ status'.avail = Older(status.avail)
    BY <1>1, <1>2, AgedStatus
<1>6. Kept(new.avail, status.avail) => Kept(new'.avail, status'.avail)
    BY <1>1, <1>2, AgedStatus
<1>7. Kept(status'.avail, status.avail)
    <2> DEFINE a == status.avail
    <2>1. IsAvail(a)
        BY <1>1 DEF IsStatus
    <2>2. a # None => /\ a.released \in 0..Old /\ Old \in Nat
                      /\ Older(a).released =
                            IF a.released < Old THEN a.released + 1 ELSE a.released
        BY <2>1, OlderSound, MetadataAssumption DEF IsAvail, Old
    <2> QED
        BY <1>5, <2>2 DEF Kept
<1> QED
    BY <1>3, <1>4, <1>5, <1>6, <1>7

-----------------------------------------------------------------------------
(* Types.                                                                  *)

\* A plugin that was just made has a status without anything in it.
LEMMA NewStatusSound == IsStatus(NewStatus) /\ NewStatus.repo # "available"
BY DEF NewStatus, IsStatus, IsAvail, StatusFields, Repos, Resolutions

\* The cache of the client, empty.
LEMMA EmptyCache ==
    ASSUME NEW f, f = [x \in Refs |-> None]
    PROVE  /\ f \in [Refs -> (UNION {Contents[x] : x \in Refs}) \cup {None}]
           /\ \A x \in Refs : f[x] \in Contents[x] \cup {None}
<1> DEFINE All == UNION {Contents[x] : x \in Refs}
<1>1. \A x \in Refs : f[x] = None
    OBVIOUS
<1> HIDE DEF All
<1>2. f \in [Refs -> All \cup {None}]
    OBVIOUS
<1> QED
    BY <1>1, <1>2, Zenon DEF All

\* The plugin is there and has not been reconciled.
LEMMA TypesInit ==
    ASSUME Init
    PROVE  Types
<1>1. WorldTypes
    <2>1. /\ cache \in [Refs -> (UNION {Contents[x] : x \in Refs}) \cup {None}]
          /\ \A x \in Refs : cache[x] \in Contents[x] \cup {None}
        BY EmptyCache DEF Init
    <2>2. /\ upstream \in [Refs -> UNION {Contents[x] : x \in Refs}]
          /\ \A x \in Refs : upstream[x] \in Contents[x]
        BY Zenon DEF Init
    <2> QED
        BY <2>1, <2>2 DEF Init, WorldTypes
<1>2. ReconcileTypes
    BY NewStatusSound DEF Init, ReconcileTypes
<1>3. BoundTypes
    BY MetadataAssumption DEF Init, BoundTypes
<1> QED
    BY <1>1, <1>2, <1>3 DEF Types

\* CachedPluginClient keeps what the repository said under the project it was asked for.
LEMMA CachedSound ==
    ASSUME Types, NEW s \in Sources, NEW r
    PROVE  /\ Cached(s, r) \in [Refs -> (UNION {Contents[x] : x \in Refs}) \cup {None}]
           /\ \A x \in Refs : Cached(s, r)[x] \in Contents[x] \cup {None}
<1>1. s.ref \in Refs
    BY MetadataAssumption
<1>2. \/ Cached(s, r) = [cache EXCEPT ![s.ref] = upstream[s.ref]]
      \/ Cached(s, r) = cache
    BY Zenon DEF Cached
<1> QED
    BY <1>1, <1>2 DEF Types, WorldTypes

\* Every step keeps the types.
LEMMA TypesStep ==
    ASSUME Types, [Next]_vars
    PROVE  Types'
<1> USE DEF Types
<1>0. Old \in Nat
    BY MetadataAssumption DEF Old
<1>1. CASE Start
    <2>1. WorldTypes' /\ BoundTypes'
        BY <1>1 DEF Start, world, bounds, WorldTypes, BoundTypes
    <2>2. ReconcileTypes'
        BY <1>1 DEF Start, world, WorldTypes, ReconcileTypes
    <2> QED
        BY <2>1, <2>2
<1>2. CASE Fetch \/ FetchWithoutServers
    <2>1. WorldTypes'
        <3>1. UNCHANGED <<source, upstream, up, server>>
            BY <1>2, FetchEffect
        <3>2. /\ cache' \in [Refs -> (UNION {Contents[x] : x \in Refs}) \cup {None}]
              /\ \A x \in Refs : cache'[x] \in Contents[x] \cup {None}
            BY <1>2, FetchEffect, CachedSound
        <3> QED
            BY <3>1, <3>2 DEF WorldTypes
    <2>2. ReconcileTypes'
        BY <1>2, FetchEffect DEF ReconcileTypes, Fetched
    <2> QED
        BY <1>2, <2>1, <2>2, FetchEffect
<1>3. CASE Write
    <2>1. WorldTypes' /\ BoundTypes'
        BY <1>3 DEF Write, StatusEqual, world, bounds, WorldTypes, BoundTypes
    <2>2. /\ pc' = "idle" /\ snap' = None /\ new' = NewStatus /\ again' = "done"
          /\ fetched' = FALSE /\ stale' = FALSE /\ (status' = new \/ status' = status)
        BY <1>3, Zenon DEF Write, StatusEqual, Idle
    <2>3. queued' \in BOOLEAN /\ timer' \in BOOLEAN
        BY <1>3 DEF Write, StatusEqual, ReconcileTypes
    <2> QED
        BY <2>1, <2>2, <2>3, NewStatusSound DEF ReconcileTypes
<1>4. CASE TimerFires
    <2>1. WorldTypes' /\ BoundTypes'
        BY <1>4 DEF TimerFires, world, bounds, WorldTypes, BoundTypes
    <2> QED
        BY <1>4, <2>1 DEF TimerFires, ReconcileTypes
<1>5. CASE Tick
    <2>1. WorldTypes' /\ BoundTypes'
        <3>1. /\ cache' \in [Refs -> (UNION {Contents[x] : x \in Refs}) \cup {None}]
              /\ \A x \in Refs : cache'[x] \in Contents[x] \cup {None}
            BY <1>5, EmptyCache DEF Tick
        <3> QED
            BY <1>5, <3>1 DEF Tick, world, bounds, WorldTypes, BoundTypes
    <2>2. ReconcileTypes'
        BY <1>5, TickEffect DEF Tick, ReconcileTypes
    <2> QED
        BY <2>1, <2>2
<1>6. CASE Edit
    <2>1. WorldTypes' /\ BoundTypes'
        BY <1>6, MetadataAssumption DEF Edit, WorldTypes, BoundTypes
    <2>2. ReconcileTypes'
        BY <1>6 DEF Edit, ReconcileTypes
    <2> QED
        BY <2>1, <2>2
<1>7. CASE Publish
    <2>1. PICK x \in Refs : \E c \in Contents[x] : upstream' = [upstream EXCEPT ![x] = c]
        BY <1>7 DEF Publish
    <2>2. WorldTypes'
        BY <1>7, <2>1 DEF Publish, WorldTypes
    <2>3. BoundTypes'
        BY <1>7, MetadataAssumption DEF Publish, BoundTypes
    <2>4. ReconcileTypes'
        BY <1>7 DEF Publish, ReconcileTypes
    <2> QED
        BY <2>2, <2>3, <2>4
<1>8. CASE ServerChanges
    <2>1. WorldTypes' /\ BoundTypes'
        BY <1>8, MetadataAssumption DEF ServerChanges, WorldTypes, BoundTypes
    <2>2. ReconcileTypes'
        BY <1>8 DEF ServerChanges, ReconcileTypes
    <2> QED
        BY <2>1, <2>2
<1>9. CASE Outage \/ Recovery
    <2>1. WorldTypes' /\ BoundTypes'
        <3>1. UNCHANGED <<source, upstream, server, cache>> /\ up' \in BOOLEAN
            BY <1>9 DEF Outage, Recovery
        <3>2. BoundTypes'
            BY <1>9, MetadataAssumption DEF Outage, Recovery, bounds, BoundTypes
        <3> QED
            BY <3>1, <3>2 DEF WorldTypes
    <2>2. ReconcileTypes'
        BY <1>9 DEF Outage, Recovery, ReconcileTypes
    <2> QED
        BY <2>1, <2>2
<1>10. CASE Crash
    <2>1. WorldTypes' /\ BoundTypes'
        <3>1. /\ cache' \in [Refs -> (UNION {Contents[x] : x \in Refs}) \cup {None}]
              /\ \A x \in Refs : cache'[x] \in Contents[x] \cup {None}
            BY <1>10, EmptyCache DEF Crash
        <3>2. BoundTypes'
            BY <1>10, MetadataAssumption DEF Crash, BoundTypes
        <3> QED
            BY <1>10, <3>1, <3>2 DEF Crash, world, WorldTypes
    <2>2. ReconcileTypes'
        BY <1>10, NewStatusSound DEF Crash, Idle, ReconcileTypes
    <2> QED
        BY <2>1, <2>2
<1>11. CASE UNCHANGED vars
    BY <1>11 DEF vars, world, bounds, WorldTypes, ReconcileTypes, BoundTypes
<1> QED
    BY <1>1, <1>2, <1>3, <1>4, <1>5, <1>6, <1>7, <1>8, <1>9, <1>10, <1>11 DEF Next

-----------------------------------------------------------------------------
(* The copy against the source and against the status.                     *)

\* At the beginning a reconcile is queued.
LEMMA CopyInit ==
    ASSUME Init
    PROVE  CopyIsCurrent /\ CopyIsOld
BY DEF Init, CopyIsCurrent, CopyIsOld

\* Every step keeps what the reconcile knows of the source.
LEMMA CurrentStep ==
    ASSUME Types, CopyIsCurrent, [Next]_vars
    PROVE  CopyIsCurrent'
<1> USE DEF CopyIsCurrent
<1>0. /\ queued \in BOOLEAN /\ stale \in BOOLEAN
      /\ pc \in {"idle", "fetch", "write"}
    BY DEF Types, ReconcileTypes
<1>1. CASE Start
    BY <1>1 DEF Start, world
<1>2. CASE Fetch \/ FetchWithoutServers
    <2>1. pc # "idle"
        BY <1>2 DEF Fetch, FetchWithoutServers
    <2>2. /\ pc' = "write" /\ Good(snap, new')
          /\ UNCHANGED <<source, snap, queued, stale>>
        BY <1>2, FetchEffect DEF Fetched
    <2> QED
        BY <2>1, <2>2
<1>3. CASE Write
    <2>1. pc = "write" /\ pc' = "idle" /\ source' = source
        BY <1>3 DEF Write, StatusEqual, Idle, world
    <2>2. CASE new # status /\ stale
        <3>1. queued' = TRUE
            BY <1>3, <2>2 DEF Write, StatusEqual
        <3> QED
            BY <2>1, <3>1
    <2>3. CASE ~(new # status /\ stale)
        <3>1. status' = new /\ (queued => queued')
            BY <1>3, <2>3, <1>0 DEF Write, StatusEqual
        <3>2. CASE stale
            BY <2>1, <3>1, <3>2
        <3>3. CASE ~stale
            <4>1. Good(source, new)
                BY <2>1, <3>3
            <4> QED
                BY <2>1, <3>1, <4>1
        <3> QED
            BY <3>2, <3>3
    <2> QED
        BY <2>2, <2>3
<1>4. CASE TimerFires
    BY <1>4 DEF TimerFires, world
<1>5. CASE Tick
    <2>1. /\ \A s : (Good(s, status) => Good(s, status')) /\ (Good(s, new) => Good(s, new'))
          /\ UNCHANGED <<source, pc, snap, queued, stale>>
        BY <1>5, TickEffect DEF Tick, world
    <2> QED
        BY <2>1
<1>6. CASE Edit
    <2>1. queued' = TRUE /\ (pc' # "idle" => stale') /\ UNCHANGED <<pc, snap, new>>
        BY <1>6 DEF Edit
    <2> QED
        BY <2>1
<1>7. CASE Publish \/ ServerChanges \/ Outage \/ Recovery
    <2>1. /\ UNCHANGED <<source, status, pc, snap, new, stale>>
          /\ queued' = queued \/ queued' = TRUE
        BY <1>7, Zenon DEF Publish, ServerChanges, Outage, Recovery
    <2> QED
        BY <2>1
<1>8. CASE Crash
    BY <1>8 DEF Crash, Idle
<1>9. CASE UNCHANGED vars
    BY <1>9 DEF vars, world
<1> QED
    BY <1>1, <1>2, <1>3, <1>4, <1>5, <1>6, <1>7, <1>8, <1>9 DEF Next

\* Every step keeps how the copy's dates compare with the status.
LEMMA OldStep ==
    ASSUME Types, CopyIsOld, [Next]_vars
    PROVE  CopyIsOld'
<1> USE DEF CopyIsOld
<1>1. CASE Start
    BY <1>1 DEF Start
<1>2. CASE Fetch \/ FetchWithoutServers
    <2>1. new.avail = status.avail
        BY <1>2 DEF Fetch, FetchWithoutServers
    <2>2. pc' = "write" /\ Kept(new'.avail, new.avail) /\ status' = status
        BY <1>2, FetchEffect DEF Fetched
    <2> QED
        BY <2>1, <2>2
<1>3. CASE Write \/ Crash
    BY <1>3 DEF Write, StatusEqual, Crash, Idle
<1>4. CASE Tick
    BY <1>4, TickEffect DEF Tick
<1>5. CASE TimerFires \/ Edit \/ Publish \/ ServerChanges \/ Outage \/ Recovery
    <2>1. UNCHANGED <<status, new, pc>>
        BY <1>5 DEF TimerFires, Edit, Publish, ServerChanges, Outage, Recovery
    <2> QED
        BY <2>1
<1>6. CASE UNCHANGED vars
    BY <1>6 DEF vars
<1> QED
    BY <1>1, <1>2, <1>3, <1>4, <1>5, <1>6 DEF Next

-----------------------------------------------------------------------------
(* The theorems.                                                           *)

\* The invariant of the reconcile: types, the copy belongs to the source that was read,
\* and it is not younger than the status.
THEOREM MetadataInvariant == Spec => []MetadataInv
<1>1. Init => MetadataInv
    BY TypesInit, CopyInit DEF MetadataInv
<1>2. MetadataInv /\ [Next]_vars => MetadataInv'
    BY TypesStep, CurrentStep, OldStep DEF MetadataInv
<1> QED
    BY <1>1, <1>2, PTL DEF Spec

\* The types of the plugin, its status, the cache and the reconcile.
THEOREM MetadataTypesOK == Spec => []TypeOK
<1>1. MetadataInv => TypeOK
    <2> SUFFICES ASSUME Types
                 PROVE  TypeOK
        BY DEF MetadataInv
    <2>1. /\ status.repo \in Repos /\ status.resolved \in Resolutions
          /\ status.avail # None => /\ status.avail.age \in 0..Old
                                    /\ status.avail.released \in 0..Old
                                    /\ status.avail.version # None
        BY DEF Types, ReconcileTypes, IsStatus, IsAvail
    <2> QED
        BY <2>1 DEF Types, WorldTypes, ReconcileTypes, BoundTypes, TypeOK, Repos, Resolutions
<1> QED
    BY <1>1, MetadataInvariant, PTL

\* What the status calls available is the metadata of the source the plugin names, of
\* the checksum it asks for, however edits and fetches interleave.
THEOREM AvailableStaysCurrent == Spec => []AvailableIsCurrent
<1>1. MetadataInv => AvailableIsCurrent
    BY DEF MetadataInv, CopyIsCurrent, AvailableIsCurrent, Settled, Good, Current
<1> QED
    BY <1>1, MetadataInvariant, PTL

\* A JAR fetched anew is as old as it was: updateDelay is not started over.
THEOREM ReleaseDatesStay == Spec => ReleaseDateKept
<1>1. MetadataInv /\ [Next]_vars =>
        [(/\ status.avail # None /\ status'.avail # None
          /\ status.avail.type = "url" /\ status'.avail.type = "url"
          /\ status.avail.hash = status'.avail.hash)
            => status'.avail.released >= status.avail.released]_vars
    <2> SUFFICES ASSUME MetadataInv, Next
                 PROVE  Kept(status'.avail, status.avail)
        BY DEF Kept
    <2>1. IsAvail(status.avail)
        BY DEF MetadataInv, Types, ReconcileTypes, IsStatus
    <2>2. status' = status => Kept(status'.avail, status.avail)
        BY <2>1, KeptReflexive
    <2>3. CASE Tick
        BY <2>3, TickEffect DEF MetadataInv
    <2>4. CASE Write
        <3>1. pc = "write" /\ (status' = new \/ status' = status)
            BY <2>4, Zenon DEF Write, StatusEqual
        <3> QED
            BY <2>2, <3>1 DEF MetadataInv, CopyIsOld
    <2>5. CASE ~Tick /\ ~Write
        <3>1. status' = status
            BY <2>5 DEF Next, Start, Fetch, FetchWithoutServers, TimerFires, Edit, Publish,
                        ServerChanges, Outage, Recovery, Crash
        <3> QED
            BY <2>2, <3>1
    <2> QED
        BY <2>3, <2>4, <2>5
<1> QED
    BY <1>1, MetadataInvariant, PTL DEF Spec, ReleaseDateKept

-----------------------------------------------------------------------------
(* A plugin at rest: the safety part of MatchedFollows and MetadataFollows. *)

\* doReconcile ends without RequeueAfter for the status st of a plugin with the source s:
\* the source cannot be fetched as it is written, or is a project without any version.
GivenUp(s, st) ==
    \/ /\ st.repo = "unavailable"
       /\ \/ st.resolved = "unsupported" /\ s.type \notin {"url", "hangar"}
          \/ st.resolved = "invalid" /\ s.type = "url" /\ ~s.valid
          \/ st.resolved = "mismatch" /\ s.type = "url" /\ s.checksum # None
    \/ st.repo = "available" /\ st.avail = None /\ s.type = "hangar"

\* When nothing is queued the list of servers is the one there is, and the source will be
\* looked at again unless it is one the user must change: no interleaving of edits,
\* refused writes, failures and restarts loses the last reconcile or the timer.
RestIsWatched ==
    Settled => status.matched = server /\ (timer \/ GivenUp(source, status))

\* The same of the copy that is about to be written.
CopyIsWatched ==
    pc = "write" =>
        /\ (~queued /\ again # "error") => new.matched = server
        /\ again = "done" => GivenUp(snap, new)

\* Why the fetch r for the source s has nothing to go on with.
Cause(s, r) ==
    /\ r.kind = "unsupported" => s.type \notin {"url", "hangar"}
    /\ r.kind = "invalid" => s.type = "url" /\ ~s.valid
    /\ r.kind = "mismatch" => s.type = "url" /\ s.checksum # None
    /\ (r.kind = "ok" /\ r.avail = None) => s.type = "hangar"
    /\ r.kind = "hit" => r.avail # None

\* A fetch without a result has a cause in the source, or is an error of the network.
LEMMA FetchCause ==
    ASSUME Types, NEW s \in Sources, NEW a, IsAvail(a)
    PROVE  Cause(s, FetchPluginMetadata(s, a))
<1>1. CASE s.type = "url"
    <2> DEFINE c == upstream[s.ref]
               i == Info(s, c, VersionOf(s, c), Released(a, c))
    <2>1. FetchPluginMetadata(s, a) = FetchURL(s, a)
        BY <1>1 DEF FetchPluginMetadata
    <2>2. i # None
        <3>1. s.ref \in Refs /\ c \in Contents[s.ref]
            BY MetadataAssumption DEF Types, WorldTypes
        <3>2. Released(a, c) \in 0..Old
            BY ReleasedSound
        <3> QED
            BY <3>1, <3>2, NoneAssumption
    <2> HIDE DEF i
    <2>3. \/ ~s.valid /\ FetchURL(s, a) = [kind |-> "invalid", avail |-> a]
          \/ URLCacheValid(s, a) /\ FetchURL(s, a) = [kind |-> "hit", avail |-> a]
          \/ FetchURL(s, a) = [kind |-> "error", avail |-> a]
          \/ s.checksum # None /\ FetchURL(s, a) = [kind |-> "mismatch", avail |-> a]
          \/ FetchURL(s, a) = [kind |-> "ok", avail |-> i]
        <3>1. CASE ~s.valid
            BY <3>1, Zenon DEF FetchURL, Result
        <3>2. CASE s.valid /\ URLCacheValid(s, a)
            BY <3>2, Zenon DEF FetchURL, Result
        <3>3. CASE s.valid /\ ~URLCacheValid(s, a)
            <4>1. FetchURL(s, a) = IF ~up \/ c.big THEN Result("error", a)
                                   ELSE IF s.checksum # None /\ s.checksum # c.hash
                                        THEN Result("mismatch", a) ELSE Result("ok", i)
                BY <3>3, Zenon DEF FetchURL, i
            <4> QED
                BY <4>1, Zenon DEF Result
        <3> QED
            BY <3>1, <3>2, <3>3
    <2>4. URLCacheValid(s, a) => a # None
        BY DEF URLCacheValid
    <2> QED
        BY <1>1, <2>1, <2>2, <2>3, <2>4 DEF Cause
<1>2. CASE s.type = "hangar"
    <2> DEFINE c == IF cache[s.ref] # None THEN cache[s.ref] ELSE upstream[s.ref]
               e == IF c.version = None THEN None ELSE Info(s, c, c.version, Old)
    <2>1. FetchPluginMetadata(s, a) = FetchHangar(s, a)
        BY <1>2 DEF FetchPluginMetadata
    <2> HIDE DEF e
    <2>2. \/ FetchHangar(s, a) = [kind |-> "error", avail |-> a]
          \/ FetchHangar(s, a) = [kind |-> "ok", avail |-> e]
        BY Zenon DEF FetchHangar, Result, e
    <2> QED
        BY <1>2, <2>1, <2>2 DEF Cause
<1>3. CASE s.type \notin {"url", "hangar"}
    <2>1. FetchPluginMetadata(s, a) = [kind |-> "unsupported", avail |-> a]
        BY <1>3 DEF FetchPluginMetadata, Result
    <2> QED
        BY <1>3, <2>1 DEF Cause
<1> QED
    BY <1>1, <1>2, <1>3

\* doReconcile without RequeueAfter: the status says why.
LEMMA NothingToGoOn ==
    ASSUME NEW s, NEW st, NEW r, NEW m, IsStatus(st), Outcome(s, st.avail, r), Cause(s, r),
           ~HasVersions(st, r), r.kind # "error"
    PROVE  GivenUp(s, [SyncPluginMetadata(st, r) EXCEPT !.resolved = Resolved(s, st, r),
                                                        !.matched = m])
<1> DEFINE y == SyncPluginMetadata(st, r)
           n == [y EXCEPT !.resolved = Resolved(s, st, r), !.matched = m]
<1>1. DOMAIN y = StatusFields
    BY SyncSound DEF Fetched, IsStatus
<1>2. /\ n.repo = y.repo /\ n.avail = y.avail /\ n.resolved = Resolved(s, st, r)
    BY <1>1 DEF StatusFields
<1>3. CASE r.kind \in {"ok", "hit"}
    <2>1. r.kind = "ok" /\ r.avail = None /\ s.type = "hangar"
        BY <1>3 DEF HasVersions, Cause
    <2>2. y = [st EXCEPT !.repo = "available", !.avail = r.avail]
        BY <2>1, Zenon DEF SyncPluginMetadata
    <2>3. y.repo = "available" /\ y.avail = None
        BY <2>1, <2>2 DEF IsStatus, StatusFields
    <2> HIDE DEF n, y
    <2>4. GivenUp(s, n)
        BY <1>2, <2>1, <2>3 DEF GivenUp
    <2> QED
        BY <2>4 DEF n, y
<1>4. CASE r.kind \in {"mismatch", "invalid", "unsupported"}
    <2>1. y = [st EXCEPT !.repo = "unavailable", !.resolved = r.kind]
        BY <1>4 DEF SyncPluginMetadata
    <2>2. y.repo = "unavailable" /\ y.resolved = r.kind
        BY <2>1 DEF IsStatus, StatusFields
    <2>3. Resolved(s, st, r) = y.resolved
        <3>1. ~Fallback(s, r)
            BY <1>4 DEF Fallback
        <3> QED
            BY <3>1, Zenon DEF Resolved
    <2> HIDE DEF n, y
    <2>4. GivenUp(s, n)
        BY <1>2, <1>4, <2>2, <2>3 DEF GivenUp, Cause
    <2> QED
        BY <2>4 DEF n, y
<1> QED
    BY <1>3, <1>4 DEF Outcome, Kinds

\* doReconcile lists the servers there are, and leaves without a timer only for a cause.
LEMMA FetchWatched ==
    ASSUME Types, Fetch
    PROVE  /\ new'.matched = server
           /\ again' = "done" => GivenUp(snap, new')
<1> DEFINE r == FetchPluginMetadata(snap, new.avail)
           y == SyncPluginMetadata(new, r)
<1>1. snap \in Sources /\ IsStatus(new) /\ IsAvail(new.avail)
    BY DEF Types, ReconcileTypes, Fetch, IsStatus
<1>2. Outcome(snap, new.avail, r) /\ Cause(snap, r)
    BY <1>1, FetchSound, FetchCause
<1>3. /\ new' = [y EXCEPT !.resolved = Resolved(snap, new, r), !.matched = server]
      /\ again' = IF HasVersions(new, r) \/ r.kind = "error" THEN "timer" ELSE "done"
    BY Zenon DEF Fetch, Matched
<1>4. DOMAIN y = StatusFields
    BY <1>1, <1>2, SyncSound DEF Fetched, IsStatus
<1> HIDE DEF r
<1>5. new'.matched = server
    <2> HIDE DEF y
    <2> QED
        BY <1>3, <1>4 DEF StatusFields
<1>6. ASSUME again' = "done"
      PROVE  GivenUp(snap, new')
    <2>1. ~HasVersions(new, r) /\ r.kind # "error"
        BY <1>3, <1>6
    <2> QED
        BY <1>1, <1>2, <1>3, <2>1, NothingToGoOn
<1> QED
    BY <1>5, <1>6

\* Time changes neither the list of servers nor why a source was given up.
LEMMA TickWatched ==
    ASSUME NEW st, IsStatus(st)
    PROVE  LET n == [st EXCEPT !.avail = Older(@)]
           IN  /\ n.matched = st.matched
               /\ \A s : GivenUp(s, st) => GivenUp(s, n)
<1> DEFINE n == [st EXCEPT !.avail = Older(@)]
<1>1. /\ n.matched = st.matched /\ n.avail = Older(st.avail)
      /\ n.repo = st.repo /\ n.resolved = st.resolved
    BY DEF IsStatus, StatusFields
<1>2. st.avail = None => Older(st.avail) = None
    BY DEF Older
<1> HIDE DEF n
<1>3. \A s : GivenUp(s, st) => GivenUp(s, n)
    BY <1>1, <1>2 DEF GivenUp
<1> QED
    BY <1>1, <1>3 DEF n

\* Every step keeps the plugin watched.
LEMMA WatchedStep ==
    ASSUME Types, CopyIsCurrent, CopyIsWatched, RestIsWatched, [Next]_vars
    PROVE  CopyIsWatched' /\ RestIsWatched'
<1> USE DEF CopyIsWatched, RestIsWatched, Settled
<1>0. queued \in BOOLEAN /\ stale \in BOOLEAN /\ timer \in BOOLEAN
    BY DEF Types, ReconcileTypes
<1>1. CASE Start
    BY <1>1 DEF Start
<1>2. CASE Fetch
    <2>1. pc' = "write" /\ server' = server /\ snap' = snap
        BY <1>2 DEF Fetch, world
    <2> QED
        BY <1>2, <2>1, FetchWatched
<1>3. CASE FetchWithoutServers
    <2>1. pc' = "write" /\ again' = "error"
        BY <1>3 DEF FetchWithoutServers
    <2> QED
        BY <2>1
<1>4. CASE Write
    <2>1. pc = "write" /\ pc' = "idle" /\ source' = source /\ server' = server
        BY <1>4 DEF Write, StatusEqual, Idle, world
    <2>2. CASE queued' = TRUE
        BY <2>1, <2>2
    <2>3. CASE queued' # TRUE
        <3>1. ~(new # status /\ stale)
            BY <1>4, <2>3 DEF Write, StatusEqual
        <3>2. /\ status' = new /\ ~queued /\ again # "error"
              /\ timer' = (timer \/ again = "timer")
            BY <1>0, <1>4, <2>3, <3>1 DEF Write, StatusEqual
        <3>3. snap = source
            BY <1>0, <2>1, <3>2 DEF CopyIsCurrent
        <3>4. again = "timer" \/ again = "done"
            BY <3>2 DEF Types, ReconcileTypes
        <3> QED
            BY <2>1, <3>2, <3>3, <3>4
    <2> QED
        BY <2>2, <2>3
<1>5. CASE TimerFires
    BY <1>5 DEF TimerFires, world
<1>6. CASE Tick
    <2>1. IsStatus(status) /\ IsStatus(new)
        BY DEF Types, ReconcileTypes
    <2>2. /\ status' = [status EXCEPT !.avail = Older(@)]
          /\ new' = [new EXCEPT !.avail = Older(@)]
          /\ UNCHANGED <<source, server, pc, snap, again, queued, timer>>
        BY <1>6 DEF Tick, world
    <2>3. /\ status'.matched = status.matched /\ new'.matched = new.matched
          /\ \A s : GivenUp(s, status) => GivenUp(s, status')
          /\ \A s : GivenUp(s, new) => GivenUp(s, new')
        BY <2>1, <2>2, TickWatched
    <2> QED
        BY <2>2, <2>3
<1>7. CASE Edit
    <2>1. queued' = TRUE /\ UNCHANGED <<pc, snap, new, again>>
        BY <1>7 DEF Edit
    <2> QED
        BY <2>1
<1>8. CASE Publish \/ Outage \/ Recovery
    <2>1. UNCHANGED <<source, server, status, pc, snap, new, again, queued, timer>>
        BY <1>8 DEF Publish, Outage, Recovery
    <2> QED
        BY <2>1
<1>9. CASE ServerChanges
    <2>1. queued' = TRUE /\ UNCHANGED <<pc, snap, new, again>>
        BY <1>9 DEF ServerChanges
    <2> QED
        BY <2>1
<1>10. CASE Crash
    BY <1>10 DEF Crash, Idle
<1>11. CASE UNCHANGED vars
    BY <1>11 DEF vars, world
<1> QED
    BY <1>1, <1>2, <1>3, <1>4, <1>5, <1>6, <1>7, <1>8, <1>9, <1>10, <1>11 DEF Next

\* A plugin at rest lists the servers that match, and is due for another fetch unless its
\* source cannot be fetched as it is written: what MatchedFollows and MetadataFollows
\* need besides fairness, for all sources, servers and interleavings.
THEOREM PluginStaysWatched == Spec => []RestIsWatched
<1>1. Init => CopyIsWatched /\ RestIsWatched
    BY DEF Init, CopyIsWatched, RestIsWatched, Settled
<1>2. /\ MetadataInv /\ CopyIsWatched /\ RestIsWatched /\ [Next]_vars
      => (CopyIsWatched /\ RestIsWatched)'
    BY WatchedStep DEF MetadataInv
<1> QED
    BY <1>1, <1>2, MetadataInvariant, PTL DEF Spec
=============================================================================

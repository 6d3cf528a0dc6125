--------------------------- MODULE GeographyLocks ---------------------------
(***************************************************************************)
(* Governorates, their cities and the zones of a city, and the locks under *)
(* which requests of several processes change them.  A request is one      *)
(* transaction.  It looks which governorate its city is in, takes the      *)
(* advisory locks of governorates, then of cities, then of the city's      *)
(* zones, looks again, decides and commits; if the city moved meanwhile it *)
(* starts over.  Moving a city takes the lock of the city's row first.     *)
(* Catalog, store and merchant services take the same locks and write      *)
(* where the city is operational.                                          *)
(* One action is one statement that may wait or that others may precede.   *)
(***************************************************************************)
EXTENDS Naturals, FiniteSets

CONSTANTS Governorates, Cities,  \* ids: locks are taken in their order
          MaxId,                 \* the greatest id: ids are UUIDs
          Zones,                 \* zone ids
          Cells,                 \* what areas are made of
          Requests,              \* concurrent requests
          Jobs,                  \* what requests are about
          MaxAttempts,           \* of beginWithGeographyRetry: 8
          None                   \* no governorate, no city

Areas == (SUBSET Cells) \ {{}}
CityStatuses == {"NONE", "DRAFT", "ACTIVE", "SUSPENDED", "ARCHIVED"}

\* PATCH city status; PATCH city without and with a governorate; PATCH governorate
\* status; the commands of zones; any write of a catalog, store or merchant service.
\* An empty area is a field the request leaves out.
Transitions   == [kind : {"transition"}, city : Cities,
                  status : {"ACTIVE", "SUSPENDED", "ARCHIVED"}]
CityUpdates   == [kind : {"update"}, city : Cities, area : SUBSET Cells]
Reassignments == [kind : {"reassign"}, city : Cities, governorate : Governorates,
                  area : SUBSET Cells]
GovernorateUpdates == [kind : {"governorate"}, governorate : Governorates,
                       status : {"ACTIVE", "INACTIVE"}]
ZoneCreations == [kind : {"createZone"}, city : Cities, area : Areas]
ZoneUpdates   == [kind : {"updateZone"}, city : Cities, zone : Zones,
                  area : SUBSET Cells, activate : BOOLEAN]
ZoneArchivals == [kind : {"archiveZone"}, city : Cities, zone : Zones]
StoreWrites   == [kind : {"store"}, city : Cities]

AllJobs == Transitions \cup CityUpdates \cup Reassignments \cup GovernorateUpdates
             \cup ZoneCreations \cup ZoneUpdates \cup ZoneArchivals \cup StoreWrites

ASSUME GeographyAssumption ==
    /\ MaxId \in Nat
    /\ Governorates \subseteq 0..MaxId /\ Cities \subseteq 0..MaxId
    /\ None \notin Governorates \cup Cities \cup Zones \cup AllJobs
    /\ Jobs \subseteq AllJobs
    /\ MaxAttempts \in Nat \ {0}

VARIABLES
    governorates,  \* governorates[g]: its status
    cities,        \* cities[c]: status, governorate and boundary
    zones,         \* zones[z]: its city, whether it is archived, boundary
    revoked,       \* the cities whose dashboard sessions the last commit revoked
    requests       \* requests[r]: what request r is doing, the locks it holds

vars == <<governorates, cities, zones, revoked, requests>>

City == [status : CityStatuses, governorate : Governorates \cup {None}, area : SUBSET Cells]
NoCity == [status |-> "NONE", governorate |-> None, area |-> {}]

\* "LIVE" is ACTIVE or INACTIVE, which no check tells apart.
Zone == [city : Cities \cup {None}, status : {"NONE", "LIVE", "ARCHIVED"},
         area : SUBSET Cells]
NoZone == [city |-> None, status |-> "NONE", area |-> {}]

Locks == ({"governorate"} \X Governorates) \cup ({"city", "zones", "row"} \X Cities)
Governorate(g) == <<"governorate", g>>
CityLock(c) == <<"city", c>>
ZonesLock(c) == <<"zones", c>>
Row(c) == <<"row", c>>

\* What a request read under its locks and decides on.
Seen == [status : CityStatuses \cup {"INACTIVE"}, operational : BOOLEAN,
         children : SUBSET Cities]
NothingSeen == [status |-> "NONE", operational |-> FALSE, children |-> {}]

Steps == {"idle", "row", "peek", "lock", "children", "commit"}
Request == [job : Jobs \cup {None}, step : Steps, peeked : Governorates \cup {None},
            wanted : SUBSET Locks, held : SUBSET Locks,
            attempt : 0..MaxAttempts, seen : Seen]
Idle == [job |-> None, step |-> "idle", peeked |-> None, wanted |-> {}, held |-> {},
         attempt |-> 0, seen |-> NothingSeen]

TypeOK ==
    /\ governorates \in [Governorates -> {"ACTIVE", "INACTIVE"}]
    /\ cities \in [Cities -> City]
    /\ zones \in [Zones -> Zone]
    /\ revoked \subseteq Cities
    /\ requests \in [Requests -> Request]

\* Governorates are there from the start.
Init ==
    /\ governorates \in [Governorates -> {"ACTIVE", "INACTIVE"}]
    /\ cities = [c \in Cities |-> NoCity]
    /\ zones = [z \in Zones |-> NoZone]
    /\ revoked = {}
    /\ requests = [r \in Requests |-> Idle]

-----------------------------------------------------------------------------
(* The state of places. *)

IsOperational(city) == city.status = "ACTIVE" /\ governorates[city.governorate] = "ACTIVE"
Operational(c) == IsOperational(cities[c])
Children(g) == {c \in Cities : cities[c].governorate = g}
ZonesOf(c) == {z \in Zones : zones[z].city = c /\ zones[z].status = "LIVE"}

AllowedTargets(status) == IF status = "ACTIVE" THEN {"SUSPENDED", "ARCHIVED"}
                          ELSE IF status = "ARCHIVED" THEN {"ACTIVE"}
                          ELSE {"ACTIVE", "ARCHIVED"}

InsideCity(c, area) == area \subseteq cities[c].area
OverlapsOther(c, area, z) == \E y \in ZonesOf(c) \ {z} : zones[y].area \cap area # {}
ExcludesZones(c, area) == \E z \in ZonesOf(c) : ~ zones[z].area \subseteq area

-----------------------------------------------------------------------------
(* The requests and their locks. *)

Job(r) == requests[r].job
At(r, step) == requests[r].step = step

\* Governorates, cities, zones; a row is locked last.  (Cities first, in the mutant.)
RankCitiesFirst(l) == CASE l[1] = "governorate" -> 2 [] l[1] = "city" -> 1
                        [] l[1] = "zones" -> 3 [] OTHER -> 4
Rank(l) == CASE l[1] = "governorate" -> 1 [] l[1] = "city" -> 2
             [] l[1] = "zones" -> 3 [] OTHER -> 4
Before(k, l) == Rank(k) < Rank(l) \/ (Rank(k) = Rank(l) /\ k[2] < l[2])
FirstWanted(r) == {l \in requests[r].wanted : \A k \in requests[r].wanted : ~ Before(k, l)}

\* The locks the next statement of a request waits for: an advisory lock; the city's row
\* for update; or, to update that row or to insert a row that refers to it, that
\* nobody else holds it so.
Needs(r) ==
    IF At(r, "row") THEN {Row(Job(r).city)}
    ELSE IF requests[r].wanted # {} THEN FirstWanted(r)
    ELSE IF \/ At(r, "lock") /\ Job(r).kind = "update"
            \/ At(r, "commit") /\ Job(r).kind \in {"transition", "createZone", "store"}
         THEN {Row(Job(r).city)}
    ELSE {}

WaitsFor(r, s) == s # r /\ Needs(r) \cap requests[s].held # {}
Blocked(r) == \E s \in Requests : WaitsFor(r, s)

Becomes(r, request) == requests' = [requests EXCEPT ![r] = request]
Places == <<governorates, cities, zones>>

\* The end of a transaction, be it a commit, a refusal or an abort, gives up its locks.
Refuse(r) == Becomes(r, Idle) /\ UNCHANGED Places /\ revoked' = {}

Proceed(r, request) == Becomes(r, request) /\ UNCHANGED Places /\ revoked' = {}

Begin(r, j) ==
    /\ At(r, "idle")
    /\ Proceed(r, [Idle EXCEPT !.job = j, !.attempt = 1,
                   !.step = IF j.kind = "reassign" THEN "row" ELSE "peek"])

\* A new city takes no lock: a draft is not operational.
CreateCity(c, g, area) ==
    /\ cities[c] = NoCity
    /\ cities' = [cities EXCEPT ![c] = [status |-> "DRAFT", governorate |-> g, area |-> area]]
    /\ revoked' = {}
    /\ UNCHANGED <<governorates, zones, requests>>

\* An update that names a governorate locks the row of the city, and compares a new
\* boundary with the zones, before any advisory lock.
LockRow(r) ==
    /\ At(r, "row") /\ ~ Blocked(r)
    /\ LET c == Job(r).city
           area == Job(r).area IN
       IF cities[c] = NoCity \/ (area # {} /\ ExcludesZones(c, area))
       THEN Refuse(r)
       ELSE Proceed(r, [requests[r] EXCEPT !.step = "peek", !.held = {Row(c)}])

\* (The mutants forget the locks of a catalog write, and of a move's target.)
LocksButForWrites(j, g) ==
    CASE j.kind = "governorate" -> {Governorate(j.governorate)}
      [] j.kind = "reassign" -> {Governorate(g), Governorate(j.governorate), CityLock(j.city)}
      [] j.kind = "store" -> {}
      [] OTHER -> {Governorate(g), CityLock(j.city), ZonesLock(j.city)}
LocksButForTarget(j, g) ==
    IF j.kind = "governorate" THEN {Governorate(j.governorate)}
    ELSE {Governorate(g), CityLock(j.city)}
AdvisoryLocks(j, g) ==
    CASE j.kind = "governorate" -> {Governorate(j.governorate)}
      [] j.kind = "reassign" -> {Governorate(g), Governorate(j.governorate), CityLock(j.city)}
      [] j.kind \in {"createZone", "updateZone", "archiveZone"} ->
             {Governorate(g), CityLock(j.city), ZonesLock(j.city)}
      [] OTHER -> {Governorate(g), CityLock(j.city)}

\* Reads the city's governorate. The zones' lock, taken after the second look, is always
\* free for who holds the city's, so it is taken with the others.
Peek(r) ==
    /\ At(r, "peek")
    /\ LET g == IF Job(r).kind = "governorate" THEN None ELSE cities[Job(r).city].governorate IN
       IF Job(r).kind # "governorate" /\ g = None
       THEN Refuse(r)
       ELSE Proceed(r, [requests[r] EXCEPT !.step = "lock", !.peeked = g,
                                           !.wanted = AdvisoryLocks(Job(r), g)])

TakeLock(r) ==
    /\ ~ Blocked(r)
    /\ \E l \in FirstWanted(r) :
          Proceed(r, [requests[r] EXCEPT !.wanted = @ \ {l}, !.held = @ \cup {l}])

\* lockGovernorateAndCities: the cities the governorate has by then.
LockChildren(r) ==
    /\ At(r, "lock") /\ requests[r].wanted = {} /\ Job(r).kind = "governorate"
    /\ Proceed(r, [requests[r] EXCEPT !.step = "children",
                       !.wanted = {CityLock(c) : c \in Children(Job(r).governorate)}])

\* The city went to a governorate the request has no lock of.
ParentChanged(r) ==
    LET g == cities[Job(r).city].governorate IN
    /\ g # requests[r].peeked
    /\ Job(r).kind = "reassign" => g # Job(r).governorate

HasLocks(r) == At(r, "lock") /\ requests[r].wanted = {} /\ Job(r).kind # "governorate"

\* GeographyLockStaleError: the transaction starts over, at most MaxAttempts times.
StartOver(r) ==
    /\ HasLocks(r) /\ ParentChanged(r)
    /\ IF requests[r].attempt = MaxAttempts
       THEN Refuse(r)
       ELSE Proceed(r, [Idle EXCEPT !.job = Job(r), !.attempt = requests[r].attempt + 1,
                        !.step = IF Job(r).kind = "reassign" THEN "row" ELSE "peek"])

-----------------------------------------------------------------------------
(* What requests decide under their locks. *)

MayTransit(j) == j.status \in AllowedTargets(cities[j.city].status)

MayUpdate(j) == /\ cities[j.city].status # "ARCHIVED"
                /\ j.area # {} => ~ ExcludesZones(j.city, j.area)

MayReassign(j) == cities[j.city].status # "ARCHIVED"

MayCreateZone(j) == /\ cities[j.city].status # "ARCHIVED"
                    /\ InsideCity(j.city, j.area)
                    /\ ~ OverlapsOther(j.city, j.area, None)

\* A zone that comes back from the archive is compared like a new one.  (Not in the mutant.)
MayUpdateZoneUncompared(j) ==
    LET z == zones[j.zone] IN
    /\ cities[j.city].status # "ARCHIVED"
    /\ z.city = j.city
    /\ z.status = "ARCHIVED" => j.activate
    /\ j.area # {} => InsideCity(j.city, j.area) /\ ~ OverlapsOther(j.city, j.area, j.zone)
MayUpdateZone(j) ==
    LET z == zones[j.zone]
        archived == z.status = "ARCHIVED"
        area == IF j.area # {} THEN j.area ELSE z.area IN
    /\ cities[j.city].status # "ARCHIVED"
    /\ z.city = j.city
    /\ archived => j.activate
    /\ j.area # {} \/ archived => /\ InsideCity(j.city, area)
                                  /\ ~ OverlapsOther(j.city, area, j.zone)

MayArchiveZone(j) == cities[j.city].status # "ARCHIVED" /\ zones[j.zone].city = j.city

\* assertCityOperability
MayWrite(j) == Operational(j.city)

Accepted(j) == CASE j.kind = "transition"  -> MayTransit(j)
                 [] j.kind = "update"      -> MayUpdate(j)
                 [] j.kind = "reassign"    -> MayReassign(j)
                 [] j.kind = "createZone"  -> MayCreateZone(j)
                 [] j.kind = "updateZone"  -> MayUpdateZone(j)
                 [] j.kind = "archiveZone" -> MayArchiveZone(j)
                 [] OTHER                  -> MayWrite(j)

\* The city is in the governorate whose lock is held: the request reads what it needs
\* and goes on to its writes, or refuses. An update without a governorate locks the row
\* now.
Decide(r) ==
    /\ HasLocks(r) /\ ~ ParentChanged(r) /\ ~ Blocked(r)
    /\ LET c == Job(r).city IN
       IF Accepted(Job(r))
       THEN Proceed(r, [requests[r] EXCEPT
                          !.step = "commit",
                          !.held = IF Job(r).kind = "update" THEN @ \cup {Row(c)} ELSE @,
                          !.seen = [NothingSeen EXCEPT !.status = cities[c].status,
                                                       !.operational = Operational(c)]])
       ELSE Refuse(r)

DecideGovernorate(r) ==
    /\ At(r, "children") /\ requests[r].wanted = {}
    /\ LET g == Job(r).governorate IN
       Proceed(r, [requests[r] EXCEPT !.step = "commit",
                     !.seen = [NothingSeen EXCEPT !.status = governorates[g],
                                                  !.children = Children(g)]])

-----------------------------------------------------------------------------
(* The writes and the commit. *)

Commits(r, kind) == At(r, "commit") /\ Job(r).kind = kind /\ ~ Blocked(r) /\ Becomes(r, Idle)

CommitTransition(r) ==
    /\ Commits(r, "transition")
    /\ cities' = [cities EXCEPT ![Job(r).city].status = Job(r).status]
    /\ revoked' = IF requests[r].seen.status = "ACTIVE" THEN {Job(r).city} ELSE {}
    /\ UNCHANGED <<governorates, zones>>

CommitUpdate(r) ==
    /\ Commits(r, "update")
    /\ cities' = [cities EXCEPT ![Job(r).city].area = IF Job(r).area = {} THEN @ ELSE Job(r).area]
    /\ revoked' = {}
    /\ UNCHANGED <<governorates, zones>>

\* The sessions go when the city was operational where it was and is not where it is.
CommitReassignment(r) ==
    /\ Commits(r, "reassign")
    /\ LET c == Job(r).city IN
       /\ cities' = [cities EXCEPT ![c].governorate = Job(r).governorate,
                                   ![c].area = IF Job(r).area = {} THEN @ ELSE Job(r).area]
       /\ revoked' = IF requests[r].seen.operational /\ ~ IsOperational(cities'[c]) THEN {c} ELSE {}
    /\ UNCHANGED <<governorates, zones>>

CommitGovernorate(r) ==
    /\ Commits(r, "governorate")
    /\ governorates' = [governorates EXCEPT ![Job(r).governorate] = Job(r).status]
    /\ revoked' = IF requests[r].seen.status = "ACTIVE" /\ Job(r).status = "INACTIVE"
                  THEN requests[r].seen.children ELSE {}
    /\ UNCHANGED <<cities, zones>>

CommitCreateZone(r) ==
    /\ Commits(r, "createZone")
    /\ \/ \E z \in Zones :
             /\ zones[z] = NoZone
             /\ zones' = [zones EXCEPT ![z] =
                           [city |-> Job(r).city, status |-> "LIVE", area |-> Job(r).area]]
       \/ (\A z \in Zones : zones[z] # NoZone) /\ UNCHANGED zones  \* out of ids: a bound
    /\ revoked' = {}
    /\ UNCHANGED <<governorates, cities>>

CommitUpdateZone(r) ==
    /\ Commits(r, "updateZone")
    /\ zones' = [zones EXCEPT ![Job(r).zone].status = IF Job(r).activate THEN "LIVE" ELSE @,
                              ![Job(r).zone].area = IF Job(r).area = {} THEN @ ELSE Job(r).area]
    /\ revoked' = {}
    /\ UNCHANGED <<governorates, cities>>

CommitArchiveZone(r) ==
    /\ Commits(r, "archiveZone")
    /\ zones' = [zones EXCEPT ![Job(r).zone].status = "ARCHIVED"]
    /\ revoked' = {}
    /\ UNCHANGED <<governorates, cities>>

CommitStoreWrite(r) ==
    /\ Commits(r, "store")
    /\ UNCHANGED Places /\ revoked' = {}

\* Requests that wait for one another: PostgreSQL aborts one of them, and nobody
\* retries that.
Deadlocked(S) == S # {} /\ \A r \in S : \E s \in S : WaitsFor(r, s)

AbortDeadlock(r) ==
    /\ \E S \in SUBSET Requests : r \in S /\ Deadlocked(S)
    /\ Refuse(r)

CreateAnyCity == \E c \in Cities, g \in Governorates, area \in Areas : CreateCity(c, g, area)

Next ==
    \/ CreateAnyCity
    \/ \E r \in Requests :
        \/ \E j \in Jobs : Begin(r, j)
        \/ LockRow(r) \/ Peek(r) \/ TakeLock(r) \/ LockChildren(r) \/ StartOver(r)
        \/ Decide(r) \/ DecideGovernorate(r)
        \/ CommitTransition(r) \/ CommitUpdate(r) \/ CommitReassignment(r)
        \/ CommitGovernorate(r) \/ CommitCreateZone(r) \/ CommitUpdateZone(r)
        \/ CommitArchiveZone(r) \/ CommitStoreWrite(r)
        \/ AbortDeadlock(r)

Spec == Init /\ [][Next]_vars

-----------------------------------------------------------------------------
(* Properties. *)

\* Only an update that moves a city can be in a deadlock: all other requests take their
\* locks in one order (geography-locks.ts, city.service.ts).
OnlyReassignmentsDeadlock ==
    \A S \in SUBSET Requests :
        Deadlocked(S) => \E r \in S : Job(r).kind = "reassign"

\* The protocol has "concurrent operations serialize without deadlock"
\* (geography-locks.ts:12-14). An update that moves a city does not follow it.
NoDeadlock == \A S \in SUBSET Requests : ~ Deadlocked(S)

\* A city that ceases to be operational, by its own status, by its governorate's or by a
\* move, loses the dashboard sessions of its staff in that commit, and no city that
\* remains operational does (revokeDashboardSessionsForCities and its three callers).
LossIsRevoked ==
    [][\A c \in Cities :
          /\ Operational(c) /\ ~ Operational(c)' => c \in revoked'
          /\ c \in revoked' => ~ Operational(c)']_vars

\* What a request decided under its locks is still so when it commits: the status it
\* leaves, the operability a catalog write asserted, the zones a boundary was compared
\* with (lockCityGeography, lockGovernorateAndCities and what their callers read after).
DecisionsStand ==
    \A r \in Requests : At(r, "commit") =>
        IF Job(r).kind = "governorate"
        THEN requests[r].seen.status = governorates[Job(r).governorate]
        ELSE /\ Accepted(Job(r))
             /\ requests[r].seen.status = cities[Job(r).city].status
             /\ requests[r].seen.operational = Operational(Job(r).city)

\* Two zones in use of a city have no area in common (assertNoPositiveAreaOverlap).
ZonesDisjoint ==
    \A c \in Cities : \A y, z \in ZonesOf(c) : y # z => zones[y].area \cap zones[z].area = {}

\* A zone in use lies inside its city (assertInsideCityBoundary, and the boundary check of
\* CityService.update). An update that moves a city and draws it anew makes that check
\* before it has the advisory locks, and zones may change until it has them.
ZonesInside ==
    \A c \in Cities : \A z \in ZonesOf(c) : InsideCity(c, zones[z].area)

=============================================================================

----------------------------- MODULE Locks_proofs -----------------------------
(* Proofs about GeographyLocks, for any places, requests and jobs, and about          *)
(* DriverLocks, for any drivers, orders and commands: what both say of deadlocks rests *)
(* on the same argument.                                                               *)
EXTENDS GeographyLocks, DriverLocks, TLAPS, WellFoundedInduction, FiniteSetTheorems

Kinds == {"transition", "update", "reassign", "governorate", "createZone", "updateZone",
          "archiveZone", "store"}

(* What a job has, by its kind. *)
LEMMA JobFields ==
  ASSUME NEW j \in Jobs
  PROVE  /\ j \in AllJobs
         /\ j.kind \in Kinds
         /\ j.kind = "governorate" => /\ j.governorate \in Governorates
                                      /\ j.status \in {"ACTIVE", "INACTIVE"}
         /\ j.kind # "governorate" => j.city \in Cities
         /\ j.kind = "transition" => j.status \in {"ACTIVE", "SUSPENDED", "ARCHIVED"}
         /\ j.kind \in {"update", "reassign"} => j.area \in SUBSET Cells
         /\ j.kind = "reassign" => j.governorate \in Governorates
         /\ j.kind = "createZone" => j.area \in Areas
         /\ j.kind = "updateZone" => /\ j.zone \in Zones /\ j.area \in SUBSET Cells
                                     /\ j.activate \in BOOLEAN
         /\ j.kind = "archiveZone" => j.zone \in Zones
<1>. DEFINE G == /\ j \in AllJobs
                 /\ j.kind \in Kinds
                 /\ j.kind = "governorate" => /\ j.governorate \in Governorates
                                              /\ j.status \in {"ACTIVE", "INACTIVE"}
                 /\ j.kind # "governorate" => j.city \in Cities
                 /\ j.kind = "transition" => j.status \in {"ACTIVE", "SUSPENDED", "ARCHIVED"}
                 /\ j.kind \in {"update", "reassign"} => j.area \in SUBSET Cells
                 /\ j.kind = "reassign" => j.governorate \in Governorates
                 /\ j.kind = "createZone" => j.area \in Areas
                 /\ j.kind = "updateZone" => /\ j.zone \in Zones /\ j.area \in SUBSET Cells
                                             /\ j.activate \in BOOLEAN
                 /\ j.kind = "archiveZone" => j.zone \in Zones
<1>1. j \in AllJobs
  BY GeographyAssumption
<1>2. CASE j \in Transitions
  BY <1>1, <1>2 DEF Transitions, Kinds
<1>3. CASE j \in CityUpdates
  BY <1>1, <1>3 DEF CityUpdates, Kinds
<1>4. CASE j \in Reassignments
  BY <1>1, <1>4 DEF Reassignments, Kinds
<1>5. CASE j \in GovernorateUpdates
  BY <1>1, <1>5 DEF GovernorateUpdates, Kinds
<1>6. CASE j \in ZoneCreations
  BY <1>1, <1>6 DEF ZoneCreations, Kinds
<1>7. CASE j \in ZoneUpdates
  BY <1>1, <1>7 DEF ZoneUpdates, Kinds
<1>8. CASE j \in ZoneArchivals
  BY <1>1, <1>8 DEF ZoneArchivals, Kinds
<1>9. CASE j \in StoreWrites
  BY <1>1, <1>9 DEF StoreWrites, Kinds
<1>10. \/ j \in Transitions \/ j \in CityUpdates \/ j \in Reassignments
       \/ j \in GovernorateUpdates \/ j \in ZoneCreations \/ j \in ZoneUpdates
       \/ j \in ZoneArchivals \/ j \in StoreWrites
  BY <1>1 DEF AllJobs
<1>. QED
  BY <1>2, <1>3, <1>4, <1>5, <1>6, <1>7, <1>8, <1>9, <1>10

-----------------------------------------------------------------------------
(* The locks.  Orderly says, for each step of a request, which locks it holds and   *)
(* which it still wants.                                                            *)

RowOf(j) == IF j.kind = "reassign" THEN {Row(j.city)} ELSE {}

ForGovernorate(q) ==
    /\ q.step = "lock" => q.held \cup q.wanted = {Governorate(q.job.governorate)}
    /\ q.step \in {"children", "commit"} => Governorate(q.job.governorate) \in q.held
    /\ q.wanted \subseteq {Governorate(q.job.governorate)} \cup {CityLock(c) : c \in Cities}
    /\ q.held \subseteq {Governorate(q.job.governorate)} \cup {CityLock(c) : c \in Cities}

ForCity(q) ==
    /\ q.step # "children"
    /\ q.peeked \in Governorates
    /\ AdvisoryLocks(q.job, q.peeked) \subseteq q.held \cup q.wanted
    /\ q.wanted \subseteq AdvisoryLocks(q.job, q.peeked)
    /\ q.held \subseteq AdvisoryLocks(q.job, q.peeked) \cup {Row(q.job.city)}
    /\ q.job.kind = "reassign" => Row(q.job.city) \in q.held
    /\ Row(q.job.city) \in q.held =>
          q.job.kind = "reassign" \/ (q.job.kind = "update" /\ q.step = "commit")

Orderly(q) ==
    /\ q.step = "idle" => q = Idle
    /\ q.step # "idle" => q.job \in Jobs /\ q.attempt \in 1..MaxAttempts
    /\ q.step = "row" => q.job.kind = "reassign" /\ q.held = {}
    /\ q.step \in {"idle", "row", "peek", "commit"} => q.wanted = {}
    /\ q.step = "peek" => q.held = RowOf(q.job)
    /\ q.step \in {"lock", "children", "commit"} =>
          IF q.job.kind = "governorate" THEN ForGovernorate(q) ELSE ForCity(q)

\* Nobody waits for a lock that comes before one he holds, the row of a moving city apart.
Sorted(q) == \A k \in q.held, l \in q.wanted : k[1] = "row" \/ Before(k, l)

Exclusive == \A r, s \in Requests : r # s => requests[r].held \cap requests[s].held = {}

\* Cities do not disappear.
KnownCity(q) ==
    q.step \in {"lock", "commit"} /\ q.job.kind # "governorate" => cities[q.job.city] # NoCity

\* A city has a status other than NONE and a governorate, or is not there.
WellFormedCities ==
    \A c \in Cities : cities[c] # NoCity =>
        cities[c].status # "NONE" /\ cities[c].governorate \in Governorates

LockInv ==
    /\ TypeOK /\ WellFormedCities /\ Exclusive
    /\ \A r \in Requests : Orderly(requests[r]) /\ Sorted(requests[r]) /\ KnownCity(requests[r])

(* What was decided still holds.                                                    *)

Settled(q) ==
    q.step = "commit" =>
      IF q.job.kind = "governorate"
      THEN /\ q.seen.status = governorates[q.job.governorate]
           /\ q.seen.children \subseteq Children(q.job.governorate)
           /\ \A c \in Children(q.job.governorate) \ q.seen.children :
                 cities[c].status = "DRAFT"
      ELSE /\ Governorate(cities[q.job.city].governorate) \in q.held
           /\ Accepted(q.job)
           /\ q.seen.status = cities[q.job.city].status
           /\ q.seen.operational = Operational(q.job.city)

\* A zone that has a city is in use or archived.
WellFormedZones == \A z \in Zones : zones[z].city # None => zones[z].status # "NONE"

IInv == /\ LockInv /\ WellFormedZones /\ ZonesDisjoint
        /\ \A r \in Requests : Settled(requests[r])

-----------------------------------------------------------------------------
(* The discipline of the locks is kept by every step. *)

LEMMA IdleIsOrderly ==
  Idle \in Request /\ Orderly(Idle) /\ Sorted(Idle) /\ KnownCity(Idle) /\ KnownCity(Idle)'
    /\ Idle.held = {} /\ Settled(Idle)'
BY GeographyAssumption
   DEF Idle, Request, Steps, NothingSeen, Seen, CityStatuses, Orderly, Sorted, KnownCity, Settled

(* A step writes one request, and places that keep their types. *)
LEMMA LocksKept ==
  ASSUME LockInv, NEW r \in Requests, NEW q \in Request, Becomes(r, q),
         Orderly(q), Sorted(q), KnownCity(q)',
         \A s \in Requests \ {r} : q.held \cap requests[s].held = {},
         TypeOK /\ requests' \in [Requests -> Request] => TypeOK',
         WellFormedCities',
         \A c \in Cities : cities[c] # NoCity => cities'[c] # NoCity
  PROVE  LockInv'
<1>1. requests' \in [Requests -> Request] /\ requests'[r] = q
      /\ \A s \in Requests \ {r} : requests'[s] = requests[s]
  BY DEF LockInv, TypeOK, Becomes
<1>2. TypeOK'
  BY <1>1 DEF LockInv
<1>3. Exclusive'
  BY <1>1 DEF LockInv, Exclusive
<1>4. ASSUME NEW s \in Requests
      PROVE  Orderly(requests[s])' /\ Sorted(requests[s])' /\ KnownCity(requests[s])'
  <2>1. CASE s = r
    BY <1>1, <2>1 DEF Orderly, Sorted, ForCity, ForGovernorate, KnownCity
  <2>2. CASE s # r
    <3>1. requests'[s] = requests[s]
      BY <1>1, <2>2
    <3>2. Orderly(requests[s])' /\ Sorted(requests[s])'
      BY <3>1 DEF LockInv, Orderly, Sorted, ForCity, ForGovernorate
    <3>3. KnownCity(requests[s])'
      <4>1. requests[s].step \in {"lock", "commit"} /\ requests[s].job.kind # "governorate"
              => requests[s].job.city \in Cities
        BY JobFields DEF LockInv, Orderly
      <4>. QED
        BY <3>1, <4>1 DEF LockInv, KnownCity
    <3>. QED
      BY <3>2, <3>3
  <2>. QED
    BY <2>1, <2>2
<1>. QED
  BY <1>2, <1>3, <1>4 DEF LockInv

(* A step that leaves the places alone. *)
LEMMA ProceedKeepsLocks ==
  ASSUME LockInv, NEW r \in Requests, NEW q \in Request, Proceed(r, q),
         Orderly(q), Sorted(q), KnownCity(q),
         \A s \in Requests \ {r} : q.held \cap requests[s].held = {}
  PROVE  LockInv'
<1>1. cities' = cities /\ governorates' = governorates /\ zones' = zones /\ revoked' = {}
      /\ Becomes(r, q)
  BY DEF Proceed, Places
<1>2. KnownCity(q)' /\ WellFormedCities'
  BY <1>1 DEF KnownCity, LockInv, WellFormedCities
<1>3. TypeOK /\ requests' \in [Requests -> Request] => TypeOK'
  BY <1>1 DEF TypeOK
<1>. QED
  BY <1>1, <1>2, <1>3, LocksKept

LEMMA RefuseKeepsLocks ==
  ASSUME LockInv, NEW r \in Requests, Refuse(r)
  PROVE  LockInv'
<1>1. Proceed(r, Idle)
  BY DEF Refuse, Proceed
<1>. QED
  BY <1>1, IdleIsOrderly, ProceedKeepsLocks

(* What a request that is not blocked takes, nobody else holds. *)
LEMMA Untaken ==
  ASSUME NEW r \in Requests, ~ Blocked(r), NEW l \in Needs(r)
  PROVE  \A s \in Requests \ {r} : l \notin requests[s].held
BY DEF Blocked, WaitsFor

(* The locks there are, and the order between two of them. *)
LEMMA LockKinds ==
  ASSUME NEW g \in Governorates, NEW c \in Cities
  PROVE  /\ Governorate(g) \in Locks /\ CityLock(c) \in Locks /\ ZonesLock(c) \in Locks
         /\ Row(c) \in Locks
         /\ Governorate(g)[1] = "governorate" /\ CityLock(c)[1] = "city"
         /\ ZonesLock(c)[1] = "zones" /\ Row(c)[1] = "row"
BY DEF Locks, Governorate, CityLock, ZonesLock, Row

LEMMA LockRanks ==
  ASSUME NEW l \in Locks
  PROVE  /\ l = <<l[1], l[2]>> /\ l[2] \in 0..MaxId
         /\ Rank(l) \in 1..4
         /\ Rank(l) = 1 <=> l[1] = "governorate"
         /\ Rank(l) = 2 <=> l[1] = "city"
         /\ Rank(l) = 3 <=> l[1] = "zones"
         /\ Rank(l) = 4 <=> l[1] = "row"
BY GeographyAssumption DEF Locks, Rank

LEMMA BeforeIsTotal ==
  ASSUME NEW k \in Locks, NEW l \in Locks, k # l, ~ Before(k, l)
  PROVE  Before(l, k)
<1>1. Rank(k) = Rank(l) => k[1] = l[1]
  BY LockRanks
<1>2. Rank(k) = Rank(l) => k[2] # l[2]
  BY <1>1, LockRanks
<1>3. Rank(k) \in Nat /\ Rank(l) \in Nat /\ k[2] \in Nat /\ l[2] \in Nat
  BY LockRanks, GeographyAssumption
<1>. QED
  BY <1>2, <1>3 DEF Before

(* The city of a job and the locks its kind calls for. *)
LEMMA AdvisoryLocksTyped ==
  ASSUME NEW j \in Jobs, NEW g \in Governorates, j.kind # "governorate"
  PROVE  /\ AdvisoryLocks(j, g) \subseteq Locks
         /\ Row(j.city) \notin AdvisoryLocks(j, g)
         /\ Governorate(g) \in AdvisoryLocks(j, g) /\ CityLock(j.city) \in AdvisoryLocks(j, g)
         /\ \A l \in AdvisoryLocks(j, g) : l[1] # "row"
         /\ j.kind = "reassign" => Governorate(j.governorate) \in AdvisoryLocks(j, g)
<1>1. j.city \in Cities /\ j.kind \in Kinds /\ (j.kind = "reassign" => j.governorate \in Governorates)
  BY JobFields
<1>. QED
  BY <1>1 DEF AdvisoryLocks, Locks, Governorate, CityLock, ZonesLock, Row, Kinds

LEMMA RequestFields ==
  ASSUME LockInv, NEW r \in Requests
  PROVE  /\ requests[r] \in Request /\ Orderly(requests[r]) /\ Sorted(requests[r])
         /\ KnownCity(requests[r])
         /\ requests[r] = [job |-> requests[r].job, step |-> requests[r].step,
                peeked |-> requests[r].peeked, wanted |-> requests[r].wanted,
                held |-> requests[r].held, attempt |-> requests[r].attempt,
                seen |-> requests[r].seen]
         /\ requests[r].wanted \subseteq Locks /\ requests[r].held \subseteq Locks
         /\ requests[r].attempt \in 0..MaxAttempts
         /\ requests[r].peeked \in Governorates \cup {None}
         /\ requests[r].step \in Steps
BY DEF LockInv, TypeOK, Request

(* The ways a step changes a request leave it one. *)
LEMMA BegunRequest ==
  ASSUME NEW q \in Request, NEW j \in Jobs, NEW a \in 0..MaxAttempts, NEW st \in Steps
  PROVE  [q EXCEPT !.job = j, !.attempt = a, !.step = st] \in Request
BY DEF Request

LEMMA StepAndHeld ==
  ASSUME NEW q \in Request, NEW st \in Steps, NEW h, h \subseteq Locks
  PROVE  [q EXCEPT !.step = st, !.held = h] \in Request
BY DEF Request

LEMMA StepAndPeeked ==
  ASSUME NEW q \in Request, NEW st \in Steps, NEW g \in Governorates \cup {None},
         NEW w, w \subseteq Locks
  PROVE  [q EXCEPT !.step = st, !.peeked = g, !.wanted = w] \in Request
BY DEF Request

LEMMA WantedAndHeld ==
  ASSUME NEW q \in Request, NEW w, w \subseteq Locks, NEW h, h \subseteq Locks
  PROVE  [q EXCEPT !.wanted = w, !.held = h] \in Request
BY DEF Request

LEMMA StepAndWanted ==
  ASSUME NEW q \in Request, NEW st \in Steps, NEW w, w \subseteq Locks
  PROVE  [q EXCEPT !.step = st, !.wanted = w] \in Request
BY DEF Request

LEMMA StepAndSeen ==
  ASSUME NEW q \in Request, NEW st \in Steps, NEW h, h \subseteq Locks, NEW v \in Seen
  PROVE  /\ [q EXCEPT !.step = st, !.held = h, !.seen = v] \in Request
         /\ [q EXCEPT !.step = st, !.seen = v] \in Request
BY DEF Request

LEMMA BeginKeepsLocks ==
  ASSUME LockInv, NEW r \in Requests, NEW j \in Jobs, Begin(r, j)
  PROVE  LockInv'
<1>. DEFINE st == IF j.kind = "reassign" THEN "row" ELSE "peek"
            q == [Idle EXCEPT !.job = j, !.attempt = 1, !.step = st]
<1>1. Proceed(r, q)
  BY DEF Begin
<1>2. st \in {"row", "peek"} /\ (st = "row" <=> j.kind = "reassign")
  OBVIOUS
<1>. HIDE DEF st
<1>3. q.job = j /\ q.step = st /\ q.peeked = None /\ q.wanted = {} /\ q.held = {} /\ q.attempt = 1 /\ q.seen = NothingSeen 
  BY DEF Idle
<1>4. q \in Request
  <2>1. Idle \in Request /\ st \in Steps /\ 1 \in 0..MaxAttempts
    BY <1>2, IdleIsOrderly, GeographyAssumption DEF Steps
  <2>. QED
    BY <2>1, BegunRequest
<1>. HIDE DEF q
<1>5. Orderly(q) /\ Sorted(q) /\ KnownCity(q)
  BY <1>2, <1>3, GeographyAssumption DEF Orderly, Sorted, KnownCity, RowOf
<1>. QED
  BY <1>1, <1>3, <1>4, <1>5, ProceedKeepsLocks

LEMMA LockRowKeepsLocks ==
  ASSUME LockInv, NEW r \in Requests, LockRow(r)
  PROVE  LockInv'
<1>. DEFINE q == [requests[r] EXCEPT !.step = "peek", !.held = {Row(Job(r).city)}]
<1>1. CASE Refuse(r)
  BY <1>1, RefuseKeepsLocks
<1>2. CASE Proceed(r, q)
  <2>1. /\ requests[r].job \in Jobs /\ requests[r].job.kind = "reassign"
        /\ requests[r].job.city \in Cities /\ requests[r].wanted = {}
        /\ requests[r].attempt \in 1..MaxAttempts
    BY RequestFields, JobFields DEF LockRow, At, Orderly
  <2>2. q.job = requests[r].job /\ q.step = "peek" /\ q.peeked = requests[r].peeked /\ q.wanted = {} /\ q.held = {Row(requests[r].job.city)} /\ q.attempt = requests[r].attempt /\ q.seen = requests[r].seen 
    BY <2>1, RequestFields DEF Job
  <2>3. q \in Request
    <3>1. requests[r] \in Request /\ "peek" \in Steps
      BY RequestFields DEF Steps
    <3>2. {Row(Job(r).city)} \subseteq Locks
      BY <2>1 DEF Locks, Row, Job
    <3>. QED
      BY <3>1, <3>2, StepAndHeld
  <2>4. Orderly(q) /\ Sorted(q) /\ KnownCity(q)
    BY <2>1, <2>2 DEF Orderly, Sorted, KnownCity, RowOf
  <2>5. \A s \in Requests \ {r} : q.held \cap requests[s].held = {}
    <3>1. Row(Job(r).city) \in Needs(r) /\ ~ Blocked(r)
      BY DEF LockRow, Needs
    <3>. QED
      BY <2>2, <3>1, Untaken DEF Job
  <2>. HIDE DEF q
  <2>. QED
    BY <1>2, <2>3, <2>4, <2>5, ProceedKeepsLocks
<1>. QED
  BY <1>1, <1>2 DEF LockRow

LEMMA PeekKeepsLocks ==
  ASSUME LockInv, NEW r \in Requests, Peek(r)
  PROVE  LockInv'
<1>. DEFINE j == requests[r].job
            g == IF j.kind = "governorate" THEN None ELSE cities[j.city].governorate
            q == [requests[r] EXCEPT !.step = "lock", !.peeked = g,
                                     !.wanted = AdvisoryLocks(j, g)]
<1>1. CASE Refuse(r)
  BY <1>1, RefuseKeepsLocks
<1>2. CASE Proceed(r, q) /\ (j.kind # "governorate" => g # None)
  <2>1. /\ j \in Jobs /\ requests[r].held = RowOf(j)
        /\ requests[r].attempt \in 1..MaxAttempts
    BY RequestFields DEF Peek, At, Orderly
  <2>2. q.job = j /\ q.step = "lock" /\ q.peeked = g /\ q.wanted = AdvisoryLocks(j, g) /\ q.held = RowOf(j) /\ q.attempt = requests[r].attempt /\ q.seen = requests[r].seen 
    BY <2>1, RequestFields
  <2>3. \A s \in Requests \ {r} : q.held \cap requests[s].held = {}
    BY <2>1, <2>2 DEF LockInv, Exclusive
  <2>4. CASE j.kind = "governorate"
    <3>1. /\ g = None /\ j.governorate \in Governorates
          /\ AdvisoryLocks(j, g) = {Governorate(j.governorate)} /\ RowOf(j) = {}
      BY <2>1, <2>4, JobFields DEF AdvisoryLocks, RowOf
    <3>2. q \in Request
      <4>1. requests[r] \in Request /\ "lock" \in Steps /\ g \in Governorates \cup {None}
        BY <3>1, RequestFields DEF Steps
      <4>2. AdvisoryLocks(j, g) \subseteq Locks
        BY <3>1 DEF Locks, Governorate
      <4>. HIDE DEF g
      <4>. QED
        BY <4>1, <4>2, StepAndPeeked
    <3>3. Orderly(q) /\ Sorted(q) /\ KnownCity(q)
      BY <2>1, <2>2, <2>4, <3>1 DEF Orderly, Sorted, KnownCity, ForGovernorate
    <3>. HIDE DEF q, g, j
    <3>. QED
      BY <1>2, <2>3, <3>2, <3>3, ProceedKeepsLocks
  <2>5. CASE j.kind # "governorate"
    <3>1. /\ j.city \in Cities /\ cities[j.city] # NoCity /\ g \in Governorates
          /\ RowOf(j) \subseteq {Row(j.city)} /\ RowOf(j) \subseteq Locks
      <4>1. j.city \in Cities /\ Row(j.city) \in Locks
        BY <2>1, <2>5, JobFields DEF Locks, Row
      <4>2. g = cities[j.city].governorate /\ g # None /\ cities[j.city] \in City
        BY <1>2, <2>5, <4>1 DEF LockInv, TypeOK
      <4>. QED
        BY <4>1, <4>2 DEF NoCity, City, RowOf
    <3>2. AdvisoryLocks(j, g) \subseteq Locks /\ Row(j.city) \notin AdvisoryLocks(j, g)
      BY <2>1, <2>5, <3>1, AdvisoryLocksTyped
    <3>. HIDE DEF g
    <3>3. q \in Request
      <4>1. requests[r] \in Request /\ "lock" \in Steps /\ g \in Governorates \cup {None}
        BY <3>1, RequestFields DEF Steps
      <4>. QED
        BY <3>2, <4>1, StepAndPeeked
    <3>4. Orderly(q)
      BY <2>1, <2>2, <2>5, <3>1, <3>2 DEF Orderly, ForCity, RowOf
    <3>5. Sorted(q) /\ KnownCity(q)
      BY <2>1, <2>2, <2>5, <3>1 DEF Sorted, KnownCity, RowOf, Row
    <3>. HIDE DEF q, j
    <3>. QED
      BY <1>2, <2>3, <3>3, <3>4, <3>5, ProceedKeepsLocks
  <2>. QED
    BY <2>4, <2>5
<1>. QED
  BY <1>1, <1>2 DEF Peek, Job

(* The least lock wanted comes before those still wanted, so what is held stays sorted. *)
LEMMA TakeLockKeepsLocks ==
  ASSUME LockInv, NEW r \in Requests, TakeLock(r)
  PROVE  LockInv'
<1>. DEFINE o == requests[r]
<1>1. PICK l \in FirstWanted(r) :
          Proceed(r, [requests[r] EXCEPT !.wanted = @ \ {l}, !.held = @ \cup {l}])
  BY DEF TakeLock
<1>2. l \in o.wanted /\ l \in Locks /\ o.wanted \subseteq Locks /\ o.held \subseteq Locks
  BY <1>1, RequestFields DEF FirstWanted
<1>3. /\ o \in Request /\ Orderly(o) /\ Sorted(o) /\ KnownCity(o)
      /\ o.step \in {"lock", "children"} /\ o.job \in Jobs
  BY <1>2, RequestFields DEF Orderly, Steps
<1>. DEFINE w == o.wanted \ {l}
            h == o.held \cup {l}
            q == [requests[r] EXCEPT !.wanted = w, !.held = h]
<1>4. /\ q.job = o.job /\ q.step = o.step /\ q.peeked = o.peeked /\ q.wanted = w
      /\ q.held = h /\ q.attempt = o.attempt
  BY <1>3 DEF Request
<1>5. q \in Request
  BY <1>2, <1>3, WantedAndHeld
<1>6. Proceed(r, q)
  BY <1>1
<1>7. \A s \in Requests \ {r} : q.held \cap requests[s].held = {}
  <2>1. l \in Needs(r) /\ ~ Blocked(r)
    BY <1>1, <1>2, <1>3 DEF TakeLock, Needs, At
  <2>2. \A s \in Requests \ {r} : l \notin requests[s].held
    BY <2>1, Untaken
  <2>. QED
    BY <1>4, <2>2 DEF LockInv, Exclusive
<1>. HIDE DEF q, w, h, o
<1>8. Sorted(q)
  <2>1. ASSUME NEW m \in w PROVE Before(l, m)
    BY <1>1, <1>2, <2>1, BeforeIsTotal DEF FirstWanted, w, o
  <2>. QED
    BY <1>3, <1>4, <2>1 DEF Sorted, w, h
<1>9. KnownCity(q)
  BY <1>3, <1>4 DEF KnownCity
<1>10. Orderly(q)
  <2>1. CASE o.job.kind = "governorate"
    <3>1. ForGovernorate(o)
      BY <1>3, <2>1 DEF Orderly
    <3>2. ForGovernorate(q)
      BY <1>2, <1>3, <1>4, <3>1 DEF ForGovernorate, w, h
    <3>. QED
      BY <1>3, <1>4, <2>1, <3>2 DEF Orderly
  <2>2. CASE o.job.kind # "governorate"
    <3>1. ForCity(o)
      BY <1>3, <2>2 DEF Orderly
    <3>2. l # Row(o.job.city)
      BY <1>2, <1>3, <2>2, <3>1, AdvisoryLocksTyped DEF ForCity
    <3>3. ForCity(q)
      BY <1>2, <1>3, <1>4, <3>1, <3>2 DEF ForCity, w, h
    <3>. QED
      BY <1>3, <1>4, <2>2, <3>3 DEF Orderly
  <2>. QED
    BY <2>1, <2>2
<1>. QED
  BY <1>5, <1>6, <1>7, <1>8, <1>9, <1>10, ProceedKeepsLocks

LEMMA LockChildrenKeepsLocks ==
  ASSUME LockInv, NEW r \in Requests, LockChildren(r)
  PROVE  LockInv'
<1>. DEFINE o == requests[r]
            w == {CityLock(c) : c \in Children(Job(r).governorate)}
            q == [requests[r] EXCEPT !.step = "children", !.wanted = w]
<1>1. /\ o \in Request /\ Orderly(o) /\ Sorted(o) /\ o.step = "lock" /\ o.wanted = {}
      /\ o.job.kind = "governorate" /\ o.job \in Jobs /\ Proceed(r, q)
  BY RequestFields DEF LockChildren, At, Job, Orderly
<1>2. o.held = {Governorate(o.job.governorate)} /\ o.job.governorate \in Governorates
  BY <1>1, JobFields DEF Orderly, ForGovernorate
<1>3. w \subseteq Locks /\ w \subseteq {CityLock(c) : c \in Cities}
  BY DEF Locks, CityLock, Children
<1>4. /\ q.job = o.job /\ q.step = "children" /\ q.wanted = w /\ q.held = o.held
      /\ q.attempt = o.attempt
  BY <1>1 DEF Request
<1>5. q \in Request
  BY <1>1, <1>3, StepAndWanted DEF Steps
<1>6. \A s \in Requests \ {r} : q.held \cap requests[s].held = {}
  BY <1>4 DEF LockInv, Exclusive
<1>. HIDE DEF q, w, o
<1>7. Sorted(q)
  <2>1. ASSUME NEW m \in w PROVE Before(Governorate(o.job.governorate), m)
    BY <1>3, <2>1 DEF Before, Rank, Governorate, CityLock
  <2>. QED
    BY <1>2, <1>4, <2>1 DEF Sorted
<1>8. KnownCity(q)
  BY <1>4 DEF KnownCity
<1>9. Orderly(q)
  BY <1>1, <1>2, <1>3, <1>4 DEF Orderly, ForGovernorate
<1>. QED
  BY <1>1, <1>5, <1>6, <1>7, <1>8, <1>9, ProceedKeepsLocks

LEMMA StartOverKeepsLocks ==
  ASSUME LockInv, NEW r \in Requests, StartOver(r)
  PROVE  LockInv'
<1>. DEFINE j == requests[r].job
            a == requests[r].attempt + 1
            st == IF j.kind = "reassign" THEN "row" ELSE "peek"
            q == [Idle EXCEPT !.job = j, !.attempt = a, !.step = st]
<1>1. CASE Refuse(r)
  BY <1>1, RefuseKeepsLocks
<1>2. CASE requests[r].attempt # MaxAttempts /\ Proceed(r, q)
  <2>1. j \in Jobs /\ requests[r].attempt \in 1..MaxAttempts
    BY RequestFields DEF StartOver, HasLocks, At, Orderly
  <2>2. a \in 1..MaxAttempts
    BY <1>2, <2>1, GeographyAssumption
  <2>3. st \in {"row", "peek"} /\ (st = "row" <=> j.kind = "reassign")
    OBVIOUS
  <2>. HIDE DEF st, a, j
  <2>4. q.job = j /\ q.step = st /\ q.wanted = {} /\ q.held = {} /\ q.attempt = a
    BY DEF Idle
  <2>5. q \in Request
    <3>1. Idle \in Request /\ st \in Steps /\ a \in 0..MaxAttempts
      BY <2>2, <2>3, IdleIsOrderly, GeographyAssumption DEF Steps
    <3>. QED
      BY <2>1, <3>1, BegunRequest
  <2>. HIDE DEF q
  <2>6. Orderly(q) /\ Sorted(q) /\ KnownCity(q)
    BY <2>1, <2>2, <2>3, <2>4 DEF Orderly, Sorted, KnownCity, RowOf
  <2>. QED
    BY <1>2, <2>4, <2>5, <2>6, ProceedKeepsLocks
<1>. QED
  BY <1>1, <1>2 DEF StartOver, Job

LEMMA SeenTyped ==
  /\ \A status \in CityStatuses, up \in BOOLEAN :
        [NothingSeen EXCEPT !.status = status, !.operational = up] \in Seen
  /\ \A status \in {"ACTIVE", "INACTIVE"}, children \in SUBSET Cities :
        [NothingSeen EXCEPT !.status = status, !.children = children] \in Seen
BY DEF NothingSeen, Seen, CityStatuses

LEMMA OperationalTyped ==
  ASSUME NEW c PROVE Operational(c) \in BOOLEAN
BY DEF Operational, IsOperational

LEMMA DecideKeepsLocks ==
  ASSUME LockInv, NEW r \in Requests, Decide(r)
  PROVE  LockInv'
<1>. DEFINE o == requests[r]
            j == requests[r].job
            h == IF j.kind = "update" THEN o.held \cup {Row(j.city)} ELSE o.held
            v == [NothingSeen EXCEPT !.status = cities[j.city].status,
                                     !.operational = Operational(j.city)]
            q == [requests[r] EXCEPT !.step = "commit", !.held = h, !.seen = v]
<1>1. CASE Refuse(r)
  BY <1>1, RefuseKeepsLocks
<1>2. CASE Proceed(r, [requests[r] EXCEPT
                  !.step = "commit",
                  !.held = IF Job(r).kind = "update" THEN @ \cup {Row(Job(r).city)} ELSE @,
                  !.seen = [NothingSeen EXCEPT !.status = cities[Job(r).city].status,
                                               !.operational = Operational(Job(r).city)]])
  <2>1. /\ o \in Request /\ Orderly(o) /\ Sorted(o) /\ KnownCity(o) /\ o.step = "lock"
        /\ o.wanted = {} /\ j.kind # "governorate" /\ j \in Jobs /\ j.city \in Cities
        /\ o.held \subseteq Locks /\ ForCity(o)
    <3>1. /\ o \in Request /\ Orderly(o) /\ Sorted(o) /\ KnownCity(o) /\ o.step = "lock"
          /\ o.wanted = {} /\ j.kind # "governorate" /\ o.held \subseteq Locks
      BY RequestFields DEF Decide, HasLocks, At, Job
    <3>2. j \in Jobs /\ ForCity(o)
      BY <3>1 DEF Orderly
    <3>3. j.city \in Cities
      BY <3>1, <3>2, JobFields
    <3>. QED
      BY <3>1, <3>2, <3>3
  <2>2. Proceed(r, q)
    BY <1>2 DEF Job
  <2>3. h \subseteq Locks /\ o.held \subseteq h /\ h \subseteq o.held \cup {Row(j.city)}
        /\ (j.kind # "update" => h = o.held)
    BY <2>1 DEF Locks, Row
  <2>4. v \in Seen
    <3>1. cities[j.city].status \in CityStatuses /\ Operational(j.city) \in BOOLEAN
      BY <2>1, OperationalTyped DEF LockInv, TypeOK, City
    <3>. QED
      BY <3>1, SeenTyped
  <2>5. q \in Request
    <3>. HIDE DEF v, h
    <3>. QED
      BY <2>1, <2>3, <2>4, StepAndSeen DEF Steps
  <2>6. /\ q.job = j /\ q.step = "commit" /\ q.wanted = {} /\ q.held = h
        /\ q.peeked = o.peeked /\ q.attempt = o.attempt
    <3>. HIDE DEF v, h
    <3>. QED
      BY <2>1 DEF Request
  <2>7. \A s \in Requests \ {r} : q.held \cap requests[s].held = {}
    <3>1. \A s \in Requests \ {r} : o.held \cap requests[s].held = {}
      BY DEF LockInv, Exclusive
    <3>2. CASE j.kind = "update"
      <4>1. Row(j.city) \in Needs(r) /\ ~ Blocked(r)
        BY <2>1, <3>2 DEF Decide, Needs, At, Job
      <4>2. \A s \in Requests \ {r} : Row(j.city) \notin requests[s].held
        BY <4>1, Untaken
      <4>. QED
        BY <2>3, <2>6, <3>1, <4>2
    <3>3. CASE j.kind # "update"
      BY <2>3, <2>6, <3>1, <3>3
    <3>. QED
      BY <3>2, <3>3
  <2>. HIDE DEF q, h, v
  <2>8. Sorted(q) /\ KnownCity(q)
    BY <2>1, <2>6 DEF Sorted, KnownCity
  <2>9. ForCity(q)
    BY <2>1, <2>3, <2>6 DEF ForCity
  <2>10. Orderly(q)
    BY <2>1, <2>6, <2>9 DEF Orderly
  <2>. QED
    BY <2>2, <2>5, <2>7, <2>8, <2>10, ProceedKeepsLocks
<1>. QED
  BY <1>1, <1>2 DEF Decide

LEMMA DecideGovernorateKeepsLocks ==
  ASSUME LockInv, NEW r \in Requests, DecideGovernorate(r)
  PROVE  LockInv'
<1>. DEFINE o == requests[r]
            g == requests[r].job.governorate
            v == [NothingSeen EXCEPT !.status = governorates[g], !.children = Children(g)]
            q == [requests[r] EXCEPT !.step = "commit", !.seen = v]
<1>1. /\ o \in Request /\ Orderly(o) /\ o.step = "children" /\ o.wanted = {}
      /\ Proceed(r, q)
  BY RequestFields DEF DecideGovernorate, At, Job
<1>2. o.job \in Jobs /\ o.job.kind = "governorate" /\ g \in Governorates /\ ForGovernorate(o)
  BY <1>1, JobFields DEF Orderly, ForCity
<1>3. v \in Seen
  <2>1. governorates[g] \in {"ACTIVE", "INACTIVE"} /\ Children(g) \in SUBSET Cities
    BY <1>2 DEF LockInv, TypeOK, Children
  <2>. QED
    BY <2>1, SeenTyped
<1>. HIDE DEF v
<1>4. q \in Request
  BY <1>1, <1>3, StepAndSeen, RequestFields DEF Steps
<1>5. /\ q.job = o.job /\ q.step = "commit" /\ q.wanted = {} /\ q.held = o.held
      /\ q.peeked = o.peeked /\ q.attempt = o.attempt
  BY <1>1 DEF Request
<1>6. \A s \in Requests \ {r} : q.held \cap requests[s].held = {}
  BY <1>5 DEF LockInv, Exclusive
<1>. HIDE DEF q
<1>7. Orderly(q) /\ Sorted(q) /\ KnownCity(q)
  BY <1>1, <1>2, <1>5 DEF Orderly, ForGovernorate, Sorted, KnownCity
<1>. QED
  BY <1>1, <1>4, <1>6, <1>7, ProceedKeepsLocks

LEMMA CreateCityKeepsLocks ==
  ASSUME LockInv, NEW c \in Cities, NEW g \in Governorates, NEW area \in Areas,
         CreateCity(c, g, area)
  PROVE  LockInv'
<1>. DEFINE city == [status |-> "DRAFT", governorate |-> g, area |-> area]
<1>1. city \in City /\ city # NoCity /\ city.status # "NONE" /\ city.governorate = g
  BY DEF City, CityStatuses, NoCity, Areas
<1>2. /\ cities' = [cities EXCEPT ![c] = city] /\ revoked' = {}
      /\ governorates' = governorates /\ zones' = zones /\ requests' = requests
  BY DEF CreateCity
<1>. HIDE DEF city
<1>3. cities'[c] = city /\ \A d \in Cities \ {c} : cities'[d] = cities[d]
  BY <1>2 DEF LockInv, TypeOK
<1>4. TypeOK'
  BY <1>1, <1>2 DEF LockInv, TypeOK
<1>5. WellFormedCities'
  BY <1>1, <1>3 DEF LockInv, WellFormedCities
<1>6. Exclusive'
  BY <1>2 DEF LockInv, Exclusive
<1>7. ASSUME NEW s \in Requests
      PROVE  Orderly(requests[s])' /\ Sorted(requests[s])' /\ KnownCity(requests[s])'
  <2>1. Orderly(requests[s])' /\ Sorted(requests[s])'
    BY <1>2 DEF LockInv, Orderly, Sorted, ForCity, ForGovernorate
  <2>2. requests[s].step \in {"lock", "commit"} /\ requests[s].job.kind # "governorate"
          => requests[s].job.city \in Cities
    BY JobFields DEF LockInv, Orderly
  <2>3. KnownCity(requests[s])'
    BY <1>1, <1>2, <1>3, <2>2 DEF LockInv, KnownCity
  <2>. QED
    BY <2>1, <2>3
<1>. QED
  BY <1>4, <1>5, <1>6, <1>7 DEF LockInv

(* A commit gives up the locks. *)
LEMMA CommitKeepsLocks ==
  ASSUME LockInv, NEW r \in Requests, Becomes(r, Idle),
         governorates' \in [Governorates -> {"ACTIVE", "INACTIVE"}],
         cities' \in [Cities -> City], zones' \in [Zones -> Zone], revoked' \subseteq Cities,
         WellFormedCities',
         \A c \in Cities : cities[c] # NoCity => cities'[c] # NoCity
  PROVE  LockInv'
<1>1. TypeOK /\ requests' \in [Requests -> Request] => TypeOK'
  BY DEF TypeOK
<1>2. \A s \in Requests \ {r} : Idle.held \cap requests[s].held = {}
  BY IdleIsOrderly
<1>. QED
  BY <1>1, <1>2, IdleIsOrderly, LocksKept

(* What is known of a request that commits. *)
LEMMA CommitFields ==
  ASSUME LockInv, NEW r \in Requests, At(r, "commit")
  PROVE  /\ Job(r) = requests[r].job /\ Job(r) \in Jobs
         /\ Job(r).kind = "governorate" => /\ Job(r).governorate \in Governorates
                                           /\ Governorate(Job(r).governorate) \in requests[r].held
         /\ Job(r).kind # "governorate" =>
               /\ Job(r).city \in Cities /\ cities[Job(r).city] # NoCity
               /\ cities[Job(r).city] \in City
               /\ cities[Job(r).city].status # "NONE"
               /\ cities[Job(r).city].governorate \in Governorates
               /\ CityLock(Job(r).city) \in requests[r].held
               /\ Job(r).kind = "reassign" =>
                     Governorate(Job(r).governorate) \in requests[r].held
         /\ requests[r].seen.children \subseteq Cities
<1>1. /\ requests[r] \in Request /\ Orderly(requests[r]) /\ KnownCity(requests[r])
      /\ requests[r].step = "commit" /\ requests[r].wanted = {}
      /\ Job(r) = requests[r].job /\ Job(r) \in Jobs
  BY RequestFields DEF At, Orderly, Job
<1>2. requests[r].seen.children \subseteq Cities
  BY <1>1 DEF Request, Seen
<1>3. CASE Job(r).kind = "governorate"
  BY <1>1, <1>2, <1>3, JobFields DEF Orderly, ForGovernorate
<1>4. CASE Job(r).kind # "governorate"
  <2>1. ForCity(requests[r]) /\ Job(r).city \in Cities /\ cities[Job(r).city] # NoCity
    BY <1>1, <1>4, JobFields DEF Orderly, KnownCity
  <2>2. AdvisoryLocks(Job(r), requests[r].peeked) \subseteq requests[r].held
        /\ requests[r].peeked \in Governorates
    BY <1>1, <2>1 DEF ForCity
  <2>3. CityLock(Job(r).city) \in requests[r].held
        /\ (Job(r).kind = "reassign" => Governorate(Job(r).governorate) \in requests[r].held)
    BY <1>1, <1>4, <2>2, AdvisoryLocksTyped
  <2>. QED
    BY <1>1, <1>2, <1>4, <2>1, <2>3 DEF LockInv, TypeOK, WellFormedCities
<1>. QED
  BY <1>3, <1>4

(* A commit that changes the record of its city, which stays a city. *)
LEMMA CityCommitKeepsLocks ==
  ASSUME LockInv, NEW r \in Requests, Becomes(r, Idle), NEW c \in Cities, NEW city \in City,
         city.status # "NONE", city.governorate \in Governorates,
         cities' = [cities EXCEPT ![c] = city], revoked' \subseteq Cities,
         UNCHANGED <<governorates, zones>>
  PROVE  LockInv'
<1>1. governorates' = governorates /\ zones' = zones /\ cities' \in [Cities -> City]
  BY DEF LockInv, TypeOK
<1>2. cities'[c] = city /\ \A d \in Cities \ {c} : cities'[d] = cities[d]
  BY DEF LockInv, TypeOK
<1>3. city # NoCity
  BY DEF NoCity
<1>4. WellFormedCities' /\ \A d \in Cities : cities[d] # NoCity => cities'[d] # NoCity
  BY <1>2, <1>3 DEF LockInv, WellFormedCities
<1>. QED
  BY <1>1, <1>4, CommitKeepsLocks DEF LockInv, TypeOK

LEMMA CommitsKeepLocks ==
  ASSUME LockInv, NEW r \in Requests,
         \/ CommitTransition(r) \/ CommitUpdate(r) \/ CommitReassignment(r)
         \/ CommitGovernorate(r) \/ CommitCreateZone(r) \/ CommitUpdateZone(r)
         \/ CommitArchiveZone(r) \/ CommitStoreWrite(r)
  PROVE  LockInv'
<1>. DEFINE c == Job(r).city
<1>1. CASE CommitTransition(r)
  <2>1. At(r, "commit") /\ Job(r).kind = "transition" /\ Becomes(r, Idle)
    BY <1>1 DEF CommitTransition, Commits
  <2>2. /\ Job(r).status \in {"ACTIVE", "SUSPENDED", "ARCHIVED"} /\ c \in Cities
        /\ cities[c] \in City /\ cities[c].governorate \in Governorates
    BY <2>1, CommitFields, JobFields
  <2>. DEFINE city == [cities[c] EXCEPT !.status = Job(r).status]
  <2>3. /\ city \in City /\ city.status # "NONE" /\ city.governorate \in Governorates
    BY <2>2 DEF City, CityStatuses
  <2>4. cities' = [cities EXCEPT ![c] = city] /\ revoked' \subseteq Cities
        /\ UNCHANGED <<governorates, zones>>
    BY <1>1, <2>2 DEF CommitTransition
  <2>. HIDE DEF city
  <2>. QED
    BY <2>1, <2>2, <2>3, <2>4, CityCommitKeepsLocks
<1>2. CASE CommitUpdate(r)
  <2>1. At(r, "commit") /\ Job(r).kind = "update" /\ Becomes(r, Idle)
    BY <1>2 DEF CommitUpdate, Commits
  <2>2. /\ Job(r).area \in SUBSET Cells /\ c \in Cities /\ cities[c] \in City
        /\ cities[c].governorate \in Governorates /\ cities[c].status # "NONE"
    BY <2>1, CommitFields, JobFields
  <2>. DEFINE area == IF Job(r).area = {} THEN cities[c].area ELSE Job(r).area
              city == [cities[c] EXCEPT !.area = area]
  <2>3. area \in SUBSET Cells
    BY <2>2 DEF City
  <2>4. cities' = [cities EXCEPT ![c] = city] /\ revoked' \subseteq Cities
        /\ UNCHANGED <<governorates, zones>>
    BY <1>2, <2>2 DEF CommitUpdate
  <2>. HIDE DEF area
  <2>5. city \in City /\ city.status # "NONE" /\ city.governorate \in Governorates
    BY <2>2, <2>3 DEF City
  <2>. HIDE DEF city
  <2>. QED
    BY <2>1, <2>2, <2>4, <2>5, CityCommitKeepsLocks
<1>3. CASE CommitReassignment(r)
  <2>1. At(r, "commit") /\ Job(r).kind = "reassign" /\ Becomes(r, Idle)
    BY <1>3 DEF CommitReassignment, Commits
  <2>2. /\ Job(r).area \in SUBSET Cells /\ Job(r).governorate \in Governorates /\ c \in Cities
        /\ cities[c] \in City /\ cities[c].status # "NONE"
    BY <2>1, CommitFields, JobFields
  <2>. DEFINE area == IF Job(r).area = {} THEN cities[c].area ELSE Job(r).area
              city == [cities[c] EXCEPT !.governorate = Job(r).governorate, !.area = area]
  <2>3. area \in SUBSET Cells
    BY <2>2 DEF City
  <2>4. cities' = [cities EXCEPT ![c] = city]
    BY <1>3, <2>2 DEF CommitReassignment, LockInv, TypeOK, City
  <2>5. revoked' \subseteq Cities /\ UNCHANGED <<governorates, zones>>
    BY <1>3, <2>2 DEF CommitReassignment
  <2>. HIDE DEF area
  <2>6. city \in City /\ city.status # "NONE" /\ city.governorate \in Governorates
    BY <2>2, <2>3 DEF City
  <2>. HIDE DEF city
  <2>. QED
    BY <2>1, <2>2, <2>4, <2>5, <2>6, CityCommitKeepsLocks
<1>4. CASE CommitGovernorate(r)
  <2>1. At(r, "commit") /\ Job(r).kind = "governorate" /\ Becomes(r, Idle)
    BY <1>4 DEF CommitGovernorate, Commits
  <2>2. Job(r).status \in {"ACTIVE", "INACTIVE"} /\ requests[r].seen.children \subseteq Cities
    BY <2>1, CommitFields, JobFields
  <2>3. /\ governorates' \in [Governorates -> {"ACTIVE", "INACTIVE"}] /\ revoked' \subseteq Cities
        /\ cities' = cities /\ zones' = zones
    BY <1>4, <2>2 DEF CommitGovernorate, LockInv, TypeOK
  <2>. QED
    BY <2>1, <2>3, CommitKeepsLocks DEF LockInv, TypeOK, WellFormedCities
<1>5. CASE CommitCreateZone(r)
  <2>1. At(r, "commit") /\ Job(r).kind = "createZone" /\ Becomes(r, Idle)
    BY <1>5 DEF CommitCreateZone, Commits
  <2>2. Job(r).area \in SUBSET Cells /\ c \in Cities
    BY <2>1, CommitFields, JobFields DEF Areas
  <2>3. [city |-> c, status |-> "LIVE", area |-> Job(r).area] \in Zone
    BY <2>2 DEF Zone
  <2>4. /\ zones' \in [Zones -> Zone] /\ revoked' \subseteq Cities
        /\ cities' = cities /\ governorates' = governorates
    BY <1>5, <2>3 DEF CommitCreateZone, LockInv, TypeOK
  <2>. QED
    BY <2>1, <2>4, CommitKeepsLocks DEF LockInv, TypeOK, WellFormedCities
<1>6. CASE CommitUpdateZone(r)
  <2>1. At(r, "commit") /\ Job(r).kind = "updateZone" /\ Becomes(r, Idle)
    BY <1>6 DEF CommitUpdateZone, Commits
  <2>2. Job(r).area \in SUBSET Cells /\ Job(r).zone \in Zones
    BY <2>1, CommitFields, JobFields
  <2>3. /\ zones' \in [Zones -> Zone] /\ revoked' \subseteq Cities
        /\ cities' = cities /\ governorates' = governorates
    BY <1>6, <2>2 DEF CommitUpdateZone, LockInv, TypeOK, Zone
  <2>. QED
    BY <2>1, <2>3, CommitKeepsLocks DEF LockInv, TypeOK, WellFormedCities
<1>7. CASE CommitArchiveZone(r)
  <2>1. At(r, "commit") /\ Job(r).kind = "archiveZone" /\ Becomes(r, Idle)
    BY <1>7 DEF CommitArchiveZone, Commits
  <2>2. Job(r).zone \in Zones
    BY <2>1, CommitFields, JobFields
  <2>3. /\ zones' \in [Zones -> Zone] /\ revoked' \subseteq Cities
        /\ cities' = cities /\ governorates' = governorates
    BY <1>7, <2>2 DEF CommitArchiveZone, LockInv, TypeOK, Zone
  <2>. QED
    BY <2>1, <2>3, CommitKeepsLocks DEF LockInv, TypeOK, WellFormedCities
<1>8. CASE CommitStoreWrite(r)
  <2>1. /\ Becomes(r, Idle) /\ revoked' \subseteq Cities
        /\ cities' = cities /\ zones' = zones /\ governorates' = governorates
    BY <1>8 DEF CommitStoreWrite, Commits, Places
  <2>. QED
    BY <2>1, CommitKeepsLocks DEF LockInv, TypeOK, WellFormedCities
<1>. QED
  BY <1>1, <1>2, <1>3, <1>4, <1>5, <1>6, <1>7, <1>8

LEMMA LocksInit == Init => LockInv
<1>. SUFFICES ASSUME Init PROVE LockInv
  OBVIOUS
<1>1. NoCity \in City /\ NoZone \in Zone
  BY DEF NoCity, City, CityStatuses, NoZone, Zone
<1>2. TypeOK
  BY <1>1, IdleIsOrderly DEF Init, TypeOK
<1>3. \A r \in Requests : requests[r] = Idle
  BY DEF Init
<1>. QED
  BY <1>2, <1>3, IdleIsOrderly
     DEF Init, LockInv, WellFormedCities, Exclusive

LEMMA LocksStep == LockInv /\ [Next]_vars => LockInv'
<1>. SUFFICES ASSUME LockInv, [Next]_vars PROVE LockInv'
  OBVIOUS
<1>1. CASE CreateAnyCity
  BY <1>1, CreateCityKeepsLocks DEF CreateAnyCity
<1>2. ASSUME NEW r \in Requests, NEW j \in Jobs, Begin(r, j) PROVE LockInv'
  BY <1>2, BeginKeepsLocks
<1>3. ASSUME NEW r \in Requests,
             \/ LockRow(r) \/ Peek(r) \/ TakeLock(r) \/ LockChildren(r) \/ StartOver(r)
             \/ Decide(r) \/ DecideGovernorate(r) \/ AbortDeadlock(r)
      PROVE  LockInv'
  BY <1>3, LockRowKeepsLocks, PeekKeepsLocks, TakeLockKeepsLocks, LockChildrenKeepsLocks,
     StartOverKeepsLocks, DecideKeepsLocks, DecideGovernorateKeepsLocks, RefuseKeepsLocks
     DEF AbortDeadlock
<1>4. CASE UNCHANGED vars
  BY <1>4 DEF vars, LockInv, TypeOK, WellFormedCities, Exclusive, Orderly, Sorted, KnownCity,
              ForCity, ForGovernorate
<1>. QED
  BY <1>1, <1>2, <1>3, <1>4, CommitsKeepLocks DEF Next

-----------------------------------------------------------------------------
(* What was decided stands: a commit changes only places whose locks it holds, and   *)
(* the others hold the locks of the places they decided about.                       *)

WritesUnder(H) ==
    /\ \A c \in Cities : cities'[c] # cities[c] =>
          \/ cities[c] = NoCity /\ cities'[c].status = "DRAFT"
          \/ /\ CityLock(c) \in H
             /\ Governorate(cities[c].governorate) \in H
             /\ Governorate(cities'[c].governorate) \in H
    /\ \A g \in Governorates : governorates'[g] # governorates[g] => Governorate(g) \in H
    /\ \A z \in Zones : zones'[z] # zones[z] =>
          CityLock(zones'[z].city) \in H /\ zones[z].city \in {None, zones'[z].city}

LEMMA AcceptedStays ==
  ASSUME LockInv, NEW j \in Jobs, j.kind # "governorate",
         cities'[j.city] = cities[j.city], Operational(j.city)' = Operational(j.city),
         \A y \in Zones : zones[y].city = j.city \/ zones'[y].city = j.city
                              => zones'[y] = zones[y],
         Accepted(j)
  PROVE  Accepted(j)'
<1>. DEFINE c == j.city
<1>1. j.kind \in Kinds /\ c \in Cities
  BY JobFields
<1>2. ZonesOf(c)' = ZonesOf(c) /\ \A y \in ZonesOf(c) : zones'[y] = zones[y]
  BY DEF ZonesOf
<1>3. ASSUME NEW area, NEW z
      PROVE  /\ OverlapsOther(c, area, z)' = OverlapsOther(c, area, z)
             /\ ExcludesZones(c, area)' = ExcludesZones(c, area)
             /\ InsideCity(c, area)' = InsideCity(c, area)
  BY <1>2 DEF OverlapsOther, ExcludesZones, InsideCity
<1>4. CASE j.kind = "transition"
  BY <1>4 DEF Accepted, MayTransit
<1>5. CASE j.kind = "update"
  <2>1. MayUpdate(j)
    BY <1>5 DEF Accepted
  <2>2. MayUpdate(j)'
    BY <1>3, <2>1 DEF MayUpdate
  <2>. QED
    BY <1>5, <2>2 DEF Accepted
<1>6. CASE j.kind = "reassign"
  BY <1>6 DEF Accepted, MayReassign
<1>7. CASE j.kind = "createZone"
  <2>1. MayCreateZone(j)
    BY <1>7 DEF Accepted
  <2>2. MayCreateZone(j)'
    BY <1>3, <2>1 DEF MayCreateZone
  <2>. QED
    BY <1>7, <2>2 DEF Accepted
<1>8. CASE j.kind = "updateZone"
  <2>1. MayUpdateZone(j) /\ j.zone \in Zones
    BY <1>8, JobFields DEF Accepted
  <2>2. zones'[j.zone] = zones[j.zone]
    BY <2>1 DEF MayUpdateZone
  <2>3. MayUpdateZone(j)'
    BY <1>3, <2>1, <2>2 DEF MayUpdateZone
  <2>. QED
    BY <1>8, <2>3 DEF Accepted
<1>9. CASE j.kind = "archiveZone"
  <2>1. MayArchiveZone(j) /\ j.zone \in Zones
    BY <1>9, JobFields DEF Accepted
  <2>2. MayArchiveZone(j)'
    BY <2>1 DEF MayArchiveZone
  <2>. QED
    BY <1>9, <2>2 DEF Accepted
<1>10. CASE j.kind = "store"
  <2>1. MayWrite(j)'
    BY <1>10 DEF Accepted, MayWrite
  <2>. QED
    BY <1>10, <2>1 DEF Accepted
<1>. QED
  BY <1>1, <1>4, <1>5, <1>6, <1>7, <1>8, <1>9, <1>10 DEF Kinds

LEMMA SettledStays ==
  ASSUME LockInv, NEW s \in Requests, Settled(requests[s]), requests'[s] = requests[s],
         NEW H, H \cap requests[s].held = {}, WritesUnder(H)
  PROVE  Settled(requests[s])'
<1>. DEFINE q == requests[s]
<1>1. CASE q.step # "commit"
  BY <1>1 DEF Settled
<1>2. CASE q.step = "commit" /\ q.job.kind = "governorate"
  <2>. DEFINE g == q.job.governorate
  <2>1. g \in Governorates /\ Governorate(g) \in q.held
    BY <1>2, CommitFields DEF At, Job
  <2>2. governorates'[g] = governorates[g]
    BY <2>1 DEF WritesUnder
  <2>3. \A c \in Cities : cities'[c] # cities[c]
                           /\ (cities[c].governorate = g \/ cities'[c].governorate = g)
          => c \notin Children(g) /\ cities'[c].status = "DRAFT"
    <3>1. NoCity.governorate # g
      BY <2>1, GeographyAssumption DEF NoCity
    <3>. QED
      BY <2>1, <3>1 DEF WritesUnder, Children
  <2>4. Children(g) \subseteq Children(g)'
    BY <2>3 DEF Children
  <2>5. \A c \in Children(g)' \ q.seen.children : cities'[c].status = "DRAFT"
    BY <1>2, <2>3 DEF Children, Settled
  <2>. QED
    BY <1>2, <2>2, <2>4, <2>5 DEF Settled
<1>3. CASE q.step = "commit" /\ q.job.kind # "governorate"
  <2>. DEFINE c == q.job.city
  <2>1. /\ q.job \in Jobs /\ c \in Cities /\ cities[c] # NoCity
        /\ cities[c].governorate \in Governorates /\ CityLock(c) \in q.held
        /\ Governorate(cities[c].governorate) \in q.held
    BY <1>3, CommitFields DEF At, Job, Settled
  <2>2. cities'[c] = cities[c]
        /\ governorates'[cities[c].governorate] = governorates[cities[c].governorate]
    BY <2>1 DEF WritesUnder
  <2>3. Operational(c)' = Operational(c)
    BY <2>2 DEF Operational, IsOperational
  <2>4. \A y \in Zones : zones[y].city = c \/ zones'[y].city = c => zones'[y] = zones[y]
    BY <2>1, GeographyAssumption DEF WritesUnder
  <2>5. Accepted(q.job)'
    BY <1>3, <2>1, <2>2, <2>3, <2>4, AcceptedStays DEF Settled
  <2>. QED
    BY <1>3, <2>2, <2>3, <2>5 DEF Settled
<1>. QED
  BY <1>1, <1>2, <1>3

(* A commit holds the locks of what it writes. *)
LEMMA CommitsWriteUnderLocks ==
  ASSUME LockInv, NEW r \in Requests, Settled(requests[r]),
         \/ CommitTransition(r) \/ CommitUpdate(r) \/ CommitReassignment(r)
         \/ CommitGovernorate(r) \/ CommitCreateZone(r) \/ CommitUpdateZone(r)
         \/ CommitArchiveZone(r) \/ CommitStoreWrite(r)
  PROVE  WritesUnder(requests[r].held)
<1>. DEFINE H == requests[r].held
            j == Job(r)
            c == Job(r).city
<1>1. At(r, "commit") /\ requests[r].step = "commit" /\ j = requests[r].job
  BY DEF CommitTransition, CommitUpdate, CommitReassignment, CommitGovernorate,
         CommitCreateZone, CommitUpdateZone, CommitArchiveZone, CommitStoreWrite, Commits,
         At, Job
<1>2. /\ j \in Jobs
      /\ j.kind = "governorate" =>
            j.governorate \in Governorates /\ Governorate(j.governorate) \in H
      /\ j.kind # "governorate" => /\ c \in Cities /\ cities[c] \in City /\ CityLock(c) \in H
                                   /\ Governorate(cities[c].governorate) \in H
                                   /\ Accepted(j)
      /\ j.kind = "reassign" => Governorate(j.governorate) \in H
  BY <1>1, CommitFields DEF Settled
<1>. HIDE DEF H
<1>3. CASE CommitTransition(r) \/ CommitUpdate(r) \/ CommitReassignment(r)
  <2>1. j.kind # "governorate" /\ governorates' = governorates /\ zones' = zones
    BY <1>3 DEF CommitTransition, CommitUpdate, CommitReassignment, Commits
  <2>2. \A d \in Cities \ {c} : cities'[d] = cities[d]
    BY <1>3 DEF CommitTransition, CommitUpdate, CommitReassignment, LockInv, TypeOK
  <2>3. \/ cities'[c].governorate = cities[c].governorate
        \/ j.kind = "reassign" /\ cities'[c].governorate = j.governorate
    BY <1>2, <1>3, <2>1
       DEF CommitTransition, CommitUpdate, CommitReassignment, Commits, LockInv, TypeOK, City
  <2>. QED
    BY <1>2, <2>1, <2>2, <2>3 DEF WritesUnder, H
<1>4. CASE CommitGovernorate(r)
  <2>1. j.kind = "governorate" /\ cities' = cities /\ zones' = zones
        /\ \A g \in Governorates \ {j.governorate} : governorates'[g] = governorates[g]
    BY <1>4 DEF CommitGovernorate, Commits, LockInv, TypeOK
  <2>. QED
    BY <1>2, <2>1 DEF WritesUnder, H
<1>5. CASE CommitCreateZone(r)
  <2>1. j.kind = "createZone" /\ cities' = cities /\ governorates' = governorates
    BY <1>5 DEF CommitCreateZone, Commits
  <2>2. \A z \in Zones : zones'[z] # zones[z] => zones[z] = NoZone /\ zones'[z].city = c
    BY <1>5 DEF CommitCreateZone, LockInv, TypeOK
  <2>. QED
    BY <1>2, <2>1, <2>2 DEF WritesUnder, H, NoZone
<1>6. CASE CommitUpdateZone(r) \/ CommitArchiveZone(r)
  <2>1. j.kind \in {"updateZone", "archiveZone"} /\ cities' = cities
        /\ governorates' = governorates
    BY <1>6 DEF CommitUpdateZone, CommitArchiveZone, Commits
  <2>2. j.zone \in Zones /\ zones[j.zone].city = c
    BY <1>2, <2>1, JobFields DEF Accepted, MayUpdateZone, MayArchiveZone
  <2>3. \A z \in Zones : zones'[z] # zones[z] => z = j.zone /\ zones'[z].city = zones[z].city
    BY <1>6, <2>2 DEF CommitUpdateZone, CommitArchiveZone, LockInv, TypeOK, Zone
  <2>. QED
    BY <1>2, <2>1, <2>2, <2>3 DEF WritesUnder, H
<1>7. CASE CommitStoreWrite(r)
  BY <1>7 DEF CommitStoreWrite, Places, WritesUnder
<1>. QED
  BY <1>3, <1>4, <1>5, <1>6, <1>7 DEF H

(* Zones. *)
LEMMA ZonesKept ==
  ASSUME WellFormedZones, ZonesDisjoint, zones' = zones
  PROVE  WellFormedZones' /\ ZonesDisjoint'
<1>1. WellFormedZones'
  BY DEF WellFormedZones
<1>2. ZonesDisjoint'
  BY DEF ZonesDisjoint, ZonesOf
<1>. QED
  BY <1>1, <1>2

(* A zone of a city that is disjoint from the others, or is no more than it was. *)
LEMMA OneZoneWritten ==
  ASSUME LockInv, WellFormedZones, ZonesDisjoint, NEW z \in Zones, NEW c \in Cities,
         zones' \in [Zones -> Zone],
         \A y \in Zones \ {z} : zones'[y] = zones[y],
         zones'[z].city = c, zones'[z].status # "NONE",
         \/ zones'[z].status = "ARCHIVED"
         \/ z \in ZonesOf(c) /\ zones'[z].area = zones[z].area
         \/ \A y \in ZonesOf(c) \ {z} : zones[y].area \cap zones'[z].area = {}
  PROVE  WellFormedZones' /\ ZonesDisjoint'
<1>1. WellFormedZones'
  BY DEF WellFormedZones
<1>2. ASSUME NEW d \in Cities, NEW x \in ZonesOf(d)', NEW y \in ZonesOf(d)', x # y
      PROVE  zones'[x].area \cap zones'[y].area = {}
  <2>1. x \in Zones /\ y \in Zones
    BY DEF ZonesOf
  <2>2. ASSUME NEW w \in ZonesOf(d)', w # z
        PROVE  w \in ZonesOf(d) /\ zones'[w] = zones[w]
    BY <2>2 DEF ZonesOf
  <2>3. CASE x # z /\ y # z
    BY <1>2, <2>2, <2>3 DEF ZonesDisjoint
  <2>4. ASSUME NEW w \in ZonesOf(d)', w # z, z \in ZonesOf(d)'
        PROVE  zones'[w].area \cap zones'[z].area = {}
    <3>1. d = c /\ zones'[z].status = "LIVE"
      BY <2>4 DEF ZonesOf
    <3>2. w \in ZonesOf(c) /\ zones'[w] = zones[w]
      BY <2>2, <2>4, <3>1
    <3>3. CASE z \in ZonesOf(c) /\ zones'[z].area = zones[z].area
      BY <2>4, <3>2, <3>3 DEF ZonesDisjoint
    <3>4. CASE \A v \in ZonesOf(c) \ {z} : zones[v].area \cap zones'[z].area = {}
      BY <2>4, <3>2, <3>4
    <3>. QED
      BY <3>1, <3>3, <3>4
  <2>. QED
    BY <1>2, <2>3, <2>4
<1>3. ZonesDisjoint'
  BY <1>2 DEF ZonesDisjoint
<1>. QED
  BY <1>1, <1>3

LEMMA CommitsKeepZones ==
  ASSUME LockInv, WellFormedZones, ZonesDisjoint, NEW r \in Requests, Settled(requests[r]),
         \/ CommitTransition(r) \/ CommitUpdate(r) \/ CommitReassignment(r)
         \/ CommitGovernorate(r) \/ CommitCreateZone(r) \/ CommitUpdateZone(r)
         \/ CommitArchiveZone(r) \/ CommitStoreWrite(r)
  PROVE  WellFormedZones' /\ ZonesDisjoint'
<1>. DEFINE j == Job(r)
<1>1. CASE \/ CommitTransition(r) \/ CommitUpdate(r) \/ CommitReassignment(r)
           \/ CommitGovernorate(r) \/ CommitStoreWrite(r)
  <2>1. zones' = zones
    BY <1>1 DEF CommitTransition, CommitUpdate, CommitReassignment, CommitGovernorate,
                CommitStoreWrite, Places
  <2>. QED
    BY <2>1, ZonesKept
<1>2. ASSUME \/ CommitCreateZone(r) \/ CommitUpdateZone(r) \/ CommitArchiveZone(r)
      PROVE  /\ At(r, "commit") /\ j = requests[r].job /\ j \in Jobs /\ j.city \in Cities
             /\ Accepted(j) /\ zones' \in [Zones -> Zone]
  <2>1. At(r, "commit") /\ requests[r].step = "commit" /\ j.kind # "governorate"
        /\ j = requests[r].job
    BY <1>2 DEF CommitCreateZone, CommitUpdateZone, CommitArchiveZone, Commits, At, Job
  <2>2. LockInv'
    BY <1>2, CommitsKeepLocks
  <2>. QED
    BY <2>1, <2>2, CommitFields DEF Settled, LockInv, TypeOK
<1>3. CASE CommitCreateZone(r)
  <2>1. CASE zones' = zones
    BY <2>1, ZonesKept
  <2>2. CASE zones' # zones
    <3>1. PICK z \in Zones :
             zones' = [zones EXCEPT ![z] =
                         [city |-> j.city, status |-> "LIVE", area |-> j.area]]
      BY <1>3, <2>2 DEF CommitCreateZone
    <3>2. zones'[z] = [city |-> j.city, status |-> "LIVE", area |-> j.area]
          /\ \A y \in Zones \ {z} : zones'[y] = zones[y]
      BY <3>1 DEF LockInv, TypeOK
    <3>3. \A y \in ZonesOf(j.city) \ {z} : zones[y].area \cap j.area = {}
      <4>1. ~ OverlapsOther(j.city, j.area, None) /\ j.kind = "createZone"
        BY <1>2, <1>3 DEF CommitCreateZone, Commits, Accepted, MayCreateZone
      <4>2. \A y \in ZonesOf(j.city) : y # None
        BY GeographyAssumption DEF ZonesOf
      <4>. QED
        BY <4>1, <4>2 DEF OverlapsOther
    <3>. QED
      BY <1>2, <1>3, <3>2, <3>3, OneZoneWritten
  <2>. QED
    BY <2>1, <2>2
<1>4. CASE CommitUpdateZone(r)
  <2>. DEFINE z == j.zone
              area == IF j.area # {} THEN j.area ELSE zones[z].area
  <2>1. j.kind = "updateZone" /\ MayUpdateZone(j) /\ z \in Zones /\ zones[z] \in Zone
        /\ j.activate \in BOOLEAN
    <3>1. j.kind = "updateZone" /\ MayUpdateZone(j)
      BY <1>2, <1>4 DEF CommitUpdateZone, Commits, Accepted
    <3>2. z \in Zones /\ j.activate \in BOOLEAN
      BY <1>2, <1>4, <3>1, JobFields
    <3>. QED
      BY <3>1, <3>2 DEF LockInv, TypeOK
  <2>2. /\ zones'[z].status = IF j.activate THEN "LIVE" ELSE zones[z].status
        /\ zones'[z].area = area /\ zones'[z].city = zones[z].city
        /\ \A y \in Zones \ {z} : zones'[y] = zones[y]
    BY <1>4, <2>1 DEF CommitUpdateZone, LockInv, TypeOK, Zone
  <2>3. zones[z].city = j.city /\ zones[z].status \in {"LIVE", "ARCHIVED"}
    BY <1>2, <1>4, <2>1, GeographyAssumption DEF MayUpdateZone, WellFormedZones, Zone
  <2>4. \/ z \in ZonesOf(j.city) /\ area = zones[z].area
        \/ \A y \in ZonesOf(j.city) \ {z} : zones[y].area \cap area = {}
    BY <2>1, <2>3 DEF MayUpdateZone, OverlapsOther, ZonesOf
  <2>. HIDE DEF area
  <2>. QED
    BY <1>2, <1>4, <2>1, <2>2, <2>3, <2>4, OneZoneWritten
<1>5. CASE CommitArchiveZone(r)
  <2>1. j.kind = "archiveZone" /\ MayArchiveZone(j) /\ j.zone \in Zones
    BY <1>2, <1>5, JobFields DEF CommitArchiveZone, Commits, Accepted
  <2>2. /\ zones'[j.zone].status = "ARCHIVED" /\ zones'[j.zone].city = j.city
        /\ \A y \in Zones \ {j.zone} : zones'[y] = zones[y]
    BY <1>5, <2>1 DEF CommitArchiveZone, MayArchiveZone, LockInv, TypeOK, Zone
  <2>. QED
    BY <1>2, <1>5, <2>1, <2>2, OneZoneWritten
<1>. QED
  BY <1>1, <1>3, <1>4, <1>5

-----------------------------------------------------------------------------
(* The inductive invariant. *)

(* A step of a request that leaves what the others decided alone, and settles what it  *)
(* decides itself.                                                                     *)
LEMMA OthersStaySettled ==
  ASSUME IInv, NEW r \in Requests, NEW q, Becomes(r, q), NEW H, H \subseteq requests[r].held,
         WritesUnder(H), Settled(requests[r])'
  PROVE  \A s \in Requests : Settled(requests[s])'
<1>1. ASSUME NEW s \in Requests \ {r} PROVE Settled(requests[s])'
  <2>1. requests'[s] = requests[s]
    BY DEF IInv, LockInv, TypeOK, Becomes
  <2>2. H \cap requests[s].held = {}
    BY DEF IInv, LockInv, Exclusive
  <2>3. LockInv /\ Settled(requests[s])
    BY DEF IInv
  <2>. QED
    BY <2>1, <2>2, <2>3, SettledStays
<1>. QED
  BY <1>1

LEMMA ProceedKeepsIInv ==
  ASSUME IInv, LockInv', NEW r \in Requests, NEW q, Proceed(r, q), Settled(requests[r])'
  PROVE  IInv'
<1>1. cities' = cities /\ governorates' = governorates /\ zones' = zones /\ Becomes(r, q)
  BY DEF Proceed, Places
<1>2. WritesUnder({})
  BY <1>1 DEF WritesUnder
<1>3. \A s \in Requests : Settled(requests[s])'
  BY <1>1, <1>2, OthersStaySettled
<1>4. WellFormedZones' /\ ZonesDisjoint'
  BY <1>1, ZonesKept DEF IInv
<1>. QED
  BY <1>3, <1>4 DEF IInv

LEMMA RefuseKeepsIInv ==
  ASSUME IInv, LockInv', NEW r \in Requests, Refuse(r)
  PROVE  IInv'
<1>1. Proceed(r, Idle) /\ requests'[r] = Idle
  BY DEF Refuse, Proceed, Becomes, IInv, LockInv, TypeOK
<1>2. Settled(requests[r])'
  BY <1>1, IdleIsOrderly DEF Settled, Idle
<1>. QED
  BY <1>1, <1>2, ProceedKeepsIInv

(* A request that has decided nothing yet has nothing to keep. *)
LEMMA UndecidedKeepsIInv ==
  ASSUME IInv, LockInv', NEW r \in Requests, NEW q, Proceed(r, q), q.step # "commit"
  PROVE  IInv'
<1>1. requests'[r] = q
  BY DEF Proceed, Becomes, IInv, LockInv, TypeOK
<1>2. Settled(requests[r])'
  BY <1>1 DEF Settled
<1>. QED
  BY <1>2, ProceedKeepsIInv

LEMMA DecideSettles ==
  ASSUME IInv, LockInv', NEW r \in Requests, Decide(r)
  PROVE  IInv'
<1>. DEFINE o == requests[r]
            j == requests[r].job
            c == requests[r].job.city
            h == IF j.kind = "update" THEN o.held \cup {Row(c)} ELSE o.held
            v == [NothingSeen EXCEPT !.status = cities[c].status,
                                     !.operational = Operational(c)]
            q == [requests[r] EXCEPT !.step = "commit", !.held = h, !.seen = v]
<1>1. CASE Refuse(r)
  BY <1>1, RefuseKeepsIInv
<1>2. CASE Accepted(j) /\ Proceed(r, [requests[r] EXCEPT
                  !.step = "commit",
                  !.held = IF Job(r).kind = "update" THEN @ \cup {Row(Job(r).city)} ELSE @,
                  !.seen = [NothingSeen EXCEPT !.status = cities[Job(r).city].status,
                                               !.operational = Operational(Job(r).city)]])
  <2>1. Proceed(r, q)
    BY <1>2 DEF Job
  <2>2. /\ o \in Request /\ Orderly(o) /\ o.step = "lock" /\ o.wanted = {}
        /\ j.kind # "governorate" /\ ~ ParentChanged(r)
    BY RequestFields DEF IInv, Decide, HasLocks, At, Job
  <2>3. j \in Jobs /\ ForCity(o)
    BY <2>2 DEF Orderly
  <2>4. Governorate(cities[c].governorate) \in o.held
    <3>1. AdvisoryLocks(j, o.peeked) \subseteq o.held /\ o.peeked \in Governorates
      BY <2>2, <2>3 DEF ForCity
    <3>2. Governorate(o.peeked) \in o.held
          /\ (j.kind = "reassign" => Governorate(j.governorate) \in o.held)
      BY <2>2, <2>3, <3>1, AdvisoryLocksTyped
    <3>3. \/ cities[c].governorate = o.peeked
          \/ j.kind = "reassign" /\ cities[c].governorate = j.governorate
      BY <2>2 DEF ParentChanged, Job
    <3>. QED
      BY <3>2, <3>3
  <2>5. v.status = cities[c].status /\ v.operational = Operational(c)
    BY DEF NothingSeen
  <2>6. o.held \subseteq h
    OBVIOUS
  <2>7. requests'[r] = q /\ cities' = cities /\ governorates' = governorates /\ zones' = zones
    BY <2>1 DEF Proceed, Becomes, Places, IInv, LockInv, TypeOK
  <2>. HIDE DEF v, h
  <2>8. q.job = j /\ q.step = "commit" /\ q.held = h /\ q.seen = v
    BY <2>2 DEF Request
  <2>. HIDE DEF q
  <2>9. PICK k \in Jobs : k = j
    BY <2>3
  <2>10. Operational(k.city)' = Operational(k.city)
    BY <2>7 DEF Operational, IsOperational
  <2>11. Accepted(k)'
    <3>1. LockInv /\ cities'[k.city] = cities[k.city] /\ Accepted(k) /\ k.kind # "governorate"
      BY <1>2, <2>2, <2>7, <2>9 DEF IInv
    <3>. QED
      BY <2>7, <2>10, <3>1, AcceptedStays
  <2>12. requests'[r].job = k /\ requests'[r].held = h /\ requests'[r].seen = v
    BY <2>7, <2>8, <2>9
  <2>13. Settled(requests[r])'
    BY <2>2, <2>4, <2>5, <2>6, <2>7, <2>9, <2>10, <2>11, <2>12 DEF Settled
  <2>. QED
    BY <2>1, <2>13, ProceedKeepsIInv
<1>. QED
  BY <1>1, <1>2 DEF Decide, Job

LEMMA DecideGovernorateSettles ==
  ASSUME IInv, LockInv', NEW r \in Requests, DecideGovernorate(r)
  PROVE  IInv'
<1>. DEFINE o == requests[r]
            g == requests[r].job.governorate
            v == [NothingSeen EXCEPT !.status = governorates[g], !.children = Children(g)]
            q == [requests[r] EXCEPT !.step = "commit", !.seen = v]
<1>1. o \in Request /\ Orderly(o) /\ o.step = "children" /\ Proceed(r, q)
  BY RequestFields DEF IInv, DecideGovernorate, At, Job
<1>2. o.job.kind = "governorate"
  BY <1>1 DEF Orderly, ForCity
<1>3. v.status = governorates[g] /\ v.children = Children(g)
  BY DEF NothingSeen
<1>4. requests'[r] = q /\ cities' = cities /\ governorates' = governorates
  BY <1>1 DEF Proceed, Becomes, Places, IInv, LockInv, TypeOK
<1>. HIDE DEF v
<1>5. q.job = o.job /\ q.step = "commit" /\ q.seen = v
  BY <1>1 DEF Request
<1>. HIDE DEF q
<1>6. requests'[r].job = o.job /\ requests'[r].seen = v
  BY <1>4, <1>5
<1>7. \A k : Children(k)' = Children(k)
  BY <1>4 DEF Children
<1>8. Settled(requests[r])'
  BY <1>2, <1>3, <1>4, <1>6, <1>7 DEF Settled
<1>. QED
  BY <1>1, <1>8, ProceedKeepsIInv

LEMMA CommitsKeepIInv ==
  ASSUME IInv, LockInv', NEW r \in Requests,
         \/ CommitTransition(r) \/ CommitUpdate(r) \/ CommitReassignment(r)
         \/ CommitGovernorate(r) \/ CommitCreateZone(r) \/ CommitUpdateZone(r)
         \/ CommitArchiveZone(r) \/ CommitStoreWrite(r)
  PROVE  IInv'
<1>1. LockInv /\ WellFormedZones /\ ZonesDisjoint /\ Settled(requests[r])
  BY DEF IInv
<1>2. Becomes(r, Idle)
  BY DEF CommitTransition, CommitUpdate, CommitReassignment, CommitGovernorate,
         CommitCreateZone, CommitUpdateZone, CommitArchiveZone, CommitStoreWrite, Commits
<1>3. requests'[r] = Idle
  BY <1>1, <1>2 DEF Becomes, LockInv, TypeOK
<1>4. Settled(requests[r])'
  BY <1>3 DEF Settled, Idle
<1>5. WritesUnder(requests[r].held) /\ WellFormedZones' /\ ZonesDisjoint'
  BY <1>1, CommitsWriteUnderLocks, CommitsKeepZones
<1>6. \A s \in Requests : Settled(requests[s])'
  BY <1>2, <1>4, <1>5, OthersStaySettled
<1>. QED
  BY <1>5, <1>6 DEF IInv

LEMMA CreateCityKeepsIInv ==
  ASSUME IInv, LockInv', NEW c \in Cities, NEW g \in Governorates, NEW area \in Areas,
         CreateCity(c, g, area)
  PROVE  IInv'
<1>1. /\ cities[c] = NoCity /\ cities'[c].status = "DRAFT"
      /\ \A d \in Cities \ {c} : cities'[d] = cities[d]
      /\ governorates' = governorates /\ zones' = zones /\ requests' = requests
  BY DEF CreateCity, IInv, LockInv, TypeOK
<1>2. WritesUnder({})
  BY <1>1 DEF WritesUnder
<1>3. \A s \in Requests : Settled(requests[s])'
  BY <1>1, <1>2, SettledStays DEF IInv
<1>4. WellFormedZones' /\ ZonesDisjoint'
  BY <1>1, ZonesKept DEF IInv
<1>. QED
  BY <1>3, <1>4 DEF IInv

LEMMA IInvInit == Init => IInv
<1>. SUFFICES ASSUME Init PROVE IInv
  OBVIOUS
<1>1. LockInv
  BY LocksInit
<1>2. WellFormedZones /\ ZonesDisjoint
  BY DEF Init, WellFormedZones, ZonesDisjoint, ZonesOf, NoZone
<1>3. \A r \in Requests : Settled(requests[r])
  BY DEF Init, Settled, Idle
<1>. QED
  BY <1>1, <1>2, <1>3 DEF IInv

LEMMA IInvStep == IInv /\ [Next]_vars => IInv'
<1>. SUFFICES ASSUME IInv, [Next]_vars PROVE IInv'
  OBVIOUS
<1>1. LockInv'
  BY LocksStep DEF IInv
<1>2. CASE CreateAnyCity
  BY <1>1, <1>2, CreateCityKeepsIInv DEF CreateAnyCity
<1>3. ASSUME NEW r \in Requests, NEW j \in Jobs, Begin(r, j) PROVE IInv'
  <2>. DEFINE q == [Idle EXCEPT !.job = j, !.attempt = 1,
                                !.step = IF j.kind = "reassign" THEN "row" ELSE "peek"]
  <2>1. Proceed(r, q) /\ q.step # "commit"
    BY <1>3 DEF Begin, Idle
  <2>. HIDE DEF q
  <2>. QED
    BY <1>1, <2>1, UndecidedKeepsIInv
<1>4. ASSUME NEW r \in Requests, LockRow(r) PROVE IInv'
  <2>. DEFINE q == [requests[r] EXCEPT !.step = "peek", !.held = {Row(Job(r).city)}]
  <2>1. q.step # "commit"
    BY RequestFields DEF IInv
  <2>2. Proceed(r, q) \/ Refuse(r)
    BY <1>4 DEF LockRow
  <2>. HIDE DEF q
  <2>. QED
    BY <1>1, <2>1, <2>2, UndecidedKeepsIInv, RefuseKeepsIInv
<1>5. ASSUME NEW r \in Requests, Peek(r) PROVE IInv'
  <2>. DEFINE g == IF Job(r).kind = "governorate" THEN None ELSE cities[Job(r).city].governorate
              q == [requests[r] EXCEPT !.step = "lock", !.peeked = g,
                                       !.wanted = AdvisoryLocks(Job(r), g)]
  <2>1. q.step # "commit"
    BY RequestFields DEF IInv
  <2>2. Proceed(r, q) \/ Refuse(r)
    BY <1>5 DEF Peek
  <2>. HIDE DEF q
  <2>. QED
    BY <1>1, <2>1, <2>2, UndecidedKeepsIInv, RefuseKeepsIInv
<1>6. ASSUME NEW r \in Requests, TakeLock(r) PROVE IInv'
  <2>1. PICK l \in FirstWanted(r) :
           Proceed(r, [requests[r] EXCEPT !.wanted = @ \ {l}, !.held = @ \cup {l}])
    BY <1>6 DEF TakeLock
  <2>. DEFINE q == [requests[r] EXCEPT !.wanted = @ \ {l}, !.held = @ \cup {l}]
  <2>2. requests[r].wanted # {}
    BY DEF FirstWanted
  <2>3. requests[r].step # "commit"
    BY <2>2, RequestFields DEF IInv, Orderly
  <2>4. Proceed(r, q) /\ q.step = requests[r].step
    BY <2>1, RequestFields DEF IInv
  <2>. HIDE DEF q
  <2>. QED
    BY <1>1, <2>3, <2>4, UndecidedKeepsIInv
<1>7. ASSUME NEW r \in Requests, LockChildren(r) PROVE IInv'
  <2>. DEFINE q == [requests[r] EXCEPT !.step = "children",
                       !.wanted = {CityLock(c) : c \in Children(Job(r).governorate)}]
  <2>1. Proceed(r, q) /\ q.step # "commit"
    BY <1>7, RequestFields DEF IInv, LockChildren
  <2>. HIDE DEF q
  <2>. QED
    BY <1>1, <2>1, UndecidedKeepsIInv
<1>8. ASSUME NEW r \in Requests, StartOver(r) PROVE IInv'
  <2>. DEFINE q == [Idle EXCEPT !.job = Job(r), !.attempt = requests[r].attempt + 1,
                        !.step = IF Job(r).kind = "reassign" THEN "row" ELSE "peek"]
  <2>1. q.step # "commit"
    BY DEF Idle
  <2>2. Proceed(r, q) \/ Refuse(r)
    BY <1>8 DEF StartOver
  <2>. HIDE DEF q
  <2>. QED
    BY <1>1, <2>1, <2>2, UndecidedKeepsIInv, RefuseKeepsIInv
<1>9. ASSUME NEW r \in Requests, Decide(r) \/ DecideGovernorate(r) PROVE IInv'
  BY <1>1, <1>9, DecideSettles, DecideGovernorateSettles
<1>10. ASSUME NEW r \in Requests, AbortDeadlock(r) PROVE IInv'
  BY <1>1, <1>10, RefuseKeepsIInv DEF AbortDeadlock
<1>11. CASE UNCHANGED vars
  <2>1. zones' = zones /\ cities' = cities /\ governorates' = governorates /\ requests' = requests
    BY <1>11 DEF vars
  <2>2. WritesUnder({})
    BY <2>1 DEF WritesUnder
  <2>3. \A s \in Requests : Settled(requests[s])'
    BY <2>1, <2>2, SettledStays DEF IInv
  <2>. QED
    BY <1>1, <2>1, <2>3, ZonesKept DEF IInv
<1>. QED
  BY <1>1, <1>2, <1>3, <1>4, <1>5, <1>6, <1>7, <1>8, <1>9, <1>10, <1>11, CommitsKeepIInv
     DEF Next

LEMMA Inductive == Spec => []IInv
BY IInvInit, IInvStep, PTL DEF Spec

-----------------------------------------------------------------------------
(* The commits, and who loses sessions. *)

Revocation == \A c \in Cities : /\ Operational(c) /\ ~ Operational(c)' => c \in revoked'
                                /\ c \in revoked' => ~ Operational(c)'

LEMMA NothingLost ==
  ASSUME revoked' = {}, \A c \in Cities : Operational(c) => Operational(c)'
  PROVE  Revocation
BY DEF Revocation

LEMMA CommitsRevoke ==
  ASSUME IInv, NEW r \in Requests,
         CommitTransition(r) \/ CommitReassignment(r) \/ CommitGovernorate(r)
  PROVE  Revocation
<1>. DEFINE j == Job(r)
            c == Job(r).city
            seen == requests[r].seen
<1>1. At(r, "commit") /\ requests[r].step = "commit" /\ j = requests[r].job
      /\ LockInv /\ Settled(requests[r])
  BY DEF IInv, CommitTransition, CommitReassignment, CommitGovernorate, Commits, At, Job
<1>2. j \in Jobs
  BY <1>1, CommitFields
<1>3. CASE CommitTransition(r)
  <2>1. /\ j.kind = "transition" /\ governorates' = governorates
        /\ revoked' = IF seen.status = "ACTIVE" THEN {c} ELSE {}
    BY <1>3 DEF CommitTransition, Commits
  <2>2. c \in Cities /\ cities[c] \in City /\ seen.status = cities[c].status
        /\ j.status \in AllowedTargets(cities[c].status)
    BY <1>1, <2>1, CommitFields DEF Settled, Accepted, MayTransit
  <2>3. cities'[c].status = j.status
        /\ \A d \in Cities \ {c} : cities'[d] = cities[d]
    BY <1>1, <1>3, <2>2 DEF CommitTransition, LockInv, TypeOK, City
  <2>4. \A d \in Cities \ {c} : Operational(d)' = Operational(d)
    BY <2>1, <2>3 DEF Operational, IsOperational
  <2>5. Operational(c) => seen.status = "ACTIVE"
    BY <2>2 DEF Operational, IsOperational
  <2>6. seen.status = "ACTIVE" => cities'[c].status # "ACTIVE"
    BY <2>2, <2>3 DEF AllowedTargets
  <2>7. \A d \in Cities : d = c /\ cities'[d].status # "ACTIVE" => ~ Operational(d)'
    BY DEF Operational, IsOperational
  <2>8. \A d \in Cities : d = c /\ Operational(d) => seen.status = "ACTIVE"
    BY <2>5
  <2>. QED
    BY <2>1, <2>4, <2>6, <2>7, <2>8 DEF Revocation
<1>4. CASE CommitReassignment(r)
  <2>1. /\ j.kind = "reassign" /\ governorates' = governorates
        /\ revoked' = IF seen.operational /\ ~ IsOperational(cities'[c]) THEN {c} ELSE {}
    BY <1>4 DEF CommitReassignment, Commits
  <2>2. c \in Cities /\ seen.operational = Operational(c)
    BY <1>1, <2>1, CommitFields DEF Settled
  <2>3. \A d \in Cities \ {c} : cities'[d] = cities[d]
    BY <1>1, <1>4, <2>2 DEF CommitReassignment, LockInv, TypeOK
  <2>4. \A d \in Cities \ {c} : Operational(d)' = Operational(d)
    BY <2>1, <2>3 DEF Operational, IsOperational
  <2>5. \A d \in Cities : d = c => /\ Operational(d)' = IsOperational(cities'[c])
                                   /\ Operational(d) = seen.operational
    BY <2>1, <2>2 DEF Operational, IsOperational
  <2>. QED
    BY <2>1, <2>4, <2>5 DEF Revocation
<1>5. CASE CommitGovernorate(r)
  <2>1. /\ j.kind = "governorate" /\ cities' = cities
        /\ revoked' = IF seen.status = "ACTIVE" /\ j.status = "INACTIVE"
                      THEN seen.children ELSE {}
    BY <1>5 DEF CommitGovernorate, Commits
  <2>. DEFINE g == j.governorate
  <2>2. /\ g \in Governorates /\ seen.status = governorates[g] /\ seen.children \subseteq Children(g)
        /\ \A d \in Children(g) \ seen.children : cities[d].status = "DRAFT"
        /\ j.status \in {"ACTIVE", "INACTIVE"}
    BY <1>1, <1>2, <2>1, CommitFields, JobFields DEF Settled
  <2>3. governorates'[g] = j.status
        /\ \A k \in Governorates \ {g} : governorates'[k] = governorates[k]
    BY <1>1, <1>5, <2>2 DEF CommitGovernorate, LockInv, TypeOK
  <2>4. ASSUME NEW d \in Cities PROVE /\ Operational(d) /\ ~ Operational(d)' => d \in revoked'
                                      /\ d \in revoked' => ~ Operational(d)'
    <3>1. Operational(d) => cities[d].status = "ACTIVE" /\ cities[d].governorate \in Governorates
      BY DEF Operational, IsOperational, IInv, LockInv, WellFormedCities, NoCity
    <3>2. ASSUME Operational(d), ~ Operational(d)' PROVE d \in revoked'
      <4>1. cities[d].governorate = g /\ governorates[g] = "ACTIVE" /\ j.status = "INACTIVE"
        BY <2>1, <2>2, <2>3, <3>1, <3>2 DEF Operational, IsOperational
      <4>2. d \in seen.children
        BY <2>2, <3>1, <3>2, <4>1 DEF Children
      <4>. QED
        BY <2>1, <2>2, <3>2, <4>1, <4>2
    <3>3. ASSUME d \in revoked' PROVE ~ Operational(d)'
      <4>1. j.status = "INACTIVE" /\ cities'[d].governorate = g
        BY <2>1, <2>2, <3>3 DEF Children
      <4>. QED
        BY <2>3, <4>1 DEF Operational, IsOperational
    <3>. QED
      BY <3>2, <3>3
  <2>. QED
    BY <2>4 DEF Revocation
<1>. QED
  BY <1>3, <1>4, <1>5

LEMMA EveryStepRevokes == IInv /\ [Next]_vars => [Revocation]_vars
<1>. SUFFICES ASSUME IInv, Next PROVE Revocation
  OBVIOUS
<1>1. CASE CreateAnyCity
  <2>1. PICK c \in Cities, g \in Governorates, area \in Areas : CreateCity(c, g, area)
    BY <1>1 DEF CreateAnyCity
  <2>2. /\ revoked' = {} /\ governorates' = governorates /\ cities[c] = NoCity
        /\ \A d \in Cities \ {c} : cities'[d] = cities[d]
    BY <2>1 DEF CreateCity, IInv, LockInv, TypeOK
  <2>3. \A d \in Cities : Operational(d) => Operational(d)'
    BY <2>2 DEF Operational, IsOperational, NoCity
  <2>. QED
    BY <2>2, <2>3, NothingLost
<1>2. ASSUME UNCHANGED Places, revoked' = {} PROVE Revocation
  BY <1>2, NothingLost DEF Places, Operational, IsOperational
<1>3. ASSUME NEW r \in Requests, NEW j \in Jobs, Begin(r, j) PROVE Revocation
  BY <1>2, <1>3 DEF Begin, Proceed
<1>4. ASSUME NEW r \in Requests, LockRow(r) \/ Peek(r) \/ StartOver(r) \/ Decide(r)
      PROVE  Revocation
  <2>1. Refuse(r) \/ \E q : Proceed(r, q)
    BY <1>4 DEF LockRow, Peek, StartOver, Decide
  <2>. QED
    BY <1>2, <2>1 DEF Proceed, Refuse
<1>5. ASSUME NEW r \in Requests,
             \/ TakeLock(r) \/ LockChildren(r) \/ DecideGovernorate(r) \/ AbortDeadlock(r)
             \/ CommitStoreWrite(r)
      PROVE  Revocation
  BY <1>2, <1>5 DEF TakeLock, LockChildren, DecideGovernorate, AbortDeadlock,
                    CommitStoreWrite, Proceed, Refuse
<1>6. ASSUME NEW r \in Requests,
             CommitTransition(r) \/ CommitReassignment(r) \/ CommitGovernorate(r)
      PROVE  Revocation
  BY <1>6, CommitsRevoke
<1>7. ASSUME NEW r \in Requests,
             \/ CommitUpdate(r) \/ CommitCreateZone(r) \/ CommitUpdateZone(r)
             \/ CommitArchiveZone(r)
      PROVE  Revocation
  <2>1. /\ revoked' = {} /\ governorates' = governorates
        /\ \A d \in Cities : /\ cities'[d].status = cities[d].status
                             /\ cities'[d].governorate = cities[d].governorate
    BY <1>7 DEF CommitUpdate, CommitCreateZone, CommitUpdateZone, CommitArchiveZone,
                IInv, LockInv, TypeOK, City
  <2>2. \A d \in Cities : Operational(d) => Operational(d)'
    BY <2>1 DEF Operational, IsOperational
  <2>. QED
    BY <2>1, <2>2, NothingLost
<1>. QED
  BY <1>1, <1>3, <1>4, <1>5, <1>6, <1>7 DEF Next

-----------------------------------------------------------------------------
(* Deadlocks.  A request other than a move wants only locks that come after all it    *)
(* holds; among the locks that those in a deadlock hold, none would then be the last. *)

LEMMA LeastNatural ==
  ASSUME NEW T, T \subseteq Nat, T # {}
  PROVE  \E m \in T : \A n \in T : m <= n
<1>1. PICK m \in T : \A n \in T : ~ (<<n, m>> \in OpToRel(<, Nat))
  BY WFMin, NatLessThanWellFounded
<1>2. \A n \in T : ~ (n < m)
  BY <1>1 DEF OpToRel
<1>. QED
  BY <1>2

LEMMA SomeLockIsLast ==
  ASSUME NEW T, T \subseteq Locks, T # {}
  PROVE  \E k \in T : \A l \in T : ~ Before(k, l)
<1>1. \A l \in T : 4 - Rank(l) \in Nat /\ MaxId - l[2] \in Nat
  BY LockRanks, GeographyAssumption
<1>. DEFINE ranks == {4 - Rank(l) : l \in T}
<1>2. PICK m \in ranks : \A n \in ranks : m <= n
  <2>1. ranks \subseteq Nat /\ ranks # {}
    BY <1>1
  <2>. QED
    BY <2>1, LeastNatural
<1>. DEFINE ids == {MaxId - l[2] : l \in {k \in T : 4 - Rank(k) = m}}
<1>3. PICK i \in ids : \A n \in ids : i <= n
  <2>1. ids \subseteq Nat /\ ids # {}
    BY <1>1
  <2>. QED
    BY <2>1, LeastNatural
<1>4. PICK k \in T : 4 - Rank(k) = m /\ MaxId - k[2] = i
  OBVIOUS
<1>5. ASSUME NEW l \in T PROVE ~ Before(k, l)
  <2>1. Rank(k) \in 1..4 /\ Rank(l) \in 1..4 /\ k[2] \in 0..MaxId /\ l[2] \in 0..MaxId
        /\ MaxId \in Nat
    BY LockRanks, GeographyAssumption
  <2>2. 4 - Rank(k) <= 4 - Rank(l)
    BY <1>2, <1>4
  <2>3. Rank(l) = Rank(k) => MaxId - k[2] <= MaxId - l[2]
    BY <1>3, <1>4
  <2>. QED
    BY <2>1, <2>2, <2>3 DEF Before
<1>. QED
  BY <1>5

LEMMA WantsOnlyLater ==
  ASSUME LockInv, NEW r \in Requests, Job(r).kind # "reassign",
         NEW k \in requests[r].held, NEW l \in Needs(r)
  PROVE  Before(k, l)
<1>. DEFINE q == requests[r]
<1>1. Orderly(q) /\ Sorted(q) /\ q.held \subseteq Locks /\ q.wanted \subseteq Locks /\ q.step \in Steps
  BY RequestFields
<1>2. q.step \in {"lock", "children", "commit"} /\ q.job \in Jobs
  BY <1>1 DEF Orderly, Steps, Idle, RowOf, Job
<1>3. k[1] = "row" => q.step = "commit" /\ q.job.kind = "update"
  <2>1. CASE q.job.kind = "governorate"
    BY <1>1, <1>2, <2>1, JobFields DEF Orderly, ForGovernorate, Governorate, CityLock
  <2>2. CASE q.job.kind # "governorate"
    <3>1. ForCity(q)
      BY <1>1, <1>2, <2>2 DEF Orderly
    <3>2. \A x \in AdvisoryLocks(q.job, q.peeked) : x[1] # "row"
      BY <1>2, <2>2, <3>1, AdvisoryLocksTyped DEF ForCity
    <3>. QED
      BY <3>1, <3>2 DEF ForCity, Job
  <2>. QED
    BY <2>1, <2>2
<1>4. CASE q.wanted # {}
  <2>1. l \in q.wanted /\ q.step # "commit"
    BY <1>1, <1>2, <1>4 DEF Needs, At, FirstWanted, Orderly
  <2>. QED
    BY <1>1, <1>3, <2>1 DEF Sorted
<1>5. CASE q.wanted = {}
  <2>1. /\ l = Row(q.job.city)
        /\ \/ q.step = "lock" /\ q.job.kind = "update"
           \/ q.step = "commit" /\ q.job.kind \in {"transition", "createZone", "store"}
    BY <1>2, <1>5 DEF Needs, At, Job
  <2>2. q.job.city \in Cities
    BY <1>2, <2>1, JobFields
  <2>3. l \in Locks /\ l[1] = "row"
    BY <2>1, <2>2, LockKinds DEF Locks, Row
  <2>4. k[1] # "row"
    BY <1>3, <2>1
  <2>. QED
    BY <1>1, <2>3, <2>4, LockRanks DEF Before
<1>. QED
  BY <1>4, <1>5

LEMMA OnlyMovesDeadlock == LockInv => OnlyReassignmentsDeadlock
<1>. SUFFICES ASSUME LockInv, NEW S \in SUBSET Requests, Deadlocked(S),
                     \A r \in S : Job(r).kind # "reassign"
              PROVE  FALSE
  BY DEF OnlyReassignmentsDeadlock
<1>. DEFINE T == {l \in Locks : \E r \in S : l \in requests[r].held}
<1>1. ASSUME NEW r \in S PROVE \E l \in T : l \in Needs(r)
  <2>1. PICK s \in S : WaitsFor(r, s)
    BY DEF Deadlocked
  <2>2. PICK l \in Needs(r) : l \in requests[s].held
    BY <2>1 DEF WaitsFor
  <2>3. l \in Locks
    BY <2>2, RequestFields
  <2>. QED
    BY <2>2, <2>3
<1>2. T # {}
  BY <1>1 DEF Deadlocked
<1>3. PICK k \in T : \A l \in T : ~ Before(k, l)
  BY <1>2, SomeLockIsLast
<1>4. PICK r \in S : k \in requests[r].held
  OBVIOUS
<1>5. PICK l \in T : l \in Needs(r)
  BY <1>1
<1>6. Before(k, l)
  BY <1>4, <1>5, WantsOnlyLater
<1>. QED
  BY <1>3, <1>6

-----------------------------------------------------------------------------
(* The theorems about geography. *)

\* Types are kept, and a request starts over at most MaxAttempts times: what
\* beginWithGeographyRetry and the rows of the three tables are.
THEOREM TypeCorrect == Spec => []TypeOK
<1>1. IInv => TypeOK
  BY DEF IInv, LockInv
<1>. QED
  BY <1>1, Inductive, PTL

\* Between the decision of a request under its locks and its commit, no other request
\* changes what it decided on: the guarantee of lockCityGeography and
\* lockGovernorateAndCities that all their callers use.
THEOREM DecisionsAlwaysStand == Spec => []DecisionsStand
<1>1. IInv => DecisionsStand
  BY DEF IInv, Settled, DecisionsStand, At, Job
<1>. QED
  BY <1>1, Inductive, PTL

\* The zones in use of a city never overlap, whatever requests create, change, bring back
\* and archive them (ZoneService).
THEOREM ZonesAlwaysDisjoint == Spec => []ZonesDisjoint
<1>1. IInv => ZonesDisjoint
  BY DEF IInv
<1>. QED
  BY <1>1, Inductive, PTL

\* A deadlock of any number of requests has an update that moves a city in it: all other
\* requests keep to one order of locks (geography-locks.ts).
THEOREM OtherRequestsNeverDeadlock == Spec => []OnlyReassignmentsDeadlock
<1>1. IInv => OnlyReassignmentsDeadlock
  BY OnlyMovesDeadlock DEF IInv
<1>. QED
  BY <1>1, Inductive, PTL

\* The commit by which a city ceases to be operational revokes the sessions of its staff,
\* and no commit revokes those of a city that remains operational
\* (revokeDashboardSessionsForCities).
THEOREM LossAlwaysRevokes == Spec => LossIsRevoked
<1>1. [Revocation]_vars
        => [\A c \in Cities :
              /\ Operational(c) /\ ~ Operational(c)' => c \in revoked'
              /\ c \in revoked' => ~ Operational(c)']_vars
  BY DEF Revocation
<1>. QED
  BY <1>1, Inductive, EveryStepRevokes, PTL DEF Spec, LossIsRevoked

-----------------------------------------------------------------------------
(* The commands of orders, for any drivers, orders and commands (DriverLocks). *)

JobKinds == {"claim", "assign", "handoff", "remove", "reopen"} \cup OrderOnly \cup WithDrivers

\* Who gives an order to a driver has one; the commands without drivers have none.
LEMMA OrderJobFields ==
  ASSUME NEW j \in OrderJobs
  PROVE  /\ j.kind \in JobKinds /\ j.order \in Orders /\ j.driver \in Drivers \cup {Nobody}
         /\ j.kind \in {"claim", "assign", "handoff"} => j.driver \in Drivers
         /\ j.kind \in OrderOnly \cup WithDrivers => j.driver = Nobody
<1>1. j \in Givings \/ j \in Choices \/ j \in Others
  BY DriverLocksAssumption DEF AllOrderJobs
<1>. QED
  BY <1>1 DEF Givings, Choices, Others, JobKinds, OrderOnly, WithDrivers

LEMMA DriversAreNumbers ==
  ASSUME NEW d \in Drivers
  PROVE  d \in Nat
<1>1. d \in 0..MaxDriver
  BY DriverLocksAssumption
<1>. QED
  BY <1>1

LEMMA LockNames ==
  ASSUME NEW d \in Drivers, NEW o \in Orders
  PROVE  /\ DriverLock("claim", d) \in CommandLocks /\ DriverLock("assign", d) \in CommandLocks
         /\ DriverLock("row", d) \in CommandLocks /\ OrderLock(o) \in CommandLocks
         /\ BothLocks(d) \subseteq CommandLocks
BY DEF DriverLock, OrderLock, CommandLocks, DriverLocks, BothLocks

\* Where a lock comes in the order its family of commands takes them in.
ClaimPlace(l) == CASE l[1] = "claim" -> 0 [] l[1] = "row" -> 1 [] l[1] = "order" -> 2 [] OTHER -> 3
HandPlace(l) == CASE l[1] = "assign" -> 0 [] l[1] = "row" -> 1 [] OTHER -> 2
DeskPlace(l) == IF l[1] = "order" THEN 0 ELSE 1 + Turn(l)
\* An order all would keep to if nobody waited for a driver with an order in hand.
CommonPlace(l) ==
    CASE l[1] = "claim" -> 0 [] l[1] = "assign" -> 1 [] l[1] = "row" -> 2 [] OTHER -> 3

Place(j, l) == IF j.kind = "claim" THEN ClaimPlace(l)
               ELSE IF j.kind = "assign" THEN HandPlace(l) ELSE DeskPlace(l)

LEMMA LockCases ==
  ASSUME NEW l \in CommandLocks
  PROVE  \/ \E o \in Orders : l = OrderLock(o) /\ l[1] = "order"
         \/ \E d \in Drivers : /\ l[1] \in {"claim", "assign", "row"} /\ l[2] = d
                               /\ l = DriverLock(l[1], d)
BY DEF CommandLocks, DriverLocks, OrderLock, DriverLock

LEMMA PlacesOfLocks ==
  ASSUME NEW l \in CommandLocks
  PROVE  /\ ClaimPlace(l) \in 0..3 /\ HandPlace(l) \in 0..2 /\ CommonPlace(l) \in 0..3
         /\ DeskPlace(l) \in 0..(2 * MaxDriver + 2)
         /\ l[1] # "order" => Turn(l) \in Nat
<1>1. ClaimPlace(l) \in 0..3 /\ HandPlace(l) \in 0..2 /\ CommonPlace(l) \in 0..3
  BY DEF ClaimPlace, HandPlace, CommonPlace
<1>2. CASE l[1] = "order"
  BY <1>1, <1>2, DriverLocksAssumption DEF DeskPlace
<1>3. CASE l[1] # "order"
  <2>1. l[2] \in Drivers
    BY <1>3, LockCases
  <2>2. l[2] \in 0..MaxDriver /\ MaxDriver \in Nat
    BY <2>1, DriverLocksAssumption
  <2>. DEFINE b == IF l[1] = "row" THEN 1 ELSE 0
  <2>3. b \in 0..1
    OBVIOUS
  <2>4. Turn(l) = 2 * l[2] + b
    BY DEF Turn
  <2>. HIDE DEF b
  <2>5. Turn(l) \in 0..(2 * MaxDriver + 1)
    BY <2>2, <2>3, <2>4
  <2>6. DeskPlace(l) = 1 + Turn(l)
    BY <1>3 DEF DeskPlace
  <2>. QED
    BY <1>1, <2>2, <2>5, <2>6
<1>. QED
  BY <1>2, <1>3

-----------------------------------------------------------------------------
(* What a command holds and wants, by its step. *)

InTurn(q) == \A k \in q.held, l \in q.wanted : Place(q.job, k) < Place(q.job, l)

AssignLocks == {DriverLock("assign", d) : d \in Drivers}
DeskLocks == UNION {BothLocks(d) : d \in Drivers}

DriverShape(q) ==
    LET order == {OrderLock(q.job.order)}
        first == LocksOfDriver(q.job) IN
    /\ q.step = "driver" => q.held \cup q.wanted = first
    /\ q.step \in {"order", "commit"} => first \subseteq q.held
    /\ q.step = "order" => q.held \cup q.wanted = first \cup order
    /\ q.step = "commit" => /\ order \subseteq q.held
                            /\ \E d \in Drivers : q.wanted \subseteq {DriverLock("assign", d)}
                            /\ q.held \subseteq first \cup order \cup AssignLocks
                            /\ q.job.kind = "assign" => q.wanted = {}

DeskShape(q) ==
    LET order == {OrderLock(q.job.order)} IN
    /\ q.step = "order" => q.held \cup q.wanted = order
    /\ q.step \in {"driver", "commit"} => /\ order \subseteq q.held
                                          /\ q.held \subseteq order \cup DeskLocks
                                          /\ q.wanted \subseteq DeskLocks
    /\ q.step = "commit" => q.wanted = {}

Shape(q) ==
    /\ q.step = "idle" => q = Ended
    /\ q.step # "idle" => /\ q.job \in OrderJobs
                          /\ IF DriverFirst(q.job) THEN DriverShape(q) ELSE DeskShape(q)

Decided(q) == q.step = "commit" \/ (q.step = "driver" /\ ~ DriverFirst(q.job))
Counted(q) == q.step = "commit" \/ (q.step = "order" /\ DriverFirst(q.job))

\* What was read still lets the command through, and the drivers of the order, if they
\* count, are those whose locks the command takes.
StillSo(q) ==
    /\ Decided(q) => /\ Acceptable(q.job)
                     /\ ~ DriverFirst(q.job) =>
                           LocksOfConcerned(q.job) \subseteq q.held \cup q.wanted
    /\ Counted(q) => HasRoomFor(q.job)

Apart == \A a, b \in Commands : a # b => commands[a].held \cap commands[b].held = {}

\* An order on its way has a driver.
Carried == \A o \in Orders : deliveries[o].phase \in {"ASSIGNED", "PICKED_UP"}
                                => deliveries[o].carrier # Nobody

CommandsInv ==
    /\ CommandsTypeOK /\ Apart /\ AtMostTwo /\ Carried
    /\ \A c \in Commands : Shape(commands[c]) /\ InTurn(commands[c]) /\ StillSo(commands[c])

LEMMA EndedIsFine ==
  /\ Ended \in Command /\ Shape(Ended) /\ InTurn(Ended) /\ StillSo(Ended) /\ StillSo(Ended)'
  /\ Ended.held = {} /\ Ended.wanted = {} /\ Ended.step = "idle" /\ Ended.job = Nobody
BY DEF Ended, Command, Shape, InTurn, StillSo, Decided, Counted

LEMMA CommandFields ==
  ASSUME CommandsInv, NEW c \in Commands
  PROVE  /\ commands[c] \in Command /\ Shape(commands[c]) /\ InTurn(commands[c])
         /\ StillSo(commands[c])
         /\ commands[c].held \subseteq CommandLocks /\ commands[c].wanted \subseteq CommandLocks
         /\ commands[c].step \in {"idle", "driver", "order", "commit"}
         /\ commands[c].step # "idle" => commands[c].job \in OrderJobs
BY DEF CommandsInv, CommandsTypeOK, Command, Shape

LEMMA DeliveryFields ==
  ASSUME CommandsInv, NEW o \in Orders
  PROVE  /\ deliveries[o] \in Delivery /\ deliveries[o].phase \in Phases
         /\ deliveries[o].round \in {"NONE", "INITIAL", "REPLACEMENT"}
         /\ deliveries[o].carrier \in Drivers \cup {Nobody}
         /\ deliveries[o].next \in Drivers \cup {Nobody}
BY DEF CommandsInv, CommandsTypeOK, Delivery

LEMMA CommandsStart == CommandsInit => CommandsInv
<1>. SUFFICES ASSUME CommandsInit PROVE CommandsInv
  OBVIOUS
<1>1. Approved \in Delivery /\ Approved.carrier = Nobody /\ Approved.next = Nobody
      /\ Approved.phase = "WAITING"
  BY DEF Approved, Delivery, Phases
<1>2. CommandsTypeOK
  BY <1>1, EndedIsFine DEF CommandsInit, CommandsTypeOK
<1>3. Apart /\ Carried
  BY <1>1, EndedIsFine DEF CommandsInit, Apart, Carried
<1>4. AtMostTwo
  <2>. SUFFICES ASSUME NEW d \in Drivers PROVE Cardinality(Assignments(d)) <= 2
    BY DEF AtMostTwo
  <2>1. Assignments(d) = {}
    BY <1>1, DriverLocksAssumption DEF CommandsInit, Assignments
  <2>. QED
    BY <2>1, FS_EmptySet
<1>5. \A c \in Commands : Shape(commands[c]) /\ InTurn(commands[c]) /\ StillSo(commands[c])
  BY EndedIsFine DEF CommandsInit
<1>. QED
  BY <1>2, <1>3, <1>4, <1>5 DEF CommandsInv

-----------------------------------------------------------------------------
(* A step that writes one command and no delivery. *)

LEMMA OneGoesOn ==
  ASSUME CommandsInv, NEW c \in Commands, NEW q \in Command, GoesOn(c, q),
         Shape(q), InTurn(q), StillSo(q),
         \A b \in Commands \ {c} : q.held \cap commands[b].held = {}
  PROVE  CommandsInv'
<1>1. deliveries' = deliveries /\ commands' \in [Commands -> Command] /\ commands'[c] = q
      /\ \A b \in Commands \ {c} : commands'[b] = commands[b]
  BY DEF GoesOn, Goes, CommandsInv, CommandsTypeOK
<1>2. CommandsTypeOK' /\ AtMostTwo' /\ Carried'
  BY <1>1 DEF CommandsInv, CommandsTypeOK, AtMostTwo, Assignments, Carried
<1>3. Apart'
  BY <1>1 DEF CommandsInv, Apart
<1>4. StillSo(q)' 
  BY <1>1 DEF StillSo, Acceptable, HasRoomFor, AssignmentsBut, Assignments, LocksOfConcerned,
              Concerned
<1>5. ASSUME NEW b \in Commands
      PROVE  Shape(commands[b])' /\ InTurn(commands[b])' /\ StillSo(commands[b])'
  <2>1. CASE b = c
    BY <1>1, <1>4, <2>1 DEF Shape, InTurn, DriverShape, DeskShape, StillSo
  <2>2. CASE b # c
    <3>1. commands'[b] = commands[b] /\ Shape(commands[b]) /\ InTurn(commands[b])
          /\ StillSo(commands[b])
      BY <1>1, <2>2 DEF CommandsInv
    <3>2. Shape(commands[b])' /\ InTurn(commands[b])'
      BY <3>1 DEF Shape, InTurn, DriverShape, DeskShape
    <3>3. StillSo(commands[b])'
      BY <1>1, <3>1 DEF StillSo, Decided, Counted, Acceptable, HasRoomFor, AssignmentsBut,
                        Assignments, LocksOfConcerned, Concerned
    <3>. QED
      BY <3>2, <3>3
  <2>. QED
    BY <2>1, <2>2
<1>. QED
  BY <1>2, <1>3, <1>5 DEF CommandsInv

LEMMA GivingUpKeeps ==
  ASSUME CommandsInv, NEW c \in Commands, GivesUp(c)
  PROVE  CommandsInv'
BY EndedIsFine, OneGoesOn DEF GivesUp

(* The ways a statement changes a command leave it one. *)
LEMMA CommandSteps ==
  ASSUME NEW q \in Command, NEW w, w \subseteq CommandLocks, NEW h, h \subseteq CommandLocks,
         NEW st \in {"idle", "driver", "order", "commit"}, NEW j \in OrderJobs
  PROVE  /\ [q EXCEPT !.wanted = w, !.held = h] \in Command
         /\ [q EXCEPT !.step = st, !.wanted = w] \in Command
         /\ [q EXCEPT !.step = st] \in Command
         /\ [q EXCEPT !.job = j, !.step = st, !.wanted = w] \in Command
BY DEF Command

(* The locks of commands, by what they are of. *)
LEMMA LocksOfJobs ==
  ASSUME NEW j \in OrderJobs
  PROVE  /\ {OrderLock(j.order)} \subseteq CommandLocks
         /\ AssignLocks \subseteq CommandLocks /\ DeskLocks \subseteq CommandLocks
         /\ AssignLocks \subseteq DeskLocks
         /\ DriverFirst(j) => /\ LocksOfDriver(j) \subseteq CommandLocks
                              /\ DriverLock("row", j.driver) \in LocksOfDriver(j)
                              /\ j.kind \in {"claim", "assign"} /\ j.driver \in Drivers
         /\ \A l \in DeskLocks : l[1] \in {"assign", "row"}
         /\ OrderLock(j.order)[1] = "order"
         /\ \A l \in AssignLocks : l[1] = "assign"
         /\ DriverFirst(j) => \A l \in LocksOfDriver(j) :
               /\ l[1] = "row" \/ l[1] = j.kind
               /\ l[2] = j.driver
<1>1. \A d \in Drivers : BothLocks(d) = {<<"assign", d>>, <<"row", d>>}
  BY DEF BothLocks, DriverLock
<1>2. /\ j.order \in Orders
      /\ DriverFirst(j) => j.kind \in {"claim", "assign"} /\ j.driver \in Drivers
  BY OrderJobFields DEF DriverFirst
<1>3. AssignLocks \subseteq CommandLocks /\ DeskLocks \subseteq CommandLocks
      /\ AssignLocks \subseteq DeskLocks
  BY <1>1 DEF AssignLocks, DeskLocks, CommandLocks, DriverLocks, DriverLock
<1>4. {OrderLock(j.order)} \subseteq CommandLocks
  BY <1>2 DEF CommandLocks
<1>5. \A l \in DeskLocks : l[1] \in {"assign", "row"}
  BY <1>1 DEF DeskLocks
<1>6. OrderLock(j.order)[1] = "order" /\ \A l \in AssignLocks : l[1] = "assign"
  BY DEF OrderLock, AssignLocks, DriverLock
<1>7. ASSUME DriverFirst(j)
      PROVE  /\ LocksOfDriver(j) \subseteq CommandLocks
             /\ DriverLock("row", j.driver) \in LocksOfDriver(j)
             /\ \A l \in LocksOfDriver(j) : (l[1] = "row" \/ l[1] = j.kind) /\ l[2] = j.driver
  BY <1>1, <1>2, <1>7 DEF LocksOfDriver, DriverLock, CommandLocks, DriverLocks
<1>. QED
  BY <1>2, <1>3, <1>4, <1>5, <1>6, <1>7

(* Before the lock that comes next a family wants no other. *)
LEMMA TakesInTurn ==
  ASSUME NEW q \in Command, Shape(q), InTurn(q), NEW l \in FirstOf(q.wanted)
  PROVE  LET p == [q EXCEPT !.wanted = @ \ {l}, !.held = @ \cup {l}]
         IN p \in Command /\ Shape(p) /\ InTurn(p) /\ p.held = q.held \cup {l}
              /\ p.held \cup p.wanted = q.held \cup q.wanted /\ p.step = q.step /\ p.job = q.job
<1>. DEFINE p == [q EXCEPT !.wanted = @ \ {l}, !.held = @ \cup {l}]
<1>1. l \in q.wanted /\ \A k \in q.wanted \ {l} : Turn(l) < Turn(k)
  BY DEF FirstOf
<1>2. q.wanted \subseteq CommandLocks /\ q.held \subseteq CommandLocks
  BY DEF Command
<1>3. /\ p.wanted = q.wanted \ {l} /\ p.held = q.held \cup {l} /\ p.step = q.step
      /\ p.job = q.job /\ p.held \cup p.wanted = q.held \cup q.wanted
  BY <1>1 DEF Command
<1>4. p \in Command
  <2>1. q.wanted \ {l} \subseteq CommandLocks /\ q.held \cup {l} \subseteq CommandLocks
    BY <1>1, <1>2
  <2>2. q = [job |-> q.job, step |-> q.step, wanted |-> q.wanted, held |-> q.held]
        /\ q.job \in OrderJobs \cup {Nobody}
        /\ q.step \in {"idle", "driver", "order", "commit"}
    BY DEF Command
  <2>. QED
    BY <2>1, <2>2 DEF Command
<1>. HIDE DEF p
<1>5. q.step # "idle" /\ q.job \in OrderJobs
  BY <1>1, EndedIsFine DEF Shape
<1>6. Shape(p)
  <2>1. CASE DriverFirst(q.job)
    <3>1. DriverShape(q)
      BY <1>5, <2>1 DEF Shape
    <3>2. q.step = "commit" => l \in AssignLocks
      BY <1>1, <3>1 DEF DriverShape, AssignLocks
    <3>3. DriverShape(p)
      BY <1>1, <1>3, <3>1, <3>2 DEF DriverShape
    <3>. QED
      BY <1>3, <1>5, <2>1, <3>3 DEF Shape
  <2>2. CASE ~ DriverFirst(q.job)
    <3>1. DeskShape(q)
      BY <1>5, <2>2 DEF Shape
    <3>2. DeskShape(p)
      BY <1>1, <1>3, <3>1 DEF DeskShape
    <3>. QED
      BY <1>3, <1>5, <2>2, <3>2 DEF Shape
  <2>. QED
    BY <2>1, <2>2
<1>7. ASSUME NEW m \in q.wanted, m # l PROVE Place(q.job, l) < Place(q.job, m)
  <2>1. Turn(l) < Turn(m) /\ l \in CommandLocks /\ m \in CommandLocks
    BY <1>1, <1>2, <1>7
  <2>2. CASE DriverFirst(q.job)
    <3>1. DriverShape(q)
      BY <1>5, <2>2 DEF Shape
    <3>2. CASE q.step = "driver"
      <4>1. l \in LocksOfDriver(q.job) /\ m \in LocksOfDriver(q.job)
        BY <1>1, <3>1, <3>2 DEF DriverShape
      <4>2. /\ l[2] = q.job.driver /\ m[2] = q.job.driver
            /\ l[1] \in {"row", q.job.kind} /\ m[1] \in {"row", q.job.kind}
            /\ q.job.kind \in {"claim", "assign"} /\ q.job.driver \in Drivers
        <5>1. /\ q.job.kind \in {"claim", "assign"} /\ q.job.driver \in Drivers
              /\ \A k \in LocksOfDriver(q.job) : (k[1] = "row" \/ k[1] = q.job.kind)
                                                 /\ k[2] = q.job.driver
          BY <1>5, <2>2, LocksOfJobs
        <5>. QED
          BY <4>1, <5>1
      <4>3. m[1] = "row" /\ l[1] = q.job.kind
        <5>1. q.job.driver \in Nat
          BY <4>2, DriversAreNumbers
        <5>. QED
          BY <2>1, <4>2, <5>1 DEF Turn
      <4>. QED
        BY <4>2, <4>3 DEF Place, ClaimPlace, HandPlace
    <3>3. CASE q.step = "order"
      <4>1. \A k \in q.wanted : k = OrderLock(q.job.order)
        <5>. SUFFICES ASSUME NEW k \in q.wanted, k # OrderLock(q.job.order) PROVE FALSE
          OBVIOUS
        <5>1. k \in q.held
          BY <3>1, <3>3 DEF DriverShape
        <5>2. Place(q.job, k) < Place(q.job, k) /\ k \in CommandLocks
          BY <1>2, <5>1 DEF InTurn
        <5>. QED
          BY <5>2, PlacesOfLocks DEF Place
      <4>. QED
        BY <1>1, <1>7, <4>1
    <3>4. CASE q.step = "commit"
      BY <1>1, <1>7, <3>1, <3>4 DEF DriverShape
    <3>. QED
      BY <1>5, <3>2, <3>3, <3>4 DEF Command
  <2>3. CASE ~ DriverFirst(q.job)
    <3>1. DeskShape(q)
      BY <1>5, <2>3 DEF Shape
    <3>2. CASE q.step = "driver"
      <4>1. l[1] # "order" /\ m[1] # "order"
        BY <1>1, <1>5, <3>1, <3>2, LocksOfJobs DEF DeskShape
      <4>2. Place(q.job, l) = 1 + Turn(l) /\ Place(q.job, m) = 1 + Turn(m)
        BY <2>3, <4>1 DEF Place, DeskPlace, DriverFirst
      <4>3. Turn(l) \in Nat /\ Turn(m) \in Nat
        BY <2>1, <4>1, PlacesOfLocks
      <4>. QED
        BY <2>1, <4>2, <4>3
    <3>3. CASE q.step = "order"
      BY <1>1, <1>7, <3>1, <3>3 DEF DeskShape
    <3>4. CASE q.step = "commit"
      BY <1>1, <3>1, <3>4 DEF DeskShape
    <3>. QED
      BY <1>5, <3>2, <3>3, <3>4 DEF Command
  <2>. QED
    BY <2>2, <2>3
<1>8. InTurn(p)
  BY <1>3, <1>7 DEF InTurn
<1>. QED
  BY <1>3, <1>4, <1>6, <1>8 DEF p

LEMMA TakeNextLockKeeps ==
  ASSUME CommandsInv, NEW c \in Commands, TakeNextLock(c)
  PROVE  CommandsInv'
<1>1. PICK l \in NextLocks(c) :
         GoesOn(c, [commands[c] EXCEPT !.wanted = @ \ {l}, !.held = @ \cup {l}])
  BY DEF TakeNextLock
<1>. DEFINE q == commands[c]
            p == [q EXCEPT !.wanted = @ \ {l}, !.held = @ \cup {l}]
<1>2. /\ q \in Command /\ Shape(q) /\ InTurn(q) /\ StillSo(q) /\ l \in FirstOf(q.wanted)
  BY CommandFields DEF NextLocks
<1>3. /\ p \in Command /\ Shape(p) /\ InTurn(p) /\ p.held = q.held \cup {l}
      /\ p.held \cup p.wanted = q.held \cup q.wanted /\ p.step = q.step /\ p.job = q.job
  BY <1>2, TakesInTurn
<1>4. GoesOn(c, p)
  BY <1>1
<1>. HIDE DEF p
<1>5. StillSo(p)
  BY <1>2, <1>3 DEF StillSo, Decided, Counted
<1>6. \A b \in Commands \ {c} : p.held \cap commands[b].held = {}
  <2>1. \A b \in Commands \ {c} : l \notin commands[b].held
    BY DEF TakeNextLock, Waits, AwaitedBy
  <2>. QED
    BY <1>3, <2>1 DEF CommandsInv, Apart
<1>. QED
  BY <1>3, <1>4, <1>5, <1>6, OneGoesOn

LEMMA BeginKeeps ==
  ASSUME CommandsInv, NEW c \in Commands, NEW j \in OrderJobs, BeginCommand(c, j)
  PROVE  CommandsInv'
<1>. DEFINE st == IF DriverFirst(j) THEN "driver" ELSE "order"
            w == IF DriverFirst(j) THEN LocksOfDriver(j) ELSE {OrderLock(j.order)}
            p == [Ended EXCEPT !.job = j, !.step = st, !.wanted = w]
<1>1. GoesOn(c, p)
  BY DEF BeginCommand
<1>2. /\ st = IF DriverFirst(j) THEN "driver" ELSE "order"
      /\ w = IF DriverFirst(j) THEN LocksOfDriver(j) ELSE {OrderLock(j.order)}
      /\ st \in {"driver", "order"} /\ w \subseteq CommandLocks
  BY LocksOfJobs
<1>. HIDE DEF st, w
<1>3. p.job = j /\ p.step = st /\ p.wanted = w /\ p.held = {}
  BY DEF Ended
<1>4. p \in Command
  BY <1>2, EndedIsFine, CommandSteps
<1>. HIDE DEF p
<1>5. Shape(p)
  <2>1. CASE DriverFirst(j)
    <3>1. DriverShape(p)
      BY <1>2, <1>3, <2>1 DEF DriverShape
    <3>. QED
      BY <1>2, <1>3, <2>1, <3>1 DEF Shape
  <2>2. CASE ~ DriverFirst(j)
    <3>1. DeskShape(p)
      BY <1>2, <1>3, <2>2 DEF DeskShape
    <3>. QED
      BY <1>2, <1>3, <2>2, <3>1 DEF Shape
  <2>. QED
    BY <2>1, <2>2
<1>6. InTurn(p) /\ StillSo(p)
  BY <1>2, <1>3 DEF InTurn, StillSo, Decided, Counted
<1>. QED
  BY <1>1, <1>3, <1>4, <1>5, <1>6, OneGoesOn

LEMMA CountKeeps ==
  ASSUME CommandsInv, NEW c \in Commands, CountAssignments(c)
  PROVE  CommandsInv'
<1>. DEFINE q == commands[c]
            j == q.job
<1>1. /\ q \in Command /\ Shape(q) /\ InTurn(q) /\ StillSo(q) /\ q.step = "driver"
      /\ q.wanted = {} /\ j \in OrderJobs
  BY CommandFields DEF CountAssignments, Has
<1>2. \A b \in Commands \ {c} : q.held \cap commands[b].held = {}
  BY DEF CommandsInv, Apart
<1>3. CASE ~ HasRoomFor(j)
  BY <1>3, GivingUpKeeps DEF CountAssignments
<1>4. CASE HasRoomFor(j) /\ DriverFirst(j)
  <2>. DEFINE p == [q EXCEPT !.step = "order", !.wanted = {OrderLock(j.order)}]
  <2>1. GoesOn(c, p)
    BY <1>4 DEF CountAssignments
  <2>2. p.job = j /\ p.step = "order" /\ p.wanted = {OrderLock(j.order)} /\ p.held = q.held
    BY <1>1 DEF Command
  <2>3. p \in Command
    BY <1>1, LocksOfJobs, CommandSteps
  <2>. HIDE DEF p
  <2>4. DriverShape(q) /\ q.held = LocksOfDriver(j)
    BY <1>1, <1>4 DEF Shape, DriverShape
  <2>5. DriverShape(p)
    BY <2>2, <2>4 DEF DriverShape
  <2>6. Shape(p)
    BY <1>1, <1>4, <2>2, <2>5 DEF Shape
  <2>7. InTurn(p)
    <3>. SUFFICES ASSUME NEW k \in q.held PROVE Place(j, k) < Place(j, OrderLock(j.order))
      BY <2>2 DEF InTurn
    <3>1. k[1] = "row" \/ k[1] = j.kind
      BY <1>1, <1>4, <2>4, LocksOfJobs
    <3>2. OrderLock(j.order)[1] = "order" /\ j.kind \in {"claim", "assign"}
      BY <1>1, <1>4, LocksOfJobs
    <3>. QED
      BY <3>1, <3>2 DEF Place, ClaimPlace, HandPlace
  <2>8. StillSo(p)
    BY <1>4, <2>2 DEF StillSo, Decided, Counted
  <2>. QED
    BY <1>2, <2>1, <2>2, <2>3, <2>6, <2>7, <2>8, OneGoesOn
<1>5. CASE HasRoomFor(j) /\ ~ DriverFirst(j)
  <2>. DEFINE p == [q EXCEPT !.step = "commit"]
  <2>1. GoesOn(c, p)
    BY <1>5 DEF CountAssignments
  <2>2. p.job = j /\ p.step = "commit" /\ p.wanted = {} /\ p.held = q.held
    BY <1>1 DEF Command
  <2>3. p \in Command
    BY <1>1, CommandSteps
  <2>. HIDE DEF p
  <2>4. DeskShape(q)
    BY <1>1, <1>5 DEF Shape
  <2>5. DeskShape(p)
    BY <1>1, <2>2, <2>4 DEF DeskShape
  <2>6. Shape(p)
    BY <1>1, <1>5, <2>2, <2>5 DEF Shape
  <2>7. InTurn(p)
    BY <2>2 DEF InTurn
  <2>8. StillSo(p)
    BY <1>1, <1>5, <2>2 DEF StillSo, Decided, Counted
  <2>. QED
    BY <1>2, <2>1, <2>2, <2>3, <2>6, <2>7, <2>8, OneGoesOn
<1>. QED
  BY <1>3, <1>4, <1>5

(* The drivers of an order, of a command's and of a claim's order. *)
LEMMA ConcernedAreDrivers ==
  ASSUME CommandsInv, NEW j \in OrderJobs
  PROVE  /\ Concerned(j) \subseteq Drivers
         /\ LocksOfConcerned(j) \subseteq DeskLocks
         /\ Acceptable(j) /\ DriverFirst(j) =>
              \E d \in Drivers : LocksOfReplaced(j) \subseteq {DriverLock("assign", d)}
         /\ j.kind # "claim" => LocksOfReplaced(j) = {}
<1>. DEFINE e == deliveries[j.order]
<1>1. /\ j.order \in Orders /\ j.driver \in Drivers \cup {Nobody} /\ Nobody \notin Drivers
      /\ e.carrier \in Drivers \cup {Nobody} /\ e.next \in Drivers \cup {Nobody}
  BY OrderJobFields, DeliveryFields, DriverLocksAssumption
<1>2. Concerned(j) \subseteq Drivers
  BY <1>1 DEF Concerned
<1>3. LocksOfConcerned(j) \subseteq DeskLocks
  BY <1>2 DEF LocksOfConcerned, DeskLocks
<1>4. ASSUME Acceptable(j), DriverFirst(j)
      PROVE  \E d \in Drivers : LocksOfReplaced(j) \subseteq {DriverLock("assign", d)}
  <2>1. CASE j.kind = "claim" /\ e.round = "REPLACEMENT"
    <3>1. MayClaim(j, e)
      BY <1>4, <2>1 DEF Acceptable
    <3>2. e.phase = "PICKED_UP"
      BY <2>1, <3>1 DEF MayClaim
    <3>3. e.carrier \in Drivers
      BY <1>1, <3>2 DEF CommandsInv, Carried
    <3>. QED
      BY <2>1, <3>3 DEF LocksOfReplaced
  <2>2. CASE ~ (j.kind = "claim" /\ e.round = "REPLACEMENT")
    <3>1. j.driver \in Drivers
      BY <1>4, LocksOfJobs
    <3>. QED
      BY <2>2, <3>1 DEF LocksOfReplaced
  <2>. QED
    BY <2>1, <2>2
<1>. QED
  BY <1>2, <1>3, <1>4 DEF LocksOfReplaced

LEMMA JudgeKeeps ==
  ASSUME CommandsInv, NEW c \in Commands, JudgeOrder(c)
  PROVE  CommandsInv'
<1>. DEFINE q == commands[c]
            j == q.job
<1>1. /\ q \in Command /\ Shape(q) /\ InTurn(q) /\ StillSo(q) /\ q.step = "order"
      /\ q.wanted = {} /\ j \in OrderJobs
  BY CommandFields DEF JudgeOrder, Has
<1>2. \A b \in Commands \ {c} : q.held \cap commands[b].held = {}
  BY DEF CommandsInv, Apart
<1>3. CASE ~ Acceptable(j)
  BY <1>3, GivingUpKeeps DEF JudgeOrder
<1>4. CASE Acceptable(j) /\ DriverFirst(j)
  <2>. DEFINE p == [q EXCEPT !.step = "commit", !.wanted = LocksOfReplaced(j)]
  <2>1. GoesOn(c, p)
    BY <1>4 DEF JudgeOrder
  <2>2. p.job = j /\ p.step = "commit" /\ p.wanted = LocksOfReplaced(j) /\ p.held = q.held
    BY <1>1 DEF Command
  <2>3. PICK d \in Drivers : LocksOfReplaced(j) \subseteq {DriverLock("assign", d)}
    BY <1>1, <1>4, ConcernedAreDrivers
  <2>4. LocksOfReplaced(j) \subseteq AssignLocks
    BY <2>3 DEF AssignLocks
  <2>5. p \in Command
    BY <1>1, <2>4, LocksOfJobs, CommandSteps
  <2>. HIDE DEF p
  <2>6. DriverShape(q) /\ q.held = LocksOfDriver(j) \cup {OrderLock(j.order)}
    BY <1>1, <1>4 DEF Shape, DriverShape
  <2>7. j.kind = "assign" => LocksOfReplaced(j) = {}
    BY <1>1, ConcernedAreDrivers
  <2>8. DriverShape(p)
    BY <2>2, <2>3, <2>6, <2>7 DEF DriverShape
  <2>9. Shape(p)
    BY <1>1, <1>4, <2>2, <2>8 DEF Shape
  <2>10. InTurn(p)
    <3>. SUFFICES ASSUME NEW k \in q.held, NEW l \in LocksOfReplaced(j)
                  PROVE  Place(j, k) < Place(j, l)
      BY <2>2 DEF InTurn
    <3>1. j.kind = "claim"
      BY <1>1, <1>4, <2>7, LocksOfJobs
    <3>2. k[1] = "row" \/ k[1] = "claim" \/ k[1] = "order"
      BY <1>1, <1>4, <2>6, <3>1, LocksOfJobs
    <3>3. l[1] = "assign"
      BY <2>4, <1>1, LocksOfJobs
    <3>. QED
      BY <3>1, <3>2, <3>3 DEF Place, ClaimPlace
  <2>11. StillSo(p)
    BY <1>1, <1>4, <2>2 DEF StillSo, Decided, Counted
  <2>. QED
    BY <1>2, <2>1, <2>2, <2>5, <2>9, <2>10, <2>11, OneGoesOn
<1>5. CASE Acceptable(j) /\ ~ DriverFirst(j)
  <2>. DEFINE p == [q EXCEPT !.step = "driver", !.wanted = LocksOfConcerned(j)]
  <2>1. GoesOn(c, p)
    BY <1>5 DEF JudgeOrder
  <2>2. p.job = j /\ p.step = "driver" /\ p.wanted = LocksOfConcerned(j) /\ p.held = q.held
    BY <1>1 DEF Command
  <2>3. LocksOfConcerned(j) \subseteq DeskLocks
    BY <1>1, ConcernedAreDrivers
  <2>4. p \in Command
    BY <1>1, <2>3, LocksOfJobs, CommandSteps
  <2>. HIDE DEF p
  <2>5. q.held = {OrderLock(j.order)}
    BY <1>1, <1>5 DEF Shape, DeskShape
  <2>6. DeskShape(p)
    BY <2>2, <2>3, <2>5 DEF DeskShape
  <2>7. Shape(p)
    BY <1>1, <1>5, <2>2, <2>6 DEF Shape
  <2>8. InTurn(p)
    <3>. SUFFICES ASSUME NEW l \in LocksOfConcerned(j)
                  PROVE  Place(j, OrderLock(j.order)) < Place(j, l)
      BY <2>2, <2>5 DEF InTurn
    <3>1. l \in CommandLocks /\ l[1] # "order" /\ OrderLock(j.order)[1] = "order"
      BY <1>1, <2>3, LocksOfJobs
    <3>2. Turn(l) \in Nat
      BY <3>1, PlacesOfLocks
    <3>3. Place(j, l) = 1 + Turn(l) /\ Place(j, OrderLock(j.order)) = 0
      BY <1>5, <3>1 DEF Place, DeskPlace, DriverFirst
    <3>. QED
      BY <3>2, <3>3
  <2>9. StillSo(p)
    BY <1>5, <2>2 DEF StillSo, Decided, Counted
  <2>. QED
    BY <1>2, <2>1, <2>2, <2>4, <2>7, <2>8, <2>9, OneGoesOn
<1>. QED
  BY <1>3, <1>4, <1>5

-----------------------------------------------------------------------------
(* A commit writes the delivery of one order and gives it only to drivers whose rows are *)
(* locked.                                                                               *)

LEMMA OutcomeTyped ==
  ASSUME CommandsInv, NEW j \in OrderJobs, Acceptable(j)
  PROVE  /\ Outcome(j) \in Delivery
         /\ Outcome(j).phase \in {"ASSIGNED", "PICKED_UP"} => Outcome(j).carrier # Nobody
<1>. DEFINE e == deliveries[j.order]
            f == Outcome(j)
<1>1. /\ j.order \in Orders /\ j.driver \in Drivers \cup {Nobody} /\ Nobody \notin Drivers
      /\ e \in Delivery /\ j.kind \in JobKinds
      /\ j.kind \in {"claim", "assign", "handoff"} => j.driver \in Drivers
  BY OrderJobFields, DeliveryFields, DriverLocksAssumption
<1>2. e.phase \in {"ASSIGNED", "PICKED_UP"} => e.carrier # Nobody
  BY <1>1 DEF CommandsInv, Carried
<1>3. CASE j.kind \in {"open", "stop", "deliver", "pickup"}
  BY <1>1, <1>2, <1>3 DEF Outcome, Delivery, Phases, Acceptable
<1>4. CASE j.kind \in {"claim", "assign", "handoff"}
  BY <1>1, <1>2, <1>4 DEF Outcome, Delivery, Phases, Given
<1>5. CASE j.kind \in {"remove", "reopen"}
  BY <1>1, <1>2, <1>5 DEF Outcome, Delivery, Phases, Given
<1>6. CASE j.kind \in {"reoffer", "cancelHandoff", "completeHandoff"}
  BY <1>1, <1>2, <1>6 DEF Outcome, Delivery, Phases, Acceptable
<1>7. CASE j.kind \in {"cancel", "startReturn", "storeReturn", "driverReturn"}
  BY <1>1, <1>2, <1>7 DEF Outcome, Delivery, Phases, Approved
<1>. QED
  BY <1>1, <1>3, <1>4, <1>5, <1>6, <1>7 DEF JobKinds, OrderOnly, WithDrivers

(* Who has the order after the commit had it before, or is the driver of the command, or  *)
(* takes it over; and of the two places the driver of the command enters at most one.     *)
LEMMA OutcomeGives ==
  ASSUME CommandsInv, NEW j \in OrderJobs, NEW d \in Drivers
  PROVE  LET e == deliveries[j.order]
             f == Outcome(j) IN
         /\ f.carrier = d => \/ e.carrier = d \/ d = j.driver
                             \/ j.kind = "completeHandoff" /\ e.next = d
         /\ f.next = d => e.next = d \/ d = j.driver
         /\ j.kind = "completeHandoff" => f.next = Nobody /\ j.driver = Nobody
         /\ \/ f.next = d => e.next = d
            \/ j.kind # "remove" /\ (f.carrier = d => e.carrier = d)
<1>. DEFINE e == deliveries[j.order]
            f == Outcome(j)
<1>1. /\ j.order \in Orders /\ j.driver \in Drivers \cup {Nobody} /\ Nobody \notin Drivers
      /\ e \in Delivery /\ j.kind \in JobKinds /\ d # Nobody
      /\ j.kind \in WithDrivers => j.driver = Nobody
  BY OrderJobFields, DeliveryFields, DriverLocksAssumption
<1>3. CASE j.kind \in {"open", "stop", "deliver", "pickup"}
  BY <1>1, <1>3 DEF Outcome, Delivery
<1>4. CASE j.kind \in {"claim", "assign", "handoff"}
  BY <1>1, <1>4 DEF Outcome, Delivery, Given
<1>5. CASE j.kind \in {"remove", "reopen"}
  BY <1>1, <1>5 DEF Outcome, Delivery, Given
<1>6. CASE j.kind \in {"reoffer", "cancelHandoff", "completeHandoff"}
  BY <1>1, <1>6 DEF Outcome, Delivery, WithDrivers
<1>7. CASE j.kind \in {"cancel", "startReturn", "storeReturn", "driverReturn"}
  BY <1>1, <1>7 DEF Outcome, Delivery, Approved
<1>. QED
  BY <1>1, <1>3, <1>4, <1>5, <1>6, <1>7 DEF JobKinds, OrderOnly, WithDrivers

LEMMA DecidedHoldOrder ==
  ASSUME CommandsInv, NEW b \in Commands, Decided(commands[b])
  PROVE  OrderLock(commands[b].job.order) \in commands[b].held
<1>1. commands[b].step # "idle" /\ Shape(commands[b])
  BY CommandFields DEF Decided
<1>. QED
  BY <1>1 DEF Decided, Shape, DriverShape, DeskShape

LEMMA CountedHoldRow ==
  ASSUME CommandsInv, NEW b \in Commands, NEW d \in Drivers,
         \/ Counted(commands[b]) /\ d = commands[b].job.driver
         \/ /\ commands[b].step = "commit" /\ commands[b].job.kind = "completeHandoff"
            /\ d = deliveries[commands[b].job.order].next
  PROVE  DriverLock("row", d) \in commands[b].held
<1>. DEFINE q == commands[b]
            j == q.job
<1>1. q.step # "idle" /\ Shape(q) /\ j \in OrderJobs /\ StillSo(q) /\ Nobody \notin Drivers
  BY CommandFields, DriverLocksAssumption DEF Counted
<1>2. CASE DriverFirst(j)
  <2>1. q.step \in {"order", "commit"} /\ d = j.driver
    BY <1>2 DEF Counted, DriverFirst
  <2>2. LocksOfDriver(j) \subseteq q.held
    BY <1>1, <1>2, <2>1 DEF Shape, DriverShape
  <2>. QED
    BY <1>1, <1>2, <2>1, <2>2, LocksOfJobs
<1>3. CASE ~ DriverFirst(j)
  <2>1. q.step = "commit" /\ q.wanted = {}
    BY <1>1, <1>3 DEF Counted, Shape, DeskShape
  <2>2. LocksOfConcerned(j) \subseteq q.held
    BY <1>1, <1>3, <2>1 DEF StillSo, Decided
  <2>3. j.kind \notin OrderOnly
    BY <1>1, OrderJobFields DEF OrderOnly
  <2>4. d \in Concerned(j)
    BY <1>1 DEF Concerned
  <2>5. DriverLock("row", d) \in LocksOfConcerned(j)
    BY <2>3, <2>4 DEF LocksOfConcerned, BothLocks
  <2>. QED
    BY <2>2, <2>5
<1>. QED
  BY <1>2, <1>3

LEMMA AssignmentsFinite ==
  ASSUME NEW d
  PROVE  /\ IsFiniteSet(Assignments(d))
         /\ \A A \in SUBSET Assignments(d) : IsFiniteSet(A) /\ Cardinality(A) \in Nat
                                             /\ Cardinality(A) <= Cardinality(Assignments(d))
<1>1. IsFiniteSet(Orders \X {"carrier", "next"})
  <2>1. IsFiniteSet({"carrier", "next"})
    BY FS_EmptySet, FS_AddElement, {"carrier", "next"} = ({} \cup {"carrier"}) \cup {"next"}
  <2>. QED
    BY <2>1, DriverLocksAssumption, FS_Product
<1>2. Assignments(d) \subseteq Orders \X {"carrier", "next"}
  BY DEF Assignments
<1>3. IsFiniteSet(Assignments(d))
  BY <1>1, <1>2, FS_Subset
<1>. QED
  BY <1>3, FS_Subset, FS_CardinalityType

LEMMA AssignmentsAre ==
  ASSUME NEW d, NEW o \in Orders
  PROVE  /\ <<o, "carrier">> \in Assignments(d) <=> deliveries[o].carrier = d
         /\ <<o, "next">> \in Assignments(d) <=> deliveries[o].next = d
         /\ \A x \in Assignments(d) : \E p \in Orders : x = <<p, "carrier">> \/ x = <<p, "next">>
BY DEF Assignments

LEMMA CommitWrites ==
  ASSUME CommandsInv, NEW c \in Commands, CommitCommand(c)
  PROVE  LET j == commands[c].job IN
         /\ j \in OrderJobs /\ j.order \in Orders /\ Acceptable(j) /\ HasRoomFor(j)
         /\ commands[c].step = "commit" /\ commands[c].wanted = {}
         /\ deliveries'[j.order] = Outcome(j) /\ deliveries' \in [Orders -> Delivery]
         /\ \A o \in Orders \ {j.order} : deliveries'[o] = deliveries[o]
         /\ commands' \in [Commands -> Command] /\ commands'[c] = Ended
         /\ \A b \in Commands \ {c} : commands'[b] = commands[b]
<1>. DEFINE j == commands[c].job
<1>1. j \in OrderJobs /\ j.order \in Orders /\ Acceptable(j) /\ HasRoomFor(j)
      /\ commands[c].step = "commit" /\ commands[c].wanted = {}
  BY CommandFields, OrderJobFields DEF CommitCommand, Has, StillSo, Decided, Counted
<1>2. Outcome(j) \in Delivery
  BY <1>1, OutcomeTyped
<1>3. /\ deliveries'[j.order] = Outcome(j) /\ deliveries' \in [Orders -> Delivery]
      /\ \A o \in Orders \ {j.order} : deliveries'[o] = deliveries[o]
  BY <1>1, <1>2 DEF CommitCommand, CommandsInv, CommandsTypeOK
<1>4. /\ commands' \in [Commands -> Command] /\ commands'[c] = Ended
      /\ \A b \in Commands \ {c} : commands'[b] = commands[b]
  BY EndedIsFine DEF CommitCommand, Goes, CommandsInv, CommandsTypeOK
<1>. QED
  BY <1>1, <1>3, <1>4

(* A driver whose row the command does not hold is given nothing. *)
LEMMA OthersGetNothing ==
  ASSUME CommandsInv, NEW c \in Commands, CommitCommand(c), NEW d \in Drivers,
         DriverLock("row", d) \notin commands[c].held
  PROVE  Assignments(d)' \subseteq Assignments(d)
<1>. DEFINE j == commands[c].job
            e == deliveries[j.order]
<1>1. /\ j \in OrderJobs /\ j.order \in Orders /\ commands[c].step = "commit"
      /\ deliveries'[j.order] = Outcome(j)
      /\ \A o \in Orders \ {j.order} : deliveries'[o] = deliveries[o]
  BY CommitWrites
<1>2. d # j.driver /\ ~ (j.kind = "completeHandoff" /\ e.next = d)
  BY <1>1, CountedHoldRow DEF Counted
<1>3. \A o \in Orders : /\ deliveries'[o].carrier = d => deliveries[o].carrier = d
                        /\ deliveries'[o].next = d => deliveries[o].next = d
  BY <1>1, <1>2, OutcomeGives
<1>. QED
  BY <1>3 DEF Assignments

LEMMA CommitKeepsOthers ==
  ASSUME CommandsInv, NEW c \in Commands, CommitCommand(c), NEW b \in Commands \ {c}
  PROVE  StillSo(commands[b])'
<1>. DEFINE q == commands[b]
            jb == q.job
            jc == commands[c].job
<1>1. /\ commands'[b] = q /\ StillSo(q) /\ q.held \cap commands[c].held = {}
      /\ \A o \in Orders \ {jc.order} : deliveries'[o] = deliveries[o]
      /\ Decided(commands[c])
  BY CommitWrites, CommandFields DEF CommandsInv, Apart, Decided
<1>2. ASSUME Decided(q)
      PROVE  /\ Acceptable(jb)'
             /\ ~ DriverFirst(jb) => LocksOfConcerned(jb)' \subseteq q.held \cup q.wanted
  <2>1. jb.order # jc.order
    BY <1>1, <1>2, DecidedHoldOrder
  <2>2. jb \in OrderJobs /\ jb.order \in Orders
    BY <1>2, CommandFields, OrderJobFields DEF Decided
  <2>3. deliveries'[jb.order] = deliveries[jb.order]
    BY <1>1, <2>1, <2>2
  <2>4. Acceptable(jb)' <=> Acceptable(jb)
    BY <1>1, <2>3 DEF Acceptable
  <2>5. LocksOfConcerned(jb)' = LocksOfConcerned(jb)
    BY <1>1, <2>3 DEF LocksOfConcerned, Concerned
  <2>. QED
    BY <1>1, <1>2, <2>4, <2>5 DEF StillSo
<1>3. ASSUME Counted(q), jb.driver # Nobody
      PROVE  HasRoomFor(jb)'
  <2>1. jb \in OrderJobs /\ jb.driver \in Drivers
    BY <1>3, CommandFields, OrderJobFields DEF Counted
  <2>2. DriverLock("row", jb.driver) \notin commands[c].held
    BY <1>1, <1>3, <2>1, CountedHoldRow
  <2>3. Assignments(jb.driver)' \subseteq Assignments(jb.driver)
    <3>. DEFINE d == jb.driver
    <3>1. commands'[b].job.driver = d
      BY <1>1
    <3>2. ASSUME NEW x \in Drivers, x = d PROVE Assignments(x)' \subseteq Assignments(x)
      BY <2>2, <3>2, OthersGetNothing
    <3>. QED
      BY <2>1, <3>1, <3>2 DEF Assignments
  <2>4. AssignmentsBut(jb)' \subseteq AssignmentsBut(jb)
    BY <1>1, <2>3 DEF AssignmentsBut
  <2>5. /\ AssignmentsBut(jb) \subseteq Assignments(jb.driver)
        /\ IsFiniteSet(AssignmentsBut(jb)) /\ Cardinality(AssignmentsBut(jb)) \in Nat
    BY AssignmentsFinite DEF AssignmentsBut
  <2>6. Cardinality(AssignmentsBut(jb)') <= Cardinality(AssignmentsBut(jb))
        /\ Cardinality(AssignmentsBut(jb)') \in Nat
    BY <2>4, <2>5, FS_Subset, FS_CardinalityType
  <2>7. Cardinality(AssignmentsBut(jb)) < (IF jb.kind = "claim" THEN 1 ELSE 2)
    BY <1>1, <1>3 DEF StillSo, HasRoomFor
  <2>8. Cardinality(AssignmentsBut(jb)') < (IF jb.kind = "claim" THEN 1 ELSE 2)
    BY <2>5, <2>6, <2>7
  <2>. QED
    BY <1>1, <2>8 DEF HasRoomFor
<1>4. Counted(q) => HasRoomFor(jb)'
  <2>1. jb.driver = Nobody => HasRoomFor(jb)'
    BY <1>1 DEF HasRoomFor
  <2>. QED
    BY <1>3, <2>1
<1>5. (Decided(q)' <=> Decided(q)) /\ (Counted(q)' <=> Counted(q))
  BY <1>1 DEF Decided, Counted
<1>. QED
  BY <1>1, <1>2, <1>4, <1>5 DEF StillSo

(* One assignment more than a finite set has. *)
LEMMA OneMore ==
  ASSUME NEW A, IsFiniteSet(A), NEW n \in Nat, Cardinality(A) < n, NEW x,
         NEW B, B \subseteq A \cup {x}
  PROVE  Cardinality(B) <= n
<1>1. IsFiniteSet(A \cup {x}) /\ Cardinality(A) \in Nat
      /\ Cardinality(A \cup {x}) <= Cardinality(A) + 1 /\ Cardinality(A \cup {x}) \in Nat
  BY FS_AddElement, FS_CardinalityType
<1>2. Cardinality(B) <= Cardinality(A \cup {x}) /\ Cardinality(B) \in Nat
  BY <1>1, FS_Subset, FS_CardinalityType
<1>. QED
  BY <1>1, <1>2

LEMMA CommitKeepsAtMostTwo ==
  ASSUME CommandsInv, NEW c \in Commands, CommitCommand(c), NEW d \in Drivers
  PROVE  Cardinality(Assignments(d)') <= 2
<1>. DEFINE j == commands[c].job
            e == deliveries[j.order]
            f == Outcome(j)
            carrier == <<j.order, "carrier">>
            next == <<j.order, "next">>
<1>1. /\ j \in OrderJobs /\ j.order \in Orders /\ HasRoomFor(j)
      /\ deliveries'[j.order] = f
      /\ \A o \in Orders \ {j.order} : deliveries'[o] = deliveries[o]
      /\ Nobody \notin Drivers
  BY CommitWrites, DriverLocksAssumption
<1>2. /\ f.carrier = d => \/ e.carrier = d \/ d = j.driver
                          \/ j.kind = "completeHandoff" /\ e.next = d
      /\ f.next = d => e.next = d \/ d = j.driver
      /\ j.kind = "completeHandoff" => f.next = Nobody /\ j.driver = Nobody
      /\ \/ f.next = d => e.next = d
         \/ j.kind # "remove" /\ (f.carrier = d => e.carrier = d)
  BY <1>1, OutcomeGives
<1>3. /\ IsFiniteSet(Assignments(d)) /\ Cardinality(Assignments(d)) \in Nat
      /\ Cardinality(Assignments(d)) <= 2
  BY AssignmentsFinite, FS_CardinalityType DEF CommandsInv, AtMostTwo
<1>4. \A x \in Assignments(d)' : \/ x \in Assignments(d) /\ x # carrier /\ x # next
                                 \/ x = carrier /\ f.carrier = d
                                 \/ x = next /\ f.next = d
  BY <1>1 DEF Assignments
<1>5. CASE d = j.driver
  <2>1. IsFiniteSet(AssignmentsBut(j)) /\ Cardinality(AssignmentsBut(j)) \in Nat
        /\ Cardinality(AssignmentsBut(j)) < 2
    <3>1. /\ IsFiniteSet(AssignmentsBut(j)) /\ Cardinality(AssignmentsBut(j)) \in Nat
      BY AssignmentsFinite DEF AssignmentsBut
    <3>2. Cardinality(AssignmentsBut(j)) < (IF j.kind = "claim" THEN 1 ELSE 2)
      BY <1>1, <1>5 DEF HasRoomFor
    <3>. QED
      BY <3>1, <3>2
  <2>2. /\ (carrier \in Assignments(d) <=> e.carrier = d)
        /\ (next \in Assignments(d) <=> e.next = d)
    BY <1>1, AssignmentsAre
  <2>3. CASE f.next = d => e.next = d
    <3>1. Assignments(d)' \subseteq AssignmentsBut(j) \cup {carrier}
      BY <1>4, <1>5, <2>2, <2>3 DEF AssignmentsBut
    <3>. QED
      BY <2>1, <3>1, OneMore
  <2>4. CASE j.kind # "remove" /\ (f.carrier = d => e.carrier = d)
    <3>1. Assignments(d)' \subseteq AssignmentsBut(j) \cup {next}
      BY <1>4, <1>5, <2>2, <2>4 DEF AssignmentsBut
    <3>. QED
      BY <2>1, <3>1, OneMore
  <2>. QED
    BY <1>2, <2>3, <2>4
<1>6. CASE j.kind = "completeHandoff" /\ e.next = d
  <2>. DEFINE A == Assignments(d) \ {next}
  <2>1. next \in Assignments(d)
    BY <1>1, <1>6, AssignmentsAre
  <2>2. IsFiniteSet(A) /\ Cardinality(A) < 2
    <3>1. IsFiniteSet(A) /\ Cardinality(A) = Cardinality(Assignments(d)) - 1
      BY <1>3, <2>1, FS_RemoveElement
    <3>. QED
      BY <1>3, <3>1
  <2>3. f.next # d
    BY <1>1, <1>2, <1>6
  <2>4. Assignments(d)' \subseteq A \cup {carrier}
    BY <1>4, <2>3
  <2>. HIDE DEF A
  <2>. QED
    BY <2>2, <2>4, OneMore
<1>7. CASE d # j.driver /\ ~ (j.kind = "completeHandoff" /\ e.next = d)
  <2>1. /\ (carrier \in Assignments(d) <=> e.carrier = d)
        /\ (next \in Assignments(d) <=> e.next = d)
    BY <1>1, AssignmentsAre
  <2>2. Assignments(d)' \subseteq Assignments(d)
    BY <1>2, <1>4, <1>7, <2>1
  <2>3. Cardinality(Assignments(d)') <= Cardinality(Assignments(d))
        /\ Cardinality(Assignments(d)') \in Nat
    BY <1>3, <2>2, FS_Subset, FS_CardinalityType
  <2>. QED
    BY <1>3, <2>3
<1>. QED
  BY <1>5, <1>6, <1>7

LEMMA CommitKeeps ==
  ASSUME CommandsInv, NEW c \in Commands, CommitCommand(c)
  PROVE  CommandsInv'
<1>. DEFINE j == commands[c].job
<1>1. /\ j \in OrderJobs /\ j.order \in Orders /\ Acceptable(j)
      /\ deliveries'[j.order] = Outcome(j) /\ deliveries' \in [Orders -> Delivery]
      /\ \A o \in Orders \ {j.order} : deliveries'[o] = deliveries[o]
      /\ commands' \in [Commands -> Command] /\ commands'[c] = Ended
      /\ \A b \in Commands \ {c} : commands'[b] = commands[b]
  BY CommitWrites
<1>2. CommandsTypeOK'
  BY <1>1 DEF CommandsTypeOK
<1>3. AtMostTwo'
  BY CommitKeepsAtMostTwo DEF AtMostTwo
<1>4. Carried'
  <2>1. Outcome(j).phase \in {"ASSIGNED", "PICKED_UP"} => Outcome(j).carrier # Nobody
    BY <1>1, OutcomeTyped
  <2>. QED
    BY <1>1, <2>1 DEF CommandsInv, Carried
<1>5. Apart'
  BY <1>1, EndedIsFine DEF CommandsInv, Apart
<1>6. ASSUME NEW b \in Commands
      PROVE  Shape(commands[b])' /\ InTurn(commands[b])' /\ StillSo(commands[b])'
  <2>1. CASE b = c
    <3>1. commands'[b] = Ended
      BY <1>1, <2>1
    <3>2. Shape(commands[b])'
      BY <3>1, EndedIsFine DEF Shape
    <3>3. InTurn(commands[b])' /\ StillSo(commands[b])'
      BY <3>1, EndedIsFine DEF InTurn, StillSo, Decided, Counted
    <3>. QED
      BY <3>2, <3>3
  <2>2. CASE b # c
    <3>1. commands'[b] = commands[b] /\ Shape(commands[b]) /\ InTurn(commands[b])
      BY <1>1, <2>2 DEF CommandsInv
    <3>2. Shape(commands[b])' /\ InTurn(commands[b])'
      BY <3>1 DEF Shape, InTurn, DriverShape, DeskShape
    <3>3. StillSo(commands[b])'
      BY <2>2, CommitKeepsOthers
    <3>. QED
      BY <3>2, <3>3
  <2>. QED
    BY <2>1, <2>2
<1>. QED
  BY <1>2, <1>3, <1>4, <1>5, <1>6 DEF CommandsInv

LEMMA EveryCommandKeeps == CommandsInv /\ [CommandsNext]_commandVars => CommandsInv'
<1>. SUFFICES ASSUME CommandsInv, [CommandsNext]_commandVars PROVE CommandsInv'
  OBVIOUS
<1>1. ASSUME NEW c \in Commands, NEW j \in OrderJobs, BeginCommand(c, j) PROVE CommandsInv'
  BY <1>1, BeginKeeps
<1>2. ASSUME NEW c \in Commands, TakeNextLock(c) PROVE CommandsInv'
  BY <1>2, TakeNextLockKeeps
<1>3. ASSUME NEW c \in Commands, CountAssignments(c) PROVE CommandsInv'
  BY <1>3, CountKeeps
<1>4. ASSUME NEW c \in Commands, JudgeOrder(c) PROVE CommandsInv'
  BY <1>4, JudgeKeeps
<1>5. ASSUME NEW c \in Commands, CommitCommand(c) PROVE CommandsInv'
  BY <1>5, CommitKeeps
<1>6. ASSUME NEW c \in Commands, AbortCommand(c) PROVE CommandsInv'
  BY <1>6, GivingUpKeeps DEF AbortCommand
<1>7. CASE UNCHANGED commandVars
  <2>1. commands' = commands /\ deliveries' = deliveries
    BY <1>7 DEF commandVars
  <2>2. CommandsTypeOK' /\ AtMostTwo' /\ Carried' /\ Apart'
    BY <2>1 DEF CommandsInv, CommandsTypeOK, AtMostTwo, Assignments, Carried, Apart
  <2>3. ASSUME NEW b \in Commands
        PROVE  Shape(commands[b])' /\ InTurn(commands[b])' /\ StillSo(commands[b])'
    <3>1. Shape(commands[b])' /\ InTurn(commands[b])'
      BY <2>1 DEF CommandsInv, Shape, InTurn, DriverShape, DeskShape
    <3>2. StillSo(commands[b])'
      BY <2>1 DEF CommandsInv, StillSo, Decided, Counted, Acceptable, HasRoomFor,
                  AssignmentsBut, Assignments, LocksOfConcerned, Concerned
    <3>. QED
      BY <3>1, <3>2
  <2>. QED
    BY <2>2, <2>3 DEF CommandsInv
<1>. QED
  BY <1>1, <1>2, <1>3, <1>4, <1>5, <1>6, <1>7 DEF CommandsNext

LEMMA CommandsInductive == CommandsSpec => []CommandsInv
BY CommandsStart, EveryCommandKeeps, PTL DEF CommandsSpec

(* Deliveries change only at a commit, and what it was decided on is still so. *)
OneCommand == \E j \in OrderJobs :
                 /\ Acceptable(j) /\ HasRoomFor(j)
                 /\ deliveries' = [deliveries EXCEPT ![j.order] = Outcome(j)]

LEMMA CommitsAreCommands == CommandsInv /\ [CommandsNext]_commandVars => [OneCommand]_deliveries
<1>. SUFFICES ASSUME CommandsInv, CommandsNext, deliveries' # deliveries PROVE OneCommand
  BY DEF commandVars
<1>1. PICK c \in Commands : CommitCommand(c)
  <2>1. PICK c \in Commands : \/ \E j \in OrderJobs : BeginCommand(c, j)
                              \/ TakeNextLock(c) \/ CountAssignments(c) \/ JudgeOrder(c)
                              \/ CommitCommand(c) \/ AbortCommand(c)
    BY DEF CommandsNext
  <2>. QED
    BY <2>1 DEF BeginCommand, TakeNextLock, CountAssignments, JudgeOrder, AbortCommand,
                GivesUp, GoesOn
<1>. DEFINE j == commands[c].job
<1>2. j \in OrderJobs /\ Acceptable(j) /\ HasRoomFor(j)
  BY <1>1, CommitWrites
<1>3. deliveries' = [deliveries EXCEPT ![j.order] = Outcome(j)]
  BY <1>1 DEF CommitCommand
<1>. HIDE DEF j
<1>. QED
  BY <1>2, <1>3 DEF OneCommand

-----------------------------------------------------------------------------
(* Deadlocks.  Of the locks that those in a deadlock hold none can be the last one of an   *)
(* order that all of them keep to.                                                         *)

LEMMA NoCircle ==
  ASSUME CommandsInv, NEW S \in SUBSET Commands, Stuck(S), NEW B \in Nat,
         NEW place \in [CommandLocks -> 0..B],
         \A c \in S : \A k \in commands[c].held, l \in NextLocks(c) : place[k] < place[l]
  PROVE  FALSE
<1>. DEFINE T == {l \in CommandLocks : \E c \in S : l \in commands[c].held}
<1>1. ASSUME NEW c \in S PROVE \E l \in T : l \in NextLocks(c)
  <2>1. PICK b \in S : AwaitedBy(c, b)
    BY DEF Stuck
  <2>2. PICK l \in NextLocks(c) : l \in commands[b].held
    BY <2>1 DEF AwaitedBy
  <2>3. l \in CommandLocks
    BY <2>2, CommandFields
  <2>. QED
    BY <2>2, <2>3
<1>2. T # {}
  BY <1>1 DEF Stuck
<1>. DEFINE ranks == {B - place[l] : l \in T}
<1>3. \A l \in T : place[l] \in 0..B /\ B - place[l] \in Nat
  OBVIOUS
<1>4. PICK m \in ranks : \A n \in ranks : m <= n
  <2>1. ranks \subseteq Nat /\ ranks # {}
    BY <1>2, <1>3
  <2>. QED
    BY <2>1, LeastNatural
<1>5. PICK k \in T : B - place[k] = m
  OBVIOUS
<1>6. PICK c \in S : k \in commands[c].held
  OBVIOUS
<1>7. PICK l \in T : l \in NextLocks(c)
  BY <1>1
<1>8. place[k] < place[l]
  BY <1>6, <1>7
<1>9. B - place[k] <= B - place[l]
  BY <1>4, <1>5
<1>. QED
  BY <1>3, <1>8, <1>9

(* Who is in a deadlock is under way and wants a lock. *)
LEMMA StuckWant ==
  ASSUME CommandsInv, NEW S \in SUBSET Commands, Stuck(S), NEW c \in S
  PROVE  /\ commands[c].wanted # {} /\ NextLocks(c) \subseteq commands[c].wanted
         /\ commands[c].step \in {"driver", "order", "commit"}
         /\ commands[c].job \in OrderJobs
         /\ Family(c) \in {"claim", "assign", "desk"}
<1>1. NextLocks(c) # {}
  BY DEF Stuck, AwaitedBy
<1>2. NextLocks(c) \subseteq commands[c].wanted
  BY DEF NextLocks, FirstOf
<1>3. commands[c].step # "idle"
  BY <1>1, <1>2, CommandFields, EndedIsFine DEF Shape
<1>. QED
  BY <1>1, <1>2, <1>3, CommandFields DEF Family, DriverFirst

LEMMA FamiliesCross ==
  ASSUME CommandsInv, NEW S \in SUBSET Commands, Stuck(S)
  PROVE  \E a, b \in S : Family(a) # Family(b)
<1>. SUFFICES ASSUME \A a, b \in S : Family(a) = Family(b) PROVE FALSE
  OBVIOUS
<1>1. PICK a \in S : TRUE
  BY DEF Stuck
<1>2. \A c \in S : Family(c) = Family(a)
  BY <1>1
<1>3. Family(a) \in {"claim", "assign", "desk"}
  BY <1>1, StuckWant
<1>4. ASSUME NEW c \in S, NEW k \in commands[c].held, NEW l \in NextLocks(c)
      PROVE  /\ Place(commands[c].job, k) < Place(commands[c].job, l)
             /\ k \in CommandLocks /\ l \in CommandLocks
  BY StuckWant, CommandFields DEF InTurn
<1>5. CASE Family(a) = "claim"
  <2>. DEFINE place == [l \in CommandLocks |-> ClaimPlace(l)]
  <2>1. place \in [CommandLocks -> 0..3]
    BY PlacesOfLocks
  <2>2. ASSUME NEW c \in S, NEW k \in commands[c].held, NEW l \in NextLocks(c)
        PROVE  place[k] < place[l]
    <3>1. commands[c].job.kind = "claim"
      BY <1>2, <1>5 DEF Family
    <3>. QED
      BY <1>4, <3>1 DEF Place
  <2>. HIDE DEF place
  <2>. QED
    BY <2>1, <2>2, NoCircle
<1>6. CASE Family(a) = "assign"
  <2>. DEFINE place == [l \in CommandLocks |-> HandPlace(l)]
  <2>1. place \in [CommandLocks -> 0..2]
    BY PlacesOfLocks
  <2>2. ASSUME NEW c \in S, NEW k \in commands[c].held, NEW l \in NextLocks(c)
        PROVE  place[k] < place[l]
    <3>1. commands[c].job.kind = "assign"
      BY <1>2, <1>6 DEF Family
    <3>. QED
      BY <1>4, <3>1 DEF Place
  <2>. HIDE DEF place
  <2>. QED
    BY <2>1, <2>2, NoCircle
<1>7. CASE Family(a) = "desk"
  <2>. DEFINE place == [l \in CommandLocks |-> DeskPlace(l)]
  <2>1. place \in [CommandLocks -> 0..(2 * MaxDriver + 2)] /\ 2 * MaxDriver + 2 \in Nat
    BY PlacesOfLocks, DriverLocksAssumption
  <2>2. ASSUME NEW c \in S, NEW k \in commands[c].held, NEW l \in NextLocks(c)
        PROVE  place[k] < place[l]
    <3>1. commands[c].job.kind # "claim" /\ commands[c].job.kind # "assign"
      BY <1>2, <1>7 DEF Family, DriverFirst
    <3>. QED
      BY <1>4, <3>1 DEF Place
  <2>. HIDE DEF place
  <2>. QED
    BY <2>1, <2>2, NoCircle
<1>. QED
  BY <1>3, <1>5, <1>6, <1>7

LEMMA OrdersFirst ==
  ASSUME CommandsInv, NEW S \in SUBSET Commands, Stuck(S)
  PROVE  \E c \in S : OrderBeforeDriver(c)
<1>. SUFFICES ASSUME \A c \in S : ~ OrderBeforeDriver(c) PROVE FALSE
  OBVIOUS
<1>. DEFINE place == [l \in CommandLocks |-> CommonPlace(l)]
<1>1. place \in [CommandLocks -> 0..3]
  BY PlacesOfLocks
<1>2. ASSUME NEW c \in S, NEW k \in commands[c].held, NEW l \in NextLocks(c)
      PROVE  place[k] < place[l]
  <2>. DEFINE q == commands[c]
              j == q.job
  <2>1. /\ q.step \in {"driver", "order", "commit"} /\ j \in OrderJobs /\ l \in q.wanted
        /\ Shape(q) /\ Place(j, k) < Place(j, l) /\ k \in CommandLocks /\ l \in CommandLocks
    BY StuckWant, CommandFields DEF InTurn
  <2>2. q.step # "order" => OrderLock(j.order) \notin q.held
    BY <2>1, LocksOfJobs DEF OrderBeforeDriver
  <2>3. CASE DriverFirst(j)
    <3>1. DriverShape(q)
      BY <2>1, <2>3 DEF Shape
    <3>2. j.kind \in {"claim", "assign"} /\ OrderLock(j.order)[1] = "order"
          /\ \A m \in LocksOfDriver(j) : m[1] = "row" \/ m[1] = j.kind
      BY <2>1, <2>3, LocksOfJobs
    <3>3. CASE q.step = "driver"
      <4>1. (k[1] = "row" \/ k[1] = j.kind) /\ (l[1] = "row" \/ l[1] = j.kind)
        BY <2>1, <3>1, <3>2, <3>3 DEF DriverShape
      <4>2. CommonPlace(k) < CommonPlace(l)
        BY <2>1, <3>2, <4>1 DEF Place, ClaimPlace, HandPlace, CommonPlace
      <4>. QED
        BY <2>1, <4>2
    <3>4. CASE q.step = "order"
      <4>1. /\ k[1] \in {"row", "order"} \/ k[1] = j.kind
            /\ l[1] \in {"row", "order"} \/ l[1] = j.kind
        BY <2>1, <3>1, <3>2, <3>4 DEF DriverShape
      <4>2. CommonPlace(k) < CommonPlace(l)
        BY <2>1, <3>2, <4>1 DEF Place, ClaimPlace, HandPlace, CommonPlace
      <4>. QED
        BY <2>1, <4>2
    <3>5. q.step # "commit"
      BY <2>2, <3>1 DEF DriverShape
    <3>. QED
      BY <2>1, <3>3, <3>4, <3>5
  <2>4. CASE ~ DriverFirst(j)
    <3>1. DeskShape(q)
      BY <2>1, <2>4 DEF Shape
    <3>2. q.step = "order"
      BY <2>1, <2>2, <3>1 DEF DeskShape
    <3>3. k = l
      BY <2>1, <3>1, <3>2 DEF DeskShape
    <3>. QED
      BY <2>1, <3>3, PlacesOfLocks DEF Place
  <2>. QED
    BY <2>3, <2>4
<1>. HIDE DEF place
<1>. QED
  BY <1>1, <1>2, NoCircle

-----------------------------------------------------------------------------
(* The theorems about commands. *)

\* Types are kept: a command holds and wants locks of orders and drivers there are, and an
\* order is in one of its phases (claim, assignDriver and the commands of the desk).
THEOREM CommandsTypeCorrect == CommandsSpec => []CommandsTypeOK
<1>1. CommandsInv => CommandsTypeOK
  BY DEF CommandsInv
<1>. QED
  BY <1>1, CommandsInductive, PTL

\* Whatever drivers, orders and commands there are, no driver gets a third order: who counts
\* a driver's assignments and then gives one holds the driver's row from the count to the
\* commit (claim, assignDriver, assertEligibleDriver).
THEOREM NobodyCarriesThree == CommandsSpec => []AtMostTwo
<1>1. CommandsInv => AtMostTwo
  BY DEF CommandsInv
<1>. QED
  BY <1>1, CommandsInductive, PTL

\* Every commit is a step its command could have made alone at that moment: what it read
\* under its locks is still so.  It is what lets OrderSystem have each command in one step.
THEOREM CommandsAlwaysAtomic == CommandsSpec => CommandsAreAtomic
<1>1. [OneCommand]_deliveries
        => [\E j \in OrderJobs :
              /\ Acceptable(j) /\ HasRoomFor(j)
              /\ deliveries' = [deliveries EXCEPT ![j.order] = Outcome(j)]]_deliveries
  BY DEF OneCommand
<1>. QED
  BY <1>1, CommandsInductive, CommitsAreCommands, PTL DEF CommandsSpec, CommandsAreAtomic

\* In every deadlock, of any number of commands, there are commands of two families, and one
\* that holds an order and waits for a driver (lockOrder, lockDriverIds, and the driver's
\* locks that claim and assignDriver take before the order).
THEOREM DeadlocksAlwaysCross == CommandsSpec => []DeadlocksCross
<1>1. CommandsInv => DeadlocksCross
  BY FamiliesCross, OrdersFirst DEF DeadlocksCross
<1>. QED
  BY <1>1, CommandsInductive, PTL

=============================================================================

--------------------------- MODULE CityOfferIndex ---------------------------
(***************************************************************************)
(* The open-offer index of one city: the OPEN offer rounds in PostgreSQL,  *)
(* the sorted set in Redis that drivers spin, and the three ways by which  *)
(* the second follows the first:                                           *)
(*   - the request that committed a change applies it to Redis right after *)
(*     the commit and then completes the city's reconciliation job,        *)
(*   - a worker claims the job, rebuilds the whole set and completes or    *)
(*     requeues the job,                                                   *)
(*   - a driver's spin that finds no open round in Redis rebuilds it.      *)
(* Requests, workers and spins of several processes interleave; any of     *)
(* them may stop between two steps, and Redis may refuse a write.          *)
(***************************************************************************)
EXTENDS Naturals, FiniteSets

CONSTANTS Rounds,      \* offer round ids; a round is opened once and closed once
          Workers,     \* reconciliation workers, one to a process
          Spins,       \* concurrent driver spins
          Kinds,       \* the kinds of commit that happen, a subset of CommitKinds
          MaxAttempts, \* REDIS_RECON_MAX_ATTEMPTS
          MaxRevision, \* bound: how many commits there are
          MaxFaults    \* bound: how many worker faults and spins there are

\* What a commit does to the OPEN rounds, and what its request then does to Redis:
\*   OPEN    approve, openRound: a round opens and is published
\*   CLOSE   claim, stop, assignment, cancellation: a round closes and is removed
\*   REOFFER the operations desk opens a round, and publishes nothing
\*   TOUCH   an assignment or a cancellation that closed no round
CommitKinds == {"OPEN", "CLOSE", "REOFFER", "TOUCH"}

ASSUME IndexAssumption ==
    /\ Kinds \subseteq CommitKinds
    /\ MaxAttempts \in Nat \ {0}
    /\ MaxRevision \in Nat
    /\ MaxFaults \in Nat

VARIABLES
    open,      \* PostgreSQL: the OPEN rounds
    unopened,  \* the rounds still to be opened
    revision,  \* PostgreSQL: city_open_offer_revisions.revision
    job,       \* PostgreSQL: the newest CITY_OPEN_OFFERS job
    index,     \* Redis: the members of city:{id}:open-offers
    indexRev,  \* Redis: city:{id}:open-offers:revision
    requests,  \* the requests that committed and have post-commit work left
    workers,   \* workers[w]: the job w claimed and how far it is
    spins,     \* spins[s]: the spin s and what it has read
    faults,    \* worker faults and spins so far
    synced,    \* the revision at which a worker last COMPLETED a job
    misstamped \* history: a spin stamped rows with a revision they are not of

vars == <<open, unopened, revision, job, index, indexRev, requests, workers,
          spins, faults, synced, misstamped>>

Revisions == 0 .. MaxRevision

\* A job is named by the revision that created it: ids are never used twice.
JobRow == [ id       : Revisions,
            status   : {"NONE", "PENDING", "PROCESSING", "COMPLETED", "DEAD"},
            expected : Revisions,
            attempts : 0 .. MaxAttempts,  \* counted no further than it matters
            lockedBy : Workers \cup {"nobody"},
            leased   : BOOLEAN ]          \* locked_at is within the lease

Request == [ kind : CommitKinds, round : Rounds \cup {"none"}, revision : Revisions,
             job : Revisions, applied : BOOLEAN ]

WorkerRow == [ step : {"idle", "renew", "read", "rebuild", "renewAgain", "finish", "fail"},
               job : Revisions, claimed : Revisions, attempts : 0 .. MaxAttempts,
               rows : SUBSET Rounds ]

SpinRow == [ step : {"idle", "check", "drop", "read", "revision", "rebuild"},
             ids : SUBSET Rounds, rows : SUBSET Rounds, revision : Revisions ]

IdleWorker == [step |-> "idle", job |-> 0, claimed |-> 0, attempts |-> 0, rows |-> {}]
IdleSpin   == [step |-> "idle", ids |-> {}, rows |-> {}, revision |-> 0]

TypeOK ==
    /\ open \subseteq Rounds /\ unopened \subseteq Rounds
    /\ revision \in Revisions /\ indexRev \in Revisions /\ synced \in Revisions
    /\ job \in JobRow
    /\ index \subseteq Rounds
    /\ requests \subseteq Request
    /\ workers \in [Workers -> WorkerRow]
    /\ spins \in [Spins -> SpinRow]
    /\ faults \in 0 .. MaxFaults
    /\ misstamped \in BOOLEAN

Init ==
    /\ open = {} /\ unopened = Rounds
    /\ revision = 0 /\ indexRev = 0 /\ synced = 0
    /\ job = [ id |-> 0, status |-> "NONE", expected |-> 0, attempts |-> 0,
               lockedBy |-> "nobody", leased |-> FALSE ]
    /\ index = {}
    /\ requests = {}
    /\ workers = [w \in Workers |-> IdleWorker]
    /\ spins = [s \in Spins |-> IdleSpin]
    /\ faults = 0
    /\ misstamped = FALSE

Active == job.status \in {"PENDING", "PROCESSING"}
Unlocked(row) == [row EXCEPT !.lockedBy = "nobody", !.leased = FALSE]

----------------------------------------------------------------------------
(* Redis.  Each script runs atomically: a write made at an older revision  *)
(* than the index's is rejected, without an error.                         *)

CasWrite(members, rev) ==
    IF indexRev > rev
    THEN UNCHANGED <<index, indexRev>>
    ELSE index' = members /\ indexRev' = rev

----------------------------------------------------------------------------
(* The requests. *)

\* Mutant of EnqueueRecon: an active job is not raised.
EnqueueUnlessActive ==
    /\ revision < MaxRevision
    /\ revision' = revision + 1
    /\ job' = IF Active THEN job
              ELSE [ id |-> revision + 1, status |-> "PENDING", expected |-> revision + 1,
                     attempts |-> 0, lockedBy |-> "nobody", leased |-> FALSE ]

\* enqueueCityOpenOffersRecon: bump the revision and raise the active job to it,
\* or insert a new one.
EnqueueRecon ==
    /\ revision < MaxRevision
    /\ revision' = revision + 1
    /\ job' = IF Active
              THEN [job EXCEPT !.expected = revision + 1]
              ELSE [ id |-> revision + 1, status |-> "PENDING", expected |-> revision + 1,
                     attempts |-> 0, lockedBy |-> "nobody", leased |-> FALSE ]

Commit(kind, r) ==
    /\ kind \in Kinds
    /\ EnqueueRecon
    /\ requests' = requests \cup {[ kind |-> kind, round |-> r, revision |-> revision + 1,
                                    job |-> job'.id, applied |-> FALSE ]}
    /\ UNCHANGED <<index, indexRev, workers, spins, faults, synced, misstamped>>

CommitOpen(r) ==
    /\ r \in unopened
    /\ open' = open \cup {r} /\ unopened' = unopened \ {r}
    /\ \E kind \in {"OPEN", "REOFFER"} : Commit(kind, r)

CommitClose(r) ==
    /\ r \in open
    /\ open' = open \ {r} /\ UNCHANGED unopened
    /\ Commit("CLOSE", r)

CommitTouch ==
    /\ UNCHANGED <<open, unopened>>
    /\ Commit("TOUCH", "none")

\* The apply callback of applyRedisAfterCommit.
Apply(q) ==
    /\ ~q.applied
    /\ CASE q.kind = "OPEN"  -> CasWrite(index \cup {q.round}, q.revision)
         [] q.kind = "CLOSE" -> CasWrite(index \ {q.round}, q.revision)
         [] OTHER            -> UNCHANGED <<index, indexRev>>
    /\ requests' = (requests \ {q}) \cup {[q EXCEPT !.applied = TRUE]}
    /\ UNCHANGED <<open, unopened, revision, job, workers, spins, faults, synced, misstamped>>

\* markReconJobsCompleted: only a job no worker has claimed.
MarkCompleted(q) ==
    /\ q.applied
    /\ job' = IF job.id = q.job /\ job.status = "PENDING"
              THEN [Unlocked(job) EXCEPT !.status = "COMPLETED"] ELSE job
    /\ requests' = requests \ {q}
    /\ UNCHANGED <<open, unopened, revision, index, indexRev, workers, spins, faults, synced, misstamped>>

\* The process stops, or Redis refuses the write: the job is left as it is.
GiveUp(q) ==
    /\ requests' = requests \ {q}
    /\ UNCHANGED <<open, unopened, revision, job, index, indexRev, workers, spins,
                   faults, synced, misstamped>>

----------------------------------------------------------------------------
(* RedisReconciliationWorker. *)

Owns(w) == /\ job.id = workers[w].job
           /\ job.status = "PROCESSING" /\ job.lockedBy = w

WorkerGoesOn(w, step) == workers' = [workers EXCEPT ![w].step = step]
WorkerStops(w)        == workers' = [workers EXCEPT ![w] = IdleWorker]

\* A PENDING job is due, or one whose lease ran out.  (Only the first in the mutant.)
DueAfresh == job.status = "PENDING"
Due == job.status = "PENDING" \/ (job.status = "PROCESSING" /\ ~job.leased)

\* claimDueJobs.
ClaimJob(w) ==
    /\ workers[w].step = "idle"
    /\ Due
    /\ LET attempts == IF job.attempts < MaxAttempts THEN job.attempts + 1 ELSE MaxAttempts IN
       /\ job' = [job EXCEPT !.status = "PROCESSING", !.attempts = attempts,
                             !.lockedBy = w, !.leased = TRUE]
       /\ workers' = [workers EXCEPT ![w] =
                        [ step |-> "renew", job |-> job.id, claimed |-> job.expected,
                          attempts |-> attempts, rows |-> {} ]]
    /\ UNCHANGED <<open, unopened, revision, index, indexRev, requests, spins, faults, synced, misstamped>>

\* renewLease, before the work and again before its completion.
RenewLease(w) ==
    /\ workers[w].step \in {"renew", "renewAgain"}
    /\ IF Owns(w)
       THEN /\ job' = [job EXCEPT !.leased = TRUE]
            /\ WorkerGoesOn(w, IF workers[w].step = "renew" THEN "read" ELSE "finish")
       ELSE WorkerStops(w) /\ UNCHANGED job
    /\ UNCHANGED <<open, unopened, revision, index, indexRev, requests, spins, faults, synced, misstamped>>

\* reconcileCityOffers reads the OPEN rounds, then replaces the index.
ReadOpenRounds(w) ==
    /\ workers[w].step = "read"
    /\ workers' = [workers EXCEPT ![w].step = "rebuild", ![w].rows = open]
    /\ UNCHANGED <<open, unopened, revision, job, index, indexRev, requests, spins, faults,
                   synced, misstamped>>

RebuildIndex(w) ==
    /\ workers[w].step = "rebuild"
    /\ CasWrite(workers[w].rows, workers[w].claimed)
    /\ WorkerGoesOn(w, "renewAgain")
    /\ UNCHANGED <<open, unopened, revision, job, requests, spins, faults, synced, misstamped>>

\* A newer commit raised the job or the city's revision.  (Ignored in the mutant.)
NeverOvertaken(w) == FALSE
Overtaken(w) == job.expected > workers[w].claimed \/ revision > workers[w].claimed

\* completeOrRequeueCity: one statement.
CompleteOrRequeue(w) ==
    /\ workers[w].step = "finish"
    /\ IF ~Owns(w) THEN UNCHANGED <<job, synced>>
       ELSE IF Overtaken(w)
       THEN /\ job' = [Unlocked(job) EXCEPT !.status = "PENDING", !.expected = revision]
            /\ UNCHANGED synced
       ELSE /\ job' = [Unlocked(job) EXCEPT !.status = "COMPLETED"]
            /\ synced' = revision
    /\ WorkerStops(w)
    /\ UNCHANGED <<open, unopened, revision, index, indexRev, requests, spins, faults, misstamped>>

\* A step of the job throws; failJob then retries it later or gives it up.
StepFails(w) ==
    /\ workers[w].step \in {"renew", "read", "rebuild", "renewAgain", "finish"}
    /\ faults < MaxFaults /\ faults' = faults + 1
    /\ WorkerGoesOn(w, "fail")
    /\ UNCHANGED <<open, unopened, revision, job, index, indexRev, requests, spins, synced, misstamped>>

FailJob(w) ==
    /\ workers[w].step = "fail"
    /\ job' = IF ~Owns(w) THEN job
              ELSE [Unlocked(job) EXCEPT !.status =
                      IF workers[w].attempts >= MaxAttempts THEN "DEAD" ELSE "PENDING"]
    /\ WorkerStops(w)
    /\ UNCHANGED <<open, unopened, revision, index, indexRev, requests, spins, faults, synced, misstamped>>

\* The worker's process stops and starts again.
WorkerCrashes(w) ==
    /\ workers[w].step # "idle"
    /\ faults < MaxFaults /\ faults' = faults + 1
    /\ WorkerStops(w)
    /\ UNCHANGED <<open, unopened, revision, job, index, indexRev, requests, spins, synced, misstamped>>

OwnerWorks == \E w \in Workers : Owns(w) /\ workers[w].step # "idle"

Expire ==
    /\ job.status = "PROCESSING" /\ job.leased
    /\ job' = [job EXCEPT !.leased = FALSE]
    /\ UNCHANGED <<open, unopened, revision, index, indexRev, requests, workers, spins, synced, misstamped>>

LeaseExpires == Expire /\ ~OwnerWorks /\ UNCHANGED faults

\* One lease is not enough for the owner.
LeaseTooShort == Expire /\ OwnerWorks /\ faults < MaxFaults /\ faults' = faults + 1

----------------------------------------------------------------------------
(* loadOpenSummariesForCity, for a driver's spin. *)

SpinGoesOn(s, row) ==
    /\ spins' = [spins EXCEPT ![s] = row]
    /\ UNCHANGED <<open, unopened, revision, job, requests, workers, synced>>

\* A failed read counts as an empty index.
ListOpenOffers(s) ==
    /\ spins[s].step = "idle"
    /\ faults < MaxFaults /\ faults' = faults + 1
    /\ \E ids \in {index, {}} :
          SpinGoesOn(s, [IdleSpin EXCEPT !.step = IF ids = {} THEN "read" ELSE "check",
                                         !.ids = ids])
    /\ UNCHANGED <<index, indexRev, misstamped>>

\* Which of the members are still OPEN?
CheckOffers(s) ==
    /\ spins[s].step = "check"
    /\ SpinGoesOn(s, [spins[s] EXCEPT !.step = "drop", !.rows = spins[s].ids \cap open])
    /\ UNCHANGED <<index, indexRev, faults, misstamped>>

\* Mutant of Stale: whatever was not seen OPEN.
NotSeenOpen(s) == index \ spins[s].rows

Stale(s) == spins[s].ids \ spins[s].rows

\* The others are dropped, whatever the revision; the spin is content when one
\* member is left.
DropClosed(s) ==
    /\ spins[s].step = "drop"
    /\ index' = index \ Stale(s)
    /\ SpinGoesOn(s, IF spins[s].rows = {}
                     THEN [IdleSpin EXCEPT !.step = "read"] ELSE IdleSpin)
    /\ UNCHANGED <<indexRev, faults, misstamped>>

SpinReads(s) ==
    /\ spins[s].step = "read"
    /\ SpinGoesOn(s, IF open = {} THEN IdleSpin
                     ELSE [IdleSpin EXCEPT !.step = "revision", !.rows = open])
    /\ UNCHANGED <<index, indexRev, faults, misstamped>>

SpinReadsRevision(s) ==
    /\ spins[s].step = "revision"
    /\ SpinGoesOn(s, [spins[s] EXCEPT !.step = "rebuild", !.revision = revision])
    /\ misstamped' = (misstamped \/ spins[s].rows # open)
    /\ UNCHANGED <<index, indexRev, faults>>

SpinRebuilds(s) ==
    /\ spins[s].step = "rebuild"
    /\ CasWrite(spins[s].rows, spins[s].revision)
    /\ SpinGoesOn(s, IdleSpin)
    /\ UNCHANGED <<faults, misstamped>>

----------------------------------------------------------------------------

RequestStep == \E q \in requests : Apply(q) \/ MarkCompleted(q) \/ GiveUp(q)

WorkerStep(w) ==
    \/ ClaimJob(w)
    \/ RenewLease(w)
    \/ ReadOpenRounds(w)
    \/ RebuildIndex(w)
    \/ CompleteOrRequeue(w)
    \/ FailJob(w)

WorkerFault(w) == StepFails(w) \/ WorkerCrashes(w)

SpinStep(s) ==
    \/ ListOpenOffers(s)
    \/ CheckOffers(s)
    \/ DropClosed(s)
    \/ SpinReads(s)
    \/ SpinReadsRevision(s)
    \/ SpinRebuilds(s)

Next ==
    \/ \E r \in Rounds : CommitOpen(r) \/ CommitClose(r)
    \/ CommitTouch
    \/ RequestStep
    \/ \E w \in Workers : WorkerStep(w) \/ WorkerFault(w)
    \/ LeaseExpires
    \/ LeaseTooShort
    \/ \E s \in Spins : SpinStep(s)

Spec == Init /\ [][Next]_vars

\* The workers poll on a timer and leases run out by themselves; nothing else is
\* bound to go on.
FairSpec ==
    /\ Spec
    /\ \A w \in Workers : WF_vars(WorkerStep(w))
    /\ WF_vars(LeaseExpires)

----------------------------------------------------------------------------
(* Properties. *)

\* What a worker has COMPLETED is done: until the next commit the index is the set
\* of OPEN rounds, whatever late workers and late requests still write.
\* Only a spin that stamps rows it read with a revision it reads after another
\* commit (SpinReads, SpinReadsRevision) can break it.
SyncedIsFresh == synced = revision /\ ~misstamped => index = open

\* No writer takes the index back: not a worker whose lease was lost, not a
\* request that was overtaken; and nobody is ahead of PostgreSQL.
IndexRevisionAdvances ==
    [][indexRev' >= indexRev /\ indexRev' <= revision]_vars

\* A job still to be done is never for less than the newest commit: no commit's
\* work is lost by coalescing it while a worker processes the job.
ActiveJobIsCurrent == Active => job.expected = revision

\* A spin's removals carry no revision, and what it removes was read a while ago;
\* still it never takes an OPEN round off the index.
SpinsDropOnlyClosed ==
    [][(\E s \in Spins : DropClosed(s)) => (index \ index') \cap open = {}]_vars

\* Both: no writer of the index, with a revision or without, does harm to a newer state.
WritesAreSafe == IndexRevisionAdvances /\ SpinsDropOnlyClosed

\* A job that no request will interfere with any more is brought to its end by
\* the workers: the index is right, or the job is DEAD, or a new commit came, or a
\* spin wrote rows under a revision that is not theirs.
WorkerHeals ==
    Active /\ requests = {} ~>
        \/ ~Active /\ index = open
        \/ job.status = "DEAD"
        \/ requests # {}
        \/ misstamped

=============================================================================

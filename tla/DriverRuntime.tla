--------------------------- MODULE DriverRuntime ----------------------------
(***************************************************************************)
(* The runtime state of one driver: his active assignments in PostgreSQL,  *)
(* the key driver:{id}:runtime in Redis that says whether he is BUSY, and  *)
(* everything that writes the key:                                         *)
(*   - the request that committed a change of his load, after the commit,  *)
(*   - the DRIVER_RUNTIME job which the commit left in the outbox, one to  *)
(*     a revision,                                                         *)
(*   - a spin that finds no key and hydrates it from PostgreSQL,           *)
(*   - a logout, which deletes it.                                         *)
(* Writes carry the driver's revision; Redis rejects an older one.  The    *)
(* lock around a hydration only thins hydrations out: it has a TTL and a   *)
(* way round it, so any number of them may run here.  Every commit that    *)
(* changes the load raises the revision: OrderSystem says where that fails.*)
(***************************************************************************)
EXTENDS Naturals

CONSTANTS Workers,     \* reconciliation workers; a batch of n jobs is n of them
          Spins,       \* concurrent spins of the driver
          Kinds,       \* the kinds of commit that happen, a subset of CommitKinds
          MaxAttempts, \* REDIS_RECON_MAX_ATTEMPTS
          MaxRevision, \* bound: how many commits there are
          MaxFaults    \* bound: how many worker faults and spins there are

\* TAKE     a claim or an assignment, which writes BUSY
\* DESK     a command of the operations desk, which writes BUSY or AVAILABLE
\* CANCEL   a cancellation, which edits the key it finds
\* DELIVER  a delivery, which edits the key it finds by a fresh count
\* LOGOUT   the logout, which deletes the key
CommitKinds == {"TAKE", "DESK", "CANCEL", "DELIVER", "LOGOUT"}

ASSUME RuntimeAssumption ==
    /\ Kinds \subseteq CommitKinds
    /\ MaxAttempts \in Nat \ {0}
    /\ MaxRevision \in Nat
    /\ MaxFaults \in Nat

VARIABLES
    load,      \* PostgreSQL: the driver's active assignments
    revision,  \* PostgreSQL: driver_runtime_revisions.revision
    loadAt,    \* history: the load at each revision's commit
    jobs,      \* PostgreSQL: the DRIVER_RUNTIME job of each revision
    key,       \* Redis: driver:{id}:runtime
    requests,  \* the requests that committed and have post-commit work left
    workers,   \* workers[w]: the job w claimed and how far it is
    spins,     \* spins[s]: a hydration and what it has read
    faults     \* worker faults and spins so far

vars == <<load, revision, loadAt, jobs, key, requests, workers, spins, faults>>

Loads     == 0 .. 2
Revisions == 0 .. MaxRevision

\* DriverRuntimeState; a hydrated one has no revision, here 0.
RuntimeState == [ rev : Revisions, work : {"MISSING", "OFFLINE", "AVAILABLE", "BUSY"},
                  load : Loads ]

NoKey == [rev |-> 0, work |-> "MISSING", load |-> 0]

JobRow == [ status   : {"NONE", "PENDING", "PROCESSING", "COMPLETED", "DEAD"},
            attempts : 0 .. MaxAttempts,   \* counted no further than it matters
            lockedBy : Workers \cup {"nobody"},
            leased   : BOOLEAN ]           \* locked_at is within the lease

NoJob  == [status |-> "NONE", attempts |-> 0, lockedBy |-> "nobody", leased |-> FALSE]
NewJob == [NoJob EXCEPT !.status = "PENDING"]

Request == [ kind : CommitKinds, revision : Revisions,
             load : Loads,                 \* what it writes
             seen : RuntimeState,          \* the key it found
             step : {"read", "count", "write", "delete", "mark"} ]

WorkerRow == [ step : {"idle", "renew", "check", "hydrate", "renewAgain", "existing",
                       "write", "finish", "fail"},
               job : Revisions, attempts : 0 .. MaxAttempts, load : Loads,
               seen : RuntimeState ]

SpinRow == [ step : {"idle", "write"}, load : Loads ]

IdleWorker == [step |-> "idle", job |-> 0, attempts |-> 0, load |-> 0, seen |-> NoKey]
IdleSpin   == [step |-> "idle", load |-> 0]

TypeOK ==
    /\ load \in Loads /\ revision \in Revisions
    /\ loadAt \in [Revisions -> Loads]
    /\ jobs \in [Revisions -> JobRow]
    /\ key \in RuntimeState
    /\ requests \subseteq Request
    /\ workers \in [Workers -> WorkerRow]
    /\ spins \in [Spins -> SpinRow]
    /\ faults \in 0 .. MaxFaults

Init ==
    /\ load = 0 /\ revision = 0
    /\ loadAt = [r \in Revisions |-> 0]
    /\ jobs = [r \in Revisions |-> NoJob]
    /\ key = NoKey
    /\ requests = {}
    /\ workers = [w \in Workers |-> IdleWorker]
    /\ spins = [s \in Spins |-> IdleSpin]
    /\ faults = 0

----------------------------------------------------------------------------
(* Redis. *)

\* Mutant of CasWrite: the revision is not compared.
BlindWrite(state) == key' = state

\* setRuntimeCasScript: an unrevisioned state never replaces a revisioned one.
CasWrite(state) == key' = IF key.rev > state.rev THEN key ELSE state

\* setRuntimeWithCas after an error: the key is deleted, if Redis still answers.
WriteFails == key' \in {key, NoKey}

\* getRuntime: a failed read finds nothing.
Reads == {key, NoKey}

BusyOr(work, n) == IF n > 0 THEN "BUSY" ELSE work

----------------------------------------------------------------------------
(* The commits and what their requests do afterwards. *)

\* The first thing the request does after its commit.
FirstStep(kind) == CASE kind \in {"TAKE", "DESK"} -> "write"
                     [] kind = "LOGOUT"           -> "delete"
                     [] OTHER                     -> "read"

\* A driver has room for two orders.
LoadsAfter(kind) ==
    Loads \cap CASE kind = "TAKE"    -> {load + 1}
                 [] kind = "DELIVER" -> {n \in Loads : n + 1 = load}
                 [] kind = "CANCEL"  -> {n \in Loads : n + 1 = load \/ (n = load /\ n > 0)}
                 [] kind = "DESK"    -> {n \in Loads : n <= load + 1 /\ load <= n + 1}
                 [] kind = "LOGOUT"  -> {load}

\* bumpDriverRuntimeRevision and enqueueDriverRuntimeRecon, in the transaction.
Commit(kind) ==
    /\ revision < MaxRevision
    /\ load' \in LoadsAfter(kind)
    /\ revision' = revision + 1
    /\ loadAt' = [loadAt EXCEPT ![revision + 1] = load']
    /\ jobs' = [jobs EXCEPT ![revision + 1] = NewJob]
    /\ requests' = requests \cup {[ kind |-> kind, revision |-> revision + 1, load |-> load',
                                    seen |-> NoKey, step |-> FirstStep(kind) ]}
    /\ UNCHANGED <<key, workers, spins, faults>>

RequestGoesOn(q, row) ==
    /\ requests' = (requests \ {q}) \cup {row}
    /\ UNCHANGED <<load, revision, loadAt, workers, spins, faults>>

\* A cancellation and a delivery look at the key first.
ReadRuntime(q) ==
    /\ q.step = "read"
    /\ \E seen \in Reads :
          RequestGoesOn(q, [q EXCEPT !.seen = seen,
                                     !.step = IF q.kind = "DELIVER" THEN "count" ELSE "write"])
    /\ UNCHANGED <<key, jobs>>

\* A delivery counts the driver's assignments again.
CountOrders(q) ==
    /\ q.step = "count"
    /\ RequestGoesOn(q, [q EXCEPT !.load = load, !.step = "write"])
    /\ UNCHANGED <<key, jobs>>

\* Without orders left: OFFLINE stays OFFLINE, except after a command of the desk.
WorkAfter(q) ==
    CASE q.kind \in {"TAKE", "DESK"}  -> BusyOr("AVAILABLE", q.load)
      [] q.seen.work = "OFFLINE"      -> BusyOr("OFFLINE", q.load)
      [] OTHER                        -> BusyOr("AVAILABLE", q.load)

StateAfter(q) == [rev |-> q.revision, work |-> WorkAfter(q), load |-> q.load]

WriteRuntime(q) ==
    /\ q.step = "write"
    /\ IF q.kind \in {"CANCEL", "DELIVER"} /\ q.seen = NoKey
       THEN key' \in {key, NoKey}           \* invalidateRuntime, which never fails
       ELSE CasWrite(StateAfter(q))
    /\ RequestGoesOn(q, [q EXCEPT !.step = "mark", !.load = 0, !.seen = NoKey])
    /\ UNCHANGED jobs

\* markReconJobsCompleted: only a job no worker has claimed.
MarkCompleted(q) ==
    /\ q.step = "mark"
    /\ jobs' = IF jobs[q.revision].status = "PENDING"
               THEN [jobs EXCEPT ![q.revision].status = "COMPLETED"] ELSE jobs
    /\ requests' = requests \ {q}
    /\ UNCHANGED <<load, revision, loadAt, key, workers, spins, faults>>

\* The logout leaves its job to the workers.
DeleteAtLogout(q) ==
    /\ q.step = "delete"
    /\ key' \in {key, NoKey}
    /\ requests' = requests \ {q}
    /\ UNCHANGED <<load, revision, loadAt, jobs, workers, spins, faults>>

\* The process stops, or Redis refuses the write.
GiveUp(q) ==
    /\ IF q.step = "write" THEN WriteFails ELSE UNCHANGED key
    /\ requests' = requests \ {q}
    /\ UNCHANGED <<load, revision, loadAt, jobs, workers, spins, faults>>

\* The key's TTL runs out, or a logout that could not enqueue a job deletes it.
KeyIsLost ==
    /\ key' = NoKey
    /\ UNCHANGED <<load, revision, loadAt, jobs, requests, workers, spins, faults>>

----------------------------------------------------------------------------
(* RedisReconciliationWorker, for the jobs of type DRIVER_RUNTIME. *)

Owns(w) == jobs[workers[w].job].status = "PROCESSING" /\ jobs[workers[w].job].lockedBy = w

Unlocked(row, status) == [row EXCEPT !.status = status, !.lockedBy = "nobody", !.leased = FALSE]

WorkerGoesOn(w, row) ==
    /\ workers' = [workers EXCEPT ![w] = row]
    /\ UNCHANGED <<load, revision, loadAt, requests, spins>>

\* claimDueJobs.
ClaimJob(w, r) ==
    /\ workers[w].step = "idle"
    /\ jobs[r].status = "PENDING" \/ (jobs[r].status = "PROCESSING" /\ ~jobs[r].leased)
    /\ LET attempts == IF jobs[r].attempts < MaxAttempts THEN jobs[r].attempts + 1
                       ELSE MaxAttempts IN
       /\ jobs' = [jobs EXCEPT ![r] = [ status |-> "PROCESSING", attempts |-> attempts,
                                        lockedBy |-> w, leased |-> TRUE ]]
       /\ WorkerGoesOn(w, [IdleWorker EXCEPT !.step = "renew", !.job = r,
                                             !.attempts = attempts])
    /\ UNCHANGED <<key, faults>>

\* renewLease, before the work and again after the hydration.
RenewLease(w) ==
    /\ workers[w].step \in {"renew", "renewAgain"}
    /\ IF Owns(w)
       THEN /\ jobs' = [jobs EXCEPT ![workers[w].job].leased = TRUE]
            /\ WorkerGoesOn(w, [workers[w] EXCEPT !.step =
                                  IF workers[w].step = "renew" THEN "check" ELSE "existing"])
       ELSE WorkerGoesOn(w, IdleWorker) /\ UNCHANGED jobs
    /\ UNCHANGED <<key, faults>>

\* A newer commit has a job of its own.  (The mutant is off by one.)
SupersededOrNewest(w) == workers[w].job <= revision
Superseded(w) == workers[w].job < revision

CheckRevision(w) ==
    /\ workers[w].step = "check"
    /\ WorkerGoesOn(w, [workers[w] EXCEPT !.step =
                          IF Superseded(w) THEN "finish" ELSE "hydrate"])
    /\ UNCHANGED <<jobs, key, faults>>

\* hydrateDriverRuntimeFromPostgres; the driver has a profile and a city.
HydrateJob(w) ==
    /\ workers[w].step = "hydrate"
    /\ WorkerGoesOn(w, [workers[w] EXCEPT !.step = "renewAgain", !.load = load])
    /\ UNCHANGED <<jobs, key, faults>>

ReadExisting(w) ==
    /\ workers[w].step = "existing"
    /\ \E seen \in Reads :
          WorkerGoesOn(w, [workers[w] EXCEPT !.step = "write", !.seen = seen])
    /\ UNCHANGED <<jobs, key, faults>>

\* deriveRuntimeForRecon.  An AVAILABLE state of the job's revision or a later one
\* was written after the job was created: the clocks agree that far.
Derived(w) ==
    LET r    == workers[w].job
        seen == workers[w].seen IN
    IF workers[w].load > 0 THEN [rev |-> r, work |-> "BUSY", load |-> workers[w].load]
    ELSE IF seen.work = "AVAILABLE" /\ seen.rev >= r THEN seen
    ELSE [rev |-> r, work |-> "OFFLINE", load |-> 0]

WriteDerived(w) ==
    /\ workers[w].step = "write"
    /\ CasWrite(Derived(w))
    /\ WorkerGoesOn(w, [workers[w] EXCEPT !.step = "finish", !.load = 0, !.seen = NoKey])
    /\ UNCHANGED <<jobs, faults>>

\* markReconJobCompleted with ownership.
CompleteJob(w) ==
    /\ workers[w].step = "finish"
    /\ jobs' = IF Owns(w)
               THEN [jobs EXCEPT ![workers[w].job] = Unlocked(@, "COMPLETED")] ELSE jobs
    /\ WorkerGoesOn(w, IdleWorker)
    /\ UNCHANGED <<key, faults>>

\* A step of the job throws; a failed write deletes the key.
StepFails(w) ==
    /\ workers[w].step \notin {"idle", "fail"}
    /\ faults < MaxFaults /\ faults' = faults + 1
    /\ IF workers[w].step = "write" THEN WriteFails ELSE UNCHANGED key
    /\ WorkerGoesOn(w, [workers[w] EXCEPT !.step = "fail", !.load = 0, !.seen = NoKey])
    /\ UNCHANGED jobs

FailJob(w) ==
    /\ workers[w].step = "fail"
    /\ jobs' = IF ~Owns(w) THEN jobs
               ELSE [jobs EXCEPT ![workers[w].job] =
                       Unlocked(@, IF workers[w].attempts >= MaxAttempts
                                   THEN "DEAD" ELSE "PENDING")]
    /\ WorkerGoesOn(w, IdleWorker)
    /\ UNCHANGED <<key, faults>>

WorkerCrashes(w) ==
    /\ workers[w].step # "idle"
    /\ faults < MaxFaults /\ faults' = faults + 1
    /\ WorkerGoesOn(w, IdleWorker)
    /\ UNCHANGED <<jobs, key>>

\* A lease runs out when its owner is gone; when the owner is slow, that is a fault.
LeaseExpires(r) ==
    /\ jobs[r].status = "PROCESSING" /\ jobs[r].leased
    /\ IF \E w \in Workers : workers[w].job = r /\ workers[w].step # "idle" /\ Owns(w)
       THEN faults < MaxFaults /\ faults' = faults + 1
       ELSE UNCHANGED faults
    /\ jobs' = [jobs EXCEPT ![r].leased = FALSE]
    /\ UNCHANGED <<load, revision, loadAt, key, requests, workers, spins>>

----------------------------------------------------------------------------
(* getOrHydrateRuntime, for a driver's spin. *)

SpinGoesOn(s, row) ==
    /\ spins' = [spins EXCEPT ![s] = row]
    /\ UNCHANGED <<load, revision, loadAt, jobs, requests, workers>>

\* It found no key or could not read it, whatever the key is by now, and reads the
\* driver from PostgreSQL.
SpinHydrates(s) ==
    /\ spins[s].step = "idle"
    /\ faults < MaxFaults /\ faults' = faults + 1
    /\ SpinGoesOn(s, [step |-> "write", load |-> load])
    /\ UNCHANGED key

Hydrated(n) == [rev |-> 0, work |-> BusyOr("OFFLINE", n), load |-> n]

SpinWrites(s) ==
    /\ spins[s].step = "write"
    /\ CasWrite(Hydrated(spins[s].load)) \/ WriteFails
    /\ SpinGoesOn(s, IdleSpin)
    /\ UNCHANGED faults

----------------------------------------------------------------------------

RequestStep == \E q \in requests :
    \/ ReadRuntime(q)
    \/ CountOrders(q)
    \/ WriteRuntime(q)
    \/ MarkCompleted(q)
    \/ DeleteAtLogout(q)
    \/ GiveUp(q)

WorkerStep(w) ==
    \/ \E r \in 1 .. revision : ClaimJob(w, r)
    \/ RenewLease(w)
    \/ CheckRevision(w)
    \/ HydrateJob(w)
    \/ ReadExisting(w)
    \/ WriteDerived(w)
    \/ CompleteJob(w)
    \/ FailJob(w)

SpinStep(s) == SpinHydrates(s) \/ SpinWrites(s)

Next ==
    \/ \E kind \in Kinds : Commit(kind)
    \/ RequestStep
    \/ KeyIsLost
    \/ \E w \in Workers : WorkerStep(w) \/ StepFails(w) \/ WorkerCrashes(w)
    \/ \E r \in 1 .. revision : LeaseExpires(r)
    \/ \E s \in Spins : SpinStep(s)

Spec == Init /\ [][Next]_vars

\* A lease whose owner is gone runs out by itself.
OrphanExpires(r) == LeaseExpires(r) /\ UNCHANGED faults

\* The workers poll on a timer; nothing else is bound to go on.
FairSpec ==
    /\ Spec
    /\ \A w \in Workers : WF_vars(WorkerStep(w))
    /\ \A r \in Revisions : WF_vars(OrphanExpires(r))

----------------------------------------------------------------------------
(* Properties. *)

\* A state in Redis is never older than the revision it carries: whoever wrote it
\* knew the load at that commit or at a later one.  So a key at the driver's own
\* revision tells his load.
RevisedIsNotOlder ==
    key # NoKey => /\ \E r \in key.rev .. revision : key.load = loadAt[r]
                   /\ key.work = "BUSY" <=> key.load > 0

\* Nothing takes the key back: late requests, late workers and hydrations lose
\* against a state of a newer revision, unless the key is gone.
KeyRevisionAdvances == [][key' = NoKey \/ key'.rev >= key.rev]_vars

\* Both: at every moment, and from one write to the next.
KeyIsSound == []RevisedIsNotOlder /\ KeyRevisionAdvances

\* The newest job, left by its request or by a worker that crashed, is brought to its
\* end by the workers once nobody is at work who read the load before: Redis tells the
\* load or has no key, or the job is DEAD, or a new commit came.
LeftToWorkers ==
    /\ jobs[revision].status \in {"PENDING", "PROCESSING"}
    /\ requests = {}
    /\ \A w \in Workers : workers[w].step \in {"idle", "renew", "check"}
    /\ \A s \in Spins : spins[s].step # "write"

RuntimeHeals ==
    LeftToWorkers ~>
        \/ jobs[revision].status = "COMPLETED" /\ (key = NoKey \/ key.load = load)
        \/ jobs[revision].status = "DEAD"
        \/ requests # {}

=============================================================================

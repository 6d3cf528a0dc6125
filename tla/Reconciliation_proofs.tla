------------------------ MODULE Reconciliation_proofs -----------------------
(***************************************************************************)
(* The safety properties of CityOfferIndex and DriverRuntime, which follow *)
(* PostgreSQL into Redis by the same means, proved for any rounds, workers *)
(* and spins.                                                              *)
(*                                                                         *)
(* That a completed revision leaves the index right is not inductive: late *)
(* requests, workers and spins may still write.  IInv says of each of them *)
(* what it is about to write: under the newest revision it is the OPEN     *)
(* rounds or a change to them that has been made, and anything older is    *)
(* refused once the index has that revision.  RuntimeInv says of a         *)
(* driver's key, and of everybody about to write it, that the load was so  *)
(* at the commit of its revision or at a later one.                        *)
(***************************************************************************)
EXTENDS CityOfferIndex, TLAPS

USE IndexAssumption DEF IndexAssumption

----------------------------------------------------------------------------
(* The inductive invariant. *)

\* The index has the newest revision and is right.
Fresh == index = open /\ indexRev = revision

\* Nothing is ahead of PostgreSQL, and a round that is yet to open is nowhere.
Bounded ==
    /\ indexRev <= revision /\ synced <= revision
    /\ open \cap unopened = {} /\ index \cap unopened = {}

\* What the request of a commit changes has changed in PostgreSQL, and it is the newest
\* change for as long as its revision is the newest.
RequestSound(q) ==
    /\ q.revision <= revision
    /\ q.kind \in {"OPEN", "CLOSE"} => q.round \in Rounds \ unopened
    /\ q.revision = revision =>
           /\ q.kind = "OPEN"  => q.round \in open
           /\ q.kind = "CLOSE" => q.round \notin open

\* A worker that nobody has overtaken writes the OPEN rounds, or has written them.
WorkerSound(w) ==
    /\ workers[w].claimed <= revision
    /\ workers[w].step = "rebuild" =>
           /\ workers[w].rows \cap unopened = {}
           /\ workers[w].claimed = revision => workers[w].rows = open
    /\ workers[w].step \in {"renewAgain", "finish"} /\ workers[w].claimed = revision /\ ~misstamped
           => Fresh

\* What a spin has not seen OPEN was closed before; what it is about to write under the
\* newest revision are the OPEN rounds, unless it has stamped them wrongly.
SpinSound(s) ==
    /\ spins[s].ids \cap unopened = {} /\ spins[s].rows \cap unopened = {}
    /\ spins[s].step = "drop" => Stale(s) \cap open = {}
    /\ spins[s].revision <= revision
    /\ spins[s].step = "rebuild" /\ spins[s].revision = revision /\ ~misstamped
           => spins[s].rows = open

IInv ==
    /\ TypeOK
    /\ Bounded
    /\ ActiveJobIsCurrent
    /\ synced = revision /\ ~misstamped => Fresh
    /\ \A q \in requests : RequestSound(q)
    /\ \A w \in Workers : WorkerSound(w)
    /\ \A s \in Spins : SpinSound(s)

LEMMA InitInv == Init => IInv
<1> SUFFICES ASSUME Init PROVE IInv
  OBVIOUS
<1>1. TypeOK
  <2>1. 0 \in Revisions /\ 0 \in 0 .. MaxAttempts /\ 0 \in 0 .. MaxFaults
    BY DEF Revisions
  <2>2. IdleWorker \in WorkerRow /\ IdleSpin \in SpinRow
    BY <2>1 DEF WorkerRow, SpinRow, IdleWorker, IdleSpin
  <2>3. job \in JobRow
    BY <2>1 DEF Init, JobRow
  <2>. QED  BY <2>1, <2>2, <2>3 DEF Init, TypeOK
<1>2. Bounded /\ ActiveJobIsCurrent /\ Fresh
  BY DEF Init, Bounded, ActiveJobIsCurrent, Active, Fresh
<1>3. \A q \in requests : RequestSound(q)
  BY DEF Init
<1>4. \A w \in Workers : WorkerSound(w)
  BY DEF Init, WorkerSound, IdleWorker
<1>5. \A s \in Spins : SpinSound(s)
  BY DEF Init, SpinSound, IdleSpin
<1>. QED  BY <1>1, <1>2, <1>3, <1>4, <1>5 DEF IInv

----------------------------------------------------------------------------
(* Commits. *)

\* The job a commit leaves is for its revision.
LEMMA EnqueueKeeps ==
    ASSUME TypeOK, EnqueueRecon
    PROVE  /\ revision' = revision + 1 /\ revision \in Nat /\ revision' \in Revisions
           /\ job' \in JobRow /\ (Active' => job'.expected = revision')
<1>1. /\ revision \in Nat /\ revision' = revision + 1 /\ revision' \in Revisions
      /\ job \in JobRow
  BY DEF TypeOK, EnqueueRecon, Revisions
<1>2. CASE Active
  <2>1. job' = [job EXCEPT !.expected = revision']
    BY <1>1, <1>2 DEF EnqueueRecon
  <2>. QED  BY <1>1, <2>1 DEF JobRow
<1>3. CASE ~Active
  <2>1. job' = [ id |-> revision', status |-> "PENDING", expected |-> revision', attempts |-> 0,
                 lockedBy |-> "nobody", leased |-> FALSE ]
    BY <1>1, <1>3 DEF EnqueueRecon
  <2>. QED  BY <1>1, <2>1 DEF JobRow
<1>. QED  BY <1>1, <1>2, <1>3

\* A new revision makes all that is under way old, but for the request of the commit.
LEMMA CommitKeeps ==
    ASSUME IInv, NEW kind, NEW r \in Rounds \cup {"none"}, Commit(kind, r),
           open' \subseteq Rounds, unopened' \subseteq unopened, open' \cap unopened' = {},
           open' \subseteq open \cup unopened,
           kind \in {"OPEN", "CLOSE"} => r \in Rounds \ unopened',
           kind = "OPEN" => r \in open', kind = "CLOSE" => r \notin open',
           \A s \in Spins : Stale(s) \cap open = {} => Stale(s) \cap open' = {}
                            \/ spins[s].ids \cap unopened # {}
    PROVE  IInv'
<1>1. /\ revision' = revision + 1 /\ revision \in Nat /\ revision' \in Revisions
      /\ job' \in JobRow /\ (Active' => job'.expected = revision')
  BY EnqueueKeeps DEF IInv, Commit
<1>2. UNCHANGED <<index, indexRev, workers, spins, faults, synced, misstamped>>
  BY DEF Commit
<1> DEFINE new == [ kind |-> kind, round |-> r, revision |-> revision + 1,
                    job |-> job'.id, applied |-> FALSE ]
<1>3. new \in Request /\ requests' = requests \cup {new}
  BY <1>1 DEF Commit, Request, JobRow, IndexAssumption
<1>4. TypeOK'
  BY <1>1, <1>2, <1>3 DEF IInv, TypeOK
<1>5. indexRev <= revision /\ synced <= revision /\ indexRev \in Nat /\ synced \in Nat
  BY DEF IInv, TypeOK, Bounded, Revisions
<1>6. Bounded' /\ ActiveJobIsCurrent' /\ synced' # revision'
  BY <1>1, <1>2, <1>5 DEF IInv, Bounded, ActiveJobIsCurrent
<1>7. ASSUME NEW q \in requests' PROVE RequestSound(q)'
  <2>1. CASE q = new
    BY <1>1, <2>1 DEF RequestSound
  <2>2. CASE q \in requests
    <3>1. RequestSound(q) /\ q.revision \in Nat
      BY <2>2 DEF IInv, TypeOK, Request, Revisions
    <3>. QED  BY <1>1, <3>1 DEF RequestSound
  <2>. QED  BY <1>3, <1>7, <2>1, <2>2
<1>8. ASSUME NEW w \in Workers PROVE WorkerSound(w)'
  <2>1. WorkerSound(w) /\ workers[w].claimed \in Nat
    BY <1>8 DEF IInv, TypeOK, WorkerRow, Revisions
  <2>2. workers[w].claimed <= revision' /\ workers[w].claimed # revision'
    BY <1>1, <2>1 DEF WorkerSound
  <2>. QED  BY <1>2, <2>1, <2>2 DEF WorkerSound
<1>9. ASSUME NEW s \in Spins PROVE SpinSound(s)'
  <2>1. SpinSound(s) /\ spins[s].revision \in Nat
    BY <1>9 DEF IInv, TypeOK, SpinRow, Revisions
  <2>2. spins[s].revision <= revision' /\ spins[s].revision # revision'
    BY <1>1, <2>1 DEF SpinSound
  <2>3. Stale(s)' = Stale(s)
    BY <1>2 DEF Stale
  <2>4. spins[s].step = "drop" => Stale(s) \cap open' = {}
    BY <2>1 DEF SpinSound
  <2>. QED  BY <1>2, <2>1, <2>2, <2>3, <2>4 DEF SpinSound
<1>. QED  BY <1>4, <1>6, <1>7, <1>8, <1>9 DEF IInv

LEMMA CommitsKeep ==
    ASSUME IInv, (\E r \in Rounds : CommitOpen(r) \/ CommitClose(r)) \/ CommitTouch
    PROVE  IInv'
<1>1. /\ open \subseteq Rounds /\ unopened \subseteq Rounds /\ open \cap unopened = {}
      /\ \A s \in Spins : spins[s].ids \cap unopened = {}
  BY DEF IInv, TypeOK, Bounded, SpinSound
<1>2. ASSUME NEW r \in Rounds, CommitOpen(r) PROVE IInv'
  <2>1. PICK kind \in {"OPEN", "REOFFER"} : Commit(kind, r)
    BY <1>2 DEF CommitOpen
  <2>2. r \in unopened /\ open' = open \cup {r} /\ unopened' = unopened \ {r}
    BY <1>2 DEF CommitOpen
  <2>3. \A s \in Spins : r \notin Stale(s)
    BY <1>1, <2>2 DEF Stale
  <2>. QED  BY <1>1, <2>1, <2>2, <2>3, CommitKeeps
<1>3. ASSUME NEW r \in Rounds, CommitClose(r) PROVE IInv'
  <2>1. Commit("CLOSE", r) /\ r \in open /\ open' = open \ {r} /\ unopened' = unopened
    BY <1>3 DEF CommitClose
  <2>. QED  BY <1>1, <2>1, CommitKeeps
<1>4. CASE CommitTouch
  <2>1. Commit("TOUCH", "none") /\ open' = open /\ unopened' = unopened
    BY <1>4 DEF CommitTouch
  <2>. QED  BY <1>1, <2>1, CommitKeeps
<1>. QED  BY <1>2, <1>3, <1>4

----------------------------------------------------------------------------
(* Writes of the index. *)

\* What a write must be to do no harm: nothing that is yet to open, no revision from the
\* future, and under the newest revision the OPEN rounds.
Harmless(members, rev) ==
    /\ members \subseteq Rounds /\ members \cap unopened = {}
    /\ rev \in Revisions /\ rev <= revision
    /\ (rev = revision /\ ~misstamped) => members = open

\* What it then leaves: a fresh index stays fresh, and after a write under the newest
\* revision it is fresh.
IndexKept ==
    /\ index' \subseteq Rounds /\ index' \cap unopened = {}
    /\ indexRev' \in Revisions /\ indexRev' >= indexRev /\ indexRev' <= revision
    /\ Fresh /\ ~misstamped => index' = open /\ indexRev' = revision

LEMMA WriteKeeps ==
    ASSUME IInv, NEW members, NEW rev, Harmless(members, rev), CasWrite(members, rev)
    PROVE  /\ IndexKept
           /\ rev = revision /\ ~misstamped => index' = open /\ indexRev' = revision
<1>1. /\ indexRev \in Nat /\ revision \in Nat /\ rev \in Nat /\ indexRev <= revision
      /\ indexRev \in Revisions /\ index \subseteq Rounds /\ index \cap unopened = {}
  BY DEF IInv, TypeOK, Bounded, Revisions, Harmless
<1>2. CASE indexRev > rev
  <2>1. index' = index /\ indexRev' = indexRev
    BY <1>2 DEF CasWrite
  <2>. QED  BY <1>1, <1>2, <2>1 DEF IndexKept, Fresh
<1>3. CASE ~(indexRev > rev)
  <2>1. index' = members /\ indexRev' = rev
    BY <1>3 DEF CasWrite
  <2>2. Fresh => rev = revision
    BY <1>1, <1>3 DEF Fresh, Harmless
  <2>. QED  BY <1>1, <1>3, <2>1, <2>2 DEF IndexKept, Harmless
<1>. QED  BY <1>2, <1>3

\* A step that commits nothing keeps the invariant if it keeps the index, and the soundness
\* of what it writes besides.
LEMMA StepKeeps ==
    ASSUME IInv, UNCHANGED <<open, unopened, revision>>, misstamped => misstamped', IndexKept,
           TypeOK', ActiveJobIsCurrent', synced' \in {synced, revision},
           synced' # synced /\ ~misstamped => index' = open /\ indexRev' = revision,
           \A q \in requests' : RequestSound(q)',
           \A w \in Workers : workers'[w] # workers[w] => WorkerSound(w)',
           \A s \in Spins : spins'[s] # spins[s] => SpinSound(s)'
    PROVE  IInv'
<1>1. Fresh' <=> index' = open /\ indexRev' = revision
  BY DEF Fresh
<1>2. Bounded'
  BY DEF IInv, TypeOK, Bounded, IndexKept, Revisions
<1>3. synced' = revision' /\ ~misstamped' => Fresh'
  BY <1>1 DEF IInv, IndexKept
<1>4. ASSUME NEW w \in Workers, workers'[w] = workers[w] PROVE WorkerSound(w)'
  BY <1>1, <1>4 DEF IInv, WorkerSound, IndexKept
<1>5. ASSUME NEW s \in Spins, spins'[s] = spins[s] PROVE SpinSound(s)'
  BY <1>5 DEF IInv, SpinSound, Stale
<1>. QED  BY <1>2, <1>3, <1>4, <1>5 DEF IInv

\* A step that leaves the index alone keeps it.
LEMMA SameIndex ==
    ASSUME IInv, UNCHANGED <<index, indexRev>> PROVE IndexKept
BY DEF IInv, TypeOK, Bounded, IndexKept, Fresh, Revisions

----------------------------------------------------------------------------
(* The requests. *)

LEMMA ApplyWrites ==
    ASSUME IInv, NEW q \in requests, Apply(q) PROVE IndexKept
<1>1. /\ q \in Request /\ RequestSound(q)
      /\ index \subseteq Rounds /\ index \cap unopened = {} /\ open \cap unopened = {}
      /\ open \subseteq Rounds
      /\ indexRev \in Nat /\ revision \in Nat /\ indexRev <= revision
  BY DEF IInv, TypeOK, Bounded, Revisions
<1>2. q.revision \in Revisions /\ q.revision \in Nat /\ q.revision <= revision
  BY <1>1 DEF Request, Revisions, RequestSound
\* An index with a newer revision is left alone; an older one is not fresh, before or after.
<1>3. ASSUME NEW members \in {index \cup {q.round}, index \ {q.round}},
             CasWrite(members, q.revision), members \subseteq Rounds, members \cap unopened = {},
             q.revision = revision /\ index = open => members = open
      PROVE  IndexKept
  <2>1. CASE indexRev > q.revision
    <3>1. UNCHANGED <<index, indexRev>>
      BY <1>3, <2>1 DEF CasWrite
    <3>. QED  BY <3>1, SameIndex
  <2>2. CASE ~(indexRev > q.revision)
    <3>1. index' = members /\ indexRev' = q.revision
      BY <1>3, <2>2 DEF CasWrite
    <3>2. Fresh => q.revision = revision
      BY <1>1, <1>2, <2>2 DEF Fresh
    <3>. QED  BY <1>1, <1>2, <1>3, <2>2, <3>1, <3>2 DEF IndexKept, Fresh
  <2>. QED  BY <2>1, <2>2
<1>4. CASE q.kind = "OPEN"
  <2>1. CasWrite(index \cup {q.round}, q.revision)
    BY <1>4 DEF Apply
  <2>2. q.round \in Rounds \ unopened /\ (q.revision = revision => q.round \in open)
    BY <1>1, <1>4 DEF RequestSound
  <2>. QED  BY <1>1, <1>3, <2>1, <2>2
<1>5. CASE q.kind = "CLOSE"
  <2>1. CasWrite(index \ {q.round}, q.revision)
    BY <1>5 DEF Apply
  <2>2. q.revision = revision => q.round \notin open
    BY <1>1, <1>5 DEF RequestSound
  <2>. QED  BY <1>1, <1>3, <2>1, <2>2
<1>6. CASE q.kind \notin {"OPEN", "CLOSE"}
  <2>1. UNCHANGED <<index, indexRev>>
    BY <1>6 DEF Apply
  <2>. QED  BY <2>1, SameIndex
<1>. QED  BY <1>4, <1>5, <1>6

LEMMA RequestsKeep ==
    ASSUME IInv, NEW q \in requests, Apply(q) \/ MarkCompleted(q) \/ GiveUp(q) PROVE IInv'
<1>1. q \in Request /\ RequestSound(q) /\ job \in JobRow
  BY DEF IInv, TypeOK
<1>2. UNCHANGED <<open, unopened, revision, workers, spins, faults, synced, misstamped>>
  BY DEF Apply, MarkCompleted, GiveUp
<1>3. \A p \in requests : RequestSound(p)'
  BY <1>2 DEF IInv, RequestSound
<1>4. CASE Apply(q)
  <2>1. IndexKept
    BY <1>4, ApplyWrites
  <2> DEFINE done == [q EXCEPT !.applied = TRUE]
  <2>2. done \in Request /\ requests' = (requests \ {q}) \cup {done} /\ job' = job
    BY <1>1, <1>4 DEF Apply, Request
  <2>3. RequestSound(done)'
    <3>1. done.kind = q.kind /\ done.round = q.round /\ done.revision = q.revision
      BY <1>1 DEF Request
    <3> HIDE DEF done
    <3>. QED  BY <1>1, <1>2, <3>1 DEF RequestSound
  <2>4. TypeOK'
    BY <1>2, <2>1, <2>2 DEF IInv, TypeOK, IndexKept
  <2>5. ActiveJobIsCurrent'
    BY <1>2, <2>2 DEF IInv, ActiveJobIsCurrent, Active
  <2> HIDE DEF done
  <2>. QED  BY <1>2, <1>3, <2>1, <2>2, <2>3, <2>4, <2>5, StepKeeps
<1>5. CASE MarkCompleted(q) \/ GiveUp(q)
  <2>1. requests' \subseteq requests /\ UNCHANGED <<index, indexRev>>
    BY <1>5 DEF MarkCompleted, GiveUp
  <2>2. job' \in JobRow /\ (job' = job \/ ~Active')
    <3>1. job' = job \/ job' = [Unlocked(job) EXCEPT !.status = "COMPLETED"]
      BY <1>5 DEF MarkCompleted, GiveUp
    <3>. QED  BY <1>1, <3>1 DEF Unlocked, JobRow, Active
  <2>3. TypeOK'
    BY <1>2, <2>1, <2>2 DEF IInv, TypeOK
  <2>4. ActiveJobIsCurrent'
    BY <1>2, <2>2 DEF IInv, ActiveJobIsCurrent, Active
  <2>. QED  BY <1>2, <1>3, <2>1, <2>3, <2>4, SameIndex, StepKeeps
<1>. QED  BY <1>4, <1>5

----------------------------------------------------------------------------
(* The workers. *)

\* A step of worker w that leaves requests and spins alone, what the completion of a
\* job says being true.
LEMMA WorkerKeeps ==
    ASSUME IInv, NEW w \in Workers, IndexKept,
           UNCHANGED <<open, unopened, revision, requests, spins, misstamped>>,
           faults' \in 0 .. MaxFaults, job' \in JobRow, job'.expected = revision \/ ~Active',
           workers' = [workers EXCEPT ![w] = workers'[w]],
           workers'[w] \in WorkerRow, WorkerSound(w)',
           synced' \in {synced, revision},
           synced' # synced /\ ~misstamped => index' = open /\ indexRev' = revision
    PROVE  IInv'
<1>1. TypeOK'
  BY DEF IInv, TypeOK, IndexKept
<1>2. ActiveJobIsCurrent'
  BY DEF ActiveJobIsCurrent
<1>3. \A q \in requests' : RequestSound(q)'
  BY DEF IInv, RequestSound
<1>4. \A v \in Workers : workers'[v] # workers[v] => v = w
  BY DEF IInv, TypeOK
<1>. QED  BY <1>1, <1>2, <1>3, <1>4, StepKeeps

LEMMA StoppedIsSound ==
    ASSUME IInv, NEW w \in Workers, WorkerStops(w), revision' = revision
    PROVE  /\ workers' = [workers EXCEPT ![w] = workers'[w]]
           /\ workers'[w] \in WorkerRow /\ WorkerSound(w)'
<1>1. workers'[w] = IdleWorker
  BY DEF IInv, TypeOK, WorkerStops
<1>2. IdleWorker \in WorkerRow
  BY DEF IdleWorker, WorkerRow, Revisions
<1>3. revision' >= 0
  BY DEF IInv, TypeOK, Revisions
<1>4. workers'[w].step = "idle" /\ workers'[w].claimed = 0
  BY <1>1 DEF IdleWorker
<1>5. WorkerSound(w)'
  BY <1>3, <1>4 DEF WorkerSound
<1>. QED  BY <1>1, <1>2, <1>5 DEF WorkerStops

LEMMA JobRows ==
    ASSUME IInv
    PROVE  /\ job \in JobRow /\ (Active => job.expected = revision)
           /\ revision \in Revisions /\ revision \in Nat /\ faults \in 0 .. MaxFaults
           /\ \A w \in Workers : /\ workers[w] \in WorkerRow /\ WorkerSound(w)
                                 /\ workers[w].claimed \in Nat
BY DEF IInv, TypeOK, ActiveJobIsCurrent, Revisions, WorkerRow

LEMMA ClaimKeeps == ASSUME IInv, NEW w \in Workers, ClaimJob(w) PROVE IInv'
<1>1. Active
  BY DEF ClaimJob, Due, Active
<1>2. PICK attempts \in 0 .. MaxAttempts :
          /\ job' = [job EXCEPT !.status = "PROCESSING", !.attempts = attempts,
                                !.lockedBy = w, !.leased = TRUE]
          /\ workers' = [workers EXCEPT ![w] =
                           [ step |-> "renew", job |-> job.id, claimed |-> job.expected,
                             attempts |-> attempts, rows |-> {} ]]
  <2>1. (IF job.attempts < MaxAttempts THEN job.attempts + 1 ELSE MaxAttempts) \in 0 .. MaxAttempts
    BY DEF IInv, TypeOK, JobRow, IndexAssumption
  <2>. QED  BY <2>1 DEF ClaimJob
<1>3. job' \in JobRow /\ job'.expected = revision
  BY <1>1, <1>2, JobRows DEF JobRow
<1>4. workers'[w] = [ step |-> "renew", job |-> job.id, claimed |-> job.expected,
                      attempts |-> attempts, rows |-> {} ]
  BY <1>2 DEF IInv, TypeOK
<1>5. workers'[w] \in WorkerRow
  BY <1>4, JobRows DEF WorkerRow, JobRow
<1>6. WorkerSound(w)'
  BY <1>1, <1>4, JobRows DEF WorkerSound, ClaimJob
<1>7. workers' = [workers EXCEPT ![w] = workers'[w]]
  BY <1>2, <1>4
<1>8. UNCHANGED <<open, unopened, revision, index, indexRev, requests, spins, faults, synced, misstamped>>
  BY DEF ClaimJob
<1>. QED  BY <1>3, <1>5, <1>6, <1>7, <1>8, JobRows, SameIndex, WorkerKeeps

LEMMA RenewKeeps == ASSUME IInv, NEW w \in Workers, RenewLease(w) PROVE IInv'
<1>1. UNCHANGED <<open, unopened, revision, index, indexRev, requests, spins, faults, synced, misstamped>>
  BY DEF RenewLease
<1>2. CASE Owns(w)
  <2>1. job' = [job EXCEPT !.leased = TRUE]
    BY <1>2 DEF RenewLease
  <2>2. PICK step \in {"read", "finish"} :
          /\ workers' = [workers EXCEPT ![w].step = step]
          /\ step = "finish" => workers[w].step = "renewAgain"
    BY <1>2 DEF RenewLease, WorkerGoesOn
  <2>3. workers[w] \in WorkerRow
    BY JobRows
  <2>4. workers'[w] = [workers[w] EXCEPT !.step = step]
    BY <2>2 DEF IInv, TypeOK
  <2>5. /\ workers'[w] \in WorkerRow /\ workers'[w].step = step
        /\ workers'[w].claimed = workers[w].claimed
    BY <2>3, <2>4 DEF WorkerRow
  <2>6. WorkerSound(w)'
    BY <1>1, <2>2, <2>5, JobRows DEF WorkerSound, Fresh
  <2>7. workers' = [workers EXCEPT ![w] = workers'[w]]
    BY <2>2, <2>4
  <2>8. job' \in JobRow /\ job'.expected = revision
    BY <1>2, <2>1, JobRows DEF JobRow, Owns, Active
  <2>. QED  BY <1>1, <2>5, <2>6, <2>7, <2>8, JobRows, SameIndex, WorkerKeeps
<1>3. CASE ~Owns(w)
  <2>1. WorkerStops(w) /\ job' = job
    BY <1>3 DEF RenewLease
  <2>2. job'.expected = revision \/ ~Active'
    BY <2>1, JobRows DEF Active
  <2>. QED  BY <1>1, <2>1, <2>2, JobRows, SameIndex, StoppedIsSound, WorkerKeeps
<1>. QED  BY <1>2, <1>3

LEMMA ReadKeeps == ASSUME IInv, NEW w \in Workers, ReadOpenRounds(w) PROVE IInv'
<1>1. UNCHANGED <<open, unopened, revision, job, index, indexRev, requests, spins, faults,
                  synced, misstamped>>
  BY DEF ReadOpenRounds
<1>2. workers'[w] = [workers[w] EXCEPT !.step = "rebuild", !.rows = open]
  BY DEF IInv, TypeOK, ReadOpenRounds
<1>3. workers' = [workers EXCEPT ![w] = workers'[w]]
  BY <1>2 DEF IInv, TypeOK, ReadOpenRounds
<1>4. open \subseteq Rounds /\ open \cap unopened = {}
  BY DEF IInv, TypeOK, Bounded
<1>5. /\ workers'[w] \in WorkerRow /\ workers'[w].step = "rebuild" /\ workers'[w].rows = open
      /\ workers'[w].claimed = workers[w].claimed
  BY <1>2, <1>4, JobRows DEF WorkerRow
<1>6. WorkerSound(w)'
  BY <1>1, <1>4, <1>5, JobRows DEF WorkerSound
<1>7. job'.expected = revision \/ ~Active'
  BY <1>1, JobRows DEF Active
<1>. QED  BY <1>1, <1>3, <1>5, <1>6, <1>7, JobRows, SameIndex, WorkerKeeps

\* The rebuilt index is right, if nothing was committed since the job was claimed.
LEMMA RebuildKeeps == ASSUME IInv, NEW w \in Workers, RebuildIndex(w) PROVE IndexKept /\ IInv'
<1>1. UNCHANGED <<open, unopened, revision, job, requests, spins, faults, synced, misstamped>>
  BY DEF RebuildIndex
<1>2. workers'[w] = [workers[w] EXCEPT !.step = "renewAgain"]
  BY DEF IInv, TypeOK, RebuildIndex, WorkerGoesOn
<1>3. workers' = [workers EXCEPT ![w] = workers'[w]]
  BY <1>2 DEF IInv, TypeOK, RebuildIndex, WorkerGoesOn
<1>4. /\ workers'[w] \in WorkerRow /\ workers'[w].step = "renewAgain"
      /\ workers'[w].claimed = workers[w].claimed
  BY <1>2, JobRows DEF WorkerRow
<1>5. Harmless(workers[w].rows, workers[w].claimed)
  BY JobRows DEF Harmless, WorkerRow, WorkerSound, RebuildIndex
<1>6. /\ IndexKept
      /\ workers[w].claimed = revision /\ ~misstamped => index' = open /\ indexRev' = revision
  BY <1>5, WriteKeeps DEF RebuildIndex
<1>7. WorkerSound(w)'
  BY <1>1, <1>4, <1>6, JobRows DEF WorkerSound, Fresh
<1>8. job'.expected = revision \/ ~Active'
  BY <1>1, JobRows DEF Active
<1>. QED  BY <1>1, <1>3, <1>4, <1>6, <1>7, <1>8, JobRows, WorkerKeeps

\* A worker completes only what nobody has overtaken.
LEMMA CompleteKeeps == ASSUME IInv, NEW w \in Workers, CompleteOrRequeue(w) PROVE IInv'
<1>1. /\ UNCHANGED <<open, unopened, revision, index, indexRev, requests, spins, faults, misstamped>>
      /\ WorkerStops(w)
  BY DEF CompleteOrRequeue
<1>2. CASE ~Owns(w)
  <2>1. job' = job /\ synced' = synced
    BY <1>2 DEF CompleteOrRequeue
  <2>2. job'.expected = revision \/ ~Active'
    BY <2>1, JobRows DEF Active
  <2>. QED  BY <1>1, <2>1, <2>2, JobRows, SameIndex, StoppedIsSound, WorkerKeeps
<1>3. CASE Owns(w) /\ Overtaken(w)
  <2>1. job' = [Unlocked(job) EXCEPT !.status = "PENDING", !.expected = revision] /\ synced' = synced
    BY <1>3 DEF CompleteOrRequeue
  <2>2. job' \in JobRow /\ job'.expected = revision
    BY <2>1, JobRows DEF Unlocked, JobRow
  <2>. QED  BY <1>1, <2>1, <2>2, JobRows, SameIndex, StoppedIsSound, WorkerKeeps
<1>4. CASE Owns(w) /\ ~Overtaken(w)
  <2>1. job' = [Unlocked(job) EXCEPT !.status = "COMPLETED"] /\ synced' = revision
    BY <1>4 DEF CompleteOrRequeue
  <2>2. job' \in JobRow /\ ~Active'
    BY <2>1, JobRows DEF Unlocked, JobRow, Active
  <2>3. workers[w].claimed = revision
    BY <1>4, JobRows DEF Overtaken, WorkerSound
  <2>4. ~misstamped => index' = open /\ indexRev' = revision
    BY <1>1, <2>3, JobRows DEF WorkerSound, CompleteOrRequeue, Fresh
  <2>. QED  BY <1>1, <2>1, <2>2, <2>4, JobRows, SameIndex, StoppedIsSound, WorkerKeeps
<1>. QED  BY <1>2, <1>3, <1>4

LEMMA FailKeeps == ASSUME IInv, NEW w \in Workers, FailJob(w) \/ WorkerCrashes(w) PROVE IInv'
<1>1. /\ UNCHANGED <<open, unopened, revision, index, indexRev, requests, spins, synced, misstamped>>
      /\ WorkerStops(w) /\ faults' \in 0 .. MaxFaults
  BY JobRows DEF FailJob, WorkerCrashes
<1>2. job' \in JobRow /\ (job'.expected = revision \/ ~Active')
  <2>1. CASE job' = job
    BY <2>1, JobRows DEF Active
  <2>2. CASE job' # job
    <3>1. /\ Owns(w)
          /\ \E status \in {"DEAD", "PENDING"} : job' = [Unlocked(job) EXCEPT !.status = status]
      BY <2>2 DEF FailJob, WorkerCrashes
    <3>. QED  BY <3>1, JobRows DEF Unlocked, JobRow, Owns, Active
  <2>. QED  BY <2>1, <2>2
<1>. QED  BY <1>1, <1>2, SameIndex, StoppedIsSound, WorkerKeeps

LEMMA StepFailsKeeps == ASSUME IInv, NEW w \in Workers, StepFails(w) PROVE IInv'
<1>1. UNCHANGED <<open, unopened, revision, job, index, indexRev, requests, spins, synced, misstamped>>
  BY DEF StepFails
<1>2. faults' \in 0 .. MaxFaults
  BY JobRows DEF StepFails
<1>3. workers'[w] = [workers[w] EXCEPT !.step = "fail"]
  BY DEF IInv, TypeOK, StepFails, WorkerGoesOn
<1>4. workers' = [workers EXCEPT ![w] = workers'[w]]
  BY <1>3 DEF StepFails, WorkerGoesOn, IInv, TypeOK
<1>5. /\ workers'[w] \in WorkerRow /\ workers'[w].step = "fail"
      /\ workers'[w].claimed = workers[w].claimed
  BY <1>3, JobRows DEF WorkerRow
<1>6. WorkerSound(w)'
  BY <1>1, <1>5, JobRows DEF WorkerSound
<1>7. job'.expected = revision \/ ~Active'
  BY <1>1, JobRows DEF Active
<1>. QED  BY <1>1, <1>2, <1>4, <1>5, <1>6, <1>7, JobRows, SameIndex, WorkerKeeps

LEMMA ExpiryKeeps == ASSUME IInv, LeaseExpires \/ LeaseTooShort PROVE IInv'
<1>1. /\ UNCHANGED <<open, unopened, revision, index, indexRev, requests, workers, spins, synced,
                     misstamped>>
      /\ job' = [job EXCEPT !.leased = FALSE]
  BY DEF LeaseExpires, LeaseTooShort, Expire
<1>2. faults' \in 0 .. MaxFaults
  BY JobRows DEF LeaseExpires, LeaseTooShort
<1>3. job' \in JobRow /\ job'.status = job.status /\ job'.expected = job.expected
  BY <1>1, JobRows DEF JobRow
<1>4. TypeOK' /\ ActiveJobIsCurrent'
  BY <1>1, <1>2, <1>3 DEF IInv, TypeOK, ActiveJobIsCurrent, Active
<1>5. \A q \in requests' : RequestSound(q)'
  BY <1>1 DEF IInv, RequestSound
<1>. QED  BY <1>1, <1>4, <1>5, SameIndex, StepKeeps

----------------------------------------------------------------------------
(* The spins. *)

LEMMA SpinRows ==
    ASSUME IInv, NEW s \in Spins
    PROVE  /\ spins[s] \in SpinRow /\ SpinSound(s)
           /\ spins[s].ids \subseteq Rounds /\ spins[s].rows \subseteq Rounds
           /\ spins[s].revision \in Revisions /\ spins[s].revision \in Nat
           /\ open \subseteq Rounds /\ index \subseteq Rounds
           /\ open \cap unopened = {} /\ index \cap unopened = {}
           /\ revision \in Revisions /\ revision \in Nat
BY DEF IInv, TypeOK, SpinRow, Bounded, Revisions

\* A step of spin s.
LEMMA SpinKeeps ==
    ASSUME IInv, NEW s \in Spins, NEW row \in SpinRow, SpinGoesOn(s, row), IndexKept,
           misstamped' \in BOOLEAN, misstamped => misstamped', faults' \in 0 .. MaxFaults,
           SpinSound(s)'
    PROVE  IInv'
<1>1. /\ UNCHANGED <<open, unopened, revision, job, requests, workers, synced>>
      /\ spins' = [spins EXCEPT ![s] = row]
  BY DEF SpinGoesOn
<1>2. TypeOK'
  BY <1>1 DEF IInv, TypeOK, IndexKept
<1>3. ActiveJobIsCurrent'
  BY <1>1 DEF IInv, ActiveJobIsCurrent, Active
<1>4. \A q \in requests' : RequestSound(q)'
  BY <1>1 DEF IInv, RequestSound
<1>5. \A t \in Spins : spins'[t] # spins[t] => t = s
  BY <1>1 DEF IInv, TypeOK
<1>. QED  BY <1>1, <1>2, <1>3, <1>4, <1>5, StepKeeps
LEMMA ListKeeps == ASSUME IInv, NEW s \in Spins, ListOpenOffers(s) PROVE IInv'
<1>1. UNCHANGED <<index, indexRev, misstamped, open, unopened, revision>>
  BY DEF ListOpenOffers, SpinGoesOn
<1>2. PICK ids \in {index, {}} :
          SpinGoesOn(s, [IdleSpin EXCEPT !.step = IF ids = {} THEN "read" ELSE "check", !.ids = ids])
  BY DEF ListOpenOffers
<1>3. PICK row \in SpinRow : /\ SpinGoesOn(s, row)
                             /\ row.step \in {"read", "check"} /\ row.ids = ids
                             /\ row.rows = {} /\ row.revision = 0
  <2>1. ASSUME NEW step \in {"read", "check"},
               SpinGoesOn(s, [IdleSpin EXCEPT !.step = step, !.ids = ids])
        PROVE  \E row \in SpinRow : /\ SpinGoesOn(s, row)
                                   /\ row.step \in {"read", "check"} /\ row.ids = ids
                                   /\ row.rows = {} /\ row.revision = 0
    <3> DEFINE row == [IdleSpin EXCEPT !.step = step, !.ids = ids]
    <3>1. row.step = step /\ row.ids = ids /\ row.rows = {} /\ row.revision = 0
      BY DEF IdleSpin
    <3>2. row \in SpinRow
      <4>1. IdleSpin \in SpinRow
        BY DEF IdleSpin, SpinRow, Revisions
      <4>2. ids \in SUBSET Rounds
        BY SpinRows
      <4>. QED  BY <4>1, <4>2 DEF SpinRow
    <3>3. SpinGoesOn(s, row)
      BY <2>1
    <3> HIDE DEF row
    <3>. QED  BY <3>1, <3>2, <3>3
  <2>2. CASE ids = {}
    BY <1>2, <2>1, <2>2
  <2>3. CASE ids # {}
    BY <1>2, <2>1, <2>3
  <2>. QED  BY <2>2, <2>3
<1>4. spins'[s] = row
  BY <1>3 DEF SpinGoesOn, IInv, TypeOK
<1>5. SpinSound(s)'
  BY <1>1, <1>3, <1>4, SpinRows DEF SpinSound
<1>6. faults' \in 0 .. MaxFaults /\ misstamped \in BOOLEAN
  BY DEF ListOpenOffers, IInv, TypeOK
<1>. QED  BY <1>1, <1>3, <1>5, <1>6, SameIndex, SpinKeeps

LEMMA CheckKeeps == ASSUME IInv, NEW s \in Spins, CheckOffers(s) PROVE IInv'
<1>1. UNCHANGED <<index, indexRev, misstamped, open, unopened, revision, faults>>
  BY DEF CheckOffers, SpinGoesOn
<1> DEFINE row == [spins[s] EXCEPT !.step = "drop", !.rows = spins[s].ids \cap open]
<1>2. /\ row \in SpinRow /\ row.step = "drop" /\ row.ids = spins[s].ids
      /\ row.rows = spins[s].ids \cap open /\ row.revision = spins[s].revision
  BY SpinRows DEF SpinRow
<1>3. SpinGoesOn(s, row) /\ spins'[s] = row
  BY DEF CheckOffers, SpinGoesOn, IInv, TypeOK
<1> HIDE DEF row
<1>4. SpinSound(s)'
  BY <1>1, <1>2, <1>3, SpinRows DEF SpinSound, Stale
<1>5. faults \in 0 .. MaxFaults /\ misstamped \in BOOLEAN
  BY DEF IInv, TypeOK
<1>. QED  BY <1>1, <1>2, <1>3, <1>4, <1>5, SameIndex, SpinKeeps

\* What a spin drops was closed when it looked, and no round opens twice.
LEMMA DropKeeps == ASSUME IInv, NEW s \in Spins, DropClosed(s) PROVE IndexKept /\ IInv'
<1>1. /\ UNCHANGED <<indexRev, misstamped, open, unopened, revision, faults>>
      /\ index' = index \ Stale(s)
  BY DEF DropClosed, SpinGoesOn
<1>2. Stale(s) \cap open = {}
  BY SpinRows DEF SpinSound, DropClosed
<1>3. IndexKept
  <2>1. IndexKept <=> /\ index' \subseteq Rounds /\ index' \cap unopened = {}
                      /\ Fresh /\ ~misstamped => index' = open
    BY <1>1 DEF IndexKept, Fresh, IInv, TypeOK, Bounded, Revisions
  <2>. QED  BY <1>1, <1>2, <2>1, SpinRows DEF Fresh
<1>4. PICK row \in SpinRow : /\ SpinGoesOn(s, row)
                             /\ row.step \in {"read", "idle"} /\ row.ids = {}
                             /\ row.rows = {} /\ row.revision = 0
  <2>1. PICK step \in {"read", "idle"} : SpinGoesOn(s, [IdleSpin EXCEPT !.step = step])
    BY DEF DropClosed, IdleSpin
  <2>. QED  BY <2>1, SpinRows DEF IdleSpin, SpinRow, Revisions
<1>5. spins'[s] = row
  BY <1>4 DEF SpinGoesOn, IInv, TypeOK
<1>6. SpinSound(s)'
  BY <1>1, <1>4, <1>5, SpinRows DEF SpinSound
<1>7. faults \in 0 .. MaxFaults /\ misstamped \in BOOLEAN
  BY DEF IInv, TypeOK
<1>. QED  BY <1>1, <1>3, <1>4, <1>6, <1>7, SpinKeeps

LEMMA SpinReadsKeeps == ASSUME IInv, NEW s \in Spins, SpinReads(s) PROVE IInv'
<1>1. UNCHANGED <<index, indexRev, misstamped, open, unopened, revision, faults>>
  BY DEF SpinReads, SpinGoesOn
<1>2. PICK row \in SpinRow : /\ SpinGoesOn(s, row)
                             /\ row.step \in {"revision", "idle"} /\ row.ids = {}
                             /\ row.rows \subseteq open /\ row.revision = 0
  <2>1. CASE open = {}
    BY <2>1, SpinRows DEF SpinReads, IdleSpin, SpinRow, Revisions
  <2>2. CASE open # {}
    <3>1. SpinGoesOn(s, [IdleSpin EXCEPT !.step = "revision", !.rows = open])
      BY <2>2 DEF SpinReads
    <3> DEFINE row == [IdleSpin EXCEPT !.step = "revision", !.rows = open]
    <3>2. row.step = "revision" /\ row.ids = {} /\ row.rows = open /\ row.revision = 0
      BY DEF IdleSpin
    <3>3. row \in SpinRow
      <4>1. IdleSpin \in SpinRow
        BY DEF IdleSpin, SpinRow, Revisions
      <4>2. open \in SUBSET Rounds
        BY SpinRows
      <4>. QED  BY <4>1, <4>2 DEF SpinRow
    <3> HIDE DEF row
    <3>. QED  BY <3>1, <3>2, <3>3 DEF row
  <2>. QED  BY <2>1, <2>2
<1>3. spins'[s] = row
  BY <1>2 DEF SpinGoesOn, IInv, TypeOK
<1>4. SpinSound(s)'
  BY <1>1, <1>2, <1>3, SpinRows DEF SpinSound
<1>5. faults \in 0 .. MaxFaults /\ misstamped \in BOOLEAN
  BY DEF IInv, TypeOK
<1>. QED  BY <1>1, <1>2, <1>4, <1>5, SameIndex, SpinKeeps

\* Rows that are not of the revision they are stamped with are on the record.
LEMMA SpinReadsRevisionKeeps == ASSUME IInv, NEW s \in Spins, SpinReadsRevision(s) PROVE IInv'
<1>1. UNCHANGED <<index, indexRev, open, unopened, revision, faults>>
  BY DEF SpinReadsRevision, SpinGoesOn
<1>2. misstamped' \in BOOLEAN /\ (misstamped => misstamped') /\ (~misstamped' => spins[s].rows = open)
  BY DEF SpinReadsRevision, IInv, TypeOK
<1> DEFINE row == [spins[s] EXCEPT !.step = "rebuild", !.revision = revision]
<1>3. /\ row \in SpinRow /\ row.step = "rebuild" /\ row.ids = spins[s].ids
      /\ row.rows = spins[s].rows /\ row.revision = revision
  BY SpinRows DEF SpinRow
<1>4. SpinGoesOn(s, row) /\ spins'[s] = row
  BY DEF SpinReadsRevision, SpinGoesOn, IInv, TypeOK
<1> HIDE DEF row
<1>5. SpinSound(s)'
  BY <1>1, <1>2, <1>3, <1>4, SpinRows DEF SpinSound
<1>6. faults \in 0 .. MaxFaults
  BY DEF IInv, TypeOK
<1>. QED  BY <1>1, <1>2, <1>3, <1>4, <1>5, <1>6, SameIndex, SpinKeeps

LEMMA SpinRebuildsKeeps == ASSUME IInv, NEW s \in Spins, SpinRebuilds(s) PROVE IndexKept /\ IInv'
<1>1. UNCHANGED <<misstamped, open, unopened, revision, faults>>
  BY DEF SpinRebuilds, SpinGoesOn
<1>2. Harmless(spins[s].rows, spins[s].revision)
  BY SpinRows DEF Harmless, SpinSound, SpinRebuilds
<1>3. IndexKept
  BY <1>2, WriteKeeps DEF SpinRebuilds
<1>4. IdleSpin \in SpinRow /\ SpinGoesOn(s, IdleSpin) /\ spins'[s] = IdleSpin
  BY DEF SpinRebuilds, SpinGoesOn, IInv, TypeOK, IdleSpin, SpinRow, Revisions
<1>5. SpinSound(s)'
  BY <1>1, <1>4, SpinRows DEF SpinSound, IdleSpin
<1>6. faults \in 0 .. MaxFaults /\ misstamped \in BOOLEAN
  BY DEF IInv, TypeOK
<1>. QED  BY <1>1, <1>3, <1>4, <1>5, <1>6, SpinKeeps

----------------------------------------------------------------------------
(* The theorems. *)

LEMMA StutterKeeps == ASSUME IInv, UNCHANGED vars PROVE IInv'
<1>1. TypeOK' /\ ActiveJobIsCurrent'
  BY DEF IInv, vars, TypeOK, ActiveJobIsCurrent, Active
<1>2. \A q \in requests' : RequestSound(q)'
  BY DEF IInv, vars, RequestSound
<1>. QED  BY <1>1, <1>2, SameIndex, StepKeeps DEF vars

LEMMA StepInv == IInv /\ [Next]_vars => IInv'
<1> SUFFICES ASSUME IInv, [Next]_vars PROVE IInv'
  OBVIOUS
<1>1. ASSUME NEW w \in Workers, WorkerStep(w) \/ WorkerFault(w) PROVE IInv'
  BY <1>1, ClaimKeeps, RenewKeeps, ReadKeeps, RebuildKeeps, CompleteKeeps, FailKeeps,
     StepFailsKeeps DEF WorkerStep, WorkerFault
<1>2. ASSUME NEW s \in Spins, SpinStep(s) PROVE IInv'
  BY <1>2, ListKeeps, CheckKeeps, DropKeeps, SpinReadsKeeps, SpinReadsRevisionKeeps,
     SpinRebuildsKeeps DEF SpinStep
<1>3. CASE RequestStep
  BY <1>3, RequestsKeep DEF RequestStep
<1>4. CASE UNCHANGED vars
  BY <1>4, StutterKeeps
<1>. QED  BY <1>1, <1>2, <1>3, <1>4, CommitsKeep, ExpiryKeeps DEF Next

LEMMA Invariance == Spec => []IInv
BY InitInv, StepInv, PTL DEF Spec

\* Rows, jobs, requests, workers and spins have their types.
THEOREM IndexTypeCorrect == Spec => []TypeOK
<1>1. IInv => TypeOK  BY DEF IInv
<1>. QED  BY <1>1, Invariance, PTL

\* What a worker has completed is done: until the next commit the index is the set of
\* OPEN rounds, whatever late workers, late requests and spins still write, but for a
\* spin that stamps rows with a revision that is not theirs (completeOrRequeueCity,
\* casReplaceOpenOffers).
THEOREM SyncedIsFreshAlways == Spec => []SyncedIsFresh
<1>1. IInv => SyncedIsFresh  BY DEF IInv, Fresh, SyncedIsFresh
<1>. QED  BY <1>1, Invariance, PTL

\* A job still to be done is for the newest commit, however commits are coalesced into it
\* while workers claim, fail, requeue and complete it (enqueueCityOpenOffersRecon).
THEOREM ActiveJobIsCurrentAlways == Spec => []ActiveJobIsCurrent
<1>1. IInv => ActiveJobIsCurrent  BY DEF IInv
<1>. QED  BY <1>1, Invariance, PTL

LEMMA SafeSteps ==
    IInv /\ [Next]_vars => /\ [indexRev' >= indexRev /\ indexRev' <= revision]_vars
                           /\ [(\E s \in Spins : DropClosed(s)) => (index \ index') \cap open = {}]_vars
<1> SUFFICES ASSUME IInv, Next
             PROVE  /\ indexRev' >= indexRev /\ indexRev' <= revision
                    /\ (\E s \in Spins : DropClosed(s)) => (index \ index') \cap open = {}
  OBVIOUS
<1>1. indexRev' >= indexRev /\ indexRev' <= revision
  <2>1. CASE indexRev' = indexRev
    BY <2>1 DEF IInv, TypeOK, Bounded, Revisions
  <2>2. CASE IndexKept
    BY <2>2 DEF IndexKept
  <2>3. ASSUME NEW w \in Workers, WorkerStep(w) \/ WorkerFault(w)
        PROVE  indexRev' = indexRev \/ IndexKept
    BY <2>3, RebuildKeeps
       DEF WorkerStep, WorkerFault, ClaimJob, RenewLease, ReadOpenRounds, CompleteOrRequeue,
           FailJob, StepFails, WorkerCrashes
  <2>4. ASSUME NEW s \in Spins, SpinStep(s) PROVE indexRev' = indexRev \/ IndexKept
    BY <2>4, SpinRebuildsKeeps
       DEF SpinStep, ListOpenOffers, CheckOffers, DropClosed, SpinReads, SpinReadsRevision
  <2>5. ASSUME NEW q \in requests, Apply(q) \/ MarkCompleted(q) \/ GiveUp(q)
        PROVE  indexRev' = indexRev \/ IndexKept
    BY <2>5, ApplyWrites DEF MarkCompleted, GiveUp
  <2>6. CASE (\E r \in Rounds : CommitOpen(r) \/ CommitClose(r)) \/ CommitTouch
    BY <2>1, <2>6 DEF CommitOpen, CommitClose, CommitTouch, Commit
  <2>7. CASE LeaseExpires \/ LeaseTooShort
    BY <2>1, <2>7 DEF LeaseExpires, LeaseTooShort, Expire
  <2>. QED  BY <2>1, <2>2, <2>3, <2>4, <2>5, <2>6, <2>7 DEF Next, RequestStep
<1>2. ASSUME NEW s \in Spins, DropClosed(s) PROVE (index \ index') \cap open = {}
  <2>1. Stale(s) \cap open = {} /\ index' = index \ Stale(s)
    BY <1>2, SpinRows DEF SpinSound, DropClosed
  <2>. QED  BY <2>1
<1>. QED  BY <1>1, <1>2

\* No writer takes the index back to an older revision or ahead of PostgreSQL, and what a
\* spin removes without a revision was closed: not a worker that lost its lease, not a
\* request that was overtaken.
THEOREM WritesAreSafeAlways == Spec => WritesAreSafe
BY SafeSteps, Invariance, PTL DEF Spec, WritesAreSafe, IndexRevisionAdvances, SpinsDropOnlyClosed

----------------------------------------------------------------------------
(* The runtime key of a driver: what it says is not older than its revision. *)

VARIABLES load, loadAt, jobs, key, runtimeRevision, runtimeRequests, runtimeWorkers,
          runtimeSpins, runtimeFaults

\* The same workers take the jobs of a driver; commits of every kind happen.
Runtime == INSTANCE DriverRuntime WITH
    Kinds    <- {"TAKE", "DESK", "CANCEL", "DELIVER", "LOGOUT"},
    revision <- runtimeRevision, requests <- runtimeRequests, workers <- runtimeWorkers,
    spins    <- runtimeSpins,    faults   <- runtimeFaults

\* n is the load at the commit of revision r or at a later one.
KnownSince(n, r) == \E i \in r .. runtimeRevision : n = loadAt[i]

StateSound(state) ==
    state # Runtime!NoKey => /\ KnownSince(state.load, state.rev)
                             /\ state.work = "BUSY" <=> state.load > 0

\* What a request, worker or spin is about to write is known since the revision it
\* writes it with.
RequestKnows(q) ==
    /\ q.revision <= runtimeRevision
    /\ q.step \in {"read", "count", "write"} => KnownSince(q.load, q.revision)

WorkerKnows(w) ==
    /\ w.job <= runtimeRevision
    /\ w.step \in {"renewAgain", "existing", "write"} => KnownSince(w.load, w.job)
    /\ StateSound(w.seen)

SpinKnows(s) == s.step = "write" => KnownSince(s.load, 0)

RuntimeInv ==
    /\ Runtime!TypeOK
    /\ load = loadAt[runtimeRevision]
    /\ StateSound(key)
    /\ \A q \in runtimeRequests : RequestKnows(q)
    /\ \A w \in Workers : WorkerKnows(runtimeWorkers[w])
    /\ \A s \in Spins : SpinKnows(runtimeSpins[s])

LEMMA RuntimeInit == Runtime!Init => RuntimeInv
<1> SUFFICES ASSUME Runtime!Init PROVE RuntimeInv
  OBVIOUS
<1>1. /\ load = 0 /\ runtimeRevision = 0 /\ loadAt = [r \in Runtime!Revisions |-> 0]
      /\ jobs = [r \in Runtime!Revisions |-> Runtime!NoJob]
      /\ key = Runtime!NoKey /\ runtimeRequests = {}
      /\ runtimeWorkers = [w \in Workers |-> Runtime!IdleWorker]
      /\ runtimeSpins = [s \in Spins |-> Runtime!IdleSpin]
      /\ runtimeFaults = 0
  BY DEF Runtime!Init
<1>2. 0 \in Runtime!Revisions /\ 0 \in Runtime!Loads
  BY DEF Runtime!Revisions, Runtime!Loads
<1>3. Runtime!NoKey \in Runtime!RuntimeState
  BY <1>2 DEF Runtime!NoKey, Runtime!RuntimeState
<1>4. Runtime!NoJob \in Runtime!JobRow
  BY DEF Runtime!NoJob, Runtime!JobRow
<1>5. Runtime!IdleWorker \in Runtime!WorkerRow /\ WorkerKnows(Runtime!IdleWorker)
  BY <1>1, <1>2, <1>3 DEF Runtime!IdleWorker, Runtime!WorkerRow, WorkerKnows, StateSound
<1>6. Runtime!IdleSpin \in Runtime!SpinRow /\ SpinKnows(Runtime!IdleSpin)
  BY <1>2 DEF Runtime!IdleSpin, Runtime!SpinRow, SpinKnows
<1>7. Runtime!TypeOK
  BY <1>1, <1>2, <1>3, <1>4, <1>5, <1>6 DEF Runtime!TypeOK
<1>. QED  BY <1>1, <1>2, <1>5, <1>6, <1>7 DEF RuntimeInv, StateSound

\* Nothing is forgotten: neither by a step that is no commit, nor by a commit.
LEMMA KnownStays ==
    ASSUME RuntimeInv,
           \/ UNCHANGED <<runtimeRevision, loadAt>>
           \/ \E kind \in Runtime!CommitKinds : Runtime!Commit(kind)
    PROVE  /\ \A n, r : KnownSince(n, r) => KnownSince(n, r)'
           /\ runtimeRevision <= runtimeRevision'
<1>1. runtimeRevision \in Nat /\ runtimeRevision <= MaxRevision
      /\ loadAt \in [0 .. MaxRevision -> Runtime!Loads]
  BY DEF RuntimeInv, Runtime!TypeOK, Runtime!Revisions
<1>2. CASE UNCHANGED <<runtimeRevision, loadAt>>
  BY <1>1, <1>2 DEF KnownSince
<1>3. CASE \E kind \in Runtime!CommitKinds : Runtime!Commit(kind)
  <2>1. /\ runtimeRevision' = runtimeRevision + 1
        /\ loadAt' = [loadAt EXCEPT ![runtimeRevision + 1] = load']
    BY <1>3 DEF Runtime!Commit
  <2>2. ASSUME NEW n, NEW r, NEW i \in r .. runtimeRevision, n = loadAt[i]
        PROVE  i \in r .. runtimeRevision' /\ n = loadAt'[i]
    BY <1>1, <2>1, <2>2
  <2>. QED  BY <1>1, <2>1, <2>2 DEF KnownSince
<1>. QED  BY <1>2, <1>3

LEMMA CommitKeepsRuntime ==
    ASSUME RuntimeInv, NEW kind \in Runtime!CommitKinds, Runtime!Commit(kind)
    PROVE  RuntimeInv'
<1>1. Runtime!TypeOK /\ runtimeRevision \in 0 .. MaxRevision
  BY DEF RuntimeInv, Runtime!TypeOK, Runtime!Revisions
<1>2. /\ runtimeRevision < MaxRevision
      /\ load' \in Runtime!Loads
      /\ runtimeRevision' = runtimeRevision + 1
      /\ loadAt' = [loadAt EXCEPT ![runtimeRevision + 1] = load']
      /\ jobs' = [jobs EXCEPT ![runtimeRevision + 1] = Runtime!NewJob]
      /\ UNCHANGED <<key, runtimeWorkers, runtimeSpins, runtimeFaults>>
  BY DEF Runtime!Commit, Runtime!LoadsAfter
<1>3. PICK q : /\ q = [ kind |-> kind, revision |-> runtimeRevision + 1, load |-> load',
                        seen |-> Runtime!NoKey, step |-> Runtime!FirstStep(kind) ]
               /\ runtimeRequests' = runtimeRequests \cup {q}
  BY DEF Runtime!Commit
<1>4. runtimeRevision' \in Runtime!Revisions /\ runtimeRevision' \in Nat
  BY <1>1, <1>2 DEF Runtime!Revisions
<1>5. load' = loadAt'[runtimeRevision']
  BY <1>1, <1>2, <1>4 DEF Runtime!TypeOK
<1>6. q \in Runtime!Request /\ RequestKnows(q)'
  <2>1. Runtime!NoKey \in Runtime!RuntimeState
    BY DEF Runtime!NoKey, Runtime!RuntimeState, Runtime!Revisions, Runtime!Loads
  <2>2. Runtime!FirstStep(kind) \in {"read", "write", "delete"}
    BY DEF Runtime!FirstStep, Runtime!CommitKinds
  <2>3. q \in Runtime!Request
    BY <1>2, <1>3, <1>4, <2>1, <2>2 DEF Runtime!Request
  <2>4. q.revision = runtimeRevision' /\ q.load = loadAt'[runtimeRevision']
    BY <1>2, <1>3, <1>5
  <2>. QED  BY <1>4, <2>3, <2>4 DEF RequestKnows, KnownSince
<1>7. Runtime!TypeOK'
  <2>1. Runtime!NewJob \in Runtime!JobRow
    <3>1. Runtime!NoJob \in Runtime!JobRow
      BY DEF Runtime!NoJob, Runtime!JobRow
    <3>2. PICK row : row = Runtime!NoJob
      OBVIOUS
    <3>3. [row EXCEPT !.status = "PENDING"] \in Runtime!JobRow
      BY <3>1, <3>2 DEF Runtime!JobRow
    <3>. QED  BY <3>2, <3>3 DEF Runtime!NewJob
  <2>. QED  BY <1>1, <1>2, <1>3, <1>4, <1>6, <2>1 DEF Runtime!TypeOK
<1>8. /\ \A n, r : KnownSince(n, r) => KnownSince(n, r)'
      /\ runtimeRevision <= runtimeRevision'
  BY KnownStays
<1>9. \A state : StateSound(state) => StateSound(state)'
  BY <1>8 DEF StateSound
<1>10. StateSound(key)'
  BY <1>2, <1>9 DEF RuntimeInv, StateSound
<1>11. ASSUME NEW p \in runtimeRequests' PROVE RequestKnows(p)'
  <2>1. CASE p = q
    BY <1>6, <2>1
  <2>2. CASE p \in runtimeRequests
    <3>1. RequestKnows(p) /\ p.revision \in Nat
      BY <1>1, <2>2 DEF RuntimeInv, Runtime!TypeOK, Runtime!Request, Runtime!Revisions
    <3>. QED  BY <1>1, <1>2, <1>8, <3>1 DEF RequestKnows
  <2>. QED  BY <1>3, <2>1, <2>2
<1>12. ASSUME NEW w \in Workers PROVE WorkerKnows(runtimeWorkers[w])'
  <2>1. PICK row : row = runtimeWorkers[w] /\ row = runtimeWorkers'[w]
    BY <1>2
  <2>2. WorkerKnows(row)
    BY <2>1 DEF RuntimeInv
  <2>3. row.job \in Nat
    <3>1. row \in Runtime!WorkerRow
      BY <1>1, <2>1 DEF Runtime!TypeOK
    <3>. QED  BY <3>1 DEF Runtime!WorkerRow, Runtime!Revisions
  <2>4. WorkerKnows(row)'
    BY <1>1, <1>2, <1>8, <1>9, <2>2, <2>3 DEF WorkerKnows
  <2>. QED  BY <2>1, <2>4 DEF WorkerKnows, StateSound
<1>13. ASSUME NEW s \in Spins PROVE SpinKnows(runtimeSpins[s])'
  BY <1>2, <1>8 DEF RuntimeInv, SpinKnows
<1>. QED  BY <1>5, <1>7, <1>10, <1>11, <1>12, <1>13 DEF RuntimeInv

\* Any step but a commit writes at most one row of each kind.
LEMMA MoveKeepsRuntime ==
    ASSUME RuntimeInv,
           UNCHANGED <<load, runtimeRevision, loadAt>>,
           jobs' \in [Runtime!Revisions -> Runtime!JobRow],
           key' \in Runtime!RuntimeState, StateSound(key)',
           runtimeRequests' \subseteq Runtime!Request,
           \A q \in runtimeRequests' : q \in runtimeRequests \/ RequestKnows(q),
           runtimeWorkers' \in [Workers -> Runtime!WorkerRow],
           \A w \in Workers : \/ runtimeWorkers'[w] = runtimeWorkers[w]
                              \/ WorkerKnows(runtimeWorkers'[w]),
           runtimeSpins' \in [Spins -> Runtime!SpinRow],
           \A s \in Spins : \/ runtimeSpins'[s] = runtimeSpins[s]
                            \/ SpinKnows(runtimeSpins'[s]),
           runtimeFaults' \in 0 .. MaxFaults
    PROVE  RuntimeInv'
<1>1. Runtime!TypeOK'
  BY DEF RuntimeInv, Runtime!TypeOK
<1>2. \A n, r : KnownSince(n, r) => KnownSince(n, r)'
  BY DEF KnownSince
<1>3. \A state : StateSound(state) => StateSound(state)'
  BY <1>2 DEF StateSound
<1>4. ASSUME NEW q \in runtimeRequests' PROVE RequestKnows(q)'
  <2>1. RequestKnows(q)
    BY DEF RuntimeInv
  <2>. QED  BY <1>2, <2>1 DEF RequestKnows
<1>5. ASSUME NEW w \in Workers PROVE WorkerKnows(runtimeWorkers[w])'
  <2>1. PICK row : row = runtimeWorkers'[w]
    OBVIOUS
  <2>2. WorkerKnows(row)
    BY <2>1 DEF RuntimeInv
  <2>3. WorkerKnows(row)'
    BY <1>2, <1>3, <2>2 DEF WorkerKnows
  <2>. QED  BY <2>1, <2>3 DEF WorkerKnows, StateSound
<1>6. ASSUME NEW s \in Spins PROVE SpinKnows(runtimeSpins[s])'
  <2>1. PICK row : row = runtimeSpins'[s]
    OBVIOUS
  <2>2. SpinKnows(row)
    BY <2>1 DEF RuntimeInv
  <2>. QED  BY <1>2, <2>1, <2>2 DEF SpinKnows
<1>. QED  BY <1>1, <1>4, <1>5, <1>6 DEF RuntimeInv

LEMMA NoKeyIsAState == Runtime!NoKey \in Runtime!RuntimeState
BY DEF Runtime!NoKey, Runtime!RuntimeState, Runtime!Revisions, Runtime!Loads

LEMMA CasIsSound ==
    ASSUME RuntimeInv, UNCHANGED <<runtimeRevision, loadAt>>,
           NEW state \in Runtime!RuntimeState, StateSound(state), Runtime!CasWrite(state)
    PROVE  key' \in Runtime!RuntimeState /\ StateSound(key)'
<1>1. key' \in {key, state}
  BY DEF Runtime!CasWrite
<1>2. key \in Runtime!RuntimeState /\ StateSound(key)
  BY DEF RuntimeInv, Runtime!TypeOK
<1>3. PICK new : new = key'
  OBVIOUS
<1>4. new \in Runtime!RuntimeState /\ StateSound(new)
  BY <1>1, <1>2, <1>3
<1>. QED  BY <1>3, <1>4 DEF StateSound, KnownSince

LEMMA KeyMayGo ==
    ASSUME RuntimeInv, UNCHANGED <<runtimeRevision, loadAt>>, key' \in {key, Runtime!NoKey}
    PROVE  key' \in Runtime!RuntimeState /\ StateSound(key)'
BY NoKeyIsAState DEF RuntimeInv, Runtime!TypeOK, StateSound, KnownSince

LEMMA LoadIsKnown ==
    ASSUME RuntimeInv, NEW r, r \in Nat, r <= runtimeRevision
    PROVE  KnownSince(load, r)
BY DEF RuntimeInv, Runtime!TypeOK, Runtime!Revisions, KnownSince

LEMMA BusyWhenLoaded ==
    ASSUME NEW n \in Runtime!Loads, NEW work \in {"OFFLINE", "AVAILABLE"}
    PROVE  /\ Runtime!BusyOr(work, n) \in {"OFFLINE", "AVAILABLE", "BUSY"}
           /\ Runtime!BusyOr(work, n) = "BUSY" <=> n > 0
BY DEF Runtime!BusyOr

LEMMA RequestStepKeepsRuntime ==
    ASSUME RuntimeInv, Runtime!RequestStep
    PROVE  RuntimeInv'
<1>1. PICK q \in runtimeRequests :
          \/ Runtime!ReadRuntime(q) \/ Runtime!CountOrders(q) \/ Runtime!WriteRuntime(q)
          \/ Runtime!MarkCompleted(q) \/ Runtime!DeleteAtLogout(q) \/ Runtime!GiveUp(q)
  BY DEF Runtime!RequestStep
<1>2. /\ q \in Runtime!Request /\ RequestKnows(q) /\ Runtime!TypeOK
      /\ q.revision \in Runtime!Revisions /\ q.load \in Runtime!Loads /\ q.revision \in Nat
  BY DEF RuntimeInv, Runtime!TypeOK, Runtime!Request, Runtime!Revisions
<1>3. /\ UNCHANGED <<load, runtimeRevision, loadAt, runtimeWorkers, runtimeSpins, runtimeFaults>>
  BY <1>1 DEF Runtime!ReadRuntime, Runtime!CountOrders, Runtime!WriteRuntime,
              Runtime!MarkCompleted, Runtime!DeleteAtLogout, Runtime!GiveUp,
              Runtime!RequestGoesOn
<1>4. ASSUME NEW row \in Runtime!Request, RequestKnows(row),
             runtimeRequests' \subseteq runtimeRequests \cup {row},
             jobs' \in [Runtime!Revisions -> Runtime!JobRow],
             key' \in Runtime!RuntimeState, StateSound(key)'
      PROVE  RuntimeInv'
  <2>1. /\ runtimeRequests' \subseteq Runtime!Request
        /\ \A p \in runtimeRequests' : p \in runtimeRequests \/ RequestKnows(p)
    BY <1>2, <1>4 DEF Runtime!TypeOK
  <2>2. /\ runtimeWorkers' \in [Workers -> Runtime!WorkerRow]
        /\ runtimeSpins' \in [Spins -> Runtime!SpinRow]
        /\ runtimeFaults' \in 0 .. MaxFaults
        /\ \A w \in Workers : runtimeWorkers'[w] = runtimeWorkers[w]
        /\ \A s \in Spins : runtimeSpins'[s] = runtimeSpins[s]
    BY <1>2, <1>3 DEF Runtime!TypeOK
  <2>. QED  BY <1>3, <1>4, <2>1, <2>2, MoveKeepsRuntime
<1>5. jobs \in [Runtime!Revisions -> Runtime!JobRow]
  BY <1>2 DEF Runtime!TypeOK
<1>6. UNCHANGED key => key' \in Runtime!RuntimeState /\ StateSound(key)'
  BY <1>3, KeyMayGo
<1>7. CASE Runtime!ReadRuntime(q)
  <2>1. PICK seen \in {key, Runtime!NoKey} :
            /\ UNCHANGED <<key, jobs>>
            /\ runtimeRequests' = (runtimeRequests \ {q}) \cup
                   {[q EXCEPT !.seen = seen,
                              !.step = IF q.kind = "DELIVER" THEN "count" ELSE "write"]}
    BY <1>7 DEF Runtime!ReadRuntime, Runtime!RequestGoesOn, Runtime!Reads
  <2>2. seen \in Runtime!RuntimeState
    BY <1>2, <2>1, NoKeyIsAState DEF Runtime!TypeOK
  <2>3. PICK step \in {"count", "write"} :
            runtimeRequests' = (runtimeRequests \ {q}) \cup
                                   {[q EXCEPT !.seen = seen, !.step = step]}
    BY <2>1
  <2>4. PICK row : row = [q EXCEPT !.seen = seen, !.step = step]
    OBVIOUS
  <2>5. row \in Runtime!Request /\ row.revision = q.revision /\ row.load = q.load
    BY <1>2, <2>2, <2>4 DEF Runtime!Request
  <2>6. q.step = "read"
    BY <1>7 DEF Runtime!ReadRuntime
  <2>7. RequestKnows(row)
    BY <1>2, <2>5, <2>6 DEF RequestKnows
  <2>. QED  BY <1>4, <1>5, <1>6, <2>1, <2>3, <2>4, <2>5, <2>7
<1>8. CASE Runtime!CountOrders(q)
  <2>1. PICK row : /\ row = [q EXCEPT !.load = load, !.step = "write"]
                   /\ runtimeRequests' = (runtimeRequests \ {q}) \cup {row}
                   /\ UNCHANGED <<key, jobs>>
    BY <1>8 DEF Runtime!CountOrders, Runtime!RequestGoesOn
  <2>2. row \in Runtime!Request /\ row.revision = q.revision /\ row.load = load
    BY <1>2, <2>1 DEF Runtime!Request, Runtime!TypeOK
  <2>3. RequestKnows(row)
    BY <1>2, <2>2, LoadIsKnown DEF RequestKnows
  <2>. QED  BY <1>4, <1>5, <1>6, <2>1, <2>2, <2>3
<1>9. CASE Runtime!WriteRuntime(q)
  <2>1. PICK row : /\ row = [q EXCEPT !.step = "mark", !.load = 0, !.seen = Runtime!NoKey]
                   /\ runtimeRequests' = (runtimeRequests \ {q}) \cup {row}
                   /\ UNCHANGED jobs
    BY <1>9 DEF Runtime!WriteRuntime, Runtime!RequestGoesOn
  <2>2. row \in Runtime!Request /\ row.revision = q.revision /\ row.step = "mark"
    <3>1. PICK none, zero : none = Runtime!NoKey /\ zero = 0
      OBVIOUS
    <3>2. none \in Runtime!RuntimeState /\ zero \in Runtime!Loads
      BY <3>1, NoKeyIsAState DEF Runtime!Loads
    <3>3. row = [q EXCEPT !.step = "mark", !.load = zero, !.seen = none]
      BY <2>1, <3>1
    <3>. QED  BY <1>2, <3>2, <3>3 DEF Runtime!Request
  <2>3. RequestKnows(row)
    BY <1>2, <2>2 DEF RequestKnows
  <2>4. key' \in Runtime!RuntimeState /\ StateSound(key)'
    <3>1. CASE key' \in {key, Runtime!NoKey}
      BY <1>3, <3>1, KeyMayGo
    <3>2. CASE Runtime!CasWrite(Runtime!StateAfter(q))
      <4>1. PICK state : state = Runtime!StateAfter(q)
        OBVIOUS
      <4>2. PICK work : work = Runtime!WorkAfter(q)
        OBVIOUS
      <4>3. /\ work \in {"OFFLINE", "AVAILABLE", "BUSY"}
            /\ work = "BUSY" <=> q.load > 0
        BY <1>2, <4>2, BusyWhenLoaded DEF Runtime!WorkAfter
      <4>4. state = [rev |-> q.revision, work |-> work, load |-> q.load]
        BY <4>1, <4>2 DEF Runtime!StateAfter
      <4>5. state \in Runtime!RuntimeState
        BY <1>2, <4>3, <4>4 DEF Runtime!RuntimeState
      <4>6. KnownSince(q.load, q.revision)
        BY <1>2, <1>9 DEF RequestKnows, Runtime!WriteRuntime
      <4>7. StateSound(state)
        BY <4>3, <4>4, <4>6 DEF StateSound
      <4>. QED  BY <1>3, <3>2, <4>1, <4>5, <4>7, CasIsSound
    <3>. QED  BY <1>9, <3>1, <3>2 DEF Runtime!WriteRuntime
  <2>. QED  BY <1>4, <1>5, <2>1, <2>2, <2>3, <2>4
<1>10. CASE Runtime!MarkCompleted(q)
  <2>1. /\ UNCHANGED key /\ runtimeRequests' \subseteq runtimeRequests \cup {q}
        /\ jobs' = IF jobs[q.revision].status = "PENDING"
                   THEN [jobs EXCEPT ![q.revision].status = "COMPLETED"] ELSE jobs
    BY <1>10 DEF Runtime!MarkCompleted
  <2>2. PICK row : row = [jobs[q.revision] EXCEPT !.status = "COMPLETED"]
    OBVIOUS
  <2>3. row \in Runtime!JobRow
    BY <1>2, <1>5, <2>2 DEF Runtime!JobRow
  <2>4. jobs' = jobs \/ jobs' = [jobs EXCEPT ![q.revision] = row]
    BY <1>2, <1>5, <2>1, <2>2
  <2>5. jobs' \in [Runtime!Revisions -> Runtime!JobRow]
    BY <1>2, <1>5, <2>3, <2>4
  <2>. QED  BY <1>2, <1>4, <1>6, <2>1, <2>5
<1>11. CASE Runtime!DeleteAtLogout(q) \/ Runtime!GiveUp(q)
  <2>1. /\ UNCHANGED jobs /\ runtimeRequests' \subseteq runtimeRequests \cup {q}
        /\ key' \in {key, Runtime!NoKey}
    BY <1>11 DEF Runtime!DeleteAtLogout, Runtime!GiveUp, Runtime!WriteFails
  <2>2. key' \in Runtime!RuntimeState /\ StateSound(key)'
    BY <1>3, <2>1, KeyMayGo
  <2>. QED  BY <1>2, <1>4, <1>5, <2>1, <2>2
<1>. QED  BY <1>1, <1>7, <1>8, <1>9, <1>10, <1>11

LEMMA WorkerMoves ==
    ASSUME RuntimeInv, NEW w \in Workers, NEW row \in Runtime!WorkerRow, WorkerKnows(row),
           Runtime!WorkerGoesOn(w, row),
           jobs' \in [Runtime!Revisions -> Runtime!JobRow],
           key' \in Runtime!RuntimeState, StateSound(key)', runtimeFaults' \in 0 .. MaxFaults
    PROVE  RuntimeInv'
<1>1. /\ runtimeWorkers' = [runtimeWorkers EXCEPT ![w] = row]
      /\ UNCHANGED <<load, runtimeRevision, loadAt, runtimeRequests, runtimeSpins>>
  BY DEF Runtime!WorkerGoesOn
<1>2. Runtime!TypeOK
  BY DEF RuntimeInv
<1>3. /\ runtimeWorkers' \in [Workers -> Runtime!WorkerRow]
      /\ runtimeSpins' \in [Spins -> Runtime!SpinRow]
      /\ runtimeRequests' \subseteq Runtime!Request
      /\ \A q \in runtimeRequests' : q \in runtimeRequests
      /\ \A s \in Spins : runtimeSpins'[s] = runtimeSpins[s]
      /\ \A v \in Workers : runtimeWorkers'[v] = runtimeWorkers[v] \/ runtimeWorkers'[v] = row
  BY <1>1, <1>2 DEF Runtime!TypeOK
<1>4. \A v \in Workers : runtimeWorkers'[v] = runtimeWorkers[v] \/ WorkerKnows(runtimeWorkers'[v])
  <2>1. ASSUME NEW v \in Workers, runtimeWorkers'[v] = row PROVE WorkerKnows(runtimeWorkers'[v])
    BY <2>1
  <2>. QED  BY <1>3, <2>1
<1>. QED  BY <1>1, <1>3, <1>4, MoveKeepsRuntime

LEMMA IdleKnows ==
    ASSUME RuntimeInv
    PROVE  Runtime!IdleWorker \in Runtime!WorkerRow /\ WorkerKnows(Runtime!IdleWorker)
<1>1. 0 \in Runtime!Revisions /\ 0 \in Runtime!Loads /\ 0 \in 0 .. MaxAttempts
  BY DEF Runtime!Revisions, Runtime!Loads
<1>2. Runtime!IdleWorker \in Runtime!WorkerRow
  BY <1>1, NoKeyIsAState DEF Runtime!IdleWorker, Runtime!WorkerRow
<1>. QED  BY <1>2 DEF Runtime!IdleWorker, WorkerKnows, StateSound, RuntimeInv, Runtime!TypeOK,
                      Runtime!Revisions

\* The row of a job when a worker lets go of it.
LEMMA JobsLetGo ==
    ASSUME RuntimeInv, NEW r \in Runtime!Revisions, NEW status \in {"PENDING", "COMPLETED", "DEAD"},
           jobs' = [jobs EXCEPT ![r] = Runtime!Unlocked(@, status)]
    PROVE  jobs' \in [Runtime!Revisions -> Runtime!JobRow]
<1>1. jobs \in [Runtime!Revisions -> Runtime!JobRow]
  BY DEF RuntimeInv, Runtime!TypeOK
<1>2. PICK row : row = jobs[r]
  OBVIOUS
<1>3. PICK new : new = [row EXCEPT !.status = status, !.lockedBy = "nobody", !.leased = FALSE]
  OBVIOUS
<1>4. new \in Runtime!JobRow
  BY <1>1, <1>2, <1>3 DEF Runtime!JobRow
<1>5. jobs' = [jobs EXCEPT ![r] = new]
  BY <1>1, <1>2, <1>3 DEF Runtime!Unlocked
<1>. QED  BY <1>1, <1>4, <1>5

LEMMA WorkerStepKeepsRuntime ==
    ASSUME RuntimeInv, NEW w \in Workers,
           Runtime!WorkerStep(w) \/ Runtime!StepFails(w) \/ Runtime!WorkerCrashes(w)
    PROVE  RuntimeInv'
<1>1. PICK old : old = runtimeWorkers[w]
  OBVIOUS
<1>2. /\ old \in Runtime!WorkerRow /\ WorkerKnows(old) /\ Runtime!TypeOK
      /\ old.job \in Runtime!Revisions /\ old.load \in Runtime!Loads /\ old.job \in Nat
      /\ old.attempts \in 0 .. MaxAttempts /\ old.seen \in Runtime!RuntimeState
  BY <1>1 DEF RuntimeInv, Runtime!TypeOK, Runtime!WorkerRow, Runtime!Revisions
<1>3. /\ jobs \in [Runtime!Revisions -> Runtime!JobRow]
      /\ runtimeFaults \in 0 .. MaxFaults /\ 0 \in Runtime!Revisions
  BY <1>2 DEF Runtime!TypeOK, Runtime!Revisions
<1>4. key' \in {key, Runtime!NoKey} /\ UNCHANGED <<runtimeRevision, loadAt>> =>
          key' \in Runtime!RuntimeState /\ StateSound(key)'
  BY KeyMayGo
<1>5. ASSUME NEW row, Runtime!WorkerGoesOn(w, row) PROVE UNCHANGED <<runtimeRevision, loadAt>>
  BY <1>5 DEF Runtime!WorkerGoesOn
<1>6. CASE \E r \in 1 .. runtimeRevision : Runtime!ClaimJob(w, r)
  <2>1. PICK r \in 1 .. runtimeRevision : Runtime!ClaimJob(w, r)
    BY <1>6
  <2>2. r \in Runtime!Revisions /\ r <= runtimeRevision
    BY <1>2 DEF Runtime!TypeOK, Runtime!Revisions
  <2>3. PICK n : n = IF jobs[r].attempts < MaxAttempts THEN jobs[r].attempts + 1
                     ELSE MaxAttempts
    OBVIOUS
  <2>4. n \in 0 .. MaxAttempts
    <3>1. jobs[r] \in Runtime!JobRow
      BY <1>3, <2>2
    <3>2. jobs[r].attempts \in 0 .. MaxAttempts
      BY <3>1 DEF Runtime!JobRow
    <3>. QED  BY <2>3, <3>2
  <2>5. PICK row : row = [Runtime!IdleWorker EXCEPT !.step = "renew", !.job = r, !.attempts = n]
    OBVIOUS
  <2>6. /\ jobs' = [jobs EXCEPT ![r] = [ status |-> "PROCESSING", attempts |-> n,
                                         lockedBy |-> w, leased |-> TRUE ]]
        /\ Runtime!WorkerGoesOn(w, row)
        /\ UNCHANGED <<key, runtimeFaults>>
    BY <2>1, <2>3, <2>5 DEF Runtime!ClaimJob
  <2>7. row = [step |-> "renew", job |-> r, attempts |-> n, load |-> 0, seen |-> Runtime!NoKey]
    BY <2>5 DEF Runtime!IdleWorker
  <2>8. row \in Runtime!WorkerRow
    BY <2>2, <2>4, <2>7, NoKeyIsAState DEF Runtime!WorkerRow, Runtime!Loads
  <2>9. WorkerKnows(row)
    BY <2>2, <2>7 DEF WorkerKnows, StateSound
  <2>10. jobs' \in [Runtime!Revisions -> Runtime!JobRow]
    <3>1. [ status |-> "PROCESSING", attempts |-> n, lockedBy |-> w, leased |-> TRUE ]
              \in Runtime!JobRow
      BY <2>4 DEF Runtime!JobRow
    <3>. QED  BY <1>3, <2>6, <3>1
  <2>. QED  BY <1>3, <1>4, <1>5, <2>6, <2>8, <2>9, <2>10, WorkerMoves
<1>7. CASE Runtime!RenewLease(w)
  <2>1. CASE Runtime!Owns(w)
    <3>1. PICK step \in {"check", "existing"} :
              /\ old.step = "renewAgain" \/ step = "check"
              /\ Runtime!WorkerGoesOn(w, [old EXCEPT !.step = step])
              /\ jobs' = [jobs EXCEPT ![old.job].leased = TRUE]
              /\ UNCHANGED <<key, runtimeFaults>>
      BY <1>1, <1>7, <2>1 DEF Runtime!RenewLease
    <3>2. PICK row : row = [old EXCEPT !.step = step]
      OBVIOUS
    <3>3. /\ row \in Runtime!WorkerRow /\ row.job = old.job /\ row.load = old.load
          /\ row.seen = old.seen /\ row.step = step
      BY <1>2, <3>2 DEF Runtime!WorkerRow
    <3>4. WorkerKnows(row)
      BY <1>2, <3>1, <3>3 DEF WorkerKnows
    <3>5. jobs' \in [Runtime!Revisions -> Runtime!JobRow]
      <4>1. PICK new : new = [jobs[old.job] EXCEPT !.leased = TRUE]
        OBVIOUS
      <4>2. new \in Runtime!JobRow
        BY <1>2, <1>3, <4>1 DEF Runtime!JobRow
      <4>3. jobs' = [jobs EXCEPT ![old.job] = new]
        BY <1>2, <1>3, <3>1, <4>1
      <4>. QED  BY <1>2, <1>3, <4>2, <4>3
    <3>. QED  BY <1>3, <1>4, <1>5, <3>1, <3>2, <3>3, <3>4, <3>5, WorkerMoves
  <2>2. CASE ~Runtime!Owns(w)
    <3>1. Runtime!WorkerGoesOn(w, Runtime!IdleWorker) /\ UNCHANGED <<jobs, key, runtimeFaults>>
      BY <1>7, <2>2 DEF Runtime!RenewLease
    <3>. QED  BY <1>3, <1>4, <1>5, <3>1, IdleKnows, WorkerMoves
  <2>. QED  BY <2>1, <2>2
<1>8. CASE Runtime!CheckRevision(w)
  <2>1. PICK step \in {"finish", "hydrate"} :
            /\ Runtime!WorkerGoesOn(w, [old EXCEPT !.step = step])
            /\ UNCHANGED <<jobs, key, runtimeFaults>>
    BY <1>1, <1>8 DEF Runtime!CheckRevision
  <2>2. PICK row : row = [old EXCEPT !.step = step]
    OBVIOUS
  <2>3. /\ row \in Runtime!WorkerRow /\ row.job = old.job /\ row.seen = old.seen
        /\ row.step = step
    BY <1>2, <2>2 DEF Runtime!WorkerRow
  <2>4. WorkerKnows(row)
    BY <1>2, <2>3 DEF WorkerKnows
  <2>. QED  BY <1>3, <1>4, <1>5, <2>1, <2>2, <2>3, <2>4, WorkerMoves
<1>9. CASE Runtime!HydrateJob(w)
  <2>1. PICK row : /\ row = [old EXCEPT !.step = "renewAgain", !.load = load]
                   /\ Runtime!WorkerGoesOn(w, row)
                   /\ UNCHANGED <<jobs, key, runtimeFaults>>
    BY <1>1, <1>9 DEF Runtime!HydrateJob
  <2>2. /\ row \in Runtime!WorkerRow /\ row.job = old.job /\ row.seen = old.seen
        /\ row.load = load
    BY <1>2, <2>1 DEF Runtime!WorkerRow, Runtime!TypeOK
  <2>3. WorkerKnows(row)
    BY <1>2, <2>2, LoadIsKnown DEF WorkerKnows
  <2>. QED  BY <1>3, <1>4, <1>5, <2>1, <2>2, <2>3, WorkerMoves
<1>10. CASE Runtime!ReadExisting(w)
  <2>1. PICK seen \in {key, Runtime!NoKey} :
            /\ Runtime!WorkerGoesOn(w, [old EXCEPT !.step = "write", !.seen = seen])
            /\ UNCHANGED <<jobs, key, runtimeFaults>>
    BY <1>1, <1>10 DEF Runtime!ReadExisting, Runtime!Reads
  <2>2. seen \in Runtime!RuntimeState /\ StateSound(seen)
    <3>1. StateSound(Runtime!NoKey)
      BY DEF StateSound
    <3>2. key \in Runtime!RuntimeState /\ StateSound(key)
      BY <1>2 DEF Runtime!TypeOK, RuntimeInv
    <3>. QED  BY <2>1, <3>1, <3>2, NoKeyIsAState
  <2>3. PICK row : row = [old EXCEPT !.step = "write", !.seen = seen]
    OBVIOUS
  <2>4. /\ row \in Runtime!WorkerRow /\ row.job = old.job /\ row.seen = seen
        /\ row.load = old.load /\ old.step = "existing"
    BY <1>1, <1>2, <1>10, <2>2, <2>3 DEF Runtime!WorkerRow, Runtime!ReadExisting
  <2>5. WorkerKnows(row)
    BY <1>2, <2>2, <2>4 DEF WorkerKnows
  <2>. QED  BY <1>3, <1>4, <1>5, <2>1, <2>3, <2>4, <2>5, WorkerMoves
<1>11. CASE Runtime!WriteDerived(w)
  <2>1. PICK row : /\ row = [old EXCEPT !.step = "finish", !.load = 0, !.seen = Runtime!NoKey]
                   /\ Runtime!WorkerGoesOn(w, row)
                   /\ Runtime!CasWrite(Runtime!Derived(w))
                   /\ old.step = "write"
                   /\ UNCHANGED <<jobs, runtimeFaults>>
    BY <1>1, <1>11 DEF Runtime!WriteDerived
  <2>2. /\ row \in Runtime!WorkerRow /\ row.job = old.job /\ row.seen = Runtime!NoKey
        /\ row.step = "finish"
    <3>1. PICK none, zero : none = Runtime!NoKey /\ zero = 0
      OBVIOUS
    <3>2. none \in Runtime!RuntimeState /\ zero \in Runtime!Loads
      BY <3>1, NoKeyIsAState DEF Runtime!Loads
    <3>3. row = [old EXCEPT !.step = "finish", !.load = zero, !.seen = none]
      BY <2>1, <3>1
    <3>4. /\ row \in Runtime!WorkerRow /\ row.job = old.job /\ row.seen = none
          /\ row.step = "finish"
      BY <1>2, <3>2, <3>3 DEF Runtime!WorkerRow
    <3>. QED  BY <3>1, <3>4
  <2>3. WorkerKnows(row)
    BY <1>2, <2>2 DEF WorkerKnows, StateSound
  <2>4. PICK state : state = Runtime!Derived(w)
    OBVIOUS
  <2>5. state \in Runtime!RuntimeState /\ StateSound(state)
    <3>1. CASE old.load > 0
      <4>1. state = [rev |-> old.job, work |-> "BUSY", load |-> old.load]
        BY <1>1, <2>4, <3>1 DEF Runtime!Derived
      <4>. QED  BY <1>2, <2>1, <3>1, <4>1 DEF Runtime!RuntimeState, StateSound, WorkerKnows
    <3>2. CASE ~(old.load > 0) /\ old.seen.work = "AVAILABLE" /\ old.seen.rev >= old.job
      <4>1. state = old.seen
        BY <1>1, <2>4, <3>2 DEF Runtime!Derived
      <4>. QED  BY <1>2, <4>1 DEF WorkerKnows
    <3>3. CASE ~(old.load > 0) /\ ~(old.seen.work = "AVAILABLE" /\ old.seen.rev >= old.job)
      <4>1. state = [rev |-> old.job, work |-> "OFFLINE", load |-> 0]
        BY <1>1, <2>4, <3>3 DEF Runtime!Derived
      <4>2. old.load = 0
        BY <1>2, <3>3 DEF Runtime!Loads
      <4>3. KnownSince(0, old.job)
        BY <1>2, <2>1, <4>2 DEF WorkerKnows
      <4>. QED  BY <1>2, <4>1, <4>3 DEF Runtime!RuntimeState, Runtime!Loads, StateSound
    <3>. QED  BY <3>1, <3>2, <3>3
  <2>6. key' \in Runtime!RuntimeState /\ StateSound(key)'
    BY <1>5, <2>1, <2>4, <2>5, CasIsSound
  <2>. QED  BY <1>3, <2>1, <2>2, <2>3, <2>6, WorkerMoves
<1>12. CASE Runtime!CompleteJob(w)
  <2>1. /\ Runtime!WorkerGoesOn(w, Runtime!IdleWorker) /\ UNCHANGED <<key, runtimeFaults>>
        /\ \/ jobs' = [jobs EXCEPT ![old.job] = Runtime!Unlocked(@, "COMPLETED")]
           \/ jobs' = jobs
    BY <1>1, <1>12 DEF Runtime!CompleteJob
  <2>2. jobs' \in [Runtime!Revisions -> Runtime!JobRow]
    BY <1>2, <1>3, <2>1, JobsLetGo
  <2>. QED  BY <1>3, <1>4, <1>5, <2>1, <2>2, IdleKnows, WorkerMoves
<1>13. CASE Runtime!FailJob(w)
  <2>1. /\ Runtime!WorkerGoesOn(w, Runtime!IdleWorker) /\ UNCHANGED <<key, runtimeFaults>>
        /\ \/ \E status \in {"DEAD", "PENDING"} :
                  jobs' = [jobs EXCEPT ![old.job] = Runtime!Unlocked(@, status)]
           \/ jobs' = jobs
    BY <1>1, <1>13 DEF Runtime!FailJob
  <2>2. jobs' \in [Runtime!Revisions -> Runtime!JobRow]
    BY <1>2, <1>3, <2>1, JobsLetGo
  <2>. QED  BY <1>3, <1>4, <1>5, <2>1, <2>2, IdleKnows, WorkerMoves
<1>14. CASE Runtime!StepFails(w)
  <2>1. PICK row : /\ row = [old EXCEPT !.step = "fail", !.load = 0, !.seen = Runtime!NoKey]
                   /\ Runtime!WorkerGoesOn(w, row)
                   /\ UNCHANGED jobs /\ key' \in {key, Runtime!NoKey}
                   /\ runtimeFaults < MaxFaults /\ runtimeFaults' = runtimeFaults + 1
    BY <1>1, <1>14 DEF Runtime!StepFails, Runtime!WriteFails
  <2>2. /\ row \in Runtime!WorkerRow /\ row.job = old.job /\ row.seen = Runtime!NoKey
        /\ row.step = "fail"
    <3>1. PICK none, zero : none = Runtime!NoKey /\ zero = 0
      OBVIOUS
    <3>2. none \in Runtime!RuntimeState /\ zero \in Runtime!Loads
      BY <3>1, NoKeyIsAState DEF Runtime!Loads
    <3>3. row = [old EXCEPT !.step = "fail", !.load = zero, !.seen = none]
      BY <2>1, <3>1
    <3>4. /\ row \in Runtime!WorkerRow /\ row.job = old.job /\ row.seen = none
          /\ row.step = "fail"
      BY <1>2, <3>2, <3>3 DEF Runtime!WorkerRow
    <3>. QED  BY <3>1, <3>4
  <2>3. WorkerKnows(row)
    BY <1>2, <2>2 DEF WorkerKnows, StateSound
  <2>4. runtimeFaults' \in 0 .. MaxFaults
    BY <1>3, <2>1
  <2>. QED  BY <1>3, <1>4, <1>5, <2>1, <2>2, <2>3, <2>4, WorkerMoves
<1>15. CASE Runtime!WorkerCrashes(w)
  <2>1. /\ Runtime!WorkerGoesOn(w, Runtime!IdleWorker) /\ UNCHANGED <<jobs, key>>
        /\ runtimeFaults < MaxFaults /\ runtimeFaults' = runtimeFaults + 1
    BY <1>15 DEF Runtime!WorkerCrashes
  <2>2. runtimeFaults' \in 0 .. MaxFaults
    BY <1>3, <2>1
  <2>. QED  BY <1>3, <1>4, <1>5, <2>1, <2>2, IdleKnows, WorkerMoves
<1>. QED  BY <1>6, <1>7, <1>8, <1>9, <1>10, <1>11, <1>12, <1>13, <1>14, <1>15
          DEF Runtime!WorkerStep

LEMMA SpinStepKeepsRuntime ==
    ASSUME RuntimeInv, NEW s \in Spins, Runtime!SpinStep(s)
    PROVE  RuntimeInv'
<1>1. PICK old : old = runtimeSpins[s]
  OBVIOUS
<1>2. /\ old \in Runtime!SpinRow /\ SpinKnows(old) /\ Runtime!TypeOK /\ old.load \in Runtime!Loads
  BY <1>1 DEF RuntimeInv, Runtime!TypeOK, Runtime!SpinRow
<1>3. ASSUME NEW row \in Runtime!SpinRow, SpinKnows(row), Runtime!SpinGoesOn(s, row),
             key' \in Runtime!RuntimeState, StateSound(key)', runtimeFaults' \in 0 .. MaxFaults
      PROVE  RuntimeInv'
  <2>1. /\ runtimeSpins' = [runtimeSpins EXCEPT ![s] = row]
        /\ UNCHANGED <<load, runtimeRevision, loadAt, jobs, runtimeRequests, runtimeWorkers>>
    BY <1>3 DEF Runtime!SpinGoesOn
  <2>2. /\ jobs' \in [Runtime!Revisions -> Runtime!JobRow]
        /\ runtimeRequests' \subseteq Runtime!Request
        /\ \A q \in runtimeRequests' : q \in runtimeRequests
        /\ runtimeWorkers' \in [Workers -> Runtime!WorkerRow]
        /\ \A w \in Workers : runtimeWorkers'[w] = runtimeWorkers[w]
        /\ runtimeSpins' \in [Spins -> Runtime!SpinRow]
        /\ \A t \in Spins : runtimeSpins'[t] = runtimeSpins[t] \/ runtimeSpins'[t] = row
    BY <1>2, <2>1 DEF Runtime!TypeOK
  <2>3. \A t \in Spins : runtimeSpins'[t] = runtimeSpins[t] \/ SpinKnows(runtimeSpins'[t])
    <3>1. ASSUME NEW t \in Spins, runtimeSpins'[t] = row PROVE SpinKnows(runtimeSpins'[t])
      BY <1>3, <3>1
    <3>. QED  BY <2>2, <3>1
  <2>. QED  BY <1>3, <2>1, <2>2, <2>3, MoveKeepsRuntime
<1>4. CASE Runtime!SpinHydrates(s)
  <2>1. PICK row : /\ row = [step |-> "write", load |-> load]
                   /\ Runtime!SpinGoesOn(s, row) /\ UNCHANGED key
                   /\ runtimeFaults < MaxFaults /\ runtimeFaults' = runtimeFaults + 1
    BY <1>4 DEF Runtime!SpinHydrates
  <2>2. row \in Runtime!SpinRow /\ SpinKnows(row)
    <3>1. KnownSince(load, 0)
      BY <1>2, LoadIsKnown DEF Runtime!TypeOK, Runtime!Revisions
    <3>. QED  BY <1>2, <2>1, <3>1 DEF Runtime!SpinRow, SpinKnows, Runtime!TypeOK
  <2>3. key' \in Runtime!RuntimeState /\ StateSound(key)'
    BY <2>1, KeyMayGo DEF Runtime!SpinGoesOn
  <2>4. runtimeFaults' \in 0 .. MaxFaults
    BY <1>2, <2>1 DEF Runtime!TypeOK
  <2>. QED  BY <1>3, <2>1, <2>2, <2>3, <2>4
<1>5. CASE Runtime!SpinWrites(s)
  <2>1. /\ old.step = "write"
        /\ Runtime!CasWrite(Runtime!Hydrated(old.load)) \/ key' \in {key, Runtime!NoKey}
        /\ Runtime!SpinGoesOn(s, Runtime!IdleSpin)
        /\ UNCHANGED runtimeFaults
    BY <1>1, <1>5 DEF Runtime!SpinWrites, Runtime!WriteFails
  <2>2. Runtime!IdleSpin \in Runtime!SpinRow /\ SpinKnows(Runtime!IdleSpin)
    BY DEF Runtime!IdleSpin, Runtime!SpinRow, Runtime!Loads, SpinKnows
  <2>3. UNCHANGED <<runtimeRevision, loadAt>>
    BY <2>1 DEF Runtime!SpinGoesOn
  <2>4. key' \in Runtime!RuntimeState /\ StateSound(key)'
    <3>1. CASE Runtime!CasWrite(Runtime!Hydrated(old.load))
      <4>1. PICK work : work = Runtime!BusyOr("OFFLINE", old.load)
        OBVIOUS
      <4>2. work \in {"OFFLINE", "AVAILABLE", "BUSY"} /\ (work = "BUSY" <=> old.load > 0)
        BY <1>2, <4>1, BusyWhenLoaded
      <4>3. PICK state : state = [rev |-> 0, work |-> work, load |-> old.load]
        OBVIOUS
      <4>4. state = Runtime!Hydrated(old.load)
        BY <4>1, <4>3 DEF Runtime!Hydrated
      <4>5. state \in Runtime!RuntimeState
        BY <1>2, <4>2, <4>3 DEF Runtime!RuntimeState, Runtime!Revisions
      <4>6. StateSound(state)
        BY <1>2, <2>1, <4>2, <4>3 DEF StateSound, SpinKnows
      <4>. QED  BY <2>3, <3>1, <4>4, <4>5, <4>6, CasIsSound
    <3>2. CASE key' \in {key, Runtime!NoKey}
      BY <2>3, <3>2, KeyMayGo
    <3>. QED  BY <2>1, <3>1, <3>2
  <2>5. runtimeFaults' \in 0 .. MaxFaults
    BY <1>2, <2>1 DEF Runtime!TypeOK
  <2>. QED  BY <1>3, <2>1, <2>2, <2>4, <2>5
<1>. QED  BY <1>4, <1>5 DEF Runtime!SpinStep

\* A lease that runs out, and a key that does.
LEMMA ExpiryKeepsRuntime ==
    ASSUME RuntimeInv,
           Runtime!KeyIsLost \/ \E r \in 1 .. runtimeRevision : Runtime!LeaseExpires(r)
    PROVE  RuntimeInv'
<1>1. Runtime!TypeOK
  BY DEF RuntimeInv
<1>2. /\ UNCHANGED <<load, runtimeRevision, loadAt, runtimeRequests, runtimeWorkers, runtimeSpins>>
      /\ key' \in {key, Runtime!NoKey}
  BY DEF Runtime!KeyIsLost, Runtime!LeaseExpires
<1>3. runtimeFaults' \in 0 .. MaxFaults
  BY <1>1 DEF Runtime!KeyIsLost, Runtime!LeaseExpires, Runtime!TypeOK
<1>4. jobs' \in [Runtime!Revisions -> Runtime!JobRow]
  <2>1. CASE Runtime!KeyIsLost
    BY <1>1, <2>1 DEF Runtime!KeyIsLost, Runtime!TypeOK
  <2>2. CASE \E r \in 1 .. runtimeRevision : Runtime!LeaseExpires(r)
    <3>1. PICK r \in 1 .. runtimeRevision : jobs' = [jobs EXCEPT ![r].leased = FALSE]
      BY <2>2 DEF Runtime!LeaseExpires
    <3>2. r \in Runtime!Revisions /\ jobs \in [Runtime!Revisions -> Runtime!JobRow]
      BY <1>1 DEF Runtime!TypeOK, Runtime!Revisions
    <3>3. PICK new : new = [jobs[r] EXCEPT !.leased = FALSE]
      OBVIOUS
    <3>4. new \in Runtime!JobRow
      BY <3>2, <3>3 DEF Runtime!JobRow
    <3>5. jobs' = [jobs EXCEPT ![r] = new]
      BY <3>1, <3>2, <3>3
    <3>. QED  BY <3>2, <3>4, <3>5
  <2>. QED  BY <2>1, <2>2
<1>5. key' \in Runtime!RuntimeState /\ StateSound(key)'
  BY <1>2, KeyMayGo
<1>6. /\ runtimeRequests' \subseteq Runtime!Request
      /\ \A q \in runtimeRequests' : q \in runtimeRequests
      /\ runtimeWorkers' \in [Workers -> Runtime!WorkerRow]
      /\ \A w \in Workers : runtimeWorkers'[w] = runtimeWorkers[w]
      /\ runtimeSpins' \in [Spins -> Runtime!SpinRow]
      /\ \A s \in Spins : runtimeSpins'[s] = runtimeSpins[s]
  BY <1>1, <1>2 DEF Runtime!TypeOK
<1>. QED  BY <1>2, <1>3, <1>4, <1>5, <1>6, MoveKeepsRuntime

LEMMA NextKeepsRuntime == RuntimeInv /\ [Runtime!Next]_(Runtime!vars) => RuntimeInv'
<1> SUFFICES ASSUME RuntimeInv, [Runtime!Next]_(Runtime!vars) PROVE RuntimeInv'
  OBVIOUS
<1>1. CASE UNCHANGED Runtime!vars
  <2>1. /\ UNCHANGED <<load, loadAt, jobs, key, runtimeRevision, runtimeRequests>>
        /\ UNCHANGED <<runtimeWorkers, runtimeSpins, runtimeFaults>>
    BY <1>1 DEF Runtime!vars
  <2>2. Runtime!TypeOK
    BY DEF RuntimeInv
  <2>3. /\ runtimeRequests' \subseteq Runtime!Request
        /\ \A q \in runtimeRequests' : q \in runtimeRequests
        /\ runtimeWorkers' \in [Workers -> Runtime!WorkerRow]
        /\ \A w \in Workers : runtimeWorkers'[w] = runtimeWorkers[w]
        /\ runtimeSpins' \in [Spins -> Runtime!SpinRow]
        /\ \A s \in Spins : runtimeSpins'[s] = runtimeSpins[s]
        /\ jobs' \in [Runtime!Revisions -> Runtime!JobRow]
        /\ runtimeFaults' \in 0 .. MaxFaults
    BY <2>1, <2>2 DEF Runtime!TypeOK
  <2>4. key' \in Runtime!RuntimeState /\ StateSound(key)'
    BY <2>1, KeyMayGo
  <2>. QED  BY <2>1, <2>3, <2>4, MoveKeepsRuntime
<1>2. CASE Runtime!Next
  <2>1. CASE \E kind \in Runtime!CommitKinds : Runtime!Commit(kind)
    BY <2>1, CommitKeepsRuntime
  <2>2. CASE Runtime!RequestStep
    BY <2>2, RequestStepKeepsRuntime
  <2>3. CASE \E w \in Workers : \/ Runtime!WorkerStep(w) \/ Runtime!StepFails(w)
                                \/ Runtime!WorkerCrashes(w)
    BY <2>3, WorkerStepKeepsRuntime
  <2>4. CASE Runtime!KeyIsLost \/ \E r \in 1 .. runtimeRevision : Runtime!LeaseExpires(r)
    BY <2>4, ExpiryKeepsRuntime
  <2>5. CASE \E s \in Spins : Runtime!SpinStep(s)
    BY <2>5, SpinStepKeepsRuntime
  <2>. QED  BY <1>2, <2>1, <2>2, <2>3, <2>4, <2>5 DEF Runtime!Next, Runtime!CommitKinds
<1>. QED  BY <1>1, <1>2

\* Every writer compares revisions, or deletes the key.
LEMMA KeyOnlyAdvances ==
    ASSUME RuntimeInv, [Runtime!Next]_(Runtime!vars)
    PROVE  [key' = Runtime!NoKey \/ key'.rev >= key.rev]_(Runtime!vars)
<1>1. key.rev \in Nat
  BY DEF RuntimeInv, Runtime!TypeOK, Runtime!RuntimeState, Runtime!Revisions
<1>2. key'.rev \in Nat
  BY NextKeepsRuntime DEF RuntimeInv, Runtime!TypeOK, Runtime!RuntimeState, Runtime!Revisions
<1>3. ASSUME NEW state, Runtime!CasWrite(state) PROVE key'.rev >= key.rev
  BY <1>1, <1>2, <1>3 DEF Runtime!CasWrite
<1>4. key' \in {key, Runtime!NoKey} => key' = Runtime!NoKey \/ key'.rev >= key.rev
  BY <1>1
<1>5. ASSUME NEW kind \in Runtime!CommitKinds, Runtime!Commit(kind)
      PROVE  key' \in {key, Runtime!NoKey}
  BY <1>5 DEF Runtime!Commit
<1>6. ASSUME Runtime!RequestStep
      PROVE  key' \in {key, Runtime!NoKey} \/ \E state : Runtime!CasWrite(state)
  BY <1>6 DEF Runtime!RequestStep, Runtime!ReadRuntime, Runtime!CountOrders,
              Runtime!WriteRuntime, Runtime!MarkCompleted, Runtime!DeleteAtLogout,
              Runtime!GiveUp, Runtime!WriteFails
<1>7. ASSUME NEW w \in Workers,
             Runtime!WorkerStep(w) \/ Runtime!StepFails(w) \/ Runtime!WorkerCrashes(w)
      PROVE  key' \in {key, Runtime!NoKey} \/ \E state : Runtime!CasWrite(state)
  BY <1>7 DEF Runtime!WorkerStep, Runtime!ClaimJob, Runtime!RenewLease,
              Runtime!CheckRevision, Runtime!HydrateJob, Runtime!ReadExisting,
              Runtime!WriteDerived, Runtime!CompleteJob, Runtime!FailJob, Runtime!StepFails,
              Runtime!WorkerCrashes, Runtime!WriteFails
<1>8. ASSUME Runtime!KeyIsLost \/ \E r \in 1 .. runtimeRevision : Runtime!LeaseExpires(r)
      PROVE  key' \in {key, Runtime!NoKey}
  BY <1>8 DEF Runtime!KeyIsLost, Runtime!LeaseExpires
<1>9. ASSUME NEW s \in Spins, Runtime!SpinStep(s)
      PROVE  key' \in {key, Runtime!NoKey} \/ \E state : Runtime!CasWrite(state)
  BY <1>9 DEF Runtime!SpinStep, Runtime!SpinHydrates, Runtime!SpinWrites, Runtime!WriteFails
<1>. QED  BY <1>3, <1>4, <1>5, <1>6, <1>7, <1>8, <1>9 DEF Runtime!Next, Runtime!CommitKinds

LEMMA RuntimeInvariance == Runtime!Spec => []RuntimeInv
BY RuntimeInit, NextKeepsRuntime, PTL DEF Runtime!Spec

\* The driver's load and revisions, his jobs, his key, and everybody who writes it have
\* their types.
THEOREM RuntimeTypeCorrect == Runtime!Spec => []Runtime!TypeOK
<1>1. RuntimeInv => Runtime!TypeOK
  BY DEF RuntimeInv
<1>. QED  BY <1>1, RuntimeInvariance, PTL

\* What a driver's key says was so at the commit of its revision or later, and nothing
\* takes it back to an older one: neither late requests and workers nor hydrations.
THEOREM RuntimeKeyIsSound == Runtime!Spec => Runtime!KeyIsSound
<1>1. RuntimeInv => Runtime!RevisedIsNotOlder
  BY DEF RuntimeInv, StateSound, KnownSince, Runtime!RevisedIsNotOlder
<1>2. RuntimeInv /\ [Runtime!Next]_(Runtime!vars) =>
          [key' = Runtime!NoKey \/ key'.rev >= key.rev]_(Runtime!vars)
  BY KeyOnlyAdvances
<1>. QED  BY <1>1, <1>2, RuntimeInvariance, PTL
          DEF Runtime!Spec, Runtime!KeyIsSound, Runtime!KeyRevisionAdvances

=============================================================================

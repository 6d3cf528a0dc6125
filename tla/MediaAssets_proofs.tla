------------------------- MODULE MediaAssets_proofs -------------------------
(***************************************************************************)
(* The safety properties of MediaAssets, proved for any finite set of      *)
(* assets and any rows, workers and confirmations.                         *)
(***************************************************************************)
EXTENDS MediaAssets, FiniteSetTheorems, TLAPS

USE MediaAssumption DEF MediaAssumption

----------------------------------------------------------------------------
(* The inductive invariant. *)

\* What the columns of one asset, its object and its use have to do with each other.
\* An upload that was never confirmed is deleted only after its URL expired.
Sound(a) ==
    LET row == assets[a] IN
    /\ row.status = "NONE" => ~row.open /\ ~row.late
    /\ row.open => ~row.late
    /\ row.status \in {"NONE", "PENDING_UPLOAD"} => ~row.confirmed
    /\ row.status = "READY" => row.confirmed /\ a \in stored
    /\ row.attached => row.status = "READY"
    /\ row.status = "DELETED" /\ ~row.confirmed => ~row.open /\ a \notin stored

\* An asset is attached exactly when a row uses it, and no two rows use one asset.
Linked(a) ==
    /\ assets[a].attached <=> \E o \in Owners : a \in Refs(owners[o])
    /\ \A o, p \in Owners : a \in Refs(owners[o]) /\ a \in Refs(owners[p]) => o = p

\* What a confirmation saw in storage is there for as long as the row is confirmable,
\* and for as long as it holds the row, whose URL may expire meanwhile.
Awaits(a) ==
    /\ assets[a].status = "PENDING_UPLOAD" /\ a \in stored
    /\ assets[a].open \/ assets[a].late

SawObject(c) ==
    confirms[c].step # "idle" =>
        LET a == confirms[c].asset IN
        /\ assets[a].status # "NONE"
        /\ confirms[c].step = "commit" /\ Confirmable(assets[a]) => a \in stored
        /\ confirms[c].step = "written" => Awaits(a)

\* A row is locked by one transaction.
OneHolder ==
    \A c, d \in Confirms :
        /\ confirms[c].step = "written" /\ confirms[d].step = "written"
        /\ confirms[c].asset = confirms[d].asset
        => c = d

\* A worker deals with assets that nobody can bring back: given up, and past the
\* time at which an unconfirmed upload could still arrive.
GivenUp(row) ==
    /\ row.status \in {"DELETE_PENDING", "DELETED"}
    /\ row.confirmed \/ ~row.open

DeletesGivenUp(w) ==
    /\ \A a \in workers[w].batch : GivenUp(assets[a])
    /\ workers[w].step = "deleted" =>
           LET a == workers[w].asset IN
           GivenUp(assets[a]) /\ (a \in stored => assets[a].confirmed)

IInv ==
    /\ Typed
    /\ \A a \in Assets : Sound(a)
    /\ \A a \in Assets : Linked(a)
    /\ \A c \in Confirms : SawObject(c)
    /\ OneHolder
    /\ \A w \in Workers : DeletesGivenUp(w)

LEMMA InitSound == Init => IInv
<1> SUFFICES ASSUME Init PROVE IInv
  OBVIOUS
<1>1. PICK plan \in Plans :
          assets = [a \in Assets |->
              [use |-> plan[a].use, creator |-> plan[a].creator, status |-> "NONE",
               open |-> FALSE, confirmed |-> FALSE, attached |-> FALSE, leased |-> FALSE,
               late |-> FALSE]]
  BY DEF Init
<1>2. Typed
  <2>1. assets \in [Assets -> Asset]
    BY <1>1 DEF Asset
  <2>2. owners \in [Owners -> OwnerRow]
    BY DEF Init, OwnerRow
  <2>3. /\ confirms \in [Confirms -> Confirmation]
        /\ \A c \in Confirms : confirms[c].step = "idle"
    BY DEF Init, Confirmation, NoConfirmation
  <2>4. /\ workers \in [Workers -> CleanUp]
        /\ \A w \in Workers : workers[w].step = "idle" /\ workers[w].asset = None
    BY DEF Init, CleanUp, NoCleanUp
  <2>5. stored \subseteq Assets /\ faults \in 0 .. MaxFaults
    BY DEF Init
  <2>. QED  BY <2>1, <2>2, <2>3, <2>4, <2>5 DEF Typed
<1>3. \A a \in Assets : Sound(a)
  BY <1>1 DEF Sound
<1>4. \A o \in Owners : Refs(owners[o]) = {}
  BY DEF Init, Refs
<1>5. \A a \in Assets : Linked(a)
  BY <1>1, <1>4 DEF Linked
<1>6. OneHolder /\ \A c \in Confirms : SawObject(c)
  BY DEF Init, SawObject, OneHolder, NoConfirmation
<1>7. \A w \in Workers : DeletesGivenUp(w)
  BY DEF Init, DeletesGivenUp, NoCleanUp
<1>. QED  BY <1>2, <1>3, <1>5, <1>6, <1>7 DEF IInv

----------------------------------------------------------------------------
(* What a step may do to an asset without disturbing those who are at work on it. *)

Moves(a) ==
    /\ Sound(a)'
    /\ assets[a].status # "NONE" =>
           /\ assets'[a].status # "NONE"
           /\ Confirmable(assets'[a]) =>
                  Confirmable(assets[a]) /\ (a \in stored => a \in stored')
    /\ Locked(a) /\ Locked(a)' /\ Awaits(a) => Awaits(a)'
    /\ GivenUp(assets[a]) =>
           /\ GivenUp(assets'[a])
           /\ assets'[a].confirmed = assets[a].confirmed
           /\ a \in stored' => a \in stored \/ assets[a].confirmed

LEMMA UntouchedMoves ==
    ASSUME NEW a, Sound(a), assets'[a] = assets[a], a \in stored' <=> a \in stored
    PROVE  Moves(a)
BY DEF Moves, Sound, Awaits

LEMMA ConfirmationGoesOn ==
    ASSUME Typed, \A a \in Assets : Moves(a),
           NEW c \in Confirms, SawObject(c), confirms'[c] = confirms[c]
    PROVE  SawObject(c)'
<1> SUFFICES ASSUME confirms[c].step # "idle" PROVE SawObject(c)'
  BY DEF SawObject
<1>1. confirms[c].asset \in Assets
  BY DEF Typed, Confirmation
<1>2. ASSUME confirms[c].step = "written"
      PROVE  Locked(confirms[c].asset) /\ Locked(confirms[c].asset)'
  BY <1>2 DEF Locked
<1>. QED  BY <1>1, <1>2 DEF SawObject, Moves

LEMMA DeletionGoesOn ==
    ASSUME Typed, \A a \in Assets : Moves(a),
           NEW w \in Workers, DeletesGivenUp(w), workers'[w] = workers[w]
    PROVE  DeletesGivenUp(w)'
<1>1. \A a \in workers[w].batch : GivenUp(assets'[a])
  BY DEF Typed, CleanUp, DeletesGivenUp, Moves
<1>2. ASSUME workers[w].step = "deleted"
      PROVE  LET a == workers[w].asset IN
             GivenUp(assets'[a]) /\ (a \in stored' => assets'[a].confirmed)
  <2>1. workers[w].asset \in Assets
    BY <1>2 DEF Typed, CleanUp
  <2>. QED  BY <1>2, <2>1 DEF DeletesGivenUp, Moves
<1>. QED  BY <1>1, <1>2 DEF DeletesGivenUp

LEMMA LinksStay ==
    ASSUME NEW a, Linked(a), owners' = owners,
           assets'[a].attached = assets[a].attached
    PROVE  Linked(a)'
BY DEF Linked

LEMMA RowsStep ==
    ASSUME IInv, Typed', owners' = owners, confirms' = confirms, workers' = workers,
           \A a \in Assets : Moves(a) /\ assets'[a].attached = assets[a].attached
    PROVE  IInv'
<1>1. \A a \in Assets : Linked(a)'
  BY LinksStay DEF IInv
<1>2. \A c \in Confirms : SawObject(c)'
  BY ConfirmationGoesOn DEF IInv
<1>3. \A w \in Workers : DeletesGivenUp(w)'
  BY DeletionGoesOn DEF IInv
<1>4. \A a \in Assets : Sound(a)'
  BY DEF Moves
<1>5. OneHolder'
  BY DEF IInv, OneHolder
<1>. QED  BY <1>1, <1>2, <1>3, <1>4, <1>5 DEF IInv

\* A step that writes the row of one asset, and no other object in storage.
LEMMA OneRow ==
    ASSUME IInv, NEW a \in Assets, NEW row \in Asset,
           assets' = [assets EXCEPT ![a] = row],
           stored' \subseteq Assets, \A b \in Assets \ {a} : b \in stored' <=> b \in stored,
           row.attached = assets[a].attached,
           Moves(a)
    PROVE  /\ assets' \in [Assets -> Asset]
           /\ \A b \in Assets : Moves(b) /\ assets'[b].attached = assets[b].attached
<1>1. assets \in [Assets -> Asset] /\ \A b \in Assets : Sound(b)
  BY DEF IInv, Typed
<1>2. \A b \in Assets \ {a} : assets'[b] = assets[b]
  BY <1>1
<1>. QED  BY <1>1, <1>2, UntouchedMoves

LEMMA OneRowKeeps ==
    ASSUME IInv, NEW a \in Assets, NEW row \in Asset,
           assets' = [assets EXCEPT ![a] = row],
           stored' \subseteq Assets, \A b \in Assets \ {a} : b \in stored' <=> b \in stored,
           UNCHANGED <<owners, confirms, workers, faults>>,
           row.attached = assets[a].attached,
           Moves(a)
    PROVE  IInv'
<1>1. /\ assets' \in [Assets -> Asset]
      /\ \A b \in Assets : Moves(b) /\ assets'[b].attached = assets[b].attached
  BY OneRow
<1>2. Typed'
  BY <1>1 DEF Typed, IInv
<1>. QED  BY <1>1, <1>2, RowsStep

----------------------------------------------------------------------------
(* The uploads, the clock and the requests. *)

LEMMA UploadKeeps ==
    ASSUME IInv, NEW a \in Assets, Upload(a) \/ Clock(a) PROVE IInv'
<1>1. assets \in [Assets -> Asset] /\ assets[a] \in Asset /\ Sound(a) /\ stored \subseteq Assets
  BY DEF IInv, Typed
<1>2. CASE CreateUploadIntent(a) \/ CreateDriverProofUploadIntent(a)
  <2> DEFINE row == [assets[a] EXCEPT !.status = "PENDING_UPLOAD", !.open = TRUE]
  <2>1. assets' = [assets EXCEPT ![a] = row] /\ assets[a].status = "NONE"
    BY <1>1, <1>2 DEF CreateUploadIntent, CreateDriverProofUploadIntent, Pend
  <2>2. /\ row \in Asset /\ assets'[a] = row
        /\ row.status = "PENDING_UPLOAD"
        /\ row.attached = assets[a].attached /\ row.confirmed = assets[a].confirmed
        /\ row.late = assets[a].late
    BY <1>1, <2>1 DEF Asset
  <2>3. UNCHANGED <<stored, owners, confirms, workers, faults>>
    BY <1>2 DEF CreateUploadIntent, CreateDriverProofUploadIntent
  <2>4. Moves(a)
    BY <1>1, <2>1, <2>2 DEF Moves, Sound, GivenUp, Awaits
  <2>. QED  BY <1>1, <2>1, <2>2, <2>3, <2>4, OneRowKeeps
<1>3. CASE PutObject(a)
  <2>1. /\ assets' = [assets EXCEPT ![a] = assets[a]] /\ stored' = stored \cup {a}
        /\ assets[a].open /\ UNCHANGED <<owners, confirms, workers, faults>>
    BY <1>1, <1>3 DEF PutObject
  <2>2. Moves(a)
    BY <1>1, <2>1 DEF Moves, Sound, GivenUp, Awaits
  <2>. QED  BY <1>1, <2>1, <2>2, OneRowKeeps
<1>4. CASE Delete(a)
  <2> DEFINE row == [assets[a] EXCEPT !.status = "DELETE_PENDING"]
  <2>1. /\ assets' = [assets EXCEPT ![a] = row]
        /\ assets[a].status \in {"PENDING_UPLOAD", "READY"} /\ ~assets[a].attached
        /\ ~Locked(a)
        /\ UNCHANGED <<stored, owners, confirms, workers, faults>>
    BY <1>1, <1>4 DEF Delete
  <2>2. /\ row \in Asset /\ assets'[a] = row /\ row.status = "DELETE_PENDING"
        /\ row.attached = assets[a].attached
        /\ row.open = assets[a].open /\ row.late = assets[a].late
    BY <1>1, <2>1 DEF Asset
  <2>3. Moves(a)
    BY <1>1, <2>1, <2>2 DEF Moves, Sound, GivenUp, Awaits, Confirmable, StillPending
  <2>. QED  BY <1>1, <2>1, <2>2, <2>3, OneRowKeeps
<1>5. CASE UploadExpires(a)
  <2> DEFINE row == [assets[a] EXCEPT !.open = FALSE, !.late = Locked(a)]
  <2>1. /\ assets' = [assets EXCEPT ![a] = row]
        /\ UNCHANGED <<stored, owners, confirms, workers, faults>>
    BY <1>1, <1>5 DEF UploadExpires
  <2>0. Locked(a) \in BOOLEAN
    BY DEF Locked
  <2>2. /\ row \in Asset /\ assets'[a] = row /\ row.open = FALSE /\ row.late = Locked(a)
        /\ row.status = assets[a].status /\ row.confirmed = assets[a].confirmed
        /\ row.attached = assets[a].attached
    BY <1>1, <2>0, <2>1 DEF Asset
  <2>3. Locked(a) => assets'[a].late
    BY <2>2, Zenon
  <2>4. /\ ~assets'[a].open /\ assets'[a].status = assets[a].status
        /\ assets'[a].confirmed = assets[a].confirmed
        /\ assets'[a].attached = assets[a].attached
    BY <2>2
  <2>5. Moves(a)
    <3>1. Sound(a)'
      <4>1. assets[a].status # "NONE" /\ stored' = stored
        BY <1>1, <1>5, <2>1 DEF UploadExpires, Sound
      <4>. QED  BY <1>1, <2>4, <4>1 DEF Sound
    <3>2. Locked(a) /\ Awaits(a) => Awaits(a)'
      BY <2>1, <2>3, <2>4 DEF Awaits
    <3>. QED  BY <2>1, <2>4, <3>1, <3>2 DEF Moves, GivenUp, Confirmable
  <2>. QED  BY <1>1, <2>1, <2>2, <2>5, OneRowKeeps
<1>6. CASE LeaseExpires(a)
  <2> DEFINE row == [assets[a] EXCEPT !.leased = FALSE]
  <2>1. /\ assets' = [assets EXCEPT ![a] = row]
        /\ UNCHANGED <<stored, owners, confirms, workers, faults>>
    BY <1>1, <1>6 DEF LeaseExpires
  <2>2. /\ row \in Asset /\ assets'[a] = row /\ row.open = assets[a].open
        /\ row.late = assets[a].late
        /\ row.status = assets[a].status /\ row.confirmed = assets[a].confirmed
        /\ row.attached = assets[a].attached
    BY <1>1, <2>1 DEF Asset
  <2>3. Moves(a)
    BY <1>1, <2>1, <2>2 DEF Moves, Sound, GivenUp, Awaits, Confirmable, StillPending
  <2>. QED  BY <1>1, <2>1, <2>2, <2>3, OneRowKeeps
<1>. QED  BY <1>2, <1>3, <1>4, <1>5, <1>6 DEF Upload, Clock

\* A step of confirmation c, which may write the row of its asset.
LEMMA ConfirmKeeps ==
    ASSUME IInv, NEW c \in Confirms, Confirm(c) PROVE IInv'
<1>1. /\ assets \in [Assets -> Asset] /\ stored \subseteq Assets
      /\ confirms \in [Confirms -> Confirmation]
      /\ \A b \in Assets : Sound(b)
  BY DEF IInv, Typed
<1>2. UNCHANGED <<stored, owners, workers, faults>>
  BY DEF Confirm, BeginConfirm, ReadObject, WriteReady, CommitConfirm, ConfirmStops
<1>3. /\ confirms' \in [Confirms -> Confirmation]
      /\ \A d \in Confirms \ {c} : confirms'[d] = confirms[d]
      /\ \A d \in Confirms : confirms'[d].step # "idle" => confirms'[d].asset # None
  <2>1. ASSUME NEW a \in Assets, BeginConfirm(c, a) PROVE <1>3!:
    BY <1>1, <2>1 DEF BeginConfirm, Confirmation, IInv, Typed
  <2>2. CASE ReadObject(c) \/ WriteReady(c)
    BY <1>1, <2>2 DEF ReadObject, WriteReady, Confirmation, IInv, Typed
  <2>3. CASE CommitConfirm(c) \/ ConfirmStops(c)
    BY <1>1, <2>3 DEF CommitConfirm, ConfirmStops, NoConfirmation, Confirmation, IInv, Typed
  <2>. QED  BY <2>1, <2>2, <2>3 DEF Confirm
<1>4. /\ assets' \in [Assets -> Asset]
      /\ \A b \in Assets : Moves(b) /\ assets'[b].attached = assets[b].attached
  <2>1. CASE CommitConfirm(c)
    <3>1. PICK a \in Assets :
              /\ confirms[c].step = "written" /\ confirms[c].asset = a
              /\ assets' = [assets EXCEPT ![a] =
                                [@ EXCEPT !.status = "READY", !.confirmed = TRUE]]
              /\ assets[a].status = "PENDING_UPLOAD" /\ a \in stored
      BY <1>1, <2>1 DEF CommitConfirm, Confirmation, IInv, Typed, SawObject, Awaits
    <3> DEFINE row == [assets[a] EXCEPT !.status = "READY", !.confirmed = TRUE]
    <3>2. ~assets[a].attached /\ ~assets[a].confirmed
      BY <1>1, <3>1 DEF Sound
    <3>3. /\ assets' = [assets EXCEPT ![a] = row] /\ row \in Asset /\ assets'[a] = row
          /\ row.status = "READY" /\ row.confirmed /\ row.attached = assets[a].attached
          /\ row.open = assets[a].open /\ row.late = assets[a].late
      BY <1>1, <3>1 DEF Asset
    <3>4. ~Locked(a)'
      <4>1. confirms'[c].step = "idle"
        BY <1>1, <2>1 DEF CommitConfirm, NoConfirmation
      <4>. QED  BY <1>3, <3>1, <4>1 DEF Locked, IInv, OneHolder
    <3>5. Moves(a)
      BY <1>1, <1>2, <3>1, <3>2, <3>3, <3>4
         DEF Moves, Sound, GivenUp, Confirmable, StillPending
    <3>. QED  BY <1>1, <1>2, <3>3, <3>5, OneRow
  <2>2. CASE assets' = assets
    BY <1>1, <1>2, <2>2, UntouchedMoves
  <2>. QED  BY <2>1, <2>2 DEF Confirm, BeginConfirm, ReadObject, WriteReady, ConfirmStops
<1>5. Typed'
  BY <1>1, <1>2, <1>3, <1>4 DEF Typed, IInv
<1>6. SawObject(c)' /\ OneHolder'
  <2>1. ASSUME NEW a \in Assets, BeginConfirm(c, a) PROVE SawObject(c)' /\ OneHolder'
    <3>1. confirms'[c] = [step |-> "read", asset |-> a] /\ assets' = assets
          /\ assets[a].status # "NONE"
      BY <1>1, <2>1 DEF BeginConfirm, Confirmable, StillPending
    <3>. QED  BY <1>3, <3>1 DEF SawObject, OneHolder, IInv
  <2>2. CASE ReadObject(c)
    <3>1. /\ confirms'[c].asset = confirms[c].asset /\ confirms[c].step = "read"
          /\ confirms'[c].step = "commit"
          /\ confirms[c].asset \in stored' /\ assets' = assets
      BY <1>1, <2>2 DEF ReadObject, Confirmation
    <3>. QED  BY <1>3, <3>1 DEF IInv, SawObject, OneHolder
  <2>3. CASE WriteReady(c)
    <3>1. /\ confirms'[c].asset = confirms[c].asset /\ confirms[c].step = "commit"
          /\ confirms'[c].step = "written" /\ assets' = assets
          /\ Confirmable(assets[confirms[c].asset]) /\ ~Locked(confirms[c].asset)
      BY <1>1, <2>3 DEF WriteReady, Confirmation
    <3>2. Awaits(confirms[c].asset)'
      BY <1>2, <3>1 DEF IInv, SawObject, Awaits, Confirmable
    <3>3. OneHolder'
      BY <1>3, <3>1 DEF IInv, OneHolder, Locked
    <3>. QED  BY <3>1, <3>2, <3>3 DEF IInv, SawObject
  <2>4. CASE CommitConfirm(c) \/ ConfirmStops(c)
    <3>1. confirms'[c].step = "idle"
      BY <1>1, <2>4 DEF CommitConfirm, ConfirmStops, NoConfirmation
    <3>. QED  BY <1>3, <3>1 DEF SawObject, OneHolder, IInv
  <2>. QED  BY <2>1, <2>2, <2>3, <2>4 DEF Confirm
<1>7. \A d \in Confirms : SawObject(d)'
  BY <1>3, <1>4, <1>6, ConfirmationGoesOn DEF IInv
<1>8. \A w \in Workers : DeletesGivenUp(w)'
  BY <1>2, <1>4, DeletionGoesOn DEF IInv
<1>9. \A b \in Assets : Linked(b)' /\ Sound(b)'
  BY <1>2, <1>4, LinksStay DEF IInv, Moves
<1>. QED  BY <1>5, <1>6, <1>7, <1>8, <1>9 DEF IInv

----------------------------------------------------------------------------
(* Clean-up. *)

LEMMA QueueKeeps ==
    ASSUME IInv, QueueExpiredUploads \/ QueueAbandonedReady PROVE IInv'
<1>1. /\ assets \in [Assets -> Asset] /\ \A b \in Assets : Sound(b)
      /\ UNCHANGED <<stored, owners, confirms, workers, faults>>
  BY DEF IInv, Typed, QueueExpiredUploads, QueueAbandonedReady, Queue
<1>2. PICK due \in SUBSET Assets :
          /\ \A a \in due : /\ assets[a].status \in {"PENDING_UPLOAD", "READY"}
                            /\ assets[a].status = "READY" \/ ~Locked(a)
                            /\ ~assets[a].open /\ ~assets[a].attached
          /\ assets' = [a \in Assets |->
                 IF a \in due THEN [assets[a] EXCEPT !.status = "DELETE_PENDING"]
                 ELSE assets[a]]
  <2>1. CASE QueueExpiredUploads
    <3>1. PICK due \in SUBSET ExpiredUploads : Queue(due)
      BY <2>1 DEF QueueExpiredUploads
    <3>2. \A a \in due : /\ assets[a].status = "PENDING_UPLOAD" /\ ~Locked(a)
                         /\ ~assets[a].open /\ ~assets[a].attached
      BY <1>1, <3>1 DEF ExpiredUploads, Sound
    <3>. QED  BY <3>1, <3>2 DEF Queue, ExpiredUploads
  <2>2. CASE QueueAbandonedReady
    <3>1. PICK due \in SUBSET AbandonedReady : Queue(due)
      BY <2>2 DEF QueueAbandonedReady
    <3>. QED  BY <3>1 DEF Queue, AbandonedReady
  <2>. QED  BY <2>1, <2>2
<1>3. ASSUME NEW a \in Assets
      PROVE  /\ assets'[a] \in Asset /\ Moves(a)
             /\ assets'[a].attached = assets[a].attached
  <2>1. CASE a \in due
    <3>1. /\ assets'[a] \in Asset /\ assets'[a].status = "DELETE_PENDING"
          /\ assets'[a].attached = assets[a].attached /\ ~assets[a].attached
          /\ assets'[a].open = assets[a].open /\ assets'[a].late = assets[a].late
          /\ assets[a].status \in {"PENDING_UPLOAD", "READY"}
          /\ assets[a].status = "READY" \/ ~Locked(a)
      BY <1>1, <1>2, <2>1 DEF Asset
    <3>. QED  BY <1>1, <3>1 DEF Moves, Sound, GivenUp, Awaits, Confirmable, StillPending
  <2>2. CASE a \notin due
    BY <1>1, <1>2, <2>2, UntouchedMoves
  <2>. QED  BY <2>1, <2>2
<1>4. Typed'
  BY <1>1, <1>2, <1>3 DEF Typed, IInv
<1>. QED  BY <1>1, <1>3, <1>4, RowsStep

\* A step of worker w, once it is known what it does to the assets and to w.
LEMMA WorkerStep ==
    ASSUME IInv, NEW w \in Workers, UNCHANGED <<owners, confirms>>,
           stored' \subseteq Assets, assets' \in [Assets -> Asset],
           \A a \in Assets : Moves(a) /\ assets'[a].attached = assets[a].attached,
           NEW run \in CleanUp, workers' = [workers EXCEPT ![w] = run],
           run.step = "deleted" <=> run.asset # None,
           faults' \in 0 .. MaxFaults,
           \A a \in run.batch : GivenUp(assets[a]),
           run.step = "deleted" =>
               /\ GivenUp(assets[run.asset])
               /\ run.asset \in stored' => assets[run.asset].confirmed
    PROVE  IInv'
<1>1. workers \in [Workers -> CleanUp] /\ workers'[w] = run
      /\ \A v \in Workers \ {w} : workers'[v] = workers[v]
  BY DEF IInv, Typed
<1>2. Typed'
  BY <1>1 DEF IInv, Typed
<1>3. DeletesGivenUp(w)'
  <2>1. \A a \in run.batch : GivenUp(assets'[a])
    BY DEF CleanUp, Moves
  <2>2. ASSUME run.step = "deleted"
        PROVE  /\ GivenUp(assets'[run.asset])
               /\ run.asset \in stored' => assets'[run.asset].confirmed
    <3>1. run.asset \in Assets
      BY <2>2 DEF CleanUp
    <3>. QED  BY <2>2, <3>1 DEF Moves
  <2>. QED  BY <1>1, <2>1, <2>2 DEF DeletesGivenUp
<1>4. \A v \in Workers : DeletesGivenUp(v)'
  BY <1>1, <1>3, DeletionGoesOn DEF IInv
<1>5. OneHolder' /\ \A c \in Confirms : SawObject(c)'
  BY ConfirmationGoesOn DEF IInv, OneHolder
<1>6. \A a \in Assets : Linked(a)' /\ Sound(a)'
  BY LinksStay DEF IInv, Moves
<1>. QED  BY <1>2, <1>4, <1>5, <1>6 DEF IInv

LEMMA WithBatchIs ==
    ASSUME NEW batch \in SUBSET Assets
    PROVE  /\ WithBatch(batch) \in CleanUp /\ WithBatch(batch).batch = batch
           /\ WithBatch(batch).step # "deleted" /\ WithBatch(batch).asset = None
BY DEF WithBatch, NoCleanUp, CleanUp

LEMMA BatchStep ==
    ASSUME IInv, NEW w \in Workers, UNCHANGED <<owners, confirms>>,
           stored' \subseteq Assets, assets' \in [Assets -> Asset],
           \A a \in Assets : Moves(a) /\ assets'[a].attached = assets[a].attached,
           NEW batch \in SUBSET Assets, \A a \in batch : GivenUp(assets[a]),
           workers' = [workers EXCEPT ![w] = WithBatch(batch)],
           faults' \in 0 .. MaxFaults
    PROVE  IInv'
<1> DEFINE run == WithBatch(batch)
<1>1. run \in CleanUp /\ run.batch = batch /\ run.step # "deleted" /\ run.asset = None
  BY WithBatchIs
<1>2. workers' = [workers EXCEPT ![w] = run]
  OBVIOUS
<1> HIDE DEF run
<1>3. \A a \in run.batch : GivenUp(assets[a])
  BY <1>1
<1>. QED  BY <1>1, <1>2, <1>3, WorkerStep

\* Giving the lease back, with the row DELETED or still to be deleted.
LEMMA EndLeaseMoves ==
    ASSUME IInv, NEW a \in Assets, GivenUp(assets[a]),
           NEW status \in {"DELETED", "DELETE_PENDING"},
           assets' = [assets EXCEPT ![a] = EndLease(@, status)],
           stored' \in {stored, stored \ {a}},
           status = "DELETED" => (a \in stored => assets[a].confirmed)
    PROVE  /\ assets' \in [Assets -> Asset]
           /\ \A b \in Assets : Moves(b) /\ assets'[b].attached = assets[b].attached
<1> DEFINE row == EndLease(assets[a], status)
<1>1. /\ assets \in [Assets -> Asset] /\ assets[a] \in Asset /\ Sound(a)
      /\ stored \subseteq Assets
  BY DEF IInv, Typed
<1>2. /\ row \in Asset /\ row.attached = assets[a].attached
      /\ row.confirmed = assets[a].confirmed /\ row.open = assets[a].open
      /\ row.late = assets[a].late
      /\ row.status \in {"DELETED", "DELETE_PENDING"}
      /\ row.status = "DELETED" => assets[a].status = "DELETED" \/ status = "DELETED"
  BY <1>1 DEF EndLease, Asset, GivenUp
<1>3. assets' = [assets EXCEPT ![a] = row] /\ assets'[a] = row
  BY <1>1
<1> HIDE DEF row
<1>4. Moves(a)
  BY <1>1, <1>2, <1>3 DEF Moves, Sound, GivenUp, Awaits, Confirmable, StillPending
<1>. QED  BY <1>1, <1>2, <1>3, <1>4, OneRow

LEMMA RunKeeps ==
    ASSUME IInv, NEW w \in Workers, Run(w) \/ Fault(w) PROVE IInv'
<1>1. /\ assets \in [Assets -> Asset] /\ \A b \in Assets : Sound(b)
      /\ stored \subseteq Assets /\ faults \in 0 .. MaxFaults
      /\ workers \in [Workers -> CleanUp] /\ workers[w] \in CleanUp
      /\ workers[w].batch \subseteq Assets
      /\ \A a \in workers[w].batch : GivenUp(assets[a])
  BY DEF IInv, Typed, CleanUp, DeletesGivenUp
<1>2. CASE ClaimDeletePending(w)
  <2>1. PICK batch \in SUBSET DeletePending :
            /\ assets' = [a \in Assets |->
                   IF a \in batch THEN [assets[a] EXCEPT !.leased = TRUE] ELSE assets[a]]
            /\ workers' = [workers EXCEPT ![w] = WithBatch(batch)]
    BY <1>2 DEF ClaimDeletePending
  <2>2. batch \in SUBSET Assets /\ \A a \in batch : GivenUp(assets[a])
    BY <2>1 DEF DeletePending, Claimable, GivenUp
  <2>3. UNCHANGED <<stored, owners, confirms, faults>>
    BY <1>2 DEF ClaimDeletePending
  <2>4. ASSUME NEW a \in Assets
        PROVE  /\ assets'[a] \in Asset /\ Moves(a)
               /\ assets'[a].attached = assets[a].attached
    <3>1. CASE a \in batch
      <4>1. assets'[a] = [assets[a] EXCEPT !.leased = TRUE] /\ assets[a] \in Asset
        BY <1>1, <2>1, <3>1
      <4>2. /\ assets'[a] \in Asset /\ assets'[a].status = assets[a].status
            /\ assets'[a].attached = assets[a].attached
            /\ assets'[a].confirmed = assets[a].confirmed
            /\ assets'[a].open = assets[a].open /\ assets'[a].late = assets[a].late
        BY <4>1 DEF Asset
      <4>. QED
        BY <1>1, <2>3, <4>2
           DEF Moves, Sound, GivenUp, Awaits, Confirmable, StillPending
    <3>2. CASE a \notin batch
      <4>1. assets'[a] = assets[a]
        BY <2>1, <3>2
      <4>. QED  BY <1>1, <2>3, <4>1, UntouchedMoves
    <3>. QED  BY <3>1, <3>2
  <2>5. assets' \in [Assets -> Asset]
    BY <2>1, <2>4
  <2>. QED  BY <1>1, <2>1, <2>2, <2>3, <2>4, <2>5, BatchStep
<1>3. CASE DeleteObject(w)
  <2>1. PICK a \in workers[w].batch :
            /\ stored' = stored \ {a}
            /\ workers' = [workers EXCEPT ![w] =
                   [step |-> "deleted", batch |-> workers[w].batch \ {a}, asset |-> a]]
    BY <1>1, <1>3 DEF DeleteObject
  <2> DEFINE run == [step |-> "deleted", batch |-> workers[w].batch \ {a}, asset |-> a]
  <2>2. /\ a \in Assets /\ GivenUp(assets[a])
        /\ assets' = assets /\ UNCHANGED <<owners, confirms, faults>>
    BY <1>1, <1>3 DEF DeleteObject
  <2>3. ASSUME NEW b \in Assets PROVE Moves(b)
    BY <1>1, <2>1, <2>2 DEF Moves, Sound, GivenUp, Awaits, Confirmable, StillPending
  <2>4. run \in CleanUp /\ run.step = "deleted" /\ run.asset = a /\ a # None
        /\ run.batch \subseteq workers[w].batch /\ a \notin stored'
    BY <1>1, <2>1, <2>2 DEF CleanUp
  <2>. QED  BY <1>1, <2>1, <2>2, <2>3, <2>4, WorkerStep
<1>4. CASE MarkDeleted(w) \/ MarkFails(w)
  <2>1. PICK a \in Assets, status \in {"DELETED", "DELETE_PENDING"} :
            /\ GivenUp(assets[a])
            /\ a \in stored => assets[a].confirmed
            /\ assets' = [assets EXCEPT ![a] = EndLease(@, status)]
            /\ workers' = [workers EXCEPT ![w] = WithBatch(workers[w].batch)]
    BY <1>1, <1>4 DEF MarkDeleted, MarkFails, CleanUp, IInv, DeletesGivenUp, Typed
  <2>2. UNCHANGED <<stored, owners, confirms>> /\ faults' \in 0 .. MaxFaults
    BY <1>1, <1>4 DEF MarkDeleted, MarkFails
  <2>3. /\ stored' \in {stored, stored \ {a}}
        /\ status = "DELETED" => (a \in stored => assets[a].confirmed)
    BY <2>1, <2>2
  <2>4. /\ assets' \in [Assets -> Asset]
        /\ \A b \in Assets : Moves(b) /\ assets'[b].attached = assets[b].attached
    BY <2>1, <2>3, EndLeaseMoves
  <2>. QED  BY <1>1, <2>1, <2>2, <2>4, BatchStep
<1>5. CASE DeleteFails(w)
  <2>1. PICK a \in workers[w].batch :
            /\ stored' \in {stored, stored \ {a}}
            /\ assets' = [assets EXCEPT ![a] = EndLease(@, "DELETE_PENDING")]
            /\ workers' = [workers EXCEPT ![w] = WithBatch(workers[w].batch \ {a})]
    BY <1>1, <1>5 DEF DeleteFails
  <2>2. UNCHANGED <<owners, confirms>> /\ faults' \in 0 .. MaxFaults
    BY <1>1, <1>5 DEF DeleteFails
  <2>3. /\ assets' \in [Assets -> Asset]
        /\ \A b \in Assets : Moves(b) /\ assets'[b].attached = assets[b].attached
    BY <1>1, <2>1, EndLeaseMoves
  <2>4. /\ workers[w].batch \ {a} \in SUBSET Assets
        /\ \A b \in workers[w].batch \ {a} : GivenUp(assets[b])
        /\ stored' \subseteq Assets
    BY <1>1, <2>1
  <2>. QED  BY <2>1, <2>2, <2>3, <2>4, BatchStep
<1>6. CASE WorkerStops(w)
  <2>1. /\ UNCHANGED <<assets, stored, owners, confirms>> /\ faults' \in 0 .. MaxFaults
        /\ workers' = [workers EXCEPT ![w] = WithBatch({})]
    BY <1>1, <1>6 DEF WorkerStops, WithBatch
  <2>2. /\ \A b \in Assets : Moves(b) /\ assets'[b].attached = assets[b].attached
        /\ assets' \in [Assets -> Asset] /\ stored' \subseteq Assets
    BY <1>1, <2>1, UntouchedMoves
  <2>3. {} \in SUBSET Assets /\ \A a \in {} : GivenUp(assets[a])
    OBVIOUS
  <2>. QED  BY <2>1, <2>2, <2>3, BatchStep
<1>. QED  BY <1>2, <1>3, <1>4, <1>5, <1>6 DEF Run, Fault

----------------------------------------------------------------------------
(* The rows that use assets. *)

States == {"ABSENT", "LIVE", "ARCHIVED"}

LEMMA ChangeKeeps ==
    ASSUME IInv, NEW o \in Owners, NEW state \in States,
           NEW image \in Assets \cup {None}, NEW others \in SUBSET Assets,
           Change(o, state, image, others)
    PROVE  IInv'
<1> DEFINE row == [state |-> state, image |-> image, others |-> others]
           claimed == Refs(row) \ Refs(owners[o])
           released == Refs(owners[o]) \ Refs(row)
<1>1. /\ assets \in [Assets -> Asset] /\ stored \subseteq Assets
      /\ owners \in [Owners -> OwnerRow]
      /\ \A a \in Assets : Sound(a) /\ Linked(a)
  BY DEF IInv, Typed
<1>2. /\ \A a \in claimed : assets[a].status = "READY" /\ ~assets[a].attached
      /\ owners' = [owners EXCEPT ![o] = row]
      /\ assets' = [a \in Assets |->
             IF a \in claimed THEN ClaimAsset(assets[a])
             ELSE IF a \in released THEN ReleaseAsset(assets[a])
             ELSE assets[a]]
      /\ UNCHANGED <<stored, confirms, workers, faults>>
  BY DEF Change, Attachable
<1>3. row \in OwnerRow /\ owners' \in [Owners -> OwnerRow] /\ owners'[o] = row
      /\ \A p \in Owners \ {o} : owners'[p] = owners[p]
  BY <1>1, <1>2 DEF OwnerRow, States
<1> HIDE DEF row
<1>4. claimed \cap released = {}
  OBVIOUS
<1>5. ASSUME NEW a \in Assets
      PROVE  assets'[a] \in Asset /\ Moves(a) /\ Linked(a)'
  <2>1. CASE a \in claimed
    <3>1. /\ assets'[a] = [assets[a] EXCEPT !.attached = TRUE] /\ assets[a] \in Asset
          /\ assets[a].status = "READY" /\ ~assets[a].attached
      BY <1>1, <1>2, <2>1 DEF ClaimAsset
    <3>2. /\ assets'[a] \in Asset /\ assets'[a].attached /\ assets'[a].status = "READY"
          /\ assets'[a].confirmed = assets[a].confirmed
          /\ assets'[a].open = assets[a].open /\ assets'[a].late = assets[a].late
      BY <3>1 DEF Asset
    <3>3. Moves(a)
      BY <1>1, <1>2, <3>1, <3>2 DEF Moves, Sound, GivenUp, Awaits, Confirmable, StillPending
    <3>4. \A p \in Owners : a \in Refs(owners'[p]) <=> p = o
      BY <1>1, <1>3, <2>1, <3>1 DEF Linked
    <3>. QED  BY <3>2, <3>3, <3>4 DEF Linked
  <2>2. CASE a \in released
    <3>1. assets[a].attached /\ assets[a].status = "READY"
      BY <1>1, <2>2 DEF Linked, Sound
    <3>2. /\ assets'[a] = [assets[a] EXCEPT !.attached = FALSE, !.status = "DELETE_PENDING"]
          /\ assets[a] \in Asset
      BY <1>1, <1>2, <1>4, <2>2 DEF ReleaseAsset
    <3>3. /\ assets'[a] \in Asset /\ ~assets'[a].attached
          /\ assets'[a].status = "DELETE_PENDING"
          /\ assets'[a].confirmed = assets[a].confirmed
          /\ assets'[a].open = assets[a].open /\ assets'[a].late = assets[a].late
      BY <3>2 DEF Asset
    <3>4. Moves(a)
      BY <1>1, <1>2, <3>1, <3>3 DEF Moves, Sound, GivenUp, Awaits, Confirmable, StillPending
    <3>5. \A p \in Owners : a \notin Refs(owners'[p])
      BY <1>1, <1>3, <2>2 DEF Linked
    <3>. QED  BY <3>3, <3>4, <3>5 DEF Linked
  <2>3. CASE a \notin claimed /\ a \notin released
    <3>1. assets'[a] = assets[a] /\ stored' = stored
      BY <1>2, <2>3
    <3>2. \A p \in Owners : a \in Refs(owners'[p]) <=> a \in Refs(owners[p])
      BY <1>3, <2>3
    <3>3. Linked(a)'
      BY <1>1, <3>1, <3>2 DEF Linked
    <3>. QED  BY <1>1, <3>1, <3>3, UntouchedMoves
  <2>. QED  BY <2>1, <2>2, <2>3
<1>6. Typed'
  BY <1>1, <1>2, <1>3, <1>5 DEF Typed, IInv
<1>7. OneHolder' /\ \A c \in Confirms : SawObject(c)'
  BY <1>2, <1>5, ConfirmationGoesOn DEF IInv, OneHolder
<1>8. \A w \in Workers : DeletesGivenUp(w)'
  BY <1>2, <1>5, DeletionGoesOn DEF IInv
<1>. QED  BY <1>5, <1>6, <1>7, <1>8 DEF IInv, Moves

\* Every operation of a row that uses assets is a change of that row, and leaves it
\* with the assets its kind of row must have.
LEMMA UseChanges ==
    ASSUME IInv, \A o \in Owners : WellUsed(o), Use
    PROVE  \E o \in Owners, state \in States, image \in Assets \cup {None},
              others \in SUBSET Assets :
               Change(o, state, image, others) /\ WellUsed(o)'
<1> DEFINE Changes(o) ==
               \E state \in States, image \in Assets \cup {None}, others \in SUBSET Assets :
                   Change(o, state, image, others) /\ WellUsed(o)'
<1>1. owners \in [Owners -> OwnerRow]
  BY DEF IInv, Typed
<1>2. ASSUME NEW o \in Owners, NEW state, NEW image, NEW others,
             Change(o, state, image, others)
      PROVE  /\ owners'[o].state = state
             /\ owners'[o].image = image
             /\ owners'[o].others = others
  BY <1>1, <1>2 DEF Change
<1>3. /\ Cardinality({}) = 0 /\ \A a : Cardinality({a}) = 1
      /\ \A use : MeantFor(use) \subseteq Assets
  BY FS_EmptySet, FS_Singleton DEF MeantFor
<1>4. ASSUME NEW o \in MainCategories, CreateMainCategory(o) \/ UpdateMainCategory(o)
      PROVE  Changes(o)
  <2>1. PICK a \in Assets : Change(o, "LIVE", a, {})
    BY <1>3, <1>4 DEF CreateMainCategory, UpdateMainCategory
  <2>2. o \in Owners /\ o \notin Stores \cup Products \cup Drivers
    BY KindsAssumption DEF Owners
  <2>3. /\ owners'[o].state = "LIVE" /\ owners'[o].image = a
        /\ owners'[o].others = {}
    BY <1>2, <2>1, <2>2
  <2>4. WellUsed(o)'
    BY <2>1, <2>2, <2>3 DEF WellUsed
  <2>. QED  BY <2>1, <2>2, <2>4 DEF States
<1>5. ASSUME NEW o \in Subcategories,
             CreateSubcategory(o) \/ UpdateSubcategory(o) \/ ArchiveSubcategory(o)
      PROVE  Changes(o)
  <2>1. PICK state \in {"LIVE", "ARCHIVED"}, a \in Assets \cup {None} :
            Change(o, state, a, {})
    BY <1>3, <1>5 DEF CreateSubcategory, UpdateSubcategory, ArchiveSubcategory
  <2>2. o \in Owners /\ o \notin MainCategories \cup Stores \cup Products \cup Drivers
    BY KindsAssumption DEF Owners
  <2>3. /\ owners'[o].state = state /\ owners'[o].image = a
        /\ owners'[o].others = {}
    BY <1>2, <2>1, <2>2
  <2>4. WellUsed(o)'
    BY <2>1, <2>2, <2>3 DEF WellUsed
  <2>. QED  BY <2>1, <2>2, <2>4 DEF States
<1>6. ASSUME NEW o \in Stores, CreateStore(o) \/ UpdateStore(o) PROVE Changes(o)
  <2>1. PICK logo \in Assets, cover \in Covers : Change(o, "LIVE", logo, cover)
    BY <1>3, <1>6 DEF CreateStore, UpdateStore
  <2>2. cover \in SUBSET Assets /\ Cardinality(cover) <= 1
    <3>1. CASE cover = {}
      BY <1>3, <3>1
    <3>2. CASE cover # {}
      <4>1. PICK a \in MeantFor("STORE_IMAGE") : cover = {a}
        BY <3>2 DEF Covers
      <4>2. Cardinality(cover) = 1
        BY <1>3, <4>1
      <4>. QED  BY <1>3, <4>1, <4>2
    <3>. QED  BY <3>1, <3>2
  <2>3. o \in Owners /\ o \notin Products \cup Drivers
    BY KindsAssumption DEF Owners
  <2>4. /\ owners'[o].state = "LIVE" /\ owners'[o].image = logo
        /\ owners'[o].others = cover
    BY <1>2, <2>1, <2>3
  <2>5. WellUsed(o)'
    BY <2>2, <2>3, <2>4 DEF WellUsed
  <2>. QED  BY <2>1, <2>2, <2>3, <2>5 DEF States
<1>7. ASSUME NEW o \in Products, CreateProduct(o) \/ ReplaceImages(o) PROVE Changes(o)
  <2>1. PICK images \in (SUBSET Assets) \ {{}} : Change(o, "LIVE", None, images)
    BY <1>3, <1>7 DEF CreateProduct, ReplaceImages
  <2>2. o \in Owners /\ o \notin MainCategories \cup Stores \cup Drivers
    BY KindsAssumption DEF Owners
  <2>3. /\ owners'[o].state = "LIVE" /\ owners'[o].image = None
        /\ owners'[o].others = images
    BY <1>2, <2>1, <2>2
  <2>4. WellUsed(o)'
    BY <2>1, <2>2, <2>3 DEF WellUsed
  <2>. QED  BY <2>1, <2>2, <2>4 DEF States
<1>8. ASSUME NEW o \in MainCategories \cup Stores \cup Products, Archive(o)
      PROVE  Changes(o)
  <2>1. /\ o \in Owners /\ owners[o].state = "LIVE" /\ owners[o] \in OwnerRow
        /\ Change(o, "ARCHIVED", owners[o].image, owners[o].others)
    BY <1>1, <1>8 DEF Archive, Image, Others, Owners
  <2>2. /\ owners'[o].state = "ARCHIVED" /\ owners'[o].image = owners[o].image
        /\ owners'[o].others = owners[o].others
    BY <1>2, <2>1
  <2>3. WellUsed(o)'
    BY <2>1, <2>2 DEF WellUsed
  <2>. QED  BY <2>1, <2>3 DEF States, OwnerRow
<1>9. ASSUME NEW o \in Drivers, CreateDriver(o) \/ UpdateDriver(o) PROVE Changes(o)
  <2>1. o \in Owners /\ owners[o] \in OwnerRow
    BY <1>1 DEF Owners
  <2>2. PICK photo \in Assets, documents \in SUBSET Assets :
            /\ Change(o, "LIVE", photo, documents)
            /\ Cardinality(documents) >= DocumentSlots
    <3>1. CASE CreateDriver(o)
      BY <1>3, <3>1 DEF CreateDriver
    <3>2. CASE UpdateDriver(o)
      <4>1. PICK photo \in Assets, documents \in SUBSET Assets :
                owners[o].state = "LIVE" /\ Change(o, "LIVE", photo, owners[o].others \cup documents)
        BY <1>3, <3>2 DEF UpdateDriver, Others
      <4>2. owners[o].others \cup documents \in SUBSET Assets
        BY <2>1 DEF OwnerRow
      <4>3. Cardinality(owners[o].others) >= DocumentSlots
        BY <2>1, <4>1 DEF WellUsed
      <4>4. Cardinality(owners[o].others) <= Cardinality(owners[o].others \cup documents)
        BY <4>2, FS_Subset
      <4>5. /\ Cardinality(owners[o].others) \in Nat
            /\ Cardinality(owners[o].others \cup documents) \in Nat
        BY <4>2, FS_Subset, FS_CardinalityType
      <4>6. Cardinality(owners[o].others \cup documents) >= DocumentSlots
        BY <4>3, <4>4, <4>5
      <4>. QED  BY <4>1, <4>2, <4>6
    <3>. QED  BY <1>9, <3>1, <3>2
  <2>3. /\ owners'[o].state = "LIVE" /\ owners'[o].image = photo
        /\ owners'[o].others = documents
    BY <1>2, <2>1, <2>2
  <2>4. o \notin Stores \cup Products
    BY KindsAssumption
  <2>5. WellUsed(o)'
    BY <2>2, <2>3, <2>4 DEF WellUsed
  <2>. QED  BY <2>1, <2>2, <2>5 DEF States
<1>10. ASSUME NEW o \in Orders, ConsumeProof(o) PROVE Changes(o)
  <2>1. o \in Owners /\ owners[o] \in OwnerRow
    BY <1>1 DEF Owners
  <2>2. PICK proof \in Assets :
            Change(o, owners[o].state, None, owners[o].others \cup {proof})
    BY <1>3, <1>10 DEF ConsumeProof, Others
  <2>3. owners[o].others \cup {proof} \in SUBSET Assets /\ owners[o].state \in States
    BY <2>1 DEF OwnerRow, States
  <2>4. WellUsed(o)'
    BY <1>2, <2>1, <2>2, KindsAssumption DEF WellUsed
  <2>. QED  BY <2>2, <2>3, <2>4
<1>. QED  BY <1>4, <1>5, <1>6, <1>7, <1>8, <1>9, <1>10 DEF Use, Owners

----------------------------------------------------------------------------
(* The invariant, and the properties it implies. *)

AllUsedWell == \A o \in Owners : WellUsed(o)

LEMMA StepKeeps == IInv /\ AllUsedWell /\ [Next]_vars => (IInv /\ AllUsedWell)'
<1> SUFFICES ASSUME IInv, AllUsedWell, [Next]_vars PROVE (IInv /\ AllUsedWell)'
  OBVIOUS
<1>1. CASE Use
  <2>1. PICK o \in Owners, state \in States, image \in Assets \cup {None},
             others \in SUBSET Assets :
                 Change(o, state, image, others) /\ WellUsed(o)'
    BY <1>1, UseChanges DEF AllUsedWell
  <2>2. IInv'
    BY <2>1, ChangeKeeps
  <2>3. \A p \in Owners \ {o} : owners'[p] = owners[p]
    BY <2>1 DEF Change, IInv, Typed
  <2>4. \A p \in Owners \ {o} : WellUsed(p)'
    BY <2>3 DEF AllUsedWell, WellUsed
  <2>. QED  BY <2>1, <2>2, <2>4 DEF AllUsedWell
<1>2. ASSUME NEW a \in Assets, Upload(a) \/ Clock(a) PROVE (IInv /\ AllUsedWell)'
  <2>1. UNCHANGED owners
    BY <1>2 DEF Upload, Clock, CreateUploadIntent, CreateDriverProofUploadIntent,
                PutObject, Delete, UploadExpires, LeaseExpires
  <2>. QED  BY <1>2, <2>1, UploadKeeps DEF AllUsedWell, WellUsed
<1>3. ASSUME NEW c \in Confirms, Confirm(c) PROVE (IInv /\ AllUsedWell)'
  <2>1. UNCHANGED owners
    BY <1>3 DEF Confirm, BeginConfirm, ReadObject, WriteReady, CommitConfirm, ConfirmStops
  <2>. QED  BY <1>3, <2>1, ConfirmKeeps DEF AllUsedWell, WellUsed
<1>4. CASE QueueExpiredUploads \/ QueueAbandonedReady
  <2>1. UNCHANGED owners
    BY <1>4 DEF QueueExpiredUploads, QueueAbandonedReady, Queue
  <2>. QED  BY <1>4, <2>1, QueueKeeps DEF AllUsedWell, WellUsed
<1>5. ASSUME NEW w \in Workers, Run(w) \/ Fault(w) PROVE (IInv /\ AllUsedWell)'
  <2>1. UNCHANGED owners
    BY <1>5 DEF Run, Fault, ClaimDeletePending, DeleteObject, MarkDeleted, DeleteFails,
                MarkFails, WorkerStops
  <2>. QED  BY <1>5, <2>1, RunKeeps DEF AllUsedWell, WellUsed
<1>6. CASE UNCHANGED vars
  BY <1>6 DEF vars, IInv, Typed, Sound, Linked, SawObject, Awaits, OneHolder,
              DeletesGivenUp, AllUsedWell, WellUsed
<1>. QED  BY <1>1, <1>2, <1>3, <1>4, <1>5, <1>6 DEF Next

LEMMA Invariance == Spec => [](IInv /\ AllUsedWell)
<1>1. Init => AllUsedWell
  BY DEF Init, AllUsedWell, WellUsed, Refs
<1>. QED  BY <1>1, InitSound, StepKeeps, PTL DEF Spec

\* Every row of media_assets, every row that uses assets, every confirmation and every
\* clean-up run has its type, and a row uses the assets its kind of row must use
\* (catalog.service.ts, store.service.ts, product.service.ts, driver.service.ts).
THEOREM TypeCorrect == Spec => []TypeOK
<1>1. IInv /\ AllUsedWell => TypeOK
  BY DEF IInv, AllUsedWell, TypeOK
<1>. QED  BY <1>1, Invariance, PTL

\* attached_at is set exactly while one row uses the asset, and such an asset is READY:
\* attachAsset and releaseAsset keep the two tables in step whatever else happens.
THEOREM ReferencesStayInStep == Spec => []ReferencesAgree
<1>1. ASSUME IInv, NEW a \in Assets
      PROVE  /\ assets[a].attached <=> UsedBy(a) # {}
             /\ Cardinality(UsedBy(a)) <= 1
             /\ assets[a].attached => assets[a].status = "READY"
  <2>1. Linked(a) /\ Sound(a)
    BY <1>1 DEF IInv
  <2>2. CASE UsedBy(a) = {}
    <3>1. Cardinality(UsedBy(a)) = 0
      BY <2>2, FS_EmptySet
    <3>. QED  BY <2>1, <2>2, <3>1 DEF Linked, Sound, UsedBy
  <2>3. CASE UsedBy(a) # {}
    <3>1. PICK o \in Owners : UsedBy(a) = {o}
      BY <2>1, <2>3 DEF Linked, UsedBy
    <3>2. Cardinality(UsedBy(a)) = 1
      BY <3>1, FS_Singleton
    <3>. QED  BY <2>1, <2>3, <3>2 DEF Linked, Sound, UsedBy
  <2>. QED  BY <2>2, <2>3
<1>2. IInv => ReferencesAgree
  BY <1>1 DEF ReferencesAgree
<1>. QED  BY <1>2, Invariance, PTL

\* A READY asset has its object in storage: confirmUpload looks at the storage before it
\* writes READY, and no clean-up run deletes an object it could still become READY with.
THEOREM ReadyHasItsObject == Spec => []ReadyIsStored
<1>1. IInv => ReadyIsStored
  BY DEF IInv, Sound, ReadyIsStored
<1>. QED  BY <1>1, Invariance, PTL

\* An upload that was given up unconfirmed is DELETED only once its URL takes no more
\* objects, so that nothing is left in storage without a row that says so.
THEOREM GivenUpUploadsAreGone == Spec => []UnconfirmedLeavesNothing
<1>1. IInv => UnconfirmedLeavesNothing
  BY DEF IInv, Sound, UnconfirmedLeavesNothing
<1>. QED  BY <1>1, Invariance, PTL

\* Both together: what is READY is in storage and what was given up unconfirmed is not.
THEOREM ObjectsAlwaysAgree == Spec => []ObjectsAgree
BY ReadyHasItsObject, GivenUpUploadsAreGone, PTL DEF ObjectsAgree

----------------------------------------------------------------------------
(* The quota: only CreateUploadIntent makes an asset count, for its creator. *)

\* What counts and did not expire while READY was being committed.
OnTime(creator) == {a \in Counted(creator) : ~assets[a].late}

\* What counts, or will count again when the confirmation that holds its row commits.
Weighs(a) == assets[a].use # "PROOF" /\ (CountsAsOpen(assets[a]) \/ Locked(a))
Weighing(creator) == {a \in Assets : assets[a].creator = creator /\ Weighs(a)}

CountsNoMore ==
    \A a \in Assets :
        /\ assets'[a].creator = assets[a].creator
        /\ CountsAsOpen(assets'[a]) /\ ~assets'[a].late =>
               CountsAsOpen(assets[a]) /\ ~assets[a].late
        /\ Weighs(a)' => Weighs(a)

\* A row that is written, and no lock.
LEMMA RowCounts ==
    ASSUME confirms' = confirms,
           \A a \in Assets : /\ assets'[a].creator = assets[a].creator
                             /\ assets'[a].use = assets[a].use
                             /\ CountsAsOpen(assets'[a]) =>
                                    /\ CountsAsOpen(assets[a])
                                    /\ assets'[a].late = assets[a].late
    PROVE  CountsNoMore
<1>1. \A a \in Assets : Locked(a)' <=> Locked(a)
  BY DEF Locked
<1>. QED  BY <1>1 DEF CountsNoMore, Weighs

LEMMA UploadCounts ==
    ASSUME IInv, NEW a \in Assets, Upload(a) \/ Clock(a), ~CreateUploadIntent(a)
    PROVE  CountsNoMore
<1>1. assets \in [Assets -> Asset] /\ Sound(a)
  BY DEF IInv, Typed
<1>2. CASE CreateDriverProofUploadIntent(a)
  BY <1>1, <1>2, RowCounts
     DEF CreateDriverProofUploadIntent, Pend, Asset, CountsAsOpen
<1>3. CASE PutObject(a)
  BY <1>3, RowCounts DEF PutObject
<1>4. CASE Delete(a)
  BY <1>1, <1>4, RowCounts DEF Delete, Asset, CountsAsOpen
<1>5. CASE UploadExpires(a)
  <2>1. /\ \A b \in Assets \ {a} : assets'[b] = assets[b]
        /\ assets'[a].creator = assets[a].creator /\ assets'[a].use = assets[a].use
        /\ CountsAsOpen(assets'[a]) => CountsAsOpen(assets[a])
        /\ ~assets[a].late
    BY <1>1, <1>5 DEF UploadExpires, Asset, CountsAsOpen, Sound
  <2>2. \A b \in Assets : Locked(b)' <=> Locked(b)
    BY <1>5 DEF UploadExpires, Locked
  <2>. QED  BY <2>1, <2>2 DEF CountsNoMore, Weighs
<1>6. CASE LeaseExpires(a)
  BY <1>1, <1>6, RowCounts DEF LeaseExpires, Asset, CountsAsOpen
<1>. QED  BY <1>2, <1>3, <1>4, <1>5, <1>6 DEF Upload, Clock

\* READY is written while the URL is valid; if it is committed later than that, the
\* asset is late.
LEMMA ConfirmCounts ==
    ASSUME IInv, NEW c \in Confirms, Confirm(c) PROVE CountsNoMore
<1>1. assets \in [Assets -> Asset] /\ confirms \in [Confirms -> Confirmation]
  BY DEF IInv, Typed
<1>2. CASE CommitConfirm(c)
  <2>1. PICK a \in Assets :
            /\ assets' = [assets EXCEPT ![a].status = "READY", ![a].confirmed = TRUE]
            /\ Awaits(a) /\ Locked(a)
    BY <1>1, <1>2 DEF CommitConfirm, Confirmation, Locked, IInv, Typed, SawObject
  <2>2. /\ \A b \in Assets \ {a} : assets'[b] = assets[b]
        /\ assets'[a].creator = assets[a].creator /\ assets'[a].use = assets[a].use
        /\ assets'[a].late = assets[a].late
    BY <1>1, <2>1 DEF Asset
  <2>3. \A b \in Assets : Locked(b)' => Locked(b)
    BY <1>1, <1>2 DEF CommitConfirm, NoConfirmation, Locked
  <2>. QED  BY <2>1, <2>2, <2>3 DEF CountsNoMore, Weighs, CountsAsOpen, Awaits
<1>3. CASE WriteReady(c)
  <2>1. \A b \in Assets : Locked(b)' => Locked(b) \/ Confirmable(assets[b])
    BY <1>1, <1>3 DEF WriteReady, Locked
  <2>. QED  BY <1>3, <2>1 DEF WriteReady, CountsNoMore, Weighs, CountsAsOpen, Confirmable
<1>4. CASE assets' = assets /\ \A b \in Assets : Locked(b)' => Locked(b)
  BY <1>4 DEF CountsNoMore, Weighs
<1>5. ASSUME NEW a \in Assets, BeginConfirm(c, a) PROVE CountsNoMore
  BY <1>1, <1>4, <1>5 DEF BeginConfirm, Locked
<1>6. CASE ReadObject(c) \/ ConfirmStops(c)
  <2>1. /\ confirms'[c].step # "written" /\ assets' = assets
        /\ \A d \in Confirms \ {c} : confirms'[d] = confirms[d]
    BY <1>1, <1>6 DEF ReadObject, ConfirmStops, NoConfirmation, Confirmation
  <2>. QED  BY <1>4, <2>1 DEF Locked
<1>. QED  BY <1>2, <1>3, <1>5, <1>6 DEF Confirm

LEMMA UseCounts ==
    ASSUME Typed, NEW o, NEW state, NEW image, NEW others,
           Change(o, state, image, others)
    PROVE  CountsNoMore
<1>1. assets \in [Assets -> Asset] /\ confirms' = confirms
  BY DEF Typed, Change
<1>2. ASSUME NEW a \in Assets
      PROVE  assets'[a] \in {assets[a], ClaimAsset(assets[a]), ReleaseAsset(assets[a])}
  BY <1>2 DEF Change
<1>3. ASSUME NEW a \in Assets
      PROVE  /\ CountsAsOpen(assets'[a]) => CountsAsOpen(assets[a])
             /\ assets'[a].creator = assets[a].creator /\ assets'[a].use = assets[a].use
             /\ assets'[a].late = assets[a].late
  <2>1. CASE assets'[a] = assets[a]
    BY <2>1
  <2>2. CASE assets'[a] = ClaimAsset(assets[a])
    BY <1>1, <2>2 DEF ClaimAsset, Asset, CountsAsOpen
  <2>3. CASE assets'[a] = ReleaseAsset(assets[a])
    BY <1>1, <2>3 DEF ReleaseAsset, Asset, CountsAsOpen
  <2>. QED  BY <1>2, <2>1, <2>2, <2>3
<1>. QED  BY <1>1, <1>3, RowCounts

LEMMA CleanUpCounts ==
    ASSUME Typed,
           \/ QueueExpiredUploads \/ QueueAbandonedReady
           \/ \E w \in Workers : Run(w) \/ Fault(w)
    PROVE  CountsNoMore
<1>1. assets \in [Assets -> Asset] /\ workers \in [Workers -> CleanUp]
  BY DEF Typed
<1>2. CASE QueueExpiredUploads \/ QueueAbandonedReady
  <2>1. PICK due : Queue(due)
    BY <1>2 DEF QueueExpiredUploads, QueueAbandonedReady
  <2>. QED  BY <1>1, <2>1, RowCounts DEF Queue, Asset, CountsAsOpen
<1>3. ASSUME NEW w \in Workers, ClaimDeletePending(w) PROVE CountsNoMore
  <2>1. PICK batch :
            assets' = [a \in Assets |->
                IF a \in batch THEN [assets[a] EXCEPT !.leased = TRUE] ELSE assets[a]]
    BY <1>3 DEF ClaimDeletePending
  <2>2. confirms' = confirms
    BY <1>3 DEF ClaimDeletePending
  <2>. QED  BY <1>1, <2>1, <2>2, RowCounts DEF Asset, CountsAsOpen
<1>4. ASSUME NEW a, NEW status \in {"DELETED", "DELETE_PENDING"}, confirms' = confirms,
             assets' = [assets EXCEPT ![a] = EndLease(@, status)]
      PROVE  CountsNoMore
  BY <1>1, <1>4, RowCounts DEF EndLease, Asset, CountsAsOpen
<1>5. ASSUME NEW w \in Workers, MarkDeleted(w) \/ MarkFails(w) \/ DeleteFails(w)
      PROVE  CountsNoMore
  BY <1>4, <1>5 DEF MarkDeleted, MarkFails, DeleteFails
<1>6. ASSUME NEW w \in Workers, DeleteObject(w) \/ WorkerStops(w) PROVE CountsNoMore
  BY <1>6, RowCounts DEF DeleteObject, WorkerStops
<1>. QED  BY <1>2, <1>3, <1>5, <1>6 DEF Run, Fault

\* Every step but the making of an intent.
LEMMA OthersCountNoMore ==
    ASSUME IInv, [Next]_vars, ~\E a \in Assets : CreateUploadIntent(a)
    PROVE  CountsNoMore
<1>1. CASE Use
  BY <1>1, UseCounts
     DEF IInv, Use, CreateMainCategory, UpdateMainCategory, CreateSubcategory,
         UpdateSubcategory, ArchiveSubcategory, CreateStore, UpdateStore, CreateProduct,
         ReplaceImages, Archive, CreateDriver, UpdateDriver, ConsumeProof
<1>2. CASE UNCHANGED vars
  BY <1>2, RowCounts DEF vars
<1>. QED  BY <1>1, <1>2, UploadCounts, ConfirmCounts, CleanUpCounts DEF Next, IInv

LEMMA CountedAreFinite ==
    ASSUME NEW creator
    PROVE  /\ IsFiniteSet(Counted(creator)) /\ Cardinality(Counted(creator)) \in Nat
           /\ IsFiniteSet(Weighing(creator)) /\ Cardinality(Weighing(creator)) \in Nat
           /\ IsFiniteSet(OnTime(creator)) /\ Cardinality(OnTime(creator)) \in Nat
           /\ Cardinality(OnTime(creator)) <= Cardinality(Counted(creator))
           /\ Cardinality(Counted(creator)) <= Cardinality(Weighing(creator))
<1>1. /\ OnTime(creator) \in SUBSET Counted(creator)
      /\ Counted(creator) \in SUBSET Weighing(creator)
      /\ Weighing(creator) \in SUBSET Assets
  BY DEF OnTime, Counted, Weighing, Weighs, CountsAsOpen
<1>. QED  BY <1>1, FS_Subset, FS_CardinalityType

\* An intent is made below the quota, and makes one asset count.
LEMMA IntentCounts ==
    ASSUME Typed, NEW a \in Assets, CreateUploadIntent(a), NEW creator
    PROVE  \/ OnTime(creator)' \subseteq OnTime(creator)
              /\ Weighing(creator)' \subseteq Weighing(creator)
           \/ /\ Cardinality(Counted(creator)) < Quota
              /\ OnTime(creator)' \subseteq OnTime(creator) \cup {a}
              /\ Weighing(creator)' \subseteq Weighing(creator) \cup {a}
<1>1. /\ \A b \in Assets \ {a} : assets'[b] = assets[b]
      /\ assets'[a].creator = assets[a].creator
      /\ confirms' = confirms
  BY DEF CreateUploadIntent, Pend, Typed, Asset
<1>2. \A b \in Assets : Locked(b)' <=> Locked(b)
  BY <1>1 DEF Locked
<1>3. CASE assets[a].creator # creator
  BY <1>1, <1>2, <1>3 DEF OnTime, Counted, Weighing, Weighs
<1>4. CASE assets[a].creator = creator
  <2>1. Cardinality(Counted(creator)) < Quota
    BY <1>4 DEF CreateUploadIntent
  <2>. QED  BY <1>1, <1>2, <2>1 DEF OnTime, Counted, Weighing, Weighs
<1>. QED  BY <1>3, <1>4

\* What nobody's step makes count but an intent's stays within any bound.
LEMMA NoMore ==
    ASSUME CountsNoMore, NEW creator
    PROVE  OnTime(creator)' \subseteq OnTime(creator)
           /\ Weighing(creator)' \subseteq Weighing(creator)
BY DEF CountsNoMore, OnTime, Counted, Weighing

LEMMA GrowsByOne ==
    ASSUME NEW S, NEW T, NEW a, IsFiniteSet(S), T \subseteq S \cup {a}
    PROVE  Cardinality(T) <= Cardinality(S) + 1
<1>1. /\ IsFiniteSet(S \cup {a}) /\ Cardinality(S) \in Nat
      /\ \/ Cardinality(S \cup {a}) = Cardinality(S)
         \/ Cardinality(S \cup {a}) = Cardinality(S) + 1
  BY FS_AddElement, FS_CardinalityType
<1>2. Cardinality(T) <= Cardinality(S \cup {a}) /\ Cardinality(T) \in Nat
  BY <1>1, FS_Subset, FS_CardinalityType
<1>. QED  BY <1>1, <1>2

LEMMA QuotaStep == IInv /\ QuotaHoldsOnTime /\ [Next]_vars => QuotaHoldsOnTime'
<1> SUFFICES ASSUME IInv, QuotaHoldsOnTime, [Next]_vars, NEW creator \in Creators
             PROVE  Cardinality(OnTime(creator)') <= Quota
  BY DEF QuotaHoldsOnTime, OnTime
<1>1. /\ Cardinality(OnTime(creator)) <= Quota /\ Quota \in Nat
      /\ IsFiniteSet(OnTime(creator)) /\ Cardinality(OnTime(creator)) \in Nat
      /\ Cardinality(Counted(creator)) \in Nat
      /\ Cardinality(OnTime(creator)) <= Cardinality(Counted(creator))
  BY CountedAreFinite DEF QuotaHoldsOnTime, OnTime
<1>2. CASE OnTime(creator)' \subseteq OnTime(creator)
  <2>1. Cardinality(OnTime(creator)') <= Cardinality(OnTime(creator))
        /\ Cardinality(OnTime(creator)') \in Nat
    BY <1>1, <1>2, FS_Subset, FS_CardinalityType
  <2>. QED  BY <1>1, <2>1
<1>3. CASE \E a \in Assets : CreateUploadIntent(a)
  <2>1. PICK a \in Assets : CreateUploadIntent(a)
    BY <1>3
  <2>2. CASE /\ Cardinality(Counted(creator)) < Quota
             /\ OnTime(creator)' \subseteq OnTime(creator) \cup {a}
    <3>1. Cardinality(OnTime(creator)') <= Cardinality(OnTime(creator)) + 1
          /\ Cardinality(OnTime(creator)') \in Nat
      <4>1. IsFiniteSet(OnTime(creator) \cup {a})
        BY <1>1, FS_AddElement
      <4>. QED  BY <1>1, <2>2, <4>1, GrowsByOne, FS_Subset, FS_CardinalityType
    <3>. QED  BY <1>1, <2>2, <3>1
  <2>. QED  BY <1>2, <2>1, <2>2, IntentCounts DEF IInv
<1>. QED  BY <1>2, <1>3, OthersCountNoMore, NoMore

\* But for uploads that expire while READY is being committed, nobody at the desk has
\* more open assets than the quota: createUploadIntent is the only step that makes one
\* more, and it counts under the creator's lock (media.service.ts:326-341).
THEOREM QuotaIsKept == Spec => []QuotaHoldsOnTime
<1>1. Init => QuotaHoldsOnTime
  <2>1. Init => \A c \in Creators : {a \in Counted(c) : ~assets[a].late} = {}
    BY DEF Init, Counted, CountsAsOpen
  <2>. QED  BY <2>1, FS_EmptySet DEF QuotaHoldsOnTime
<1>. QED  BY <1>1, QuotaStep, Invariance, PTL DEF Spec

----------------------------------------------------------------------------
(* By how much the quota is exceeded: what counts, or is about to count again, is at *)
(* most the quota and one asset for each confirmation under way.                     *)

WeighingBounded ==
    \A creator \in Creators :
        Cardinality(Weighing(creator)) <= Quota + Cardinality(Confirms)

\* Each confirmation holds one row.
LEMMA WeighsLittleMore ==
    ASSUME IsFiniteSet(Confirms), NEW creator
    PROVE  Cardinality(Weighing(creator))
               <= Cardinality(Counted(creator)) + Cardinality(Confirms)
<1> DEFINE holders == {c \in Confirms : confirms[c].step = "written"}
           held == {confirms[c].asset : c \in holders}
           holds == [c \in holders |-> confirms[c].asset]
<1>1. /\ IsFiniteSet(holders) /\ Cardinality(holders) <= Cardinality(Confirms)
      /\ Cardinality(holders) \in Nat /\ Cardinality(Confirms) \in Nat
  BY FS_Subset, FS_CardinalityType
<1>2. IsFiniteSet(held) /\ Cardinality(held) <= Cardinality(holders)
  <2>1. holds \in Surjection(holders, held)
    BY DEF Surjection
  <2>. QED  BY <1>1, <2>1, FS_Surjection
<1>3. IsFiniteSet(Counted(creator)) /\ Cardinality(Counted(creator)) \in Nat
  BY CountedAreFinite
<1>4. Weighing(creator) \subseteq Counted(creator) \cup held
  BY DEF Weighing, Weighs, Counted, Locked
<1> HIDE DEF held, holders
<1>5. /\ IsFiniteSet(Counted(creator) \cup held)
      /\ Cardinality(Counted(creator) \cup held)
             = Cardinality(Counted(creator)) + Cardinality(held)
                   - Cardinality(Counted(creator) \cap held)
  BY <1>2, <1>3, FS_Union
<1>6. /\ Cardinality(Counted(creator) \cap held) \in Nat /\ Cardinality(held) \in Nat
      /\ Cardinality(Weighing(creator)) <= Cardinality(Counted(creator) \cup held)
      /\ Cardinality(Weighing(creator)) \in Nat
  <2>1. IsFiniteSet(Counted(creator) \cap held) /\ IsFiniteSet(Weighing(creator))
    BY <1>3, <1>4, <1>5, FS_Subset
  <2>. QED  BY <1>2, <1>4, <1>5, <2>1, FS_Subset, FS_CardinalityType
<1>. QED  BY <1>1, <1>2, <1>3, <1>5, <1>6

LEMMA WeighingStep ==
    ASSUME IsFiniteSet(Confirms), IInv, WeighingBounded, [Next]_vars
    PROVE  WeighingBounded'
<1> SUFFICES ASSUME NEW creator \in Creators
             PROVE  Cardinality(Weighing(creator)') <= Quota + Cardinality(Confirms)
  BY DEF WeighingBounded
<1> DEFINE n == Cardinality(Weighing(creator))
           next == Cardinality(Weighing(creator)')
<1>1. /\ n <= Quota + Cardinality(Confirms) /\ Quota \in Nat
      /\ Cardinality(Confirms) \in Nat
      /\ IsFiniteSet(Weighing(creator)) /\ n \in Nat
      /\ Cardinality(Counted(creator)) \in Nat
  BY CountedAreFinite, FS_CardinalityType DEF WeighingBounded
<1>2. CASE Weighing(creator)' \subseteq Weighing(creator)
  <2>1. next <= n /\ next \in Nat
    BY <1>1, <1>2, FS_Subset, FS_CardinalityType
  <2>. QED  BY <1>1, <2>1
<1>3. CASE \E a \in Assets : CreateUploadIntent(a)
  <2>1. PICK a \in Assets : CreateUploadIntent(a)
    BY <1>3
  <2>2. CASE /\ Cardinality(Counted(creator)) < Quota
             /\ Weighing(creator)' \subseteq Weighing(creator) \cup {a}
    <3>1. next <= n + 1 /\ next \in Nat
      <4>1. IsFiniteSet(Weighing(creator) \cup {a})
        BY <1>1, FS_AddElement
      <4>. QED  BY <1>1, <2>2, <4>1, GrowsByOne, FS_Subset, FS_CardinalityType
    <3>2. n <= Cardinality(Counted(creator)) + Cardinality(Confirms)
      BY WeighsLittleMore
    <3> HIDE DEF n, next
    <3>3. next <= Quota + Cardinality(Confirms)
      BY <1>1, <2>2, <3>1, <3>2
    <3>. QED  BY <3>3 DEF next
  <2>. QED  BY <1>2, <2>1, <2>2, IntentCounts DEF IInv
<1>. QED  BY <1>2, <1>3, OthersCountNoMore, NoMore

\* Nobody exceeds the quota by more than the confirmations under way: each can be late
\* with one upload, and what is late already is counted.
THEOREM QuotaIsNearlyKept ==
    ASSUME IsFiniteSet(Confirms)
    PROVE  Spec => [](\A creator \in Creators :
                          Cardinality(Counted(creator)) <= Quota + Cardinality(Confirms))
<1> DEFINE Bounded == \A creator \in Creators :
               Cardinality(Counted(creator)) <= Quota + Cardinality(Confirms)
<1>1. Init => WeighingBounded
  <2>1. Init => \A c \in Creators : Weighing(c) = {}
    BY DEF Init, Weighing, Weighs, CountsAsOpen, Locked, NoConfirmation
  <2>2. Cardinality(Confirms) \in Nat /\ Cardinality({}) = 0
    BY FS_CardinalityType, FS_EmptySet
  <2>3. 0 <= Quota + Cardinality(Confirms)
    BY <2>2
  <2>. QED  BY <2>1, <2>2, <2>3 DEF WeighingBounded
<1>2. IInv /\ WeighingBounded /\ [Next]_vars => WeighingBounded'
  BY WeighingStep
<1>3. WeighingBounded => Bounded
  <2>1. Cardinality(Confirms) \in Nat
    BY FS_CardinalityType
  <2>. QED  BY <2>1, CountedAreFinite DEF WeighingBounded
<1>. QED  BY <1>1, <1>2, <1>3, Invariance, PTL DEF Spec

=============================================================================

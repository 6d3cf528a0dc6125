---------------------------- MODULE MediaAssets -----------------------------
(***************************************************************************)
(* The files of the platform: rows of media_assets, objects in external    *)
(* storage, the rows that use an asset (categories, stores, products,      *)
(* drivers, proofs of orders) and everybody who moves an asset through its *)
(* life:                                                                   *)
(*   - the desk or a driver asks for an upload, puts the object with a URL *)
(*     that expires, and confirms it, which looks at the storage between   *)
(*     two looks at the row and writes READY some time before it commits,  *)
(*   - a row that starts or ceases to use an asset attaches or releases it *)
(*     in its own transaction,                                             *)
(*   - clean-up workers of several processes queue what is left over and   *)
(*     delete it from storage under leases.                                *)
(* One action is one transaction, one statement or one call to the storage.*)
(***************************************************************************)
EXTENDS Naturals, FiniteSets

CONSTANTS Assets,         \* asset ids; an id is used once
          MainCategories, Subcategories, Stores, Products, Drivers,
          Orders,         \* the rows that may use assets
          DocumentSlots,  \* how many documents a driver is created with: 5
          Confirms,       \* concurrent confirmations
          Workers,        \* clean-up workers, one to a process
          Creators,       \* the accounts of the desk that upload
          Quota,          \* MEDIA_OPEN_ASSET_QUOTA_PER_CREATOR
          Plans,          \* what the uploads to come may be meant for, and by whom
          MaxFaults,      \* bound: how many worker faults there are
          None            \* no image, no asset

Uses == {"CATEGORY_IMAGE", "STORE_LOGO", "STORE_IMAGE", "PRODUCT_IMAGE",
         "DRIVER_PHOTO", "DRIVER_DOCUMENT", "PROOF"}

ASSUME MediaAssumption ==
    /\ IsFiniteSet(Assets) /\ None \notin Assets
    /\ Plans \subseteq [Assets -> [use : Uses, creator : Creators]]
    /\ DocumentSlots \in Nat /\ Quota \in Nat /\ MaxFaults \in Nat

\* A row is of one kind.
ASSUME KindsAssumption ==
    /\ MainCategories \cap (Subcategories \cup Stores \cup Products \cup Drivers \cup Orders) = {}
    /\ Subcategories \cap (Stores \cup Products \cup Drivers \cup Orders) = {}
    /\ Stores \cap (Products \cup Drivers \cup Orders) = {}
    /\ Products \cap (Drivers \cup Orders) = {}
    /\ Drivers \cap Orders = {}

VARIABLES
    assets,    \* PostgreSQL: media_assets
    stored,    \* storage: the assets whose object exists
    owners,    \* PostgreSQL: the rows that may use assets
    confirms,  \* confirms[c]: the confirmation c and how far it is
    workers,   \* workers[w]: the run of worker w, what it claimed
    faults     \* worker faults so far

vars == <<assets, stored, owners, confirms, workers, faults>>

Owners == MainCategories \cup Subcategories \cup Stores \cup Products
              \cup Drivers \cup Orders

\* The desk's uploads are counted against their creators' quotas; a driver's proofs are not.
Asset == [ use       : Uses,
           creator   : Creators,
           status    : {"NONE", "PENDING_UPLOAD", "READY", "DELETE_PENDING",
                        "DELETED"},
           open      : BOOLEAN,   \* upload_expires_at > now()
           confirmed : BOOLEAN,   \* ready_at is set
           attached  : BOOLEAN,   \* attached_at is set
           leased    : BOOLEAN,   \* delete_lease_until > now()
           late      : BOOLEAN ]  \* history: the URL expired while READY was written
                                  \* and not yet committed

\* image: the category's image, the store's logo, the driver's photo; others: the
\* store's cover, the product's images, the driver's documents, the order's proofs.
OwnerRow == [ state  : {"ABSENT", "LIVE", "ARCHIVED"},
              image  : Assets \cup {None},
              others : SUBSET Assets ]

\* "written": the transaction holds the asset's row, has found it confirmable and has
\* written READY, which nobody else sees until it commits.
Confirmation == [ step  : {"idle", "read", "commit", "written"},
                  asset : Assets \cup {None} ]

CleanUp == [ step  : {"idle", "batch", "deleted"},
             batch : SUBSET Assets,            \* claimed and not yet dealt with
             asset : Assets \cup {None} ]      \* deleted in storage, not yet in the row

Refs(row) == (row.others \cup {row.image}) \ {None}

\* A main category always has an image, a store a logo, a driver a photo and his
\* documents, a product at least one image.
WellUsed(o) ==
    LET row == owners[o] IN
    IF row.state = "ABSENT" THEN o \notin Orders => Refs(row) = {}
    ELSE /\ o \in MainCategories \cup Stores \cup Drivers => row.image # None
         /\ o \in Products => row.others # {}
         /\ o \in Stores => Cardinality(row.others) <= 1
         /\ o \in Drivers => Cardinality(row.others) >= DocumentSlots

NoConfirmation == [step |-> "idle", asset |-> None]
NoCleanUp == [step |-> "idle", batch |-> {}, asset |-> None]

Typed ==
    /\ assets \in [Assets -> Asset]
    /\ stored \subseteq Assets
    /\ owners \in [Owners -> OwnerRow]
    /\ confirms \in [Confirms -> Confirmation]
    /\ \A c \in Confirms : confirms[c].step # "idle" => confirms[c].asset # None
    /\ workers \in [Workers -> CleanUp]
    /\ \A w \in Workers : workers[w].step = "deleted" <=> workers[w].asset # None
    /\ faults \in 0 .. MaxFaults

\* Every row has its type, and uses the assets its kind of row must use.
TypeOK == Typed /\ \A o \in Owners : WellUsed(o)

Init ==
    /\ \E plan \in Plans :
           assets = [a \in Assets |->
               [use |-> plan[a].use, creator |-> plan[a].creator, status |-> "NONE",
                open |-> FALSE, confirmed |-> FALSE, attached |-> FALSE, leased |-> FALSE,
                late |-> FALSE]]
    /\ stored = {}
    /\ owners = [o \in Owners |-> [state |-> "ABSENT", image |-> None, others |-> {}]]
    /\ confirms = [c \in Confirms |-> NoConfirmation]
    /\ workers = [w \in Workers |-> NoCleanUp]
    /\ faults = 0

-----------------------------------------------------------------------------
(* Upload: the intent, the object, the clock *)

\* What the quota counts: uploads that may still come and files nobody uses yet.
CountsAsOpen(row) ==
    /\ row.use # "PROOF"
    /\ \/ row.status = "PENDING_UPLOAD" /\ row.open
       \/ row.status = "READY" /\ ~row.attached

Counted(creator) == {a \in Assets : assets[a].creator = creator /\ CountsAsOpen(assets[a])}

\* The row is held by a confirmation whose transaction is open. The count does not
\* wait for it and sees the row as it was.
Locked(a) == \E c \in Confirms : confirms[c].step = "written" /\ confirms[c].asset = a

Pend(a) == assets' = [assets EXCEPT ![a].status = "PENDING_UPLOAD", ![a].open = TRUE]

CreateUploadIntent(a) ==
    /\ assets[a].status = "NONE" /\ assets[a].use # "PROOF"
    /\ Cardinality(Counted(assets[a].creator)) < Quota
    /\ Pend(a)
    /\ UNCHANGED <<stored, owners, confirms, workers, faults>>

CreateDriverProofUploadIntent(a) ==
    /\ assets[a].status = "NONE" /\ assets[a].use = "PROOF"
    /\ Pend(a)
    /\ UNCHANGED <<stored, owners, confirms, workers, faults>>

\* The storage takes an object for as long as the URL is valid, whatever the row says.
PutObject(a) ==
    /\ assets[a].open
    /\ stored' = stored \cup {a}
    /\ UNCHANGED <<assets, owners, confirms, workers, faults>>

UploadExpires(a) ==
    /\ assets[a].open
    /\ assets' = [assets EXCEPT ![a].open = FALSE, ![a].late = Locked(a)]
    /\ UNCHANGED <<stored, owners, confirms, workers, faults>>

LeaseExpires(a) ==
    /\ assets[a].leased
    /\ assets' = [assets EXCEPT ![a].leased = FALSE]
    /\ UNCHANGED <<stored, owners, confirms, workers, faults>>

-----------------------------------------------------------------------------
(* Confirmation: the row, the object's head, its first bytes, the row again *)

\* (In the mutant the expiry is not looked at.)
StillPending(row) == row.status = "PENDING_UPLOAD"
Confirmable(row) == row.status = "PENDING_UPLOAD" /\ row.open

BeginConfirm(c, a) ==
    /\ confirms[c].step = "idle"
    /\ Confirmable(assets[a])
    /\ confirms' = [confirms EXCEPT ![c] = [step |-> "read", asset |-> a]]
    /\ UNCHANGED <<assets, stored, owners, workers, faults>>

\* headObject, then readPrefix, for which a missing object is missing as well.
ReadObject(c) ==
    /\ confirms[c].step = "read" /\ confirms[c].asset \in stored
    /\ confirms' = [confirms EXCEPT ![c].step = "commit"]
    /\ UNCHANGED <<assets, stored, owners, workers, faults>>

\* (In the mutant what was read before the storage was asked is taken to hold still.)
WriteUnchecked(c) ==
    /\ confirms[c].step = "commit" /\ ~Locked(confirms[c].asset)
    /\ confirms' = [confirms EXCEPT ![c].step = "written"]
    /\ UNCHANGED <<assets, stored, owners, workers, faults>>

\* The row is locked and looked at again, its URL against the clock of the process.
WriteReady(c) ==
    /\ confirms[c].step = "commit" /\ ~Locked(confirms[c].asset)
    /\ Confirmable(assets[confirms[c].asset])
    /\ confirms' = [confirms EXCEPT ![c].step = "written"]
    /\ UNCHANGED <<assets, stored, owners, workers, faults>>

CommitConfirm(c) ==
    LET a == confirms[c].asset IN
    /\ confirms[c].step = "written"
    /\ assets' = [assets EXCEPT ![a].status = "READY", ![a].confirmed = TRUE]
    /\ confirms' = [confirms EXCEPT ![c] = NoConfirmation]
    /\ UNCHANGED <<stored, owners, workers, faults>>

\* The object is missing or is not the image announced, the row is not confirmable
\* any more, another confirmation was first, or the process or its connection dies
\* (then what it wrote is undone).
ConfirmStops(c) ==
    /\ confirms[c].step # "idle"
    /\ confirms' = [confirms EXCEPT ![c] = NoConfirmation]
    /\ UNCHANGED <<assets, stored, owners, workers, faults>>

\* (In the mutant an asset in use is deleted like any other.)
DeleteAnyway(a) ==
    /\ assets[a].status \in {"PENDING_UPLOAD", "READY"} /\ ~Locked(a)
    /\ assets' = [assets EXCEPT ![a].status = "DELETE_PENDING", ![a].attached = FALSE]
    /\ UNCHANGED <<stored, owners, confirms, workers, faults>>

\* It waits for whoever holds the row.
Delete(a) ==
    /\ assets[a].status \in {"PENDING_UPLOAD", "READY"} /\ ~Locked(a)
    /\ ~assets[a].attached
    /\ assets' = [assets EXCEPT ![a].status = "DELETE_PENDING"]
    /\ UNCHANGED <<stored, owners, confirms, workers, faults>>

-----------------------------------------------------------------------------
(* The rows that use assets *)

Attachable(row) == row.status = "READY" /\ ~row.attached

ClaimAsset(row) == [row EXCEPT !.attached = TRUE]

ReleaseAsset(row) == [row EXCEPT !.attached = FALSE, !.status = "DELETE_PENDING"]

\* The owner's row is locked, written, and what it starts to use is claimed, what it
\* ceases to use released, in one transaction.
Change(o, state, image, others) ==
    LET row == [state |-> state, image |-> image, others |-> others]
        claimed == Refs(row) \ Refs(owners[o])
        released == Refs(owners[o]) \ Refs(row)
    IN  /\ \A a \in claimed : Attachable(assets[a])
        /\ owners' = [owners EXCEPT ![o] = row]
        /\ assets' = [a \in Assets |->
               IF a \in claimed THEN ClaimAsset(assets[a])
               ELSE IF a \in released THEN ReleaseAsset(assets[a])
               ELSE assets[a]]
        /\ UNCHANGED <<stored, confirms, workers, faults>>

MeantFor(use) == {a \in Assets : assets[a].use = use}

Image(o) == owners[o].image
Others(o) == owners[o].others

CreateMainCategory(o) ==
    /\ owners[o].state = "ABSENT"
    /\ \E a \in MeantFor("CATEGORY_IMAGE") : Change(o, "LIVE", a, {})

\* A new image, or an archived category made ACTIVE again, or both.
UpdateMainCategory(o) ==
    /\ owners[o].state # "ABSENT"
    /\ \E a \in MeantFor("CATEGORY_IMAGE") : Change(o, "LIVE", a, {})

\* Archiving keeps the files, except a subcategory's.
Archive(o) ==
    /\ owners[o].state = "LIVE"
    /\ Change(o, "ARCHIVED", Image(o), Others(o))

CreateSubcategory(o) ==
    /\ owners[o].state = "ABSENT"
    /\ \E a \in MeantFor("CATEGORY_IMAGE") \cup {None} : Change(o, "LIVE", a, {})

UpdateSubcategory(o) ==
    /\ owners[o].state # "ABSENT"
    /\ \E a \in MeantFor("CATEGORY_IMAGE") \cup {None} : Change(o, "LIVE", a, {})

ArchiveSubcategory(o) ==
    /\ owners[o].state = "LIVE"
    /\ Change(o, "ARCHIVED", None, {})

Covers == {{}} \cup {{a} : a \in MeantFor("STORE_IMAGE")}

CreateStore(o) ==
    /\ owners[o].state = "ABSENT"
    /\ \E logo \in MeantFor("STORE_LOGO"), cover \in Covers :
           Change(o, "LIVE", logo, cover)

UpdateStore(o) ==
    /\ owners[o].state # "ABSENT"
    /\ \E logo \in MeantFor("STORE_LOGO"), cover \in Covers :
           Change(o, "LIVE", logo, cover)

CreateProduct(o) ==
    /\ owners[o].state = "ABSENT"
    /\ \E images \in (SUBSET MeantFor("PRODUCT_IMAGE")) \ {{}} :
           Change(o, "LIVE", None, images)

ReplaceImages(o) ==
    /\ owners[o].state = "LIVE"
    /\ \E images \in (SUBSET MeantFor("PRODUCT_IMAGE")) \ {{}} :
           Change(o, "LIVE", None, images)

CreateDriver(o) ==
    /\ owners[o].state = "ABSENT"
    /\ \E photo \in MeantFor("DRIVER_PHOTO"),
          documents \in SUBSET MeantFor("DRIVER_DOCUMENT") :
           /\ Cardinality(documents) = DocumentSlots
           /\ Change(o, "LIVE", photo, documents)

\* A replaced document is marked invalid and stays the driver's, its file attached.
UpdateDriver(o) ==
    /\ owners[o].state = "LIVE"
    /\ \E photo \in MeantFor("DRIVER_PHOTO"),
          documents \in SUBSET MeantFor("DRIVER_DOCUMENT") :
           /\ Cardinality(documents \ Others(o)) <= DocumentSlots
           /\ Change(o, "LIVE", photo, Others(o) \cup documents)

\* A proof is used once, by the step of the order it proves.
ConsumeProof(o) ==
    \E proof \in MeantFor("PROOF") \ Others(o) :
        Change(o, owners[o].state, None, Others(o) \cup {proof})

-----------------------------------------------------------------------------
(* Clean-up. LIMIT and SKIP LOCKED make a statement take some of the rows due. *)

ExpiredUploads ==
    {a \in Assets : assets[a].status = "PENDING_UPLOAD" /\ ~assets[a].open /\ ~Locked(a)}

\* READY for longer than the unattached TTL: hours, when an upload URL lives minutes.
AbandonedReady ==
    {a \in Assets : assets[a].status = "READY" /\ ~assets[a].attached /\ ~assets[a].open}

\* (In the mutant only confirmed uploads are taken.)
ClaimableWhenReady(row) ==
    row.status = "DELETE_PENDING" /\ ~row.leased /\ row.confirmed

\* An upload that was never confirmed may still be put until its URL expires.
Claimable(row) ==
    /\ row.status = "DELETE_PENDING"
    /\ ~row.leased
    /\ row.confirmed \/ ~row.open

DeletePending == {a \in Assets : Claimable(assets[a])}

Queue(due) ==
    /\ assets' = [a \in Assets |->
           IF a \in due THEN [assets[a] EXCEPT !.status = "DELETE_PENDING"] ELSE assets[a]]
    /\ UNCHANGED <<stored, owners, confirms, workers, faults>>

\* A run of a worker begins with these two; as any worker may be about to run, they
\* may happen at any time.
QueueExpiredUploads == \E due \in (SUBSET ExpiredUploads) \ {{}} : Queue(due)

QueueAbandonedReady == \E due \in (SUBSET AbandonedReady) \ {{}} : Queue(due)

\* How a worker goes on with the rest of its batch.
WithBatch(batch) ==
    IF batch = {} THEN NoCleanUp
    ELSE [step |-> "batch", batch |-> batch, asset |-> None]

ClaimDeletePending(w) ==
    /\ workers[w].step = "idle"
    /\ \E batch \in (SUBSET DeletePending) \ {{}} :
           /\ assets' = [a \in Assets |->
                  IF a \in batch THEN [assets[a] EXCEPT !.leased = TRUE] ELSE assets[a]]
           /\ workers' = [workers EXCEPT ![w] = WithBatch(batch)]
    /\ UNCHANGED <<stored, owners, confirms, faults>>

\* An object that is already gone counts as deleted.
DeleteObject(w) ==
    /\ workers[w].step = "batch"
    /\ \E a \in workers[w].batch :
           /\ stored' = stored \ {a}
           /\ workers' = [workers EXCEPT ![w] =
                  [step |-> "deleted", batch |-> @.batch \ {a}, asset |-> a]]
    /\ UNCHANGED <<assets, owners, confirms, faults>>

\* Only while the row says DELETE_PENDING; who holds the lease is not asked.
EndLease(row, status) ==
    IF row.status = "DELETE_PENDING"
    THEN [row EXCEPT !.status = status, !.leased = FALSE] ELSE row

MarkDeleted(w) ==
    /\ workers[w].step = "deleted"
    /\ assets' = [assets EXCEPT ![workers[w].asset] = EndLease(@, "DELETED")]
    /\ workers' = [workers EXCEPT ![w] = WithBatch(@.batch)]
    /\ UNCHANGED <<stored, owners, confirms, faults>>

\* The storage refuses (or deletes and its answer is lost): the lease is given back.
DeleteFails(w) ==
    /\ workers[w].step = "batch" /\ faults < MaxFaults
    /\ \E a \in workers[w].batch :
           /\ stored' \in {stored, stored \ {a}}
           /\ assets' = [assets EXCEPT ![a] = EndLease(@, "DELETE_PENDING")]
           /\ workers' = [workers EXCEPT ![w] = WithBatch(@.batch \ {a})]
    /\ faults' = faults + 1
    /\ UNCHANGED <<owners, confirms>>

\* The row could not be marked, and then the lease could be given back.
MarkFails(w) ==
    /\ workers[w].step = "deleted" /\ faults < MaxFaults
    /\ assets' = [assets EXCEPT ![workers[w].asset] = EndLease(@, "DELETE_PENDING")]
    /\ workers' = [workers EXCEPT ![w] = WithBatch(@.batch)]
    /\ faults' = faults + 1
    /\ UNCHANGED <<stored, owners, confirms>>

\* The process dies, is stopped, or a statement fails: the leases stay behind.
WorkerStops(w) ==
    /\ workers[w].step # "idle" /\ faults < MaxFaults
    /\ workers' = [workers EXCEPT ![w] = NoCleanUp]
    /\ faults' = faults + 1
    /\ UNCHANGED <<assets, stored, owners, confirms>>

-----------------------------------------------------------------------------
Upload(a) ==
    \/ CreateUploadIntent(a) \/ CreateDriverProofUploadIntent(a)
    \/ PutObject(a) \/ Delete(a)

Clock(a) == UploadExpires(a) \/ LeaseExpires(a)

Confirm(c) ==
    \/ \E a \in Assets : BeginConfirm(c, a)
    \/ ReadObject(c) \/ WriteReady(c) \/ CommitConfirm(c) \/ ConfirmStops(c)

Use ==
    \/ \E o \in MainCategories : CreateMainCategory(o) \/ UpdateMainCategory(o)
    \/ \E o \in Subcategories :
           CreateSubcategory(o) \/ UpdateSubcategory(o) \/ ArchiveSubcategory(o)
    \/ \E o \in Stores : CreateStore(o) \/ UpdateStore(o)
    \/ \E o \in Products : CreateProduct(o) \/ ReplaceImages(o)
    \/ \E o \in MainCategories \cup Stores \cup Products : Archive(o)
    \/ \E o \in Drivers : CreateDriver(o) \/ UpdateDriver(o)
    \/ \E o \in Orders : ConsumeProof(o)

Run(w) == ClaimDeletePending(w) \/ DeleteObject(w) \/ MarkDeleted(w)

Fault(w) == DeleteFails(w) \/ MarkFails(w) \/ WorkerStops(w)

Next ==
    \/ \E a \in Assets : Upload(a) \/ Clock(a)
    \/ \E c \in Confirms : Confirm(c)
    \/ Use
    \/ QueueExpiredUploads
    \/ QueueAbandonedReady
    \/ \E w \in Workers : Run(w) \/ Fault(w)

Spec == Init /\ [][Next]_vars

\* A transaction that holds a row commits or is rolled back.
EndOfConfirm(c) ==
    confirms[c].step = "written" /\ (CommitConfirm(c) \/ ConfirmStops(c))

\* MediaCleanupWorker runs on a timer, the clock advances, and transactions end.
FairSpec ==
    /\ Spec
    /\ WF_vars(QueueExpiredUploads) /\ WF_vars(QueueAbandonedReady)
    /\ \A w \in Workers : WF_vars(Run(w))
    /\ \A c \in Confirms : WF_vars(EndOfConfirm(c))
    /\ \A a \in Assets : WF_vars(UploadExpires(a)) /\ WF_vars(LeaseExpires(a))

-----------------------------------------------------------------------------
(* Properties. *)

\* An asset is attached exactly when one row uses it, and then it is READY: nothing in
\* use is deleted or queued for it, nothing is used twice, nothing released is kept.
UsedBy(a) == {o \in Owners : a \in Refs(owners[o])}

ReferencesAgree ==
    \A a \in Assets :
        /\ assets[a].attached <=> UsedBy(a) # {}
        /\ Cardinality(UsedBy(a)) <= 1
        /\ assets[a].attached => assets[a].status = "READY"

\* A READY asset has its object: no confirmation that looked at the storage a while
\* ago and no worker whose lease ran out leaves a row that shows a missing file.
ReadyIsStored == \A a \in Assets : assets[a].status = "READY" => a \in stored

\* An upload that was never confirmed leaves nothing in storage once it is DELETED,
\* though its URL takes objects after the row was given up.
UnconfirmedLeavesNothing ==
    \A a \in Assets :
        assets[a].status = "DELETED" /\ ~assets[a].confirmed => a \notin stored

\* Rows and storage agree in both directions, though nothing is locked while the storage
\* is asked: what is shown as READY is there, what was given up unconfirmed is not.
ObjectsAgree == ReadyIsStored /\ UnconfirmedLeavesNothing

\* No creator ever has more open assets than the quota. FALSE: an upload whose URL
\* expires between the check of its confirmation and the commit of READY is not counted
\* when the next upload is asked for, and counts again afterwards.
QuotaHolds == \A creator \in Creators : Cardinality(Counted(creator)) <= Quota

\* But for the uploads that expired while READY was being committed, no creator has
\* more open assets than the quota: not by confirming uploads after their URL expired,
\* by rolling a confirmation back or by taking files out of use.
QuotaHoldsOnTime ==
    \A creator \in Creators :
        Cardinality({a \in Counted(creator) : ~assets[a].late}) <= Quota

\* What nobody uses is deleted in the end, unless somebody begins to use it: expired
\* and abandoned uploads, released files, the batches of workers that died.
CleanUpEnds ==
    \A a \in Assets :
        assets[a].status # "NONE" /\ ~assets[a].attached ~>
            assets[a].attached \/ assets[a].status = "DELETED"

=============================================================================

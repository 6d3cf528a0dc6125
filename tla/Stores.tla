------------------------------- MODULE Stores -------------------------------
\* The stores of one city, the subcategories they are listed under and the main
\* categories above both: stores/store.service.ts, catalog/subcategory.service.ts,
\* catalog/main-category.service.ts, and the weekly schedule of stores/schedule.ts.
\*
\* Commands on stores and subcategories take the city's advisory geography lock
\* and then the rows of main categories; commands on main categories never take the
\* geography lock: they take the row of the city and then the main category's. The
\* two kinds therefore run at once and meet at the main categories' rows, at the rows
\* of the files they attach (claimAsset), and at the row of the city, which an insert
\* of a store or a subcategory needs a share of for its foreign key. At most one
\* command of each kind holds anything.
\*
\* Whether a file can be attached is the subject of MediaAssets: here a file that is
\* locked may be granted or refused. Left out: the release of the files a row ceases
\* to use, which comes last (they are attached, so that another command which holds one
\* is about to be refused and waits for nothing), and the commands of other modules and
\* cities that may wait for the same city or for a file not meant for them.
\*
\* Two things answer 500 where a command is otherwise answered or refused: being
\* the victim of a deadlock, and a foreign key of store_subcategories.

EXTENDS Integers, Sequences, FiniteSets

CONSTANTS
    StoreIds, Subcategories, Mains,   \* Mains \subseteq Nat: their UUID order
    Images,            \* media assets that commands name
    Transactions,
    Ticks,             \* instants of a day (1440 minutes in the code)
    Schedules,         \* working hours a command may ask for
    Stock,             \* the initial tables of the runs
    MaxCommands,       \* bound: commands begun
    None               \* no row; in a command: the field is not given

ASSUME StoresAssumption ==
    Mains \subseteq Nat /\ Ticks \in Nat \ {0} /\ MaxCommands \in Nat

VARIABLES
    stores,     \* None or [status, main, subs, hours]; a DRAFT counts as INACTIVE
    subs,       \* None or [status, main]
    mains,      \* None or a status
    tx,         \* None or [command, mains: rows still to lock, held, decided,
                \*          images: files still to claim, claimed]
    failure,    \* the command that answered 500 in the last step, and what for
    begun

vars == <<stores, subs, mains, tx, failure, begun>>

Given == {"ACTIVE", "INACTIVE"}
Statuses == Given \cup {"ARCHIVED"}
WeekDays == 7
Week == WeekDays * Ticks

-----------------------------------------------------------------------------
\* Working hours. A period opens on a weekday and closes on the same one, or on the
\* next where it does not close later than it opens.

Period == [day : 0 .. WeekDays - 1, opens : 0 .. Ticks - 1, closes : 0 .. Ticks - 1]

\* segments: the part after midnight is taken of the SAME weekday.
Segments(p) ==
    IF p.closes > p.opens THEN p.opens .. p.closes - 1
    ELSE (p.opens .. Ticks - 1) \cup (0 .. p.closes - 1)

PeriodsOverlapSameDay(p, q) == p.day = q.day /\ Segments(p) \cap Segments(q) # {}

\* validateWorkingHours
ValidHours(hours) ==
    /\ \A p \in hours : p.opens # p.closes
    /\ \A p, q \in hours : p # q => ~PeriodsOverlapSameDay(p, q)

IntervalOf(p, offset) ==
    [start |-> offset * Ticks + p.opens,
     end |-> (IF p.closes > p.opens THEN offset ELSE offset + 1) * Ticks + p.closes]

\* (In the mutant: yesterday is not expanded.)
ExpandFromToday(hours, weekday) ==
    UNION {{IntervalOf(p, offset) : p \in {q \in hours : q.day = (weekday + offset) % WeekDays}}
        : offset \in 0 .. WeekDays + 1}

\* expandIntervals: from yesterday to eight days ahead; instants count from today's midnight.
ExpandIntervals(hours, weekday) ==
    UNION {{IntervalOf(p, offset) : p \in
            {q \in hours : q.day = (weekday + offset + WeekDays) % WeekDays}}
        : offset \in -1 .. WeekDays + 1}

First(intervals) == CHOOSE i \in intervals : \A j \in intervals : i.start <= j.start

\* evaluateStoreSchedule at an instant of a weekday
Evaluate(hours, weekday, now) ==
    LET intervals == ExpandIntervals(hours, weekday)
        active == {i \in intervals : i.start <= now /\ now < i.end}
        later == {i \in intervals : i.start > now}
    IN  IF active # {}
        THEN [isOpen |-> TRUE, nextOpening |-> None, nextClosing |-> First(active).end]
        ELSE [isOpen |-> FALSE, nextClosing |-> None,
              nextOpening |-> IF later = {} THEN None ELSE First(later).start]

-----------------------------------------------------------------------------
\* The commands.

Status(row) == IF row = None THEN None ELSE row.status

\* n files to attach, in the order in which they are claimed: of a store the logo and
\* then the cover. (A file the row has already is not claimed; one file named twice is
\* refused.)
Named(n) == {q \in [1 .. n -> Images] : \A i, j \in 1 .. n : q[i] = q[j] => i = j}

MainCommand ==
    [name : {"CreateMain"}, main : {m \in Mains : mains[m] = None}, status : Given,
     images : Named(1)]
    \cup [name : {"UpdateMain"}, main : {m \in Mains : mains[m] # None},
          status : Given \cup {None}, images : Named(0) \cup Named(1)]
    \cup [name : {"ArchiveMain"}, main : {m \in Mains : mains[m] # None}, images : Named(0)]

SubcategoryCommand ==
    LET known == {u \in Subcategories : subs[u] # None} IN
    [name : {"CreateSubcategory"}, sub : Subcategories \ known, main : Mains, status : Given,
     images : Named(0) \cup Named(1)]
    \cup [name : {"UpdateSubcategory"}, sub : known, main : Mains \cup {None},
          status : Given \cup {None}, images : Named(0) \cup Named(1)]
    \cup [name : {"ArchiveSubcategory"}, sub : known, images : Named(0)]

StoreCommand ==
    LET known == {s \in StoreIds : stores[s] # None}
        listed == SUBSET Subcategories
    IN  [name : {"CreateStore"}, store : StoreIds \ known, main : Mains, subs : listed,
         status : Given, hours : Schedules, images : Named(1) \cup Named(2)]
        \cup [name : {"UpdateStore"}, store : known, main : Mains \cup {None},
              subs : listed \cup {None}, status : Given \cup {None},
              hours : Schedules \cup {None}, images : Named(0) \cup Named(1) \cup Named(2)]
        \cup [name : {"ArchiveStore"}, store : known, images : Named(0)]

Command == MainCommand \cup SubcategoryCommand \cup StoreCommand

\* Commands that take the geography lock of the city; the others take its row.
OfGeography(c) == c.name \notin {"CreateMain", "UpdateMain", "ArchiveMain"}

Or(given, current) == IF given = None THEN current ELSE given

\* lockParentsForMove: both rows in the order of their ids
InOrder(m, n) == IF m = n THEN <<m>> ELSE IF m < n THEN <<m, n>> ELSE <<n, m>>

\* (In the mutant: the main category of a new store or subcategory is read, not locked.)
MainsOfReading(c) ==
    CASE c.name \in {"UpdateMain", "ArchiveMain"} -> <<c.main>>
      [] c.name = "UpdateSubcategory" -> InOrder(subs[c.sub].main, Or(c.main, subs[c.sub].main))
      [] c.name = "ArchiveSubcategory" ->
            IF subs[c.sub].status = "ARCHIVED" THEN <<>> ELSE <<subs[c.sub].main>>
      [] c.name = "UpdateStore" -> <<Or(c.main, stores[c.store].main)>>
      [] OTHER -> <<>>

\* The rows of main categories a command locks, in its order.
MainsOf(c) ==
    CASE c.name \in {"UpdateMain", "ArchiveMain", "CreateSubcategory", "CreateStore"} -> <<c.main>>
      [] c.name = "UpdateSubcategory" -> InOrder(subs[c.sub].main, Or(c.main, subs[c.sub].main))
      [] c.name = "ArchiveSubcategory" ->
            IF subs[c.sub].status = "ARCHIVED" THEN <<>> ELSE <<subs[c.sub].main>>
      [] c.name = "UpdateStore" -> <<Or(c.main, stores[c.store].main)>>
      [] OTHER -> <<>>

\* An insert with a foreign key to the city shares the city's row.
InsertsOfCity(c) == c.name \in {"CreateSubcategory", "CreateStore"}

Live(m) == mains[m] \notin {None, "ARCHIVED"}

\* lockSubcategories
MayList(main, listed) ==
    /\ listed # {}
    /\ \A u \in listed :
        /\ Status(subs[u]) \notin {None, "ARCHIVED"}
        /\ subs[u].main = main

\* (In the mutant: subcategories are checked and replaced only where they are given.)
ListsAnewOnlyGiven(c) == c.subs # None

\* update of a store: its subcategories are listed anew
ListsAnew(c) == c.subs # None \/ c.main # None

\* What each command checks with its rows locked.
Allowed(c) ==
    CASE c.name = "UpdateMain" -> mains[c.main] = "ARCHIVED" => c.status = "ACTIVE"
      [] c.name = "CreateSubcategory" -> Live(c.main)
      [] c.name = "UpdateSubcategory" ->
            /\ subs[c.sub].status = "ARCHIVED" => c.status = "ACTIVE"
            /\ Live(Or(c.main, subs[c.sub].main))
      [] c.name = "CreateStore" -> Live(c.main) /\ MayList(c.main, c.subs) /\ ValidHours(c.hours)
      [] c.name = "UpdateStore" ->
            LET main == Or(c.main, stores[c.store].main) IN
            /\ stores[c.store].status = "ARCHIVED" => c.status = "ACTIVE"
            /\ Live(main)
            /\ ListsAnew(c) => MayList(main, Or(c.subs, stores[c.store].subs))
            /\ c.hours # None => ValidHours(c.hours)
      [] OTHER -> TRUE

\* The rows a command writes.
MainsAfter(c) ==
    CASE c.name = "CreateMain" -> [mains EXCEPT ![c.main] = c.status]
      [] c.name = "UpdateMain" -> [mains EXCEPT ![c.main] = Or(c.status, @)]
      [] c.name = "ArchiveMain" -> [mains EXCEPT ![c.main] = "ARCHIVED"]
      [] OTHER -> mains

SubsAfter(c) ==
    CASE c.name = "CreateSubcategory" ->
            [subs EXCEPT ![c.sub] = [status |-> c.status, main |-> c.main]]
      [] c.name = "UpdateSubcategory" ->
            [subs EXCEPT ![c.sub] =
                [status |-> Or(c.status, @.status), main |-> Or(c.main, @.main)]]
      [] c.name = "ArchiveSubcategory" -> [subs EXCEPT ![c.sub].status = "ARCHIVED"]
      [] OTHER -> subs

\* (The row of a store, with the fields the command gives.)
Updated(c, row) ==
    [row EXCEPT !.status = Or(c.status, @), !.main = Or(c.main, @),
                !.subs = IF ListsAnew(c) THEN Or(c.subs, @) ELSE @,
                !.hours = Or(c.hours, @)]

StoresAfter(c) ==
    CASE c.name = "CreateStore" ->
            [stores EXCEPT ![c.store] = [status |-> c.status, main |-> c.main, subs |-> c.subs,
                                         hours |-> c.hours]]
      [] c.name = "UpdateStore" ->
            [stores EXCEPT ![c.store] = Updated(c, @)]
      [] c.name = "ArchiveStore" -> [stores EXCEPT ![c.store].status = "ARCHIVED"]
      [] OTHER -> stores

\* The foreign keys of store_subcategories: the main category of the store, and of the
\* subcategory, whatever their status.
ForeignKeysHold(storeRows, subRows) ==
    \A s \in StoreIds : storeRows[s] # None =>
        \A u \in storeRows[s].subs : subRows[u].main = storeRows[s].main

-----------------------------------------------------------------------------
\* The tables.

SubcategoryRow == [status : Statuses, main : Mains]

StoreRow == [ status : Statuses,
              main   : Mains,
              subs   : SUBSET Subcategories,
              hours  : {hours \in SUBSET Period : ValidHours(hours)} ]

\* Tables a run begins with: rows, and subcategories that stores list, under their main.
ASSUME StockAssumption ==
    /\ Schedules \subseteq SUBSET Period
    /\ None \notin SubcategoryRow
    /\ \A stock \in Stock :
        /\ stock.stores \in [StoreIds -> {None} \cup StoreRow]
        /\ stock.subs \in [Subcategories -> {None} \cup SubcategoryRow]
        /\ stock.mains \in [Mains -> {None} \cup Statuses]
        /\ stock.begun \in 0 .. MaxCommands
        /\ \A s \in StoreIds : stock.stores[s] # None =>
            \A u \in stock.stores[s].subs :
                stock.subs[u] # None /\ stock.subs[u].main = stock.stores[s].main

-----------------------------------------------------------------------------
\* Transactions.

Init ==
    /\ \E stock \in Stock :
        /\ stores = stock.stores
        /\ subs = stock.subs
        /\ mains = stock.mains
        /\ begun = stock.begun
    /\ tx = [t \in Transactions |-> None]
    /\ failure = None

\* The first lock: the geography lock of the city, or its row.
Begin(t) ==
    /\ tx[t] = None
    /\ begun < MaxCommands
    /\ \E c \in Command :
        /\ \A u \in Transactions : tx[u] # None => OfGeography(tx[u].command) # OfGeography(c)
        /\ tx' = [tx EXCEPT ![t] =
                [command |-> c, mains |-> MainsOf(c), held |-> {}, decided |-> FALSE,
                 images |-> c.images, claimed |-> {}]]
    /\ begun' = begun + 1
    /\ failure' = None
    /\ UNCHANGED <<stores, subs, mains>>

LockMain(t) ==
    /\ tx[t] # None
    /\ tx[t].mains # <<>>
    /\ LET m == Head(tx[t].mains) IN
        /\ \A u \in Transactions \ {t} : tx[u] # None => m \notin tx[u].held
        /\ tx' = [tx EXCEPT ![t].mains = Tail(@), ![t].held = @ \cup {m}]
    /\ failure' = None
    /\ UNCHANGED <<stores, subs, mains, begun>>

Undecided(t) == tx[t] # None /\ tx[t].mains = <<>> /\ ~tx[t].decided

Refuse(t) ==
    /\ Undecided(t)
    /\ ~Allowed(tx[t].command)
    /\ tx' = [tx EXCEPT ![t] = None]
    /\ failure' = None
    /\ UNCHANGED <<stores, subs, mains, begun>>

Decide(t) ==
    /\ Undecided(t)
    /\ Allowed(tx[t].command)
    /\ tx' = [tx EXCEPT ![t].decided = TRUE]
    /\ failure' = None
    /\ UNCHANGED <<stores, subs, mains, begun>>

\* The next file to attach, and nobody else holds its row.
ClaimsNext(t) ==
    /\ tx[t] # None
    /\ tx[t].decided
    /\ tx[t].images # <<>>
    /\ \A u \in Transactions \ {t} : tx[u] # None => Head(tx[t].images) \notin tx[u].claimed

ClaimImage(t) ==
    /\ ClaimsNext(t)
    /\ tx' = [tx EXCEPT ![t].images = Tail(@),
                        ![t].claimed = @ \cup {Head(tx[t].images)}]
    /\ failure' = None
    /\ UNCHANGED <<stores, subs, mains, begun>>

\* MEDIA_NOT_ATTACHABLE
RefuseImage(t) ==
    /\ ClaimsNext(t)
    /\ tx' = [tx EXCEPT ![t] = None]
    /\ failure' = None
    /\ UNCHANGED <<stores, subs, mains, begun>>

CityIsFree(t) ==
    InsertsOfCity(tx[t].command) =>
        \A u \in Transactions \ {t} : tx[u] # None => OfGeography(tx[u].command)

\* The writes and the commit; what a foreign key refuses is rolled back.
Commit(t) ==
    /\ tx[t] # None
    /\ tx[t].decided
    /\ tx[t].images = <<>>
    /\ CityIsFree(t)
    /\ LET c == tx[t].command IN
        IF ForeignKeysHold(StoresAfter(c), SubsAfter(c)) THEN
            /\ stores' = StoresAfter(c)
            /\ subs' = SubsAfter(c)
            /\ mains' = MainsAfter(c)
            /\ failure' = None
        ELSE
            /\ failure' = <<c.name, "foreign key">>
            /\ UNCHANGED <<stores, subs, mains>>
    /\ tx' = [tx EXCEPT ![t] = None]
    /\ UNCHANGED begun

\* t waits for u, which has the lock of a row: of a main category, a file or the city.
LockedRows == {"main category", "image", "city"}

Waits(t, u, row) ==
    /\ t # u /\ tx[t] # None /\ tx[u] # None
    /\ \/ row = "main category" /\ tx[t].mains # <<>> /\ Head(tx[t].mains) \in tx[u].held
       \/ /\ row = "image" /\ tx[t].decided /\ tx[t].images # <<>>
          /\ Head(tx[t].images) \in tx[u].claimed
       \/ /\ row = "city" /\ tx[t].decided /\ tx[t].images = <<>>
          /\ InsertsOfCity(tx[t].command) /\ ~OfGeography(tx[u].command)

\* The database ends one of two that wait for each other; nothing begins it again
\* (beginWithGeographyRetry repeats a stale geography only).
DeadlockVictim(t) ==
    /\ \E u \in Transactions, row, other \in LockedRows :
        /\ Waits(t, u, row) /\ Waits(u, t, other)
        /\ failure' = <<tx[t].command.name, row>>
    /\ tx' = [tx EXCEPT ![t] = None]
    /\ UNCHANGED <<stores, subs, mains, begun>>

Next == \E t \in Transactions :
    \/ Begin(t) \/ LockMain(t) \/ Refuse(t) \/ Decide(t)
    \/ ClaimImage(t) \/ RefuseImage(t)
    \/ Commit(t) \/ DeadlockVictim(t)

Spec == Init /\ [][Next]_vars

-----------------------------------------------------------------------------
\* Properties

TypeOK ==
    /\ stores \in [StoreIds -> {None} \cup StoreRow]
    /\ subs \in [Subcategories -> {None} \cup SubcategoryRow]
    /\ mains \in [Mains -> {None} \cup Statuses]
    /\ tx \in [Transactions -> {None} \cup
            [command : Command, mains : Seq(Mains), held : SUBSET Mains, decided : BOOLEAN,
             images : Seq(Images), claimed : SUBSET Images]]
    /\ begun \in 0 .. MaxCommands

\* A command fails with an internal error only in these ways. In a deadlock one of the
\* two is a create of a store or subcategory whose insert waits for the row of the
\* city; the other is a command on main categories, which has that row and waits for
\* the main category the first one holds (an update or an archive), or for a file it
\* has claimed (a create or an update). And the move of a subcategory that a store
\* lists is refused by a foreign key of store_subcategories (store.service.ts and
\* subcategory.service.ts lock and check; the foreign keys have the last word). Among these
\* commands, updates of stores and archives of stores and subcategories never fail so.
OnlyTheseFail ==
    failure # None => failure \in
        ({"CreateStore", "CreateSubcategory"} \X {"city"})
        \cup ({"UpdateMain", "ArchiveMain"} \X {"main category"})
        \cup ({"CreateMain", "UpdateMain"} \X {"image"})
        \cup {<<"UpdateSubcategory", "foreign key">>}

Joins(row, new) ==
    /\ new # None
    /\ \/ row = None
       \/ row.main # new.main
       \/ row.status = "ARCHIVED" /\ new.status # "ARCHIVED"

\* No store or subcategory is created under, moved to or restored under a main category
\* that is archived when the command commits, nor is a subcategory newly listed by a
\* store when archived, though main categories are archived outside the geography lock.
NothingJoinsTheArchived ==
    [][/\ \A s \in StoreIds : Joins(stores[s], stores'[s]) => mains'[stores'[s].main] # "ARCHIVED"
       /\ \A u \in Subcategories : Joins(subs[u], subs'[u]) => mains'[subs'[u].main] # "ARCHIVED"
       /\ \A s \in StoreIds : stores'[s] # None =>
            \A u \in stores'[s].subs \ (IF stores[s] = None THEN {} ELSE stores[s].subs) :
                subs'[u].status # "ARCHIVED"]_vars

\* The instants of a week the hours cover, counted from Monday's midnight.
Length(p) == (p.closes - p.opens) % Ticks
Covered(hours) ==
    UNION {{(p.day * Ticks + p.opens + k) % Week : k \in 0 .. Length(p) - 1} : p \in hours}

\* A period runs, or begins, where another ends.
Adjoining(hours) ==
    \E p \in hours : (p.day * Ticks + p.opens + Length(p)) % Week \in Covered(hours)

ShownAgrees(hours, weekday, now) ==
    LET shown == Evaluate(hours, weekday, now)
        Open(n) == (weekday * Ticks + n) % Week \in Covered(hours)
    IN  /\ shown.isOpen = Open(now)
        /\ shown.isOpen =>
            /\ \A n \in now .. shown.nextClosing - 1 : Open(n)
            /\ ~Adjoining(hours) => ~Open(shown.nextClosing)
        /\ ~shown.isOpen =>
            IF hours = {} THEN shown.nextOpening = None
            ELSE /\ Open(shown.nextOpening)
                 /\ \A n \in now .. shown.nextOpening - 1 : ~Open(n)

\* At every instant of every weekday the schedule shown of a store is the one of its
\* hours: open exactly when they cover the instant; the next opening is the first
\* instant they cover; the store stays open until the next closing, and closes there
\* unless another period adjoins: validateWorkingHours compares periods of one
\* weekday only, so one that runs over midnight may end in the next day's period.
ScheduleAgrees ==
    \A hours \in {stores[s].hours : s \in {s \in StoreIds : stores[s] # None}} :
        \A weekday \in 0 .. WeekDays - 1, now \in 0 .. Ticks - 1 :
            ShownAgrees(hours, weekday, now)

=============================================================================

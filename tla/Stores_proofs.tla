--------------------------- MODULE Stores_proofs ----------------------------
(***************************************************************************)
(* Stores and what they sell.                                              *)
(*                                                                         *)
(* Stores: what a transaction found when it decided is still so when it    *)
(* commits, for any stores, categories and transactions.                   *)
(*                                                                         *)
(* At most one command of each kind is under way.  One of stores and       *)
(* subcategories finds their tables unchanged, for nobody else writes      *)
(* them; of the main categories it relies on it holds the rows, and the    *)
(* one command that may write main categories writes a row it holds        *)
(* itself, or one that was not there.                                      *)
(*                                                                         *)
(* And the schedule shown of a store is the one of its hours, for days of  *)
(* any length: an instant of the week is covered exactly when one of the   *)
(* intervals expanded around the weekday has it.                           *)
(*                                                                         *)
(* And the catalog of a store, from its creation on, with any products,    *)
(* sizes, categories, groups and options: no sequence of commands breaks   *)
(* what each of them checks a part of, and the cart shows as orderable     *)
(* only what an order accepts, at the price shown.                         *)
(***************************************************************************)
EXTENDS Stores, Catalog, TLAPS, SequenceTheorems, WellFoundedInduction, FiniteSetTheorems

-----------------------------------------------------------------------------
(* The inductive invariant. *)

Elements(q) == {q[i] : i \in 1 .. Len(q)}
Distinct(q) == \A i, j \in 1 .. Len(q) : q[i] = q[j] => i = j

\* What row t has locked, and what it has still to lock, are the rows of its command.
LocksAreOf(t) ==
    /\ tx[t].held \cup Elements(tx[t].mains) = Elements(MainsOf(tx[t].command))
    /\ tx[t].held \cap Elements(tx[t].mains) = {}
    /\ Distinct(tx[t].mains)

\* Who has decided has its locks, and what it checked is still so.
DecidedStands(t) == tx[t].decided => tx[t].mains = <<>> /\ Allowed(tx[t].command)

\* Files are claimed once everything is decided; a command on main categories has none
\* or one to claim.
ClaimsAreOf(row) ==
    /\ row.claimed # {} => row.decided
    /\ ~OfGeography(row.command) =>
           row.images = <<>> \/ (row.claimed = {} /\ row.images = row.command.images)

Running(t) == tx[t] # None

OneOfEachKind ==
    \A t, u \in Transactions : Running(t) /\ Running(u) /\ t # u =>
        /\ OfGeography(tx[t].command) # OfGeography(tx[u].command)
        /\ tx[t].held \cap tx[u].held = {}

\* What a store lists is there, under the store's main category.
ListedBelong(storeRows, subRows) ==
    \A s \in StoreIds : storeRows[s] # None =>
        \A u \in storeRows[s].subs :
            subRows[u] # None /\ subRows[u].main = storeRows[s].main

IInv ==
    /\ TypeOK
    /\ \A t \in Transactions : Running(t) =>
           LocksAreOf(t) /\ DecidedStands(t) /\ ClaimsAreOf(tx[t])
    /\ OneOfEachKind
    /\ ListedBelong(stores, subs)
    /\ OnlyTheseFail

-----------------------------------------------------------------------------
(* Sequences of rows. *)

LEMMA NoElements == Elements(<<>>) = {} /\ Distinct(<<>>)
BY DEF Elements, Distinct

LEMMA OneElement == ASSUME NEW m PROVE Elements(<<m>>) = {m} /\ Distinct(<<m>>)
BY DEF Elements, Distinct

LEMMA TwoElements ==
    ASSUME NEW m, NEW n, m # n
    PROVE  Elements(<<m, n>>) = {m, n} /\ Distinct(<<m, n>>)
<1>1. PICK q : q = <<m, n>>
  OBVIOUS
<1>2. Len(q) = 2 /\ q[1] = m /\ q[2] = n
  BY <1>1
<1>3. 1 .. Len(q) = {1, 2}
  BY <1>2
<1>4. Elements(q) = {m, n} /\ Distinct(q)
  BY <1>2, <1>3 DEF Elements, Distinct
<1>. QED  BY <1>1, <1>4

\* A row locked is no longer to lock.
LEMMA OneLess ==
    ASSUME NEW S, NEW q \in Seq(S), q # <<>>, Distinct(q)
    PROVE  /\ Tail(q) \in Seq(S) /\ Head(q) \in S
           /\ Elements(q) = {Head(q)} \cup Elements(Tail(q))
           /\ Head(q) \notin Elements(Tail(q))
           /\ Distinct(Tail(q))
<1>1. PICK n : n = Len(q) /\ n \in Nat /\ n >= 1
  BY EmptySeq
<1>2. PICK r, m : r = Tail(q) /\ m = Head(q)
  OBVIOUS
<1>3. /\ r \in Seq(S) /\ Len(r) = n - 1 /\ m = q[1] /\ m \in S
      /\ \A i \in 1 .. n - 1 : r[i] = q[i + 1]
  BY <1>1, <1>2
<1>4. \A i, j \in 1 .. n : q[i] = q[j] => i = j
  BY <1>1 DEF Distinct
<1>5. Elements(q) = {m} \cup Elements(r)
  <2>1. ASSUME NEW i \in 1 .. n PROVE q[i] \in {m} \cup Elements(r)
    <3>1. CASE i = 1
      BY <1>3, <3>1
    <3>2. CASE i # 1
      <4>1. i - 1 \in 1 .. n - 1 /\ r[i - 1] = q[i]
        BY <1>1, <1>3, <3>2
      <4>. QED  BY <1>3, <4>1 DEF Elements
    <3>. QED  BY <3>1, <3>2
  <2>2. ASSUME NEW i \in 1 .. n - 1 PROVE r[i] \in Elements(q)
    <3>1. i + 1 \in 1 .. n /\ r[i] = q[i + 1]
      BY <1>1, <1>3
    <3>. QED  BY <1>1, <3>1 DEF Elements
  <2>3. m \in Elements(q)
    BY <1>1, <1>3 DEF Elements
  <2>. QED  BY <1>1, <1>3, <2>1, <2>2, <2>3 DEF Elements
<1>6. m \notin Elements(r)
  <2>1. ASSUME NEW i \in 1 .. n - 1 PROVE r[i] # m
    <3>1. i + 1 \in 1 .. n /\ i + 1 # 1 /\ 1 \in 1 .. n
      BY <1>1
    <3>. QED  BY <1>3, <1>4, <3>1
  <2>. QED  BY <1>3, <2>1 DEF Elements
<1>7. Distinct(r)
  <2>1. ASSUME NEW i \in 1 .. n - 1, NEW j \in 1 .. n - 1, r[i] = r[j] PROVE i = j
    <3>1. i + 1 \in 1 .. n /\ j + 1 \in 1 .. n /\ q[i + 1] = q[j + 1]
      BY <1>1, <1>3, <2>1
    <3>2. i + 1 = j + 1
      BY <1>4, <3>1
    <3>. QED  BY <3>2
  <2>. QED  BY <1>3, <2>1 DEF Distinct
<1>. QED  BY <1>2, <1>3, <1>5, <1>6, <1>7

-----------------------------------------------------------------------------
(* What a command is. *)

LEMMA CommandSorts ==
    ASSUME NEW c \in Command
    PROVE  /\ OfGeography(c) => c \in SubcategoryCommand \cup StoreCommand
           /\ ~OfGeography(c) => c \in MainCommand
<1>1. CASE c \in MainCommand
  <2>1. c.name \in {"CreateMain", "UpdateMain", "ArchiveMain"}
    BY <1>1 DEF MainCommand
  <2>. QED  BY <1>1, <2>1 DEF OfGeography
<1>2. CASE c \in SubcategoryCommand
  <2>1. c.name \notin {"CreateMain", "UpdateMain", "ArchiveMain"}
    BY <1>2 DEF SubcategoryCommand
  <2>. QED  BY <1>2, <2>1 DEF OfGeography
<1>3. CASE c \in StoreCommand
  <2>1. c.name \notin {"CreateMain", "UpdateMain", "ArchiveMain"}
    BY <1>3 DEF StoreCommand
  <2>. QED  BY <1>3, <2>1 DEF OfGeography
<1>. QED  BY <1>1, <1>2, <1>3 DEF Command

LEMMA NamedFiles ==
    ASSUME NEW n \in Nat, NEW q \in Named(n)
    PROVE  /\ q \in Seq(Images)
           /\ n = 0 => q = <<>>
           /\ n = 1 => q # <<>> /\ Tail(q) = <<>>
<1>1. q \in [1 .. n -> Images]
  BY DEF Named
<1>2. q \in Seq(Images)
  BY <1>1, SeqDef
<1>3. Len(q) = n
  BY <1>1, <1>2, LenProperties
<1>4. n = 0 => q = <<>>
  BY <1>2, <1>3, EmptySeq
<1>5. ASSUME n = 1 PROVE q # <<>> /\ Tail(q) = <<>>
  <2>1. q # <<>>
    BY <1>3, <1>5
  <2>2. Tail(q) \in Seq(Images) /\ Len(Tail(q)) = 0
    BY <1>2, <1>3, <1>5, <2>1
  <2>. QED  BY <2>1, <2>2, EmptySeq
<1>. QED  BY <1>2, <1>4, <1>5

LEMMA CommandNamesFiles ==
    ASSUME NEW c \in Command
    PROVE  /\ c.images \in Seq(Images)
           /\ c \in MainCommand => c.images = <<>> \/ Tail(c.images) = <<>>
           /\ c.name = "ArchiveMain" => c.images = <<>>
<1>1. c.images \in Named(0) \cup Named(1) \cup Named(2)
  BY DEF Command, MainCommand, SubcategoryCommand, StoreCommand
<1>2. c \in MainCommand => c.images \in Named(0) \cup Named(1)
  BY DEF MainCommand
<1>3. c.name = "ArchiveMain" => c.images \in Named(0)
  BY DEF Command, MainCommand, SubcategoryCommand, StoreCommand
<1>. QED  BY <1>1, <1>2, <1>3, NamedFiles

MainFits(c) ==
    /\ c.name \in {"CreateMain", "UpdateMain", "ArchiveMain"}
    /\ c.main \in Mains
    /\ c.name = "CreateMain" => c.status \in Given /\ mains[c.main] = None
    /\ c.name = "UpdateMain" => c.status \in Given \cup {None} /\ mains[c.main] # None
    /\ c.name = "ArchiveMain" => mains[c.main] # None

SubcategoryFits(c) ==
    /\ c.name \in {"CreateSubcategory", "UpdateSubcategory", "ArchiveSubcategory"}
    /\ c.sub \in Subcategories
    /\ c.name = "CreateSubcategory" =>
           c.main \in Mains /\ c.status \in Given /\ subs[c.sub] = None
    /\ c.name = "UpdateSubcategory" =>
           c.main \in Mains \cup {None} /\ c.status \in Given \cup {None} /\ subs[c.sub] # None
    /\ c.name = "ArchiveSubcategory" => subs[c.sub] # None

StoreFits(c) ==
    /\ c.name \in {"CreateStore", "UpdateStore", "ArchiveStore"}
    /\ c.store \in StoreIds
    /\ c.name = "CreateStore" =>
           /\ c.main \in Mains /\ c.subs \in SUBSET Subcategories /\ c.status \in Given
           /\ c.hours \in Schedules /\ stores[c.store] = None
    /\ c.name = "UpdateStore" =>
           /\ c.main \in Mains \cup {None} /\ c.subs \in (SUBSET Subcategories) \cup {None}
           /\ c.status \in Given \cup {None} /\ c.hours \in Schedules \cup {None}
           /\ stores[c.store] # None
    /\ c.name = "ArchiveStore" => stores[c.store] # None

LEMMA MainCommandFits == ASSUME NEW c \in MainCommand PROVE MainFits(c)
BY DEF MainCommand, MainFits

LEMMA SubcategoryCommandFits == ASSUME NEW c \in SubcategoryCommand PROVE SubcategoryFits(c)
BY DEF SubcategoryCommand, SubcategoryFits

LEMMA StoreCommandFits == ASSUME NEW c \in StoreCommand PROVE StoreFits(c)
BY DEF StoreCommand, StoreFits

\* The main category under which a command creates, moves or restores a row.
LandsOn(c) ==
    CASE c.name \in {"CreateSubcategory", "CreateStore"} -> {c.main}
      [] c.name = "UpdateSubcategory" -> {Or(c.main, subs[c.sub].main)}
      [] c.name = "UpdateStore" -> {Or(c.main, stores[c.store].main)}
      [] OTHER -> {}

LEMMA PairInOrder ==
    ASSUME NEW m \in Mains, NEW n \in Mains
    PROVE  /\ InOrder(m, n) \in Seq(Mains) /\ Distinct(InOrder(m, n))
           /\ n \in Elements(InOrder(m, n))
<1>1. CASE m = n
  <2>1. InOrder(m, n) = <<n>>
    BY <1>1 DEF InOrder
  <2>. QED  BY <2>1, OneElement
<1>2. CASE m # n /\ m < n
  <2>1. InOrder(m, n) = <<m, n>>
    BY <1>2 DEF InOrder
  <2>. QED  BY <1>2, <2>1, TwoElements
<1>3. CASE m # n /\ ~(m < n)
  <2>1. InOrder(m, n) = <<n, m>>
    BY <1>3 DEF InOrder
  <2>. QED  BY <1>3, <2>1, TwoElements
<1>. QED  BY <1>1, <1>2, <1>3

\* A command holds the row of the main category it lands on, and one of main categories
\* that writes a row that was there holds it.
LEMMA LocksWhatItLandsOn ==
    ASSUME TypeOK, NEW c \in Command
    PROVE  /\ MainsOf(c) \in Seq(Mains) /\ Distinct(MainsOf(c))
           /\ LandsOn(c) \subseteq Elements(MainsOf(c))
           /\ c.name \in {"UpdateMain", "ArchiveMain"} => MainsOf(c) = <<c.main>>
           /\ c.name = "CreateMain" => MainsOf(c) = <<>>
<1>1. CASE c \in MainCommand
  <2>1. MainFits(c)
    BY <1>1, MainCommandFits
  <2>2. LandsOn(c) = {}
    BY <2>1 DEF MainFits, LandsOn
  <2>3. CASE c.name = "CreateMain"
    <3>1. MainsOf(c) = <<>>
      BY <2>3 DEF MainsOf
    <3>. QED  BY <2>2, <2>3, <3>1, NoElements
  <2>4. CASE c.name \in {"UpdateMain", "ArchiveMain"}
    <3>1. MainsOf(c) = <<c.main>> /\ c.main \in Mains
      BY <2>1, <2>4 DEF MainsOf, MainFits
    <3>. QED  BY <2>2, <2>4, <3>1, OneElement
  <2>. QED  BY <2>1, <2>3, <2>4 DEF MainFits
<1>2. CASE c \in SubcategoryCommand
  <2>1. SubcategoryFits(c)
    BY <1>2, SubcategoryCommandFits
  <2>2. CASE c.name = "CreateSubcategory"
    <3>1. MainsOf(c) = <<c.main>> /\ c.main \in Mains /\ LandsOn(c) = {c.main}
      BY <2>1, <2>2 DEF MainsOf, LandsOn, SubcategoryFits
    <3>. QED  BY <2>2, <3>1, OneElement
  <2>3. subs[c.sub] # None => subs[c.sub].main \in Mains
    BY <2>1 DEF TypeOK, SubcategoryFits, SubcategoryRow
  <2>4. CASE c.name = "UpdateSubcategory"
    <3>1. PICK m, n : m = subs[c.sub].main /\ n = Or(c.main, m)
      OBVIOUS
    <3>2. m \in Mains /\ n \in Mains
      BY <2>1, <2>3, <2>4, <3>1 DEF SubcategoryFits, Or
    <3>3. MainsOf(c) = InOrder(m, n) /\ LandsOn(c) = {n}
      BY <2>4, <3>1 DEF MainsOf, LandsOn
    <3>. QED  BY <2>4, <3>2, <3>3, PairInOrder
  <2>5. CASE c.name = "ArchiveSubcategory"
    <3>1. LandsOn(c) = {}
      BY <2>5 DEF LandsOn
    <3>2. MainsOf(c) = <<>> \/ MainsOf(c) = <<subs[c.sub].main>>
      BY <2>5 DEF MainsOf
    <3>3. subs[c.sub].main \in Mains
      BY <2>1, <2>3, <2>5 DEF SubcategoryFits
    <3>4. CASE MainsOf(c) = <<>>
      BY <2>5, <3>1, <3>4, NoElements
    <3>5. CASE MainsOf(c) = <<subs[c.sub].main>>
      BY <2>5, <3>1, <3>3, <3>5, OneElement
    <3>. QED  BY <3>2, <3>4, <3>5
  <2>. QED  BY <2>1, <2>2, <2>4, <2>5 DEF SubcategoryFits
<1>3. CASE c \in StoreCommand
  <2>1. StoreFits(c)
    BY <1>3, StoreCommandFits
  <2>2. CASE c.name = "CreateStore"
    <3>1. MainsOf(c) = <<c.main>> /\ c.main \in Mains /\ LandsOn(c) = {c.main}
      BY <2>1, <2>2 DEF MainsOf, LandsOn, StoreFits
    <3>. QED  BY <2>2, <3>1, OneElement
  <2>3. CASE c.name = "UpdateStore"
    <3>1. PICK n : n = Or(c.main, stores[c.store].main)
      OBVIOUS
    <3>2. stores[c.store].main \in Mains
      BY <2>1, <2>3 DEF TypeOK, StoreFits, StoreRow
    <3>3. n \in Mains
      BY <2>1, <2>3, <3>1, <3>2 DEF StoreFits, Or
    <3>4. MainsOf(c) = <<n>> /\ LandsOn(c) = {n}
      BY <2>3, <3>1 DEF MainsOf, LandsOn
    <3>. QED  BY <2>3, <3>3, <3>4, OneElement
  <2>4. CASE c.name = "ArchiveStore"
    <3>1. MainsOf(c) = <<>> /\ LandsOn(c) = {}
      BY <2>4 DEF MainsOf, LandsOn
    <3>. QED  BY <2>4, <3>1, NoElements
  <2>. QED  BY <2>1, <2>2, <2>3, <2>4 DEF StoreFits
<1>. QED  BY <1>1, <1>2, <1>3 DEF Command

\* Where it lands is live.
LEMMA AllowedLandsOnLive ==
    ASSUME NEW c \in Command, Allowed(c)
    PROVE  \A m \in LandsOn(c) : Live(m)
BY DEF Allowed, LandsOn

\* What a command of stores or subcategories checked is so while their tables stay and
\* the main category it lands on is live.
LEMMA AllowedWhileLive ==
    ASSUME NEW c, OfGeography(c), Allowed(c), UNCHANGED <<stores, subs>>,
           \A m \in LandsOn(c) : Live(m)'
    PROVE  Allowed(c)'
<1>1. \A main, listed : MayList(main, listed) => MayList(main, listed)'
  BY DEF MayList, Status
<1>2. CASE c.name = "CreateSubcategory"
  <2>1. Live(c.main)'
    BY <1>2 DEF LandsOn
  <2>. QED  BY <1>2, <2>1 DEF Allowed
<1>3. CASE c.name = "UpdateSubcategory"
  <2>1. Live(Or(c.main, subs[c.sub].main))'
    BY <1>3 DEF LandsOn
  <2>. QED  BY <1>3, <2>1 DEF Allowed
<1>4. CASE c.name = "CreateStore"
  <2>1. Live(c.main)'
    BY <1>4 DEF LandsOn
  <2>. QED  BY <1>1, <1>4, <2>1 DEF Allowed
<1>5. CASE c.name = "UpdateStore"
  <2>1. Live(Or(c.main, stores[c.store].main))'
    BY <1>5 DEF LandsOn
  <2>. QED  BY <1>1, <1>5, <2>1 DEF Allowed, ListsAnew
<1>6. CASE c.name \notin {"CreateSubcategory", "UpdateSubcategory", "CreateStore", "UpdateStore"}
  BY <1>6 DEF Allowed, OfGeography
<1>. QED  BY <1>2, <1>3, <1>4, <1>5, <1>6

-----------------------------------------------------------------------------
(* What the commands write. *)

Stood(s) == IF stores[s] = None THEN {} ELSE stores[s].subs

StoresLawful(rows) ==
    /\ rows \in [StoreIds -> {None} \cup StoreRow]
    /\ ListedBelong(rows, subs)
    /\ \A s \in StoreIds : Joins(stores[s], rows[s]) => mains[rows[s].main] # "ARCHIVED"
    /\ \A s \in StoreIds : rows[s] # None =>
           \A u \in rows[s].subs \ Stood(s) : subs[u].status # "ARCHIVED"

LEMMA StoresAsTheyAre ==
    ASSUME TypeOK, ListedBelong(stores, subs)
    PROVE  StoresLawful(stores)
BY DEF StoresLawful, TypeOK, Joins, Stood

LEMMA StoreWritten ==
    ASSUME TypeOK, ListedBelong(stores, subs), NEW s \in StoreIds, NEW row \in StoreRow,
           \A u \in row.subs : subs[u] # None /\ subs[u].main = row.main,
           Joins(stores[s], row) => mains[row.main] # "ARCHIVED",
           \A u \in row.subs \ Stood(s) : subs[u].status # "ARCHIVED"
    PROVE  StoresLawful([stores EXCEPT ![s] = row])
<1>1. PICK rows : rows = [stores EXCEPT ![s] = row]
  OBVIOUS
<1>2. stores \in [StoreIds -> {None} \cup StoreRow]
  BY DEF TypeOK
<1>3. /\ rows \in [StoreIds -> {None} \cup StoreRow] /\ rows[s] = row
      /\ \A t \in StoreIds : t # s => rows[t] = stores[t]
  BY <1>1, <1>2
<1>4. ListedBelong(rows, subs)
  BY <1>3 DEF ListedBelong
<1>5. ASSUME NEW t \in StoreIds, Joins(stores[t], rows[t])
      PROVE  mains[rows[t].main] # "ARCHIVED"
  <2>1. CASE t = s
    BY <1>3, <1>5, <2>1
  <2>2. CASE t # s
    <3>1. rows[t] = stores[t]
      BY <1>3, <2>2
    <3>2. ~Joins(stores[t], rows[t])
      BY <3>1 DEF Joins
    <3>. QED  BY <1>5, <3>2
  <2>. QED  BY <2>1, <2>2
<1>6. ASSUME NEW t \in StoreIds, rows[t] # None, NEW u \in rows[t].subs \ Stood(t)
      PROVE  subs[u].status # "ARCHIVED"
  <2>1. CASE t = s
    BY <1>3, <1>6, <2>1
  <2>2. CASE t # s
    <3>1. rows[t] = stores[t]
      BY <1>3, <2>2
    <3>2. rows[t].subs \ Stood(t) = {}
      BY <1>6, <3>1 DEF Stood
    <3>. QED  BY <3>2
  <2>. QED  BY <2>1, <2>2
<1>7. StoresLawful(rows)
  BY <1>3, <1>4, <1>5, <1>6 DEF StoresLawful
<1>. QED  BY <1>1, <1>7

LEMMA MayListBelong ==
    ASSUME NEW main, NEW listed, MayList(main, listed)
    PROVE  \A u \in listed :
               subs[u] # None /\ subs[u].main = main /\ subs[u].status # "ARCHIVED"
BY DEF MayList, Status

LEMMA StoreCommandWrites ==
    ASSUME TypeOK, ListedBelong(stores, subs), NEW c \in StoreCommand, Allowed(c)
    PROVE  /\ StoresLawful(StoresAfter(c))
           /\ SubsAfter(c) = subs /\ MainsAfter(c) = mains
<1>1. StoreFits(c)
  BY StoreCommandFits
<1>2. SubsAfter(c) = subs /\ MainsAfter(c) = mains
  BY <1>1 DEF StoreFits, SubsAfter, MainsAfter
<1>3. PICK s : s = c.store /\ s \in StoreIds
  BY <1>1 DEF StoreFits
<1>4. stores[s] # None => stores[s] \in StoreRow
  BY <1>3 DEF TypeOK
<1>5. CASE c.name = "CreateStore"
  <2>1. PICK row : row = [status |-> c.status, main |-> c.main, subs |-> c.subs,
                          hours |-> c.hours]
    OBVIOUS
  <2>2. Live(c.main) /\ MayList(c.main, c.subs) /\ ValidHours(c.hours)
    BY <1>5 DEF Allowed
  <2>3. row \in StoreRow
    BY <1>1, <1>5, <2>1, <2>2, StockAssumption DEF StoreFits, StoreRow, Given, Statuses
  <2>4. \A u \in row.subs :
            subs[u] # None /\ subs[u].main = row.main /\ subs[u].status # "ARCHIVED"
    BY <2>1, <2>2, MayListBelong
  <2>5. mains[row.main] # "ARCHIVED"
    BY <2>1, <2>2 DEF Live
  <2>6. StoresLawful([stores EXCEPT ![s] = row])
    BY <1>3, <2>3, <2>4, <2>5, StoreWritten
  <2>. QED  BY <1>2, <1>3, <1>5, <2>1, <2>6 DEF StoresAfter
<1>6. CASE c.name = "UpdateStore"
  <2>1. PICK old : old = stores[s]
    OBVIOUS
  <2>2. old \in StoreRow /\ old # None
    BY <1>1, <1>3, <1>4, <1>6, <2>1 DEF StoreFits
  <2>3. PICK row : row = Updated(c, old)
    OBVIOUS
  <2>4. /\ row = [status |-> row.status, main |-> row.main, subs |-> row.subs,
                  hours |-> row.hours]
        /\ row.status = Or(c.status, old.status) /\ row.main = Or(c.main, old.main)
        /\ row.subs = IF ListsAnew(c) THEN Or(c.subs, old.subs) ELSE old.subs
        /\ row.hours = Or(c.hours, old.hours)
    BY <2>2, <2>3 DEF StoreRow, Updated
  <2>5. /\ old.status = "ARCHIVED" => c.status = "ACTIVE"
        /\ Live(row.main)
        /\ ListsAnew(c) => MayList(row.main, Or(c.subs, old.subs))
        /\ c.hours # None => ValidHours(c.hours)
    BY <1>3, <1>6, <2>1, <2>4 DEF Allowed
  <2>6. row.status \in Statuses /\ row.main \in Mains
    BY <1>1, <1>6, <2>2, <2>4 DEF StoreFits, StoreRow, Or, Given, Statuses
  <2>7. row.subs \in SUBSET Subcategories
    BY <1>1, <1>6, <2>2, <2>4 DEF StoreFits, StoreRow, Or
  <2>8. row.hours \in SUBSET Period /\ ValidHours(row.hours)
    BY <1>1, <1>6, <2>2, <2>4, <2>5, StockAssumption DEF StoreFits, StoreRow, Or
  <2>9. row \in StoreRow
    BY <2>4, <2>6, <2>7, <2>8 DEF StoreRow
  <2>10. \A u \in old.subs : subs[u] # None /\ subs[u].main = old.main
    BY <1>3, <2>1, <2>2 DEF ListedBelong
  <2>11. /\ \A u \in row.subs : subs[u] # None /\ subs[u].main = row.main
         /\ \A u \in row.subs \ old.subs : subs[u].status # "ARCHIVED"
    <3>1. CASE ListsAnew(c)
      BY <2>4, <2>5, <3>1, MayListBelong
    <3>2. CASE ~ListsAnew(c)
      <4>1. row.subs = old.subs /\ row.main = old.main
        BY <2>4, <3>2 DEF ListsAnew, Or
      <4>. QED  BY <2>10, <4>1
    <3>. QED  BY <3>1, <3>2
  <2>12. mains[row.main] # "ARCHIVED" /\ Stood(s) = old.subs
    BY <2>1, <2>2, <2>5 DEF Live, Stood
  <2>13. StoresLawful([stores EXCEPT ![s] = row])
    BY <1>3, <2>9, <2>11, <2>12, StoreWritten
  <2>14. StoresAfter(c) = [stores EXCEPT ![s] = row]
    <3>1. StoresAfter(c) = [stores EXCEPT ![c.store] = Updated(c, stores[c.store])]
      BY <1>6 DEF StoresAfter
    <3>. QED  BY <1>3, <2>1, <2>3, <3>1
  <2>. QED  BY <1>2, <2>13, <2>14
<1>7. CASE c.name = "ArchiveStore"
  <2>1. PICK old : old = stores[s]
    OBVIOUS
  <2>2. old \in StoreRow /\ old # None
    BY <1>1, <1>3, <1>4, <1>7, <2>1 DEF StoreFits
  <2>3. PICK row : row = [old EXCEPT !.status = "ARCHIVED"]
    OBVIOUS
  <2>4. /\ row \in StoreRow /\ row.status = "ARCHIVED"
        /\ row.main = old.main /\ row.subs = old.subs
    BY <2>2, <2>3 DEF StoreRow, Statuses
  <2>5. \A u \in row.subs : subs[u] # None /\ subs[u].main = row.main
    BY <1>3, <2>1, <2>2, <2>4 DEF ListedBelong
  <2>6. ~Joins(stores[s], row) /\ row.subs \ Stood(s) = {}
    BY <2>1, <2>2, <2>4 DEF Joins, Stood
  <2>7. StoresLawful([stores EXCEPT ![s] = row])
    BY <1>3, <2>4, <2>5, <2>6, StoreWritten
  <2>8. StoresAfter(c) = [stores EXCEPT ![s] = row]
    BY <1>3, <1>7, <2>1, <2>3 DEF StoresAfter
  <2>. QED  BY <1>2, <2>7, <2>8
<1>. QED  BY <1>1, <1>5, <1>6, <1>7 DEF StoreFits

\* Subcategories do not vanish; except for its update, they keep their main category.
SubsLawful(rows) ==
    /\ rows \in [Subcategories -> {None} \cup SubcategoryRow]
    /\ \A u \in Subcategories : subs[u] # None => rows[u] # None
    /\ \A u \in Subcategories : Joins(subs[u], rows[u]) => mains[rows[u].main] # "ARCHIVED"

StayUnder(rows) == \A u \in Subcategories : subs[u] # None => rows[u].main = subs[u].main

LEMMA SubcategoryWritten ==
    ASSUME TypeOK, NEW u \in Subcategories, NEW row \in SubcategoryRow,
           Joins(subs[u], row) => mains[row.main] # "ARCHIVED"
    PROVE  /\ SubsLawful([subs EXCEPT ![u] = row])
           /\ (subs[u] # None => row.main = subs[u].main) => StayUnder([subs EXCEPT ![u] = row])
<1>1. PICK rows : rows = [subs EXCEPT ![u] = row]
  OBVIOUS
<1>2. subs \in [Subcategories -> {None} \cup SubcategoryRow]
  BY DEF TypeOK
<1>3. /\ rows \in [Subcategories -> {None} \cup SubcategoryRow] /\ rows[u] = row
      /\ \A v \in Subcategories : v # u => rows[v] = subs[v]
  BY <1>1, <1>2
<1>4. ASSUME NEW v \in Subcategories
      PROVE  Joins(subs[v], rows[v]) => mains[rows[v].main] # "ARCHIVED"
  <2>1. CASE v = u
    BY <1>3, <2>1
  <2>2. CASE v # u
    <3>1. rows[v] = subs[v]
      BY <1>3, <2>2
    <3>2. ~Joins(subs[v], rows[v])
      BY <3>1 DEF Joins
    <3>. QED  BY <3>2
  <2>. QED  BY <2>1, <2>2
<1>5. SubsLawful(rows)
  BY <1>3, <1>4, StockAssumption DEF SubsLawful
<1>6. (subs[u] # None => row.main = subs[u].main) => StayUnder(rows)
  BY <1>3 DEF StayUnder
<1>. QED  BY <1>1, <1>5, <1>6

LEMMA SubcategoryCommandWrites ==
    ASSUME TypeOK, NEW c \in SubcategoryCommand, Allowed(c)
    PROVE  /\ SubsLawful(SubsAfter(c))
           /\ c.name # "UpdateSubcategory" => StayUnder(SubsAfter(c))
           /\ StoresAfter(c) = stores /\ MainsAfter(c) = mains
<1>1. SubcategoryFits(c)
  BY SubcategoryCommandFits
<1>2. StoresAfter(c) = stores /\ MainsAfter(c) = mains
  BY <1>1 DEF SubcategoryFits, StoresAfter, MainsAfter
<1>3. PICK u, old : u = c.sub /\ u \in Subcategories /\ old = subs[u]
  BY <1>1 DEF SubcategoryFits
<1>4. old # None => old \in SubcategoryRow
  BY <1>3 DEF TypeOK
<1>5. CASE c.name = "CreateSubcategory"
  <2>1. PICK row : row = [status |-> c.status, main |-> c.main]
    OBVIOUS
  <2>2. Live(c.main)
    BY <1>5 DEF Allowed
  <2>3. row \in SubcategoryRow /\ mains[row.main] # "ARCHIVED" /\ old = None
    BY <1>1, <1>3, <1>5, <2>1, <2>2
       DEF SubcategoryFits, SubcategoryRow, Given, Statuses, Live
  <2>4. SubsAfter(c) = [subs EXCEPT ![u] = row]
    BY <1>3, <1>5, <2>1 DEF SubsAfter
  <2>. QED  BY <1>2, <1>3, <2>3, <2>4, SubcategoryWritten
<1>6. CASE c.name = "UpdateSubcategory"
  <2>1. PICK row : row = [status |-> Or(c.status, old.status), main |-> Or(c.main, old.main)]
    OBVIOUS
  <2>2. old \in SubcategoryRow /\ old # None
    BY <1>1, <1>3, <1>4, <1>6 DEF SubcategoryFits
  <2>3. Live(Or(c.main, old.main))
    BY <1>3, <1>6 DEF Allowed
  <2>4. row \in SubcategoryRow
    BY <1>1, <1>6, <2>1, <2>2 DEF SubcategoryFits, SubcategoryRow, Given, Statuses, Or
  <2>5. mains[row.main] # "ARCHIVED"
    BY <2>1, <2>3 DEF Live
  <2>6. SubsAfter(c) = [subs EXCEPT ![u] = row]
    BY <1>3, <1>6, <2>1 DEF SubsAfter
  <2>. QED  BY <1>2, <1>3, <1>6, <2>4, <2>5, <2>6, SubcategoryWritten
<1>7. CASE c.name = "ArchiveSubcategory"
  <2>1. PICK row : row = [old EXCEPT !.status = "ARCHIVED"]
    OBVIOUS
  <2>2. old \in SubcategoryRow /\ old # None
    BY <1>1, <1>3, <1>4, <1>7 DEF SubcategoryFits
  <2>3. row \in SubcategoryRow /\ row.main = old.main /\ row.status = "ARCHIVED"
    BY <2>1, <2>2 DEF SubcategoryRow, Statuses
  <2>4. ~Joins(old, row)
    BY <2>2, <2>3 DEF Joins
  <2>5. SubsAfter(c) = [subs EXCEPT ![u] = row]
    BY <1>3, <1>7, <2>1 DEF SubsAfter
  <2>. QED  BY <1>2, <1>3, <2>2, <2>3, <2>4, <2>5, SubcategoryWritten
<1>. QED  BY <1>1, <1>5, <1>6, <1>7 DEF SubcategoryFits

LEMMA MainCommandWrites ==
    ASSUME TypeOK, NEW c \in MainCommand
    PROVE  /\ MainsAfter(c) \in [Mains -> {None} \cup Statuses]
           /\ \A m \in Mains : m # c.main => MainsAfter(c)[m] = mains[m]
           /\ StoresAfter(c) = stores /\ SubsAfter(c) = subs
<1>1. MainFits(c)
  BY MainCommandFits
<1>2. StoresAfter(c) = stores /\ SubsAfter(c) = subs
  BY <1>1 DEF MainFits, StoresAfter, SubsAfter
<1>3. mains \in [Mains -> {None} \cup Statuses] /\ c.main \in Mains
  BY <1>1 DEF TypeOK, MainFits
<1>4. CASE c.name = "CreateMain"
  <2>1. MainsAfter(c) = [mains EXCEPT ![c.main] = c.status] /\ c.status \in Statuses
    BY <1>1, <1>4 DEF MainsAfter, MainFits, Given, Statuses
  <2>. QED  BY <1>2, <1>3, <2>1
<1>5. CASE c.name = "UpdateMain"
  <2>1. PICK status : status = Or(c.status, mains[c.main])
    OBVIOUS
  <2>2. status \in {None} \cup Statuses
    BY <1>1, <1>3, <1>5, <2>1 DEF MainFits, Or, Given, Statuses
  <2>3. MainsAfter(c) = [mains EXCEPT ![c.main] = status]
    BY <1>5, <2>1 DEF MainsAfter
  <2>. QED  BY <1>2, <1>3, <2>2, <2>3
<1>6. CASE c.name = "ArchiveMain"
  <2>1. MainsAfter(c) = [mains EXCEPT ![c.main] = "ARCHIVED"] /\ "ARCHIVED" \in Statuses
    BY <1>6 DEF MainsAfter, Statuses
  <2>. QED  BY <1>2, <1>3, <2>1
<1>. QED  BY <1>1, <1>4, <1>5, <1>6 DEF MainFits

-----------------------------------------------------------------------------
(* The steps. *)

Row(c) ==
    [command : c, mains : Seq(Mains), held : SUBSET Mains, decided : BOOLEAN,
     images : Seq(Images), claimed : SUBSET Images]

LEMMA Rows ==
    ASSUME IInv, NEW t \in Transactions, Running(t)
    PROVE  /\ tx[t] = [command |-> tx[t].command, mains |-> tx[t].mains,
                       held |-> tx[t].held, decided |-> tx[t].decided,
                       images |-> tx[t].images, claimed |-> tx[t].claimed]
           /\ tx[t].command \in Command /\ tx[t].mains \in Seq(Mains)
           /\ tx[t].held \in SUBSET Mains /\ tx[t].decided \in BOOLEAN
           /\ tx[t].images \in Seq(Images) /\ tx[t].claimed \in SUBSET Images
BY DEF IInv, TypeOK, Running

\* A transaction ends and leaves the tables alone.
LEMMA EndsAlone ==
    ASSUME IInv, NEW t \in Transactions, tx' = [tx EXCEPT ![t] = None],
           UNCHANGED <<stores, subs, mains, begun>>, OnlyTheseFail'
    PROVE  IInv'
<1>1. tx \in [Transactions -> {None} \cup Row(Command)]
  BY DEF IInv, TypeOK, Row
<1>2. /\ tx' \in [Transactions -> {None} \cup Row(Command)] /\ tx'[t] = None
      /\ \A u \in Transactions : u # t => tx'[u] = tx[u]
  BY <1>1
<1>3. Command' = Command
  BY DEF Command, MainCommand, SubcategoryCommand, StoreCommand
<1>4. TypeOK'
  BY <1>2, <1>3 DEF IInv, TypeOK, Row
<1>5. ASSUME NEW u \in Transactions, Running(u)' PROVE u # t /\ Running(u) /\ tx'[u] = tx[u]
  BY <1>2, <1>5 DEF Running
<1>6. ASSUME NEW u \in Transactions, Running(u)'
      PROVE  LocksAreOf(u)' /\ DecidedStands(u)' /\ ClaimsAreOf(tx[u])'
  <2>1. PICK c : c = tx[u].command
    OBVIOUS
  <2>2. MainsOf(c)' = MainsOf(c) /\ Allowed(c)' = Allowed(c)
    BY DEF MainsOf, Allowed, Live, MayList
  <2>3. LocksAreOf(u)' /\ DecidedStands(u)'
    BY <1>5, <1>6, <2>1, <2>2 DEF IInv, LocksAreOf, DecidedStands
  <2>4. ClaimsAreOf(tx[u])'
    BY <1>5, <1>6 DEF IInv, ClaimsAreOf, OfGeography
  <2>. QED  BY <2>3, <2>4
<1>7. OneOfEachKind'
  BY <1>5 DEF IInv, OneOfEachKind, OfGeography
<1>8. ListedBelong(stores, subs)'
  BY DEF IInv, ListedBelong
<1>. QED  BY <1>4, <1>6, <1>7, <1>8 DEF IInv

\* A transaction goes on and leaves the tables alone.
LEMMA GoesOn ==
    ASSUME IInv, NEW t \in Transactions, NEW row \in Row(Command),
           tx' = [tx EXCEPT ![t] = row], UNCHANGED <<stores, subs, mains>>,
           begun' \in 0 .. MaxCommands, failure' = None,
           row.held \cup Elements(row.mains) = Elements(MainsOf(row.command)),
           row.held \cap Elements(row.mains) = {},
           Distinct(row.mains),
           row.decided => row.mains = <<>> /\ Allowed(row.command),
           ClaimsAreOf(row),
           \A u \in Transactions \ {t} : Running(u) =>
               /\ OfGeography(tx[u].command) # OfGeography(row.command)
               /\ tx[u].held \cap row.held = {}
    PROVE  IInv'
<1>1. tx \in [Transactions -> {None} \cup Row(Command)]
  BY DEF IInv, TypeOK, Row
<1>2. /\ tx' \in [Transactions -> {None} \cup Row(Command)] /\ tx'[t] = row
      /\ \A u \in Transactions : u # t => tx'[u] = tx[u]
  BY <1>1
<1>3. Command' = Command
  BY DEF Command, MainCommand, SubcategoryCommand, StoreCommand
<1>4. TypeOK'
  BY <1>2, <1>3 DEF IInv, TypeOK, Row
<1>5. \A c : MainsOf(c)' = MainsOf(c) /\ Allowed(c)' = Allowed(c)
  BY DEF MainsOf, Allowed, Live, MayList
<1>6. ASSUME NEW u \in Transactions, Running(u)'
      PROVE  LocksAreOf(u)' /\ DecidedStands(u)' /\ ClaimsAreOf(tx[u])'
  <2>1. CASE u = t
    <3>1. LocksAreOf(u)' /\ DecidedStands(u)'
      BY <1>2, <1>5, <2>1 DEF LocksAreOf, DecidedStands
    <3>2. ClaimsAreOf(tx[u])'
      BY <1>2, <2>1 DEF ClaimsAreOf, OfGeography
    <3>. QED  BY <3>1, <3>2
  <2>2. CASE u # t
    <3>1. tx'[u] = tx[u] /\ Running(u)
      BY <1>2, <1>6, <2>2 DEF Running
    <3>2. LocksAreOf(u)' /\ DecidedStands(u)'
      BY <1>5, <3>1 DEF IInv, LocksAreOf, DecidedStands
    <3>3. ClaimsAreOf(tx[u])'
      BY <3>1 DEF IInv, ClaimsAreOf, OfGeography
    <3>. QED  BY <3>2, <3>3
  <2>. QED  BY <2>1, <2>2
<1>7. OneOfEachKind'
  BY <1>2 DEF IInv, OneOfEachKind, OfGeography, Running
<1>8. ListedBelong(stores, subs)' /\ OnlyTheseFail'
  BY DEF IInv, ListedBelong, OnlyTheseFail
<1>. QED  BY <1>4, <1>6, <1>7, <1>8 DEF IInv

LEMMA BeginKeeps ==
    ASSUME IInv, NEW t \in Transactions, Begin(t)
    PROVE  IInv'
<1>1. PICK c \in Command :
          /\ \A u \in Transactions : Running(u) => OfGeography(tx[u].command) # OfGeography(c)
          /\ tx' = [tx EXCEPT ![t] =
                 [command |-> c, mains |-> MainsOf(c), held |-> {}, decided |-> FALSE,
                  images |-> c.images, claimed |-> {}]]
  BY DEF Begin, Running
<1>2. PICK row : row = [command |-> c, mains |-> MainsOf(c), held |-> {}, decided |-> FALSE,
                        images |-> c.images, claimed |-> {}]
  OBVIOUS
<1>3. MainsOf(c) \in Seq(Mains) /\ Distinct(MainsOf(c)) /\ c.images \in Seq(Images)
  BY LocksWhatItLandsOn, CommandNamesFiles DEF IInv
<1>4. row \in Row(Command)
  BY <1>2, <1>3 DEF Row
<1>5. begun' \in 0 .. MaxCommands /\ failure' = None /\ UNCHANGED <<stores, subs, mains>>
  BY StoresAssumption DEF IInv, TypeOK, Begin
<1>6. /\ row.held = {} /\ row.mains = MainsOf(c) /\ row.command = c /\ ~row.decided
      /\ tx' = [tx EXCEPT ![t] = row]
  BY <1>1, <1>2
<1>7. ClaimsAreOf(row)
  BY <1>2 DEF ClaimsAreOf
<1>. QED  BY <1>1, <1>3, <1>4, <1>5, <1>6, <1>7, GoesOn

LEMMA LockMainKeeps ==
    ASSUME IInv, NEW t \in Transactions, LockMain(t)
    PROVE  IInv'
<1>1. PICK old : old = tx[t]
  OBVIOUS
<1>2. /\ old = [command |-> old.command, mains |-> old.mains, held |-> old.held,
                decided |-> old.decided, images |-> old.images, claimed |-> old.claimed]
      /\ old.images \in Seq(Images) /\ old.claimed \in SUBSET Images
      /\ old.command \in Command /\ old.mains \in Seq(Mains)
      /\ old.held \in SUBSET Mains /\ old.decided \in BOOLEAN /\ old.mains # <<>>
  BY <1>1, Rows DEF LockMain, Running
<1>3. PICK m, rest : m = Head(old.mains) /\ rest = Tail(old.mains)
  OBVIOUS
<1>4. /\ old.held \cup Elements(old.mains) = Elements(MainsOf(old.command))
      /\ old.held \cap Elements(old.mains) = {} /\ Distinct(old.mains) /\ ~old.decided
      /\ ClaimsAreOf(old)
      /\ \A u \in Transactions \ {t} : Running(u) =>
             /\ OfGeography(tx[u].command) # OfGeography(old.command)
             /\ tx[u].held \cap old.held = {}
  <2>1. /\ Running(t) /\ LocksAreOf(t) /\ DecidedStands(t) /\ OneOfEachKind
        /\ ClaimsAreOf(tx[t])
    BY DEF LockMain, IInv, Running
  <2>. QED  BY <1>1, <1>2, <2>1 DEF LocksAreOf, DecidedStands, OneOfEachKind
<1>5. /\ rest \in Seq(Mains) /\ m \in Mains
      /\ Elements(old.mains) = {m} \cup Elements(rest) /\ m \notin Elements(rest)
      /\ Distinct(rest)
  BY <1>2, <1>3, <1>4, OneLess
<1>6. PICK row : row = [old EXCEPT !.mains = rest, !.held = old.held \cup {m}]
  OBVIOUS
<1>7. /\ row.command = old.command /\ row.mains = rest /\ row.held = old.held \cup {m}
      /\ ~row.decided /\ row.images = old.images /\ row.claimed = old.claimed
      /\ row \in Row(Command)
  BY <1>2, <1>4, <1>5, <1>6 DEF Row
<1>8. /\ tx' = [tx EXCEPT ![t].mains = rest, ![t].held = old.held \cup {m}]
      /\ \A u \in Transactions \ {t} : Running(u) => m \notin tx[u].held
      /\ UNCHANGED <<stores, subs, mains, begun>> /\ failure' = None
  BY <1>1, <1>3 DEF LockMain, Running
<1>9. tx' = [tx EXCEPT ![t] = row]
  BY <1>1, <1>6, <1>8 DEF IInv, TypeOK
<1>10. begun' \in 0 .. MaxCommands
  BY <1>8 DEF IInv, TypeOK
<1>11. /\ row.held \cup Elements(row.mains) = Elements(MainsOf(row.command))
       /\ row.held \cap Elements(row.mains) = {} /\ Distinct(row.mains)
  BY <1>4, <1>5, <1>7
<1>12. \A u \in Transactions \ {t} : Running(u) =>
           /\ OfGeography(tx[u].command) # OfGeography(row.command)
           /\ tx[u].held \cap row.held = {}
  BY <1>4, <1>7, <1>8
<1>13. ClaimsAreOf(row)
  BY <1>4, <1>7 DEF ClaimsAreOf
<1>. QED  BY <1>7, <1>8, <1>9, <1>10, <1>11, <1>12, <1>13, GoesOn

LEMMA DecideKeeps ==
    ASSUME IInv, NEW t \in Transactions, Decide(t)
    PROVE  IInv'
<1>1. PICK old : old = tx[t]
  OBVIOUS
<1>2. /\ old = [command |-> old.command, mains |-> old.mains, held |-> old.held,
                decided |-> old.decided, images |-> old.images, claimed |-> old.claimed]
      /\ old.images \in Seq(Images) /\ old.claimed \in SUBSET Images
      /\ old.command \in Command /\ old.mains \in Seq(Mains)
      /\ old.held \in SUBSET Mains /\ old.mains = <<>> /\ Allowed(old.command)
  BY <1>1, Rows DEF Decide, Undecided, Running
<1>3. /\ old.held \cup Elements(old.mains) = Elements(MainsOf(old.command))
      /\ old.held \cap Elements(old.mains) = {} /\ Distinct(old.mains) /\ ClaimsAreOf(old)
      /\ \A u \in Transactions \ {t} : Running(u) =>
             /\ OfGeography(tx[u].command) # OfGeography(old.command)
             /\ tx[u].held \cap old.held = {}
  <2>1. Running(t) /\ LocksAreOf(t) /\ OneOfEachKind /\ ClaimsAreOf(tx[t])
    BY DEF Decide, Undecided, IInv, Running
  <2>. QED  BY <1>1, <1>2, <2>1 DEF LocksAreOf, OneOfEachKind
<1>4. PICK row : row = [old EXCEPT !.decided = TRUE]
  OBVIOUS
<1>5. /\ row.command = old.command /\ row.mains = old.mains /\ row.held = old.held
      /\ row.images = old.images /\ row.claimed = old.claimed /\ row.decided
      /\ row \in Row(Command)
  BY <1>2, <1>4 DEF Row
<1>6. tx' = [tx EXCEPT ![t] = row]
  BY <1>1, <1>4 DEF Decide
<1>7. UNCHANGED <<stores, subs, mains, begun>> /\ failure' = None
  BY DEF Decide
<1>8. begun' \in 0 .. MaxCommands
  BY <1>7 DEF IInv, TypeOK
<1>9. row.decided => row.mains = <<>> /\ Allowed(row.command)
  BY <1>2, <1>5
<1>10. /\ row.held \cup Elements(row.mains) = Elements(MainsOf(row.command))
       /\ row.held \cap Elements(row.mains) = {} /\ Distinct(row.mains)
  BY <1>3, <1>5
<1>11. \A u \in Transactions \ {t} : Running(u) =>
           /\ OfGeography(tx[u].command) # OfGeography(row.command)
           /\ tx[u].held \cap row.held = {}
  BY <1>3, <1>5
<1>12. ClaimsAreOf(row)
  BY <1>3, <1>5 DEF ClaimsAreOf
<1>. QED  BY <1>5, <1>6, <1>7, <1>8, <1>9, <1>10, <1>11, <1>12, GoesOn

\* A file claimed is no longer to claim; a command on main categories has claimed its only one.
LEMMA ClaimImageKeeps ==
    ASSUME IInv, NEW t \in Transactions, ClaimImage(t)
    PROVE  IInv'
<1>1. PICK old : old = tx[t]
  OBVIOUS
<1>2. /\ old = [command |-> old.command, mains |-> old.mains, held |-> old.held,
                decided |-> old.decided, images |-> old.images, claimed |-> old.claimed]
      /\ old.images \in Seq(Images) /\ old.claimed \in SUBSET Images
      /\ old.command \in Command /\ old.mains \in Seq(Mains)
      /\ old.held \in SUBSET Mains /\ old.decided \in BOOLEAN
      /\ old.decided /\ old.images # <<>>
  BY <1>1, Rows DEF ClaimImage, ClaimsNext, Running
<1>3. /\ old.held \cup Elements(old.mains) = Elements(MainsOf(old.command))
      /\ old.held \cap Elements(old.mains) = {} /\ Distinct(old.mains) /\ ClaimsAreOf(old)
      /\ old.mains = <<>> /\ Allowed(old.command)
      /\ \A u \in Transactions \ {t} : Running(u) =>
             /\ OfGeography(tx[u].command) # OfGeography(old.command)
             /\ tx[u].held \cap old.held = {}
  <2>1. /\ Running(t) /\ LocksAreOf(t) /\ DecidedStands(t) /\ OneOfEachKind
        /\ ClaimsAreOf(tx[t])
    BY DEF ClaimImage, ClaimsNext, IInv, Running
  <2>. QED  BY <1>1, <1>2, <2>1 DEF LocksAreOf, DecidedStands, OneOfEachKind
<1>4. PICK i, rest : i = Head(old.images) /\ rest = Tail(old.images)
  OBVIOUS
<1>5. i \in Images /\ rest \in Seq(Images)
  BY <1>2, <1>4, HeadTailProperties
<1>6. PICK row : row = [old EXCEPT !.images = rest, !.claimed = old.claimed \cup {i}]
  OBVIOUS
<1>7. /\ row.command = old.command /\ row.mains = old.mains /\ row.held = old.held
      /\ row.decided /\ row.images = rest /\ row.claimed = old.claimed \cup {i}
      /\ row \in Row(Command)
  BY <1>2, <1>5, <1>6 DEF Row
<1>8. /\ tx' = [tx EXCEPT ![t].images = rest, ![t].claimed = old.claimed \cup {i}]
      /\ UNCHANGED <<stores, subs, mains, begun>> /\ failure' = None
  BY <1>1, <1>4 DEF ClaimImage
<1>9. tx' = [tx EXCEPT ![t] = row]
  BY <1>1, <1>6, <1>8 DEF IInv, TypeOK
<1>10. begun' \in 0 .. MaxCommands
  BY <1>8 DEF IInv, TypeOK
<1>11. ASSUME ~OfGeography(row.command) PROVE rest = <<>>
  <2>1. old.command \in MainCommand /\ old.images = old.command.images
    BY <1>2, <1>3, <1>7, <1>11, CommandSorts DEF ClaimsAreOf
  <2>. QED  BY <1>2, <1>4, <2>1, CommandNamesFiles
<1>12. ClaimsAreOf(row)
  BY <1>7, <1>11 DEF ClaimsAreOf
<1>13. /\ row.held \cup Elements(row.mains) = Elements(MainsOf(row.command))
       /\ row.held \cap Elements(row.mains) = {} /\ Distinct(row.mains)
       /\ row.mains = <<>> /\ Allowed(row.command)
  BY <1>3, <1>7
<1>14. \A u \in Transactions \ {t} : Running(u) =>
           /\ OfGeography(tx[u].command) # OfGeography(row.command)
           /\ tx[u].held \cap row.held = {}
  BY <1>3, <1>7
<1>. QED  BY <1>7, <1>8, <1>9, <1>10, <1>12, <1>13, <1>14, GoesOn

LEMMA RefuseImageKeeps ==
    ASSUME IInv, NEW t \in Transactions, RefuseImage(t)
    PROVE  IInv'
<1>1. OnlyTheseFail'
  BY DEF RefuseImage, OnlyTheseFail
<1>. QED  BY <1>1, EndsAlone DEF RefuseImage

LEMMA RefuseKeeps ==
    ASSUME IInv, NEW t \in Transactions, Refuse(t)
    PROVE  IInv'
<1>1. OnlyTheseFail'
  BY DEF Refuse, OnlyTheseFail
<1>. QED  BY <1>1, EndsAlone DEF Refuse

\* Of two that wait for each other, the one on main categories has locked neither its only
\* row nor its only file, which it waits for: the other waits for the city's row, to insert.
LEMMA DeadlockVictimKeeps ==
    ASSUME IInv, NEW t \in Transactions, DeadlockVictim(t)
    PROVE  IInv'
<1>1. PICK u \in Transactions, row \in LockedRows, other \in LockedRows :
          /\ Waits(t, u, row) /\ Waits(u, t, other)
          /\ failure' = <<tx[t].command.name, row>>
  BY DEF DeadlockVictim
<1>2. Running(t) /\ Running(u) /\ t # u
  BY <1>1 DEF Waits, Running
<1>3. ASSUME NEW v \in Transactions, NEW w \in Transactions, Running(v), Running(w),
             NEW r, NEW s, Waits(v, w, r), Waits(w, v, s), ~OfGeography(tx[v].command)
      PROVE  /\ \/ tx[v].command.name \in {"UpdateMain", "ArchiveMain"} /\ r = "main category"
                \/ tx[v].command.name \in {"CreateMain", "UpdateMain"} /\ r = "image"
             /\ tx[w].command.name \in {"CreateStore", "CreateSubcategory"} /\ s = "city"
  <2>1. PICK c, d : c = tx[v].command /\ d = tx[w].command
    OBVIOUS
  <2>2. c \in MainCommand /\ MainFits(c) /\ c \in Command
    BY <1>3, <2>1, Rows, CommandSorts, MainCommandFits
  <2>3. ~InsertsOfCity(c)
    BY <2>2 DEF MainFits, InsertsOfCity
  <2>4. LocksAreOf(v) /\ DecidedStands(v) /\ ClaimsAreOf(tx[v])
    BY <1>3 DEF IInv
  <2>5. LocksAreOf(w) /\ DecidedStands(w) /\ ClaimsAreOf(tx[w])
    BY <1>3 DEF IInv
  <2>6. CASE r = "main category"
    <3>1. tx[v].mains # <<>>
      BY <1>3, <2>6 DEF Waits
    <3>2. tx[v].mains \in Seq(Mains)
      BY <1>3, Rows
    <3>3. Head(tx[v].mains) \in Elements(tx[v].mains)
      BY <2>4, <3>1, <3>2, OneLess DEF LocksAreOf
    <3>4. Head(tx[v].mains) \in Elements(MainsOf(c))
      BY <2>1, <2>4, <3>3 DEF LocksAreOf
    <3>5. c.name # "CreateMain"
      BY <2>2, <3>4, LocksWhatItLandsOn, NoElements DEF IInv
    <3>6. c.name \in {"UpdateMain", "ArchiveMain"}
      BY <2>2, <3>5 DEF MainFits
    <3>7. Elements(MainsOf(c)) = {c.main}
      BY <2>2, <3>6, LocksWhatItLandsOn, OneElement DEF IInv
    <3>8. tx[v].held = {}
      BY <2>1, <2>4, <3>3, <3>4, <3>7 DEF LocksAreOf
    <3>9. tx[v].claimed = {}
      BY <2>4, <3>1 DEF ClaimsAreOf, DecidedStands
    <3>10. s = "city" /\ InsertsOfCity(d)
      BY <1>3, <2>1, <3>8, <3>9 DEF Waits
    <3>. QED  BY <2>1, <2>6, <3>6, <3>10 DEF InsertsOfCity
  <2>7. CASE r = "image"
    <3>1. tx[v].decided /\ tx[v].images # <<>> /\ Head(tx[v].images) \in tx[w].claimed
      BY <1>3, <2>7 DEF Waits
    <3>2. tx[v].claimed = {} /\ c.images # <<>>
      BY <1>3, <2>1, <2>4, <3>1 DEF ClaimsAreOf
    <3>3. c.name \in {"CreateMain", "UpdateMain"}
      BY <2>2, <3>2, CommandNamesFiles DEF MainFits
    <3>4. tx[w].mains = <<>>
      BY <2>5, <3>1 DEF ClaimsAreOf, DecidedStands
    <3>5. s = "city" /\ InsertsOfCity(d)
      BY <1>3, <2>1, <3>2, <3>4 DEF Waits
    <3>. QED  BY <2>1, <2>7, <3>3, <3>5 DEF InsertsOfCity
  <2>. QED  BY <1>3, <2>1, <2>3, <2>6, <2>7 DEF Waits
<1>4. \/ tx[t].command.name \in {"CreateStore", "CreateSubcategory"} /\ row = "city"
      \/ tx[t].command.name \in {"UpdateMain", "ArchiveMain"} /\ row = "main category"
      \/ tx[t].command.name \in {"CreateMain", "UpdateMain"} /\ row = "image"
  <2>1. CASE ~OfGeography(tx[t].command)
    BY <1>1, <1>2, <1>3, <2>1
  <2>2. CASE OfGeography(tx[t].command)
    <3>1. ~OfGeography(tx[u].command)
      BY <1>2, <2>2 DEF IInv, OneOfEachKind, OfGeography
    <3>. QED  BY <1>1, <1>2, <1>3, <3>1
  <2>. QED  BY <2>1, <2>2
<1>5. OnlyTheseFail'
  BY <1>1, <1>4 DEF OnlyTheseFail
<1>. QED  BY <1>5, EndsAlone DEF DeadlockVictim

\* The rows of another command, and what it checked, are what they were.
LEMMA OthersStand ==
    ASSUME IInv, NEW t \in Transactions, NEW u \in Transactions, t # u, Running(t), Running(u),
           NEW c, c = tx[t].command, tx[t].decided, NEW d, d = tx[u].command,
           stores' = StoresAfter(c), subs' = SubsAfter(c), mains' = MainsAfter(c)
    PROVE  /\ d \in Command' /\ MainsOf(d)' = MainsOf(d)
           /\ tx[u].decided => Allowed(d)'
<1>1. DecidedStands(u) /\ DecidedStands(t)
  BY DEF IInv
<1>2. /\ c \in Command /\ d \in Command /\ Allowed(c)
      /\ (OfGeography(c) <=> ~OfGeography(d)) /\ tx[t].held \cap tx[u].held = {}
  BY <1>1, Rows DEF IInv, DecidedStands, OneOfEachKind, OfGeography
<1>3. TypeOK /\ ListedBelong(stores, subs)
  BY DEF IInv
<1>4. CASE OfGeography(d)
  <2>1. c \in MainCommand /\ MainFits(c)
    BY <1>2, <1>4, CommandSorts, MainCommandFits
  <2>2. /\ UNCHANGED <<stores, subs>>
        /\ \A m \in Mains : m # c.main => mains'[m] = mains[m]
    BY <1>3, <2>1, MainCommandWrites
  <2>3. d \in Command'
    <3>1. d \in SubcategoryCommand \cup StoreCommand
      BY <1>2, <1>4, CommandSorts
    <3>2. d \in (SubcategoryCommand \cup StoreCommand)'
      BY <2>2, <3>1 DEF SubcategoryCommand, StoreCommand
    <3>. QED  BY <3>2 DEF Command
  <2>4. MainsOf(d)' = MainsOf(d)
    BY <2>2 DEF MainsOf
  <2>5. ASSUME tx[u].decided PROVE Allowed(d)'
    <3>1. Allowed(d) /\ tx[u].mains = <<>>
      BY <1>1, <2>5 DEF DecidedStands
    <3>2. tx[u].held = Elements(MainsOf(d))
      BY <1>1, <3>1, NoElements DEF IInv, LocksAreOf
    <3>3. ASSUME NEW m \in LandsOn(d) PROVE Live(m)'
      <4>1. Live(m)
        BY <1>2, <3>1, AllowedLandsOnLive
      <4>2. m \in tx[u].held
        BY <1>2, <1>3, <3>2, LocksWhatItLandsOn
      <4>3. m \in Mains
        BY <4>2, Rows
      <4>4. m # c.main
        <5>1. CASE c.name = "CreateMain"
          BY <2>1, <4>1, <5>1 DEF MainFits, Live
        <5>2. CASE c.name \in {"UpdateMain", "ArchiveMain"}
          <6>1. c.main \in Elements(MainsOf(c))
            BY <1>2, <1>3, <5>2, LocksWhatItLandsOn, OneElement
          <6>2. tx[t].mains = <<>> /\ LocksAreOf(t)
            BY DEF IInv, DecidedStands
          <6>3. tx[t].held = Elements(MainsOf(c))
            BY <1>1, <6>2, NoElements DEF LocksAreOf
          <6>. QED  BY <1>2, <4>2, <6>1, <6>3
        <5>. QED  BY <2>1, <5>1, <5>2 DEF MainFits
      <4>. QED  BY <2>2, <4>1, <4>3, <4>4 DEF Live
    <3>. QED  BY <1>4, <2>2, <3>1, <3>3, AllowedWhileLive
  <2>. QED  BY <2>3, <2>4, <2>5
<1>5. CASE ~OfGeography(d)
  <2>1. d \in MainCommand /\ MainFits(d)
    BY <1>2, <1>5, CommandSorts, MainCommandFits
  <2>2. c \in SubcategoryCommand \cup StoreCommand
    BY <1>2, <1>5, CommandSorts
  <2>3. mains' = mains
    BY <1>2, <1>3, <2>2, SubcategoryCommandWrites, StoreCommandWrites
  <2>4. d \in Command'
    <3>1. d \in MainCommand'
      BY <2>1, <2>3 DEF MainCommand
    <3>. QED  BY <3>1 DEF Command
  <2>5. MainsOf(d)' = MainsOf(d)
    BY <2>1 DEF MainFits, MainsOf
  <2>6. Allowed(d) => Allowed(d)'
    BY <2>1, <2>3 DEF MainFits, Allowed
  <2>. QED  BY <1>1, <2>4, <2>5, <2>6 DEF DecidedStands
<1>. QED  BY <1>4, <1>5

\* What a commit makes of the tables.
TablesAfter ==
    /\ stores' \in [StoreIds -> {None} \cup StoreRow]
    /\ subs' \in [Subcategories -> {None} \cup SubcategoryRow]
    /\ mains' \in [Mains -> {None} \cup Statuses]
    /\ ListedBelong(stores', subs')
    /\ \A s \in StoreIds : Joins(stores[s], stores'[s]) => mains'[stores'[s].main] # "ARCHIVED"
    /\ \A u \in Subcategories : Joins(subs[u], subs'[u]) => mains'[subs'[u].main] # "ARCHIVED"
    /\ \A s \in StoreIds : stores'[s] # None =>
           \A u \in stores'[s].subs \ Stood(s) : subs'[u].status # "ARCHIVED"

LEMMA NothingJoinsItself == \A row : ~Joins(row, row)
BY DEF Joins

LEMMA CommitWrites ==
    ASSUME TypeOK, ListedBelong(stores, subs), NEW c \in Command, Allowed(c),
           stores' = StoresAfter(c), subs' = SubsAfter(c), mains' = MainsAfter(c),
           ForeignKeysHold(stores', subs')
    PROVE  TablesAfter
<1>1. /\ stores \in [StoreIds -> {None} \cup StoreRow]
      /\ subs \in [Subcategories -> {None} \cup SubcategoryRow]
      /\ mains \in [Mains -> {None} \cup Statuses]
  BY DEF TypeOK
<1>2. CASE c \in MainCommand
  <2>1. /\ mains' \in [Mains -> {None} \cup Statuses]
        /\ stores' = stores /\ subs' = subs
    BY <1>2, MainCommandWrites
  <2>2. ListedBelong(stores', subs')
    BY <2>1
  <2>3. \A s \in StoreIds : stores'[s] # None => stores'[s].subs \ Stood(s) = {}
    BY <2>1 DEF Stood
  <2>. QED  BY <1>1, <2>1, <2>2, <2>3, NothingJoinsItself DEF TablesAfter
<1>3. CASE c \in SubcategoryCommand
  <2>1. SubsLawful(subs') /\ stores' = stores /\ mains' = mains
    BY <1>3, SubcategoryCommandWrites
  <2>2. ListedBelong(stores', subs')
    <3>1. ASSUME NEW s \in StoreIds, stores[s] # None, NEW u \in stores[s].subs
          PROVE  subs'[u] # None /\ subs'[u].main = stores[s].main
      <4>1. u \in Subcategories
        BY <1>1, <3>1 DEF StoreRow
      <4>2. subs[u] # None
        BY <3>1 DEF ListedBelong
      <4>. QED  BY <2>1, <3>1, <4>1, <4>2 DEF SubsLawful, ForeignKeysHold
    <3>. QED  BY <2>1, <3>1 DEF ListedBelong
  <2>3. \A s \in StoreIds : stores'[s] # None => stores'[s].subs \ Stood(s) = {}
    BY <2>1 DEF Stood
  <2>. QED  BY <1>1, <2>1, <2>2, <2>3, NothingJoinsItself DEF TablesAfter, SubsLawful
<1>4. CASE c \in StoreCommand
  <2>1. StoresLawful(stores') /\ subs' = subs /\ mains' = mains
    BY <1>4, StoreCommandWrites
  <2>. QED  BY <1>1, <2>1, NothingJoinsItself DEF TablesAfter, StoresLawful
<1>. QED  BY <1>2, <1>3, <1>4 DEF Command

\* Only the move of a subcategory comes into conflict with a foreign key.
LEMMA OthersFit ==
    ASSUME TypeOK, ListedBelong(stores, subs), NEW c \in Command, Allowed(c),
           c.name # "UpdateSubcategory"
    PROVE  ForeignKeysHold(StoresAfter(c), SubsAfter(c))
<1>1. \A rows : ListedBelong(rows, subs) => ForeignKeysHold(rows, subs)
  BY DEF ListedBelong, ForeignKeysHold
<1>2. CASE c \in MainCommand
  <2>1. StoresAfter(c) = stores /\ SubsAfter(c) = subs
    BY <1>2, MainCommandWrites
  <2>. QED  BY <1>1, <2>1
<1>3. CASE c \in SubcategoryCommand
  <2>1. StayUnder(SubsAfter(c)) /\ StoresAfter(c) = stores
    BY <1>3, SubcategoryCommandWrites
  <2>2. \A s \in StoreIds : stores[s] # None => stores[s].subs \subseteq Subcategories
    BY DEF TypeOK, StoreRow
  <2>. QED  BY <2>1, <2>2 DEF StayUnder, ListedBelong, ForeignKeysHold
<1>4. CASE c \in StoreCommand
  <2>1. StoresLawful(StoresAfter(c)) /\ SubsAfter(c) = subs
    BY <1>4, StoreCommandWrites
  <2>. QED  BY <1>1, <2>1 DEF StoresLawful
<1>. QED  BY <1>2, <1>3, <1>4 DEF Command

LEMMA CommitKeeps ==
    ASSUME IInv, NEW t \in Transactions, Commit(t)
    PROVE  IInv'
<1>1. PICK c : c = tx[t].command
  OBVIOUS
<1>2. /\ Running(t) /\ tx[t].decided /\ tx' = [tx EXCEPT ![t] = None] /\ begun' = begun
      /\ TypeOK /\ ListedBelong(stores, subs)
  BY DEF Commit, Running, IInv
<1>3. c \in Command /\ Allowed(c)
  BY <1>1, <1>2, Rows DEF IInv, DecidedStands
<1>4. CASE ~ForeignKeysHold(StoresAfter(c), SubsAfter(c))
  <2>1. c.name = "UpdateSubcategory"
    BY <1>2, <1>3, <1>4, OthersFit
  <2>2. UNCHANGED <<stores, subs, mains, begun>> /\ failure' = <<c.name, "foreign key">>
    BY <1>1, <1>2, <1>4 DEF Commit
  <2>3. OnlyTheseFail'
    BY <2>1, <2>2 DEF OnlyTheseFail
  <2>. QED  BY <1>2, <2>2, <2>3, EndsAlone
<1>5. CASE ForeignKeysHold(StoresAfter(c), SubsAfter(c))
  <2>1. /\ stores' = StoresAfter(c) /\ subs' = SubsAfter(c) /\ mains' = MainsAfter(c)
        /\ failure' = None
    BY <1>1, <1>5 DEF Commit
  <2>2. TablesAfter
    BY <1>2, <1>3, <1>5, <2>1, CommitWrites
  <2>3. tx \in [Transactions -> {None} \cup Row(Command)]
    BY <1>2 DEF TypeOK, Row
  <2>4. /\ DOMAIN tx' = Transactions /\ tx'[t] = None
        /\ \A u \in Transactions : u # t => tx'[u] = tx[u]
        /\ tx' = [u \in Transactions |-> tx'[u]]
    BY <1>2, <2>3
  <2>5. ASSUME NEW u \in Transactions, tx'[u] # None
        PROVE  u # t /\ Running(u) /\ tx'[u] = tx[u]
    BY <2>4, <2>5 DEF Running
  <2>6. ASSUME NEW u \in Transactions, tx'[u] # None
        PROVE  /\ tx'[u] \in Row(Command')
               /\ LocksAreOf(u)' /\ DecidedStands(u)' /\ ClaimsAreOf(tx[u])'
    <3>1. u # t /\ Running(u) /\ tx'[u] = tx[u]
      BY <2>5, <2>6
    <3>2. PICK row, d : row = tx[u] /\ d = row.command
      OBVIOUS
    <3>3. /\ d \in Command' /\ MainsOf(d)' = MainsOf(d)
          /\ row.decided => Allowed(d)'
      BY <1>1, <1>2, <2>1, <3>1, <3>2, OthersStand
    <3>4. LocksAreOf(u) /\ DecidedStands(u) /\ ClaimsAreOf(tx[u])
      BY <3>1 DEF IInv
    <3>5. tx'[u] = row /\ tx[u] = row
      BY <3>1, <3>2
    <3>6. /\ row = [command |-> d, mains |-> row.mains, held |-> row.held,
                     decided |-> row.decided, images |-> row.images,
                     claimed |-> row.claimed]
          /\ row.images \in Seq(Images) /\ row.claimed \in SUBSET Images
          /\ row.mains \in Seq(Mains) /\ row.held \in SUBSET Mains /\ row.decided \in BOOLEAN
      BY <3>1, <3>2, Rows
    <3>7. tx'[u] \in Row(Command')
      BY <3>3, <3>5, <3>6 DEF Row
    <3>8. LocksAreOf(u)'
      BY <3>2, <3>3, <3>4, <3>5 DEF LocksAreOf
    <3>9. DecidedStands(u)'
      BY <3>2, <3>3, <3>4, <3>5 DEF DecidedStands
    <3>10. ClaimsAreOf(tx[u])'
      BY <3>4, <3>5 DEF ClaimsAreOf, OfGeography
    <3>. QED  BY <3>7, <3>8, <3>9, <3>10
  <2>7. tx' \in [Transactions -> {None} \cup Row(Command')]
    BY <2>4, <2>6
  <2>8. TypeOK'
    BY <1>2, <2>2, <2>7 DEF TypeOK, TablesAfter, Row
  <2>9. OneOfEachKind'
    BY <2>5 DEF IInv, OneOfEachKind, OfGeography, Running
  <2>10. ListedBelong(stores, subs)' /\ OnlyTheseFail'
    BY <2>1, <2>2 DEF TablesAfter, ListedBelong, OnlyTheseFail
  <2>. QED  BY <2>6, <2>8, <2>9, <2>10 DEF IInv, Running
<1>. QED  BY <1>4, <1>5

-----------------------------------------------------------------------------
(* The schedule. First, remainders. *)

\* Remainders are in range, also of negative numbers.
LEMMA ModRange ==
    ASSUME NEW a \in Int, NEW m \in Nat \ {0}
    PROVE  a % m \in 0 .. m - 1
OBVIOUS

\* A number is its quotient times the divisor, plus its remainder.
LEMMA DivMod ==
    ASSUME NEW a \in Int, NEW m \in Nat \ {0}
    PROVE  a \div m \in Int /\ a = m * (a \div m) + (a % m)
OBVIOUS

\* A multiple smaller than the divisor is zero.
LEMMA OnlyZero ==
    ASSUME NEW m \in Nat \ {0}, NEW z \in Int, NEW r \in Int, -m < r, r < m, r = m * z
    PROVE  z = 0
<1>1. CASE z >= 1
  <2>1. m * z >= m
    BY <1>1
  <2>. QED  BY <2>1
<1>2. CASE z <= -1
  <2>1. m * z <= -m
    BY <1>2
  <2>. QED  BY <2>1
<1>. QED  BY <1>1, <1>2

\* Remainders are equal when the numbers differ by a multiple.
LEMMA SameMod ==
    ASSUME NEW m \in Nat \ {0}, NEW a \in Int, NEW b \in Int
    PROVE  a % m = b % m <=> \E z \in Int : a = b + m * z
<1>1. PICK q, r : q = a \div m /\ r = a % m
  OBVIOUS
<1>2. PICK p, s : p = b \div m /\ s = b % m
  OBVIOUS
<1>3. q \in Int /\ r \in 0 .. m - 1 /\ a = m * q + r
  BY <1>1, ModRange, DivMod
<1>4. p \in Int /\ s \in 0 .. m - 1 /\ b = m * p + s
  BY <1>2, ModRange, DivMod
<1>5. ASSUME r = s PROVE \E z \in Int : a = b + m * z
  <2>1. a = b + m * (q - p) /\ q - p \in Int
    BY <1>3, <1>4, <1>5
  <2>. QED  BY <2>1
<1>6. ASSUME NEW z \in Int, a = b + m * z PROVE r = s
  <2>1. r - s = m * (z + p - q)
    BY <1>3, <1>4, <1>6
  <2>2. z + p - q = 0
    <3>1. z + p - q \in Int /\ r - s \in Int /\ -m < r - s /\ r - s < m
      BY <1>3, <1>4
    <3>. QED  BY <2>1, <3>1, OnlyZero
  <2>3. m * 0 = 0
    OBVIOUS
  <2>. QED  BY <1>3, <1>4, <2>1, <2>2, <2>3
<1>. QED  BY <1>1, <1>2, <1>5, <1>6

\* A number in range, a multiple added, is its own remainder.
LEMMA ModIs ==
    ASSUME NEW m \in Nat \ {0}, NEW r \in 0 .. m - 1, NEW z \in Int, NEW a \in Int,
           a = r + m * z
    PROVE  a % m = r
<1>1. r \in Int /\ \E y \in Int : a = r + m * y
  OBVIOUS
<1>2. a % m = r % m
  BY <1>1, SameMod
<1>3. r % m = r
  OBVIOUS
<1>. QED  BY <1>2, <1>3

\* A set of natural numbers that is not empty has a least one.
LEMMA LeastOf ==
    ASSUME NEW A, A \subseteq Nat, A # {}
    PROVE  \E m \in A : \A t \in A : m <= t
<1>1. PICK R : R = OpToRel(<, Nat)
  OBVIOUS
<1>2. R = {x \in Nat \X Nat : x[1] < x[2]}
  BY <1>1 DEF OpToRel
<1>3. IsWellFoundedOn(R, Nat)
  BY <1>1, NatLessThanWellFounded
<1>4. PICK m \in A : \A t \in A : ~(<<t, m>> \in R)
  BY <1>3, WFMin
<1>5. ASSUME NEW t \in A PROVE m <= t
  <2>1. t \in Nat /\ m \in Nat
    OBVIOUS
  <2>2. t < m => <<t, m>> \in R
    BY <1>2, <2>1
  <2>. QED  BY <1>4, <2>1, <2>2
<1>. QED  BY <1>5

\* A period lasts less than a day, and its interval as long.
LEMMA PeriodLasts ==
    ASSUME NEW p \in Period, p.opens # p.closes, NEW k \in Int
    PROVE  /\ Length(p) \in 1 .. Ticks - 1
           /\ IntervalOf(p, k) = [ start |-> k * Ticks + p.opens,
                                   end   |-> k * Ticks + p.opens + Length(p) ]
<1>1. PICK T, a, b : T = Ticks /\ a = p.opens /\ b = p.closes
  OBVIOUS
<1>2. T \in Nat \ {0} /\ a \in 0 .. T - 1 /\ b \in 0 .. T - 1 /\ a # b
  BY <1>1, StoresAssumption DEF Period
<1>3. CASE b > a
  <2>1. (b - a) % T = b - a
    BY <1>2, <1>3
  <2>2. k * T + b = k * T + a + (b - a)
    BY <1>2
  <2>. QED  BY <1>1, <1>2, <1>3, <2>1, <2>2 DEF Length, IntervalOf
<1>4. CASE ~(b > a)
  <2>1. (b - a) % T = b - a + T
    <3>1. b - a + T \in 0 .. T - 1 /\ b - a = (b - a + T) + T * (-1)
      BY <1>2, <1>4
    <3>. QED  BY <1>2, <3>1, ModIs
  <2>2. (k + 1) * T + b = k * T + a + (b - a + T)
    BY <1>2
  <2>3. b - a + T \in 1 .. T - 1
    BY <1>2, <1>4
  <2>. QED  BY <1>1, <1>4, <2>1, <2>2, <2>3 DEF Length, IntervalOf
<1>. QED  BY <1>3, <1>4

\* Hours of the type, none of which is empty.
ValidFor(hours) == hours \subseteq Period /\ \A p \in hours : p.opens # p.closes

\* What expandIntervals yields.
LEMMA IntervalsAre ==
    ASSUME NEW hours, NEW weekday, NEW i
    PROVE  i \in ExpandIntervals(hours, weekday) <=>
               \E k \in -1 .. 8 : \E p \in hours :
                   p.day = (weekday + k + 7) % 7 /\ i = IntervalOf(p, k)
<1> DEFINE of(k) == {IntervalOf(p, k) : p \in {q \in hours : q.day = (weekday + k + 7) % 7}}
<1>1. ExpandIntervals(hours, weekday) = UNION {of(k) : k \in -1 .. 8}
  BY DEF ExpandIntervals, WeekDays
<1>2. \A k : i \in of(k) <=> \E p \in hours :
                 p.day = (weekday + k + 7) % 7 /\ i = IntervalOf(p, k)
  OBVIOUS
<1> HIDE DEF of
<1>. QED  BY <1>1, <1>2

\* The instants of the week that some hours cover.
LEMMA CoveredAre ==
    ASSUME NEW hours, NEW x
    PROVE  x \in Covered(hours) <=>
               \E p \in hours : \E j \in 0 .. Length(p) - 1 :
                   x = (p.day * Ticks + p.opens + j) % Week
<1> DEFINE of(p) == {(p.day * Ticks + p.opens + j) % Week : j \in 0 .. Length(p) - 1}
<1>1. Covered(hours) = UNION {of(p) : p \in hours}
  BY DEF Covered
<1>2. \A p : x \in of(p) <=> \E j \in 0 .. Length(p) - 1 :
                 x = (p.day * Ticks + p.opens + j) % Week
  OBVIOUS
<1> HIDE DEF of
<1>. QED  BY <1>1, <1>2

\* An instant counted from the midnight of the weekday is one counted from Monday's.
LEMMA SameInstant ==
    ASSUME NEW weekday \in 0 .. 6, NEW k \in Int, NEW p \in Period, NEW j \in Int,
           p.day = (weekday + k + 7) % 7
    PROVE  (weekday * Ticks + (k * Ticks + p.opens + j)) % Week
               = (p.day * Ticks + p.opens + j) % Week
<1>1. PICK T, a, d : T = Ticks /\ a = p.opens /\ d = p.day
  OBVIOUS
<1>2. T \in Nat \ {0} /\ a \in Nat /\ d \in Nat /\ Week = 7 * T
  BY <1>1, StoresAssumption DEF Period, Week, WeekDays
<1>3. PICK z \in Int : weekday + k + 7 = 7 * z + d
  <2>1. PICK y : y = weekday + k + 7 /\ y \in Int
    OBVIOUS
  <2>2. y \div 7 \in Int /\ y = 7 * (y \div 7) + (y % 7)
    BY <2>1, DivMod
  <2>. QED  BY <1>1, <2>1, <2>2
<1>4. k = 7 * (z - 1) + d - weekday
  BY <1>2, <1>3
<1>5. weekday * T + (k * T + a + j) = (d * T + a + j) + (7 * T) * (z - 1)
  <2>1. k * T = 7 * T * (z - 1) + d * T - weekday * T
    BY <1>2, <1>4
  <2>. QED  BY <1>2, <2>1
<1>6. /\ weekday * T + (k * T + a + j) \in Int /\ d * T + a + j \in Int
      /\ 7 * T \in Nat \ {0} /\ z - 1 \in Int
  BY <1>2
<1>7. (weekday * T + (k * T + a + j)) % (7 * T) = (d * T + a + j) % (7 * T)
  <2>1. PICK x, y, m : x = weekday * T + (k * T + a + j) /\ y = d * T + a + j /\ m = 7 * T
    OBVIOUS
  <2>2. x \in Int /\ y \in Int /\ m \in Nat \ {0} /\ \E c \in Int : x = y + m * c
    BY <1>5, <1>6, <2>1
  <2>3. x % m = y % m
    BY <2>2, SameMod
  <2>. QED  BY <2>1, <2>3
<1>. QED  BY <1>1, <1>2, <1>7

\* The hours cover an instant of today and of the eight days after it exactly when it is
\* in one of the intervals of expandIntervals.
LEMMA OpenWithinIntervals ==
    ASSUME NEW hours, ValidFor(hours), NEW weekday \in 0 .. 6, NEW n \in 0 .. 9 * Ticks - 1
    PROVE  (weekday * Ticks + n) % Week \in Covered(hours) <=>
               \E i \in ExpandIntervals(hours, weekday) : i.start <= n /\ n < i.end
<1>1. PICK T : T = Ticks /\ T \in Nat \ {0} /\ Week = 7 * T /\ n \in 0 .. 9 * T - 1
  BY StoresAssumption DEF Week, WeekDays
<1>2. ASSUME NEW i \in ExpandIntervals(hours, weekday), i.start <= n, n < i.end
      PROVE  (weekday * Ticks + n) % Week \in Covered(hours)
  <2>1. PICK k \in -1 .. 8, p \in hours :
            p.day = (weekday + k + 7) % 7 /\ i = IntervalOf(p, k)
    BY <1>2, IntervalsAre
  <2>2. p \in Period /\ p.opens # p.closes
    BY DEF ValidFor
  <2>3. PICK a, l : a = p.opens /\ l = Length(p) /\ a \in Nat /\ l \in Nat
    BY <2>2, PeriodLasts DEF Period
  <2>4. i.start = k * T + a /\ i.end = k * T + a + l
    <3>1. k \in Int
      OBVIOUS
    <3>2. IntervalOf(p, k) = [ start |-> k * Ticks + p.opens,
                               end   |-> k * Ticks + p.opens + Length(p) ]
      BY <2>2, <3>1, PeriodLasts
    <3>. QED  BY <1>1, <2>1, <2>3, <3>2
  <2>5. PICK j : j = n - (k * T + a)
    OBVIOUS
  <2>6. j \in 0 .. l - 1 /\ n = k * T + a + j
    BY <1>1, <1>2, <2>3, <2>4, <2>5
  <2>7. (weekday * Ticks + n) % Week = (p.day * Ticks + p.opens + j) % Week
    <3>1. k \in Int /\ j \in Int
      BY <2>6
    <3>2. (weekday * Ticks + (k * Ticks + p.opens + j)) % Week
              = (p.day * Ticks + p.opens + j) % Week
      BY <2>1, <2>2, <3>1, SameInstant
    <3>. QED  BY <1>1, <2>3, <2>6, <3>2
  <2>. QED  BY <2>3, <2>6, <2>7, CoveredAre
<1>3. ASSUME (weekday * Ticks + n) % Week \in Covered(hours)
      PROVE  \E i \in ExpandIntervals(hours, weekday) : i.start <= n /\ n < i.end
  <2>1. PICK p \in hours : \E j \in 0 .. Length(p) - 1 :
            (weekday * Ticks + n) % Week = (p.day * Ticks + p.opens + j) % Week
    BY <1>3, CoveredAre
  <2>2. p \in Period /\ p.opens # p.closes
    BY DEF ValidFor
  <2>3. PICK a, l, d : a = p.opens /\ l = Length(p) /\ d = p.day
    OBVIOUS
  <2>4. PICK j \in 0 .. l - 1 :
            (weekday * Ticks + n) % Week = (p.day * Ticks + p.opens + j) % Week
    BY <2>1, <2>3
  <2>5. a \in 0 .. T - 1 /\ l \in 1 .. T - 1 /\ d \in 0 .. 6
    BY <1>1, <2>2, <2>3, PeriodLasts DEF Period, WeekDays
  <2>6. PICK z \in Int : weekday * T + n = (d * T + a + j) + (7 * T) * z
    <3>1. weekday * T + n \in Int /\ d * T + a + j \in Int /\ 7 * T \in Nat \ {0}
      BY <1>1, <2>5
    <3>2. (weekday * T + n) % (7 * T) = (d * T + a + j) % (7 * T)
      BY <1>1, <2>3, <2>4
    <3>. QED  BY <3>1, <3>2, SameMod
  <2>7. PICK k : k = d - weekday + 7 * z /\ k \in Int
    BY <2>5
  <2>8. n = k * T + a + j
    <3>1. k * T = d * T - weekday * T + (7 * T) * z
      BY <1>1, <2>5, <2>7
    <3>2. PICK x, y, u, v : x = k * T /\ y = d * T /\ u = weekday * T /\ v = (7 * T) * z
      OBVIOUS
    <3>3. x \in Int /\ y \in Int /\ u \in Int /\ v \in Int
      BY <1>1, <2>5, <2>7, <3>2
    <3>4. x = y - u + v /\ u + n = (y + a + j) + v
      BY <2>6, <3>1, <3>2
    <3>5. n = x + a + j
      BY <1>1, <2>5, <3>3, <3>4
    <3>. QED  BY <3>2, <3>5
  <2>9. k \in -1 .. 8
    <3>1. k > -2
      <4>1. CASE k <= -2
        <5>1. k * T <= -2 * T
          BY <1>1, <2>7, <4>1
        <5>2. k * T \in Int
          BY <1>1, <2>7
        <5>. QED  BY <1>1, <2>5, <2>8, <5>1, <5>2
      <4>. QED  BY <2>7, <4>1
    <3>2. k < 9
      <4>1. CASE k >= 9
        <5>1. k * T >= 9 * T
          BY <1>1, <2>7, <4>1
        <5>2. k * T \in Int
          BY <1>1, <2>7
        <5>. QED  BY <1>1, <2>5, <2>8, <5>1, <5>2
      <4>. QED  BY <2>7, <4>1
    <3>. QED  BY <2>7, <3>1, <3>2
  <2>10. p.day = (weekday + k + 7) % 7
    <3>1. weekday + k + 7 = d + 7 * (z + 1) /\ weekday + k + 7 \in Int /\ z + 1 \in Int
      BY <2>5, <2>7
    <3>. QED  BY <2>3, <2>5, <3>1, ModIs
  <2>11. PICK i : i = IntervalOf(p, k)
    OBVIOUS
  <2>12. i.start = k * T + a /\ i.end = k * T + a + l
    <3>1. IntervalOf(p, k) = [ start |-> k * Ticks + p.opens,
                               end   |-> k * Ticks + p.opens + Length(p) ]
      BY <2>2, <2>7, PeriodLasts
    <3>. QED  BY <1>1, <2>3, <2>11, <3>1
  <2>13. i.start <= n /\ n < i.end
    <3>1. PICK x : x = k * T /\ x \in Int
      BY <1>1, <2>7
    <3>. QED  BY <2>5, <2>8, <2>12, <3>1
  <2>14. i \in ExpandIntervals(hours, weekday)
    BY <2>9, <2>10, <2>11, IntervalsAre
  <2>. QED  BY <2>13, <2>14
<1>. QED  BY <1>2, <1>3

\* An interval is not empty, lasts less than a day, and starts within the days expanded.
LEMMA IntervalLasts ==
    ASSUME NEW hours, ValidFor(hours), NEW weekday \in 0 .. 6,
           NEW i \in ExpandIntervals(hours, weekday)
    PROVE  /\ i.start \in Int /\ i.end \in Int /\ i.start < i.end /\ i.end < i.start + Ticks
           /\ -Ticks <= i.start /\ i.start < 9 * Ticks
<1>1. i \in ExpandIntervals(hours, weekday)
  OBVIOUS
<1>2. PICK k \in -1 .. 8, p \in hours :
          p.day = (weekday + k + 7) % 7 /\ i = IntervalOf(p, k)
  BY <1>1, IntervalsAre, Z3
<1>3. k \in Int /\ p \in Period /\ p.opens # p.closes
  BY DEF ValidFor
<1>4. PICK T, a, l, x : T = Ticks /\ a = p.opens /\ l = Length(p) /\ x = k * T
  OBVIOUS
<1>5. T \in Nat \ {0} /\ a \in 0 .. T - 1 /\ l \in 1 .. T - 1
  BY <1>3, <1>4, PeriodLasts, StoresAssumption DEF Period
<1>6. IntervalOf(p, k) = [ start |-> k * Ticks + p.opens,
                           end   |-> k * Ticks + p.opens + Length(p) ]
  BY <1>3, PeriodLasts
<1>7. i.start = x + a /\ i.end = x + a + l
  BY <1>2, <1>4, <1>6
<1>8. x \in Int /\ -T <= x /\ x <= 8 * T
  <2>1. x \in Int
    BY <1>3, <1>4, <1>5
  <2>2. (k + 1) * T >= 0 /\ (8 - k) * T >= 0
    BY <1>5
  <2>3. (k + 1) * T = x + T /\ (8 - k) * T = 8 * T - x
    BY <1>3, <1>4, <1>5
  <2>. QED  BY <1>5, <2>1, <2>2, <2>3
<1>. QED  BY <1>4, <1>5, <1>7, <1>8

\* Of some intervals, the first starts no later than the others.
LEMMA FirstIs ==
    ASSUME NEW hours, ValidFor(hours), NEW weekday \in 0 .. 6,
           NEW A, A \subseteq ExpandIntervals(hours, weekday), A # {}
    PROVE  First(A) \in A /\ \A j \in A : First(A).start <= j.start
<1>1. \A i \in A : i.start \in Int /\ -Ticks <= i.start
  BY IntervalLasts
<1>2. Ticks \in Nat
  BY StoresAssumption
<1> DEFINE starts == {i.start + Ticks : i \in A}
<1>3. starts \subseteq Nat /\ starts # {}
  BY <1>1, <1>2
<1>4. PICK m \in starts : \A t \in starts : m <= t
  BY <1>3, LeastOf
<1>5. PICK i \in A : m = i.start + Ticks
  OBVIOUS
<1>6. ASSUME NEW j \in A PROVE i.start <= j.start
  <2>1. j.start + Ticks \in starts
    OBVIOUS
  <2>2. i.start + Ticks <= j.start + Ticks
    BY <1>4, <1>5, <2>1
  <2>. QED  BY <1>1, <1>2, <2>2
<1>. QED  BY <1>6 DEF First

\* What is shown of valid hours is right, for days of any length.
LEMMA ShownIsRight ==
    ASSUME NEW hours, ValidFor(hours), NEW weekday \in 0 .. 6, NEW now \in 0 .. Ticks - 1
    PROVE  ShownAgrees(hours, weekday, now)
<1> DEFINE intervals == ExpandIntervals(hours, weekday)
           active == {i \in intervals : i.start <= now /\ now < i.end}
           later == {i \in intervals : i.start > now}
           OpenAt(n) == (weekday * Ticks + n) % Week \in Covered(hours)
           shown == Evaluate(hours, weekday, now)
<1>1. PICK T : T = Ticks /\ T \in Nat \ {0} /\ now \in 0 .. T - 1
  BY StoresAssumption
<1>2. \A i \in intervals :
          /\ i.start \in Int /\ i.end \in Int /\ i.start < i.end /\ i.end < i.start + T
          /\ i.start < 9 * T
  BY <1>1, IntervalLasts
<1>3. \A n \in 0 .. 9 * T - 1 : OpenAt(n) <=> \E i \in intervals : i.start <= n /\ n < i.end
  BY <1>1, OpenWithinIntervals
<1>4. shown = IF active # {}
              THEN [isOpen |-> TRUE, nextOpening |-> None, nextClosing |-> First(active).end]
              ELSE [isOpen |-> FALSE, nextClosing |-> None,
                    nextOpening |-> IF later = {} THEN None ELSE First(later).start]
  BY DEF Evaluate
<1>5. OpenAt(now) <=> active # {}
  BY <1>1, <1>3
<1>6. ASSUME NEW A, A \subseteq intervals, A # {}
      PROVE  First(A) \in A /\ \A j \in A : First(A).start <= j.start
  BY <1>6, FirstIs
<1>7. ShownAgrees(hours, weekday, now) <=>
           /\ shown.isOpen = OpenAt(now)
           /\ shown.isOpen =>
               /\ \A n \in now .. shown.nextClosing - 1 : OpenAt(n)
               /\ ~Adjoining(hours) => ~OpenAt(shown.nextClosing)
           /\ ~shown.isOpen =>
               IF hours = {} THEN shown.nextOpening = None
               ELSE /\ OpenAt(shown.nextOpening)
                    /\ \A n \in now .. shown.nextOpening - 1 : ~OpenAt(n)
  BY DEF ShownAgrees
<1>8. CASE active # {}
  <2>1. PICK i : i = First(active)
    OBVIOUS
  <2>2. i \in intervals /\ i.start <= now /\ now < i.end
    BY <1>6, <1>8, <2>1
  <2>3. shown.isOpen = TRUE /\ shown.nextClosing = i.end
    BY <1>4, <1>8, <2>1
  <2>4. ASSUME NEW n \in now .. i.end - 1 PROVE OpenAt(n)
    <3>1. n \in 0 .. 9 * T - 1 /\ i.start <= n /\ n < i.end
      BY <1>1, <1>2, <2>2
    <3>. QED  BY <1>3, <2>2, <3>1
  <2>5. ASSUME OpenAt(i.end) PROVE Adjoining(hours)
    <3>1. PICK k \in -1 .. 8, p \in hours :
              p.day = (weekday + k + 7) % 7 /\ i = IntervalOf(p, k)
      BY <2>2, IntervalsAre
    <3>2. k \in Int /\ p \in Period /\ p.opens # p.closes
      BY DEF ValidFor
    <3>3. Length(p) \in Int /\ i.end = k * Ticks + p.opens + Length(p)
      <4>1. /\ Length(p) \in 1 .. Ticks - 1
            /\ IntervalOf(p, k) = [ start |-> k * Ticks + p.opens,
                                    end   |-> k * Ticks + p.opens + Length(p) ]
        BY <3>2, PeriodLasts
      <4>. QED  BY <3>1, <4>1
    <3>4. (weekday * Ticks + i.end) % Week = (p.day * Ticks + p.opens + Length(p)) % Week
      BY <3>1, <3>2, <3>3, SameInstant
    <3>. QED  BY <2>5, <3>4 DEF Adjoining
  <2>6. OpenAt(now) = TRUE
    BY <1>5, <1>8 DEF OpenAt
  <2> HIDE DEF OpenAt, shown
  <2>. QED  BY <1>7, <2>3, <2>4, <2>5, <2>6
<1>9. CASE active = {}
  <2>1. /\ shown.isOpen = FALSE
        /\ shown.nextOpening = IF later = {} THEN None ELSE First(later).start
    BY <1>4, <1>9
  <2>2. OpenAt(now) = FALSE
    BY <1>5, <1>9
  <2>3. CASE hours = {}
    <3>1. \A i : i \notin intervals
      BY <2>3, IntervalsAre
    <3>2. later = {}
      BY <3>1
    <3>3. shown.nextOpening = None
      BY <2>1, <3>2
    <3> HIDE DEF OpenAt, shown
    <3>. QED  BY <1>7, <2>1, <2>2, <2>3, <3>3
  <2>4. CASE hours # {}
    <3>1. PICK p \in hours : TRUE
      BY <2>4
    <3>2. p \in Period /\ p.opens # p.closes /\ p.opens \in Nat /\ p.day \in 0 .. 6
      BY DEF ValidFor, Period, WeekDays
    <3>3. PICK k \in 1 .. 7 : p.day = (weekday + k + 7) % 7
      <4>1. CASE p.day > weekday
        <5>1. p.day - weekday \in 1 .. 7 /\ p.day = (weekday + (p.day - weekday) + 7) % 7
          BY <3>2, <4>1
        <5>. QED  BY <5>1
      <4>2. CASE ~(p.day > weekday)
        <5>1. /\ p.day - weekday + 7 \in 1 .. 7
              /\ p.day = (weekday + (p.day - weekday + 7) + 7) % 7
          BY <3>2, <4>2
        <5>. QED  BY <5>1
      <4>. QED  BY <4>1, <4>2
    <3>4. PICK i : i = IntervalOf(p, k)
      OBVIOUS
    <3>5. i \in intervals
      <4>1. k \in -1 .. 8
        OBVIOUS
      <4>. QED  BY <3>3, <3>4, <4>1, IntervalsAre
    <3>6. i.start > now
      <4>1. i.start = k * T + p.opens
        BY <1>1, <3>2, <3>4, PeriodLasts
      <4>2. k * T >= T
        BY <1>1
      <4>3. k * T \in Int
        BY <1>1
      <4>. QED  BY <1>1, <3>2, <4>1, <4>2, <4>3
    <3>7. later # {}
      BY <3>5, <3>6
    <3>8. PICK f : f = First(later)
      OBVIOUS
    <3>9. f \in intervals /\ f.start > now /\ \A j \in later : f.start <= j.start
      BY <1>6, <3>7, <3>8
    <3>10. shown.nextOpening = f.start
      BY <2>1, <3>7, <3>8
    <3>11. OpenAt(f.start)
      <4>1. f.start \in 0 .. 9 * T - 1 /\ f.start <= f.start /\ f.start < f.end
        BY <1>1, <1>2, <3>9
      <4>. QED  BY <1>3, <3>9, <4>1
    <3>12. ASSUME NEW n \in now .. f.start - 1, OpenAt(n) PROVE FALSE
      <4>1. n \in 0 .. 9 * T - 1 /\ now <= n /\ n < f.start
        BY <1>1, <1>2, <3>9
      <4>2. PICK j \in intervals : j.start <= n /\ n < j.end
        BY <1>3, <3>12, <4>1
      <4>3. CASE j.start > now
        <5>1. f.start <= j.start
          BY <3>9, <4>3
        <5>. QED  BY <1>2, <3>9, <4>1, <4>2, <5>1
      <4>4. CASE ~(j.start > now)
        <5>1. j.start <= now /\ now < j.end
          BY <1>1, <1>2, <4>1, <4>2, <4>4
        <5>. QED  BY <1>9, <5>1
      <4>. QED  BY <4>3, <4>4
    <3> HIDE DEF OpenAt, shown
    <3>. QED  BY <1>7, <2>1, <2>2, <2>4, <3>10, <3>11, <3>12
  <2>. QED  BY <2>3, <2>4
<1>. QED  BY <1>8, <1>9

-----------------------------------------------------------------------------
(* The theorems. *)

LEMMA InitSound == Init => IInv
<1>. SUFFICES ASSUME Init PROVE IInv
  OBVIOUS
<1>1. TypeOK
  <2>1. tx \in [Transactions -> {None} \cup Row(Command)]
    BY DEF Init
  <2>. QED  BY <2>1, StockAssumption DEF Init, TypeOK, Row
<1>2. ListedBelong(stores, subs)
  BY StockAssumption DEF Init, ListedBelong
<1>3. \A t \in Transactions : ~Running(t)
  BY DEF Init, Running
<1>. QED  BY <1>1, <1>2, <1>3 DEF Init, IInv, OneOfEachKind, OnlyTheseFail

LEMMA StandingStill ==
    ASSUME IInv, UNCHANGED vars
    PROVE  IInv'
<1>1. UNCHANGED <<stores, subs, mains, tx, failure, begun>>
  BY DEF vars
<1>2. TypeOK'
  BY <1>1 DEF IInv, TypeOK, Command, MainCommand, SubcategoryCommand, StoreCommand
<1>3. \A c : MainsOf(c)' = MainsOf(c) /\ Allowed(c)' = Allowed(c)
  BY <1>1 DEF MainsOf, Allowed, Live, MayList
<1>4. \A t \in Transactions : Running(t)' =>
          LocksAreOf(t)' /\ DecidedStands(t)' /\ ClaimsAreOf(tx[t])'
  BY <1>1, <1>3 DEF IInv, LocksAreOf, DecidedStands, ClaimsAreOf, OfGeography, Running
<1>5. OneOfEachKind' /\ ListedBelong(stores, subs)' /\ OnlyTheseFail'
  BY <1>1 DEF IInv, OneOfEachKind, OfGeography, ListedBelong, OnlyTheseFail, Running
<1>. QED  BY <1>2, <1>4, <1>5 DEF IInv

\* The invariant that says what transactions hold and have found stays (the locks of
\* store.service.ts, subcategory.service.ts and main-category.service.ts).
THEOREM Invariance == Spec => []IInv
<1>1. IInv /\ [Next]_vars => IInv'
  <2>. SUFFICES ASSUME IInv, [Next]_vars PROVE IInv'
    OBVIOUS
  <2>1. ASSUME NEW t \in Transactions, Begin(t) PROVE IInv'
    BY <2>1, BeginKeeps
  <2>2. ASSUME NEW t \in Transactions, LockMain(t) PROVE IInv'
    BY <2>2, LockMainKeeps
  <2>3. ASSUME NEW t \in Transactions, Refuse(t) PROVE IInv'
    BY <2>3, RefuseKeeps
  <2>4. ASSUME NEW t \in Transactions, Decide(t) PROVE IInv'
    BY <2>4, DecideKeeps
  <2>5. ASSUME NEW t \in Transactions, Commit(t) PROVE IInv'
    BY <2>5, CommitKeeps
  <2>6. ASSUME NEW t \in Transactions, DeadlockVictim(t) PROVE IInv'
    BY <2>6, DeadlockVictimKeeps
  <2>7. ASSUME NEW t \in Transactions, ClaimImage(t) PROVE IInv'
    BY <2>7, ClaimImageKeeps
  <2>8. ASSUME NEW t \in Transactions, RefuseImage(t) PROVE IInv'
    BY <2>8, RefuseImageKeeps
  <2>9. CASE UNCHANGED vars
    BY <2>9, StandingStill
  <2>. QED  BY <2>1, <2>2, <2>3, <2>4, <2>5, <2>6, <2>7, <2>8, <2>9 DEF Next
<1>. QED  BY <1>1, InitSound, PTL DEF Spec

\* Stores, subcategories, main categories and transactions have their types; the working
\* hours of every store are valid ones (validateWorkingHours).
THEOREM StoresTypeCorrect == Spec => []TypeOK
<1>1. IInv => TypeOK
  BY DEF IInv
<1>. QED  BY <1>1, Invariance, PTL

\* Whatever commands run at once, and whatever files they name, one fails with an internal
\* error only in three collisions (OnlyTheseFail): between an insert that needs the row of
\* the city and a command on main categories that has it and waits for a row of a main
\* category, or of a file (claimAsset), which the insert's command has locked; and of a
\* subcategory that moves with the foreign keys of the stores that list it.
THEOREM OnlyTheseEverFail == Spec => []OnlyTheseFail
<1>1. IInv => OnlyTheseFail
  BY DEF IInv
<1>. QED  BY <1>1, Invariance, PTL

LEMMA StepsJoinNothing ==
    ASSUME IInv, [Next]_vars
    PROVE  [/\ \A s \in StoreIds :
                   Joins(stores[s], stores'[s]) => mains'[stores'[s].main] # "ARCHIVED"
            /\ \A u \in Subcategories :
                   Joins(subs[u], subs'[u]) => mains'[subs'[u].main] # "ARCHIVED"
            /\ \A s \in StoreIds : stores'[s] # None =>
                   \A u \in stores'[s].subs \ (IF stores[s] = None THEN {} ELSE stores[s].subs) :
                       subs'[u].status # "ARCHIVED"]_vars
<1>1. CASE TablesAfter
  BY <1>1 DEF TablesAfter, Stood
<1>2. CASE UNCHANGED <<stores, subs>>
  <2>1. \A s \in StoreIds : stores'[s] # None =>
            stores'[s].subs \ (IF stores[s] = None THEN {} ELSE stores[s].subs) = {}
    BY <1>2
  <2>. QED  BY <1>2, <2>1, NothingJoinsItself
<1>3. ASSUME NEW t \in Transactions, Commit(t) PROVE TablesAfter \/ UNCHANGED <<stores, subs>>
  <2>1. PICK c : c = tx[t].command
    OBVIOUS
  <2>2. /\ Running(t) /\ tx[t].decided /\ TypeOK /\ ListedBelong(stores, subs)
    BY <1>3 DEF Commit, Running, IInv
  <2>3. c \in Command /\ Allowed(c)
    BY <2>1, <2>2, Rows DEF IInv, DecidedStands
  <2>4. CASE ForeignKeysHold(StoresAfter(c), SubsAfter(c))
    <3>1. stores' = StoresAfter(c) /\ subs' = SubsAfter(c) /\ mains' = MainsAfter(c)
      BY <1>3, <2>1, <2>4 DEF Commit
    <3>. QED  BY <2>2, <2>3, <2>4, <3>1, CommitWrites
  <2>5. CASE ~ForeignKeysHold(StoresAfter(c), SubsAfter(c))
    BY <1>3, <2>1, <2>5 DEF Commit
  <2>. QED  BY <2>4, <2>5
<1>4. ASSUME NEW t \in Transactions,
             \/ Begin(t) \/ LockMain(t) \/ Refuse(t) \/ Decide(t)
             \/ ClaimImage(t) \/ RefuseImage(t) \/ DeadlockVictim(t)
      PROVE  UNCHANGED <<stores, subs>>
  BY <1>4 DEF Begin, LockMain, Refuse, Decide, ClaimImage, RefuseImage, DeadlockVictim
<1>. QED  BY <1>1, <1>2, <1>3, <1>4 DEF Next, vars

\* No store or subcategory joins an archived main category, and no store lists an archived
\* subcategory anew, however commands overlap (NothingJoinsTheArchived).
THEOREM NothingEverJoinsTheArchived == Spec => NothingJoinsTheArchived
BY Invariance, StepsJoinNothing, PTL DEF Spec, NothingJoinsTheArchived

\* At every instant of every weekday, what is shown of a store is what its hours say, for
\* days of any length and any valid hours (ScheduleAgrees: expandIntervals, and the
\* evaluation of the schedule).
THEOREM ScheduleAlwaysAgrees == Spec => []ScheduleAgrees
<1>1. ASSUME TypeOK PROVE ScheduleAgrees
  <2>1. ASSUME NEW s \in StoreIds, stores[s] # None,
               NEW weekday \in 0 .. WeekDays - 1, NEW now \in 0 .. Ticks - 1
        PROVE  ShownAgrees(stores[s].hours, weekday, now)
    <3>1. PICK h : h = stores[s].hours
      OBVIOUS
    <3>2. stores[s] \in StoreRow
      BY <1>1, <2>1 DEF TypeOK
    <3>3. h \in SUBSET Period /\ ValidHours(h)
      BY <3>1, <3>2 DEF StoreRow
    <3>4. ValidFor(h)
      BY <3>3 DEF ValidHours, ValidFor
    <3>5. weekday \in 0 .. 6
      BY DEF WeekDays
    <3>6. ShownAgrees(h, weekday, now)
      BY <3>4, <3>5, ShownIsRight
    <3>. QED  BY <3>1, <3>6
  <2>. QED  BY <2>1 DEF ScheduleAgrees
<1>. QED  BY <1>1, StoresTypeCorrect, PTL

-----------------------------------------------------------------------------
(* The catalog of a store. *)

CategoryRow == [status : RowStatuses, parent : Categories \cup {Null}]

RowsTyped ==
    /\ categories \in [Categories -> CategoryRow]
    /\ products \in [Products -> Product]
    /\ sizes \in [Products -> [Sizes -> Size]]
    /\ groups \in [Groups -> Group]
    /\ options \in [Options -> Option]
    /\ configured \in [Products -> [Options -> Configuration]]
    /\ loosened \subseteq Products

\* What a product configures is there, and a default costs nothing; a product that is not
\* there configures nothing, and the group of one that is has been there.
ConfiguredHolds ==
    /\ \A p \in Products, o \in Options : configured[p][o].present =>
           /\ products[p].status # "NONE" /\ options[o].status # "NONE"
           /\ configured[p][o].default => configured[p][o].price = 0
    /\ \A p \in Products : products[p].status # "NONE" /\ products[p].group # Null =>
           groups[products[p].group].status # "NONE"

Alike(i, j) == i.product = j.product /\ i.size = j.size /\ i.selections = j.selections

\* The items of the cart, of which no two have the same configuration.
CartHolds ==
    /\ cart \subseteq Item /\ Cardinality(cart) <= MaxItems
    /\ \A i, j \in cart : Alike(i, j) => i = j

\* The inductive invariant of the catalog and the cart.
ShopInv ==
    /\ RowsTyped
    /\ PricingHolds
    /\ CategoriesHold
    /\ ConfiguredHolds
    /\ DefaultsExplained
    /\ CartHolds

LEMMA ShopInit == ASSUME CatalogInit PROVE ShopInv
<1>1. cart = {} /\ loosened = {}
  BY DEF CatalogInit
<1>2. categories = [c \in Categories |-> [status |-> "NONE", parent |-> Null]]
  BY DEF CatalogInit
<1>3. products = [p \in Products |->
                    [status |-> "NONE", base |-> 0, category |-> Null, group |-> Null]]
  BY DEF CatalogInit
<1>4. sizes = [p \in Products |->
                 [s \in Sizes |-> [status |-> "NONE", default |-> FALSE, price |-> 1]]]
  BY DEF CatalogInit
<1>5. groups = [g \in Groups |-> [status |-> "NONE", min |-> 0, max |-> 1]]
  BY DEF CatalogInit
<1>6. options = [o \in Options |-> [status |-> "NONE", group |-> Null, available |-> TRUE]]
  BY DEF CatalogInit
<1>7. configured = [p \in Products |-> [o \in Options |->
                      [present |-> FALSE, price |-> 0, default |-> FALSE, max |-> 1,
                       available |-> TRUE]]]
  BY DEF CatalogInit
<1>8. /\ 0 \in 0 .. MaxPrice /\ 1 \in 1 .. MaxPrice /\ 0 \in 0 .. MaxSelect
      /\ 1 \in 1 .. MaxSelect /\ 1 \in 1 .. MaxQuantity
  BY CatalogAssumption
<1>9. RowsTyped
  <2>1. categories \in [Categories -> CategoryRow]
    BY <1>2 DEF CategoryRow, RowStatuses
  <2>2. products \in [Products -> Product]
    BY <1>3, <1>8 DEF Product, RowStatuses
  <2>3. sizes \in [Products -> [Sizes -> Size]]
    BY <1>4, <1>8 DEF Size, RowStatuses
  <2>4. groups \in [Groups -> Group]
    BY <1>5, <1>8 DEF Group, RowStatuses
  <2>5. options \in [Options -> Option]
    BY <1>6 DEF Option, RowStatuses
  <2>6. configured \in [Products -> [Options -> Configuration]]
    BY <1>7, <1>8 DEF Configuration
  <2>. QED  BY <1>1, <2>1, <2>2, <2>3, <2>4, <2>5, <2>6 DEF RowsTyped
<1>10. PricingHolds
  BY <1>3 DEF PricingHolds
<1>11. CategoriesHold
  BY <1>2, <1>3 DEF CategoriesHold, Kept, Usable
<1>12. ConfiguredHolds
  BY <1>3, <1>7 DEF ConfiguredHolds
<1>13. DefaultsExplained
  BY <1>3 DEF DefaultsExplained
<1>14. CartHolds
  <2>1. Cardinality({}) = 0 /\ 0 <= MaxItems
    BY FS_EmptySet, CatalogAssumption
  <2>. QED  BY <1>1, <2>1 DEF CartHolds
<1>. QED  BY <1>9, <1>10, <1>11, <1>12, <1>13, <1>14 DEF ShopInv

\* Frames: what a step must leave alone for each part to stay.
LEMMA PricingFrame ==
    ASSUME ShopInv, UNCHANGED sizes,
           \A p \in Products : /\ products'[p].base = products[p].base
                               /\ products[p].status = "NONE" => products'[p].status = "NONE"
    PROVE  PricingHolds'
BY DEF ShopInv, PricingHolds, Remaining, Actives, Kept, Usable

LEMMA CategoriesFrame ==
    ASSUME ShopInv, UNCHANGED categories,
           \A p \in Products : Kept(products'[p]) =>
               Kept(products[p]) /\ products'[p].category = products[p].category
    PROVE  CategoriesHold'
BY DEF ShopInv, CategoriesHold, IsParent, Kept

\* A product has no more default options than its group admits.
Fits(p) ==
    Cardinality(DefaultsIn(p, products[p].group)) <= groups[products[p].group].max

\* The default options of a product do not grow, and its group admits as many, unless it is
\* one of the products loosened, or one whose defaults the step counts.
LEMMA DefaultsFrame ==
    ASSUME ShopInv, loosened \subseteq loosened',
           \A p \in Products \ loosened' :
               products'[p].status # "NONE" /\ products'[p].group # Null =>
                   \/ Fits(p)'
                   \/ /\ products[p].status # "NONE" /\ products'[p].group = products[p].group
                      /\ DefaultsIn(p, products[p].group)'
                             \subseteq DefaultsIn(p, products[p].group)
                      /\ groups'[products[p].group].max = groups[products[p].group].max
    PROVE  DefaultsExplained'
<1>1. ASSUME NEW p \in Products \ loosened',
             products'[p].status # "NONE", products'[p].group # Null
      PROVE  Fits(p)'
  <2>1. CASE Fits(p)'
    BY <2>1
  <2>2. CASE /\ products[p].status # "NONE" /\ products'[p].group = products[p].group
             /\ DefaultsIn(p, products[p].group)'
                    \subseteq DefaultsIn(p, products[p].group)
             /\ groups'[products[p].group].max = groups[products[p].group].max
    <3>1. PICK A, B, m : /\ A = DefaultsIn(p, products[p].group)
                         /\ B = DefaultsIn(p, products[p].group)'
                         /\ m = groups[products[p].group].max
      OBVIOUS
    <3>2. A \subseteq Options /\ B \subseteq A
      BY <2>2, <3>1 DEF DefaultsIn
    <3>3. IsFiniteSet(A)
      BY <3>2, FS_Subset, CatalogAssumption
    <3>4. /\ Cardinality(B) <= Cardinality(A)
          /\ Cardinality(A) \in Nat /\ Cardinality(B) \in Nat
      BY <3>2, <3>3, FS_Subset, FS_CardinalityType
    <3>5. Cardinality(A) <= m
      <4>1. p \in Products \ loosened /\ products[p].status # "NONE"
            /\ products[p].group # Null
        BY <1>1, <2>2
      <4>2. Cardinality(DefaultsIn(p, products[p].group))
                <= groups[products[p].group].max
        BY <4>1 DEF ShopInv, DefaultsExplained
      <4>. QED  BY <3>1, <4>2
    <3>6. m \in Nat
      <4>1. products[p].group \in Groups
        BY <1>1, <2>2 DEF ShopInv, RowsTyped, Product
      <4>2. groups[products[p].group] \in Group
        BY <4>1 DEF ShopInv, RowsTyped
      <4>. QED  BY <3>1, <4>2, CatalogAssumption DEF Group
    <3>7. groups'[products'[p].group].max = m
      BY <2>2, <3>1
    <3>8. Cardinality(B) <= groups'[products'[p].group].max
      BY <3>4, <3>5, <3>6, <3>7
    <3>9. B = {o \in Options : /\ configured'[p][o].present /\ configured'[p][o].default
                               /\ options'[o].group = products'[p].group
                               /\ Kept(options'[o])}
      BY <2>2, <3>1 DEF DefaultsIn
    <3>. QED  BY <3>8, <3>9 DEF Fits, DefaultsIn
  <2>. QED  BY <1>1, <2>1, <2>2
<1>. QED  BY ONLY <1>1 DEF Fits, DefaultsExplained, DefaultsIn

\* Steps that write no modifiers.
LEMMA ModifiersFrame ==
    ASSUME ShopInv, RowsTyped',
           UNCHANGED <<groups, options, configured, loosened>>,
           \A p \in Products : /\ products'[p].group = products[p].group
                               /\ products'[p].status = "NONE" <=> products[p].status = "NONE"
    PROVE  ConfiguredHolds' /\ DefaultsExplained'
<1>1. ConfiguredHolds'
  BY DEF ShopInv, ConfiguredHolds
<1>2. DefaultsExplained'
  BY DefaultsFrame DEF DefaultsIn, Kept
<1>. QED  BY <1>1, <1>2

LEMMA CartFrame == ASSUME ShopInv, UNCHANGED cart PROVE CartHolds'
BY DEF ShopInv, CartHolds

\* The store's own commands write nothing the invariant speaks of.
LEMMA StoreKeepsShop ==
    ASSUME ShopInv, NEW status, NEW accepting, NEW mainActive,
           WriteStore(status, accepting, mainActive)
    PROVE  ShopInv'
<1>1. UNCHANGED <<categories, products, sizes, groups, options, configured, loosened, cart>>
  BY DEF WriteStore, Changes
<1>2. RowsTyped'
  BY <1>1 DEF ShopInv, RowsTyped
<1>3. PricingHolds'
  BY <1>1, PricingFrame
<1>4. CategoriesHold'
  BY <1>1, CategoriesFrame
<1>5. ConfiguredHolds' /\ DefaultsExplained'
  BY <1>1, <1>2, ModifiersFrame
<1>6. CartHolds'
  BY <1>1, CartFrame
<1>. QED  BY <1>2, <1>3, <1>4, <1>5, <1>6 DEF ShopInv

\* A category that is created or changed: it may be moved only without children of its own,
\* and what it is moved under is a root.
LEMMA CategoryKeepsShop ==
    ASSUME ShopInv,
           NEW c \in Categories, NEW parent \in Categories \cup {Null}, NEW status \in Usable,
           CreateCategory(c, parent, status) \/ UpdateCategory(c, parent, status)
    PROVE  ShopInv'
<1>1. /\ UNCHANGED <<products, sizes, groups, options, configured, loosened, cart>>
      /\ categories' = [categories EXCEPT ![c] = [status |-> status, parent |-> parent]]
  BY DEF CreateCategory, UpdateCategory, Changes
<1>2. RowsTyped'
  <2>1. [status |-> status, parent |-> parent] \in CategoryRow
    BY DEF CategoryRow, Usable, RowStatuses
  <2>. QED  BY <1>1, <2>1 DEF ShopInv, RowsTyped
<1>3. PricingHolds'
  BY <1>1, PricingFrame
<1>4. CategoriesHold'
  <2>1. /\ categories \in [Categories -> CategoryRow]
        /\ categories'[c] = [status |-> status, parent |-> parent]
        /\ \A d \in Categories \ {c} : categories'[d] = categories[d]
    BY <1>1 DEF ShopInv, RowsTyped
  <2>2. Kept(categories'[c]) /\ categories'[c].parent = parent
    BY <2>1 DEF Kept
  <2>3. \A d \in Categories : Kept(categories[d]) => Kept(categories'[d])
    BY <2>1, <2>2
  <2>4. ASSUME NEW d \in Categories, Kept(categories'[d]), categories'[d].parent # Null
        PROVE  Kept(categories'[categories'[d].parent])
                   /\ categories'[categories'[d].parent].parent = Null
    <3>1. CASE d = c /\ ~(Kept(categories[c]) /\ parent = categories[c].parent)
      <4>1. parent \in Categories /\ IsParent(parent) /\ parent # c
        BY <2>2, <2>4, <3>1
           DEF CreateCategory, UpdateCategory, MayMove, IsParent, Kept,
               Usable
      <4>. QED  BY <2>1, <2>2, <3>1, <4>1 DEF IsParent
    <3>2. CASE d = c /\ Kept(categories[c]) /\ parent = categories[c].parent
      <4>1. parent \in Categories /\ IsParent(parent)
        BY <2>2, <2>4, <3>2 DEF ShopInv, CategoriesHold
      <4>. QED  BY <2>1, <2>2, <2>3, <3>2, <4>1 DEF IsParent
    <3>3. CASE d # c
      <4>1. PICK e : e = categories[d].parent
        OBVIOUS
      <4>2. Kept(categories[d]) /\ e # Null /\ categories'[d].parent = e
        BY <2>1, <2>4, <3>3, <4>1
      <4>3. e \in Categories
        BY <2>1, <4>1, <4>2 DEF CategoryRow
      <4>4. IsParent(e)
        BY <4>1, <4>2 DEF ShopInv, CategoriesHold
      <4>5. ASSUME e = c PROVE parent = Null
        <5>1. Kept(categories[c]) /\ categories[c].parent = Null
          BY <4>4, <4>5 DEF IsParent
        <5>2. UpdateCategory(c, parent, status)
          BY <5>1 DEF CreateCategory, Kept, Usable
        <5>3. d \in Children(c)
          BY <4>1, <4>2, <4>5 DEF Children
        <5>. QED  BY <5>1, <5>2, <5>3 DEF UpdateCategory, MayMove
      <4>. QED  BY <2>1, <2>2, <2>3, <4>2, <4>3, <4>4, <4>5 DEF IsParent
    <3>. QED  BY <3>1, <3>2, <3>3
  <2>5. ASSUME NEW p \in Products, Kept(products'[p]), products'[p].category # Null
        PROVE  Kept(categories'[products'[p].category])
    <3>1. products[p].category \in Categories
      BY <1>1, <2>5 DEF ShopInv, RowsTyped, Product
    <3>. QED  BY <1>1, <2>3, <2>5, <3>1 DEF ShopInv, CategoriesHold
  <2>. QED  BY <2>4, <2>5 DEF CategoriesHold, IsParent, Kept
<1>5. ConfiguredHolds' /\ DefaultsExplained'
  BY <1>1, <1>2, ModifiersFrame
<1>6. CartHolds'
  BY <1>1, CartFrame
<1>. QED  BY <1>2, <1>3, <1>4, <1>5, <1>6 DEF ShopInv

\* A category is archived with its products, and only without children.
LEMMA ArchiveCategoryKeepsShop ==
    ASSUME ShopInv, NEW c \in Categories, ArchiveCategory(c)
    PROVE  ShopInv'
<1>1. /\ UNCHANGED <<sizes, groups, options, configured, loosened, cart>>
      /\ categories' = [categories EXCEPT ![c].status = "ARCHIVED"]
      /\ products' = WithoutCategory(c)
  BY DEF ArchiveCategory, Changes
<1>2. /\ categories \in [Categories -> CategoryRow] /\ products \in [Products -> Product]
  BY DEF ShopInv, RowsTyped
<1>3. /\ categories'[c].status = "ARCHIVED"
      /\ \A d \in Categories \ {c} : categories'[d] = categories[d]
      /\ categories' \in [Categories -> CategoryRow]
  BY <1>1, <1>2 DEF CategoryRow, RowStatuses
<1>4. ASSUME NEW p \in Products
      PROVE  /\ products'[p] \in Product
             /\ products'[p].base = products[p].base
             /\ products'[p].group = products[p].group
             /\ products'[p].category = products[p].category
             /\ products'[p].status = "NONE" <=> products[p].status = "NONE"
             /\ Kept(products'[p]) =>
                    Kept(products[p]) /\ products[p].category # c
  <2>1. products[p] \in Product
    BY <1>2
  <2>2. CASE products[p].category = c /\ Kept(products[p])
    <3>1. products'[p] = [products[p] EXCEPT !.status = "ARCHIVED"]
      BY <1>1, <2>2 DEF WithoutCategory
    <3>. QED  BY <2>1, <2>2, <3>1 DEF Product, RowStatuses, Kept, Usable
  <2>3. CASE ~(products[p].category = c /\ Kept(products[p]))
    <3>1. products'[p] = products[p]
      BY <1>1, <2>3 DEF WithoutCategory
    <3>. QED  BY <2>1, <2>3, <3>1
  <2>. QED  BY <2>2, <2>3
<1>5. products' \in [Products -> Product]
  BY <1>1, <1>4 DEF WithoutCategory
<1>6. RowsTyped'
  BY <1>1, <1>3, <1>5 DEF ShopInv, RowsTyped
<1>7. PricingHolds'
  BY <1>1, <1>4, PricingFrame
<1>8. CategoriesHold'
  <2>1. ~Kept(categories'[c])
    BY <1>3 DEF Kept, Usable
  <2>2. ASSUME NEW d \in Categories, Kept(categories'[d]), categories'[d].parent # Null
        PROVE  /\ Kept(categories'[categories'[d].parent])
               /\ categories'[categories'[d].parent].parent = Null
    <3>1. PICK e : e = categories[d].parent
      OBVIOUS
    <3>2. d # c /\ Kept(categories[d]) /\ e # Null /\ categories'[d].parent = e
      BY <1>3, <2>1, <2>2, <3>1
    <3>3. e \in Categories
      BY <1>2, <3>1, <3>2 DEF CategoryRow
    <3>4. IsParent(e)
      BY <3>1, <3>2 DEF ShopInv, CategoriesHold
    <3>5. e # c
      <4>1. ASSUME e = c PROVE FALSE
        <5>1. d \in Children(c)
          BY <3>1, <3>2, <4>1 DEF Children
        <5>. QED  BY <3>4, <4>1, <5>1 DEF ArchiveCategory, IsParent
      <4>. QED  BY <4>1
    <3>. QED  BY <1>3, <3>2, <3>3, <3>4, <3>5 DEF IsParent
  <2>3. ASSUME NEW p \in Products, Kept(products'[p]), products'[p].category # Null
        PROVE  Kept(categories'[products'[p].category])
    <3>1. /\ Kept(products[p]) /\ products'[p].category = products[p].category
          /\ products[p].category # c
      BY <1>4, <2>3
    <3>2. products[p].category \in Categories
      BY <1>2, <2>3, <3>1 DEF Product
    <3>. QED  BY <1>3, <2>3, <3>1, <3>2 DEF ShopInv, CategoriesHold
  <2>. QED  BY <2>2, <2>3 DEF CategoriesHold, IsParent, Kept
<1>9. ConfiguredHolds' /\ DefaultsExplained'
  BY <1>1, <1>4, <1>6, ModifiersFrame
<1>10. CartHolds'
  BY <1>1, CartFrame
<1>. QED  BY <1>6, <1>7, <1>8, <1>9, <1>10 DEF ShopInv

\* A product begins with a base price, or with sizes and an ACTIVE default; and without
\* options, whatever group it is given.
LEMMA CreateProductKeepsShop ==
    ASSUME ShopInv, NEW p \in Products, NEW f \in ProductGiven,
           NEW chosen \in SUBSET Sizes, NEW price \in 1 .. MaxPrice,
           NEW active \in SUBSET chosen, NEW default \in chosen \cup {Null},
           CreateProduct(p, f, chosen, active, default, price)
    PROVE  ShopInv'
<1>1. /\ UNCHANGED <<categories, groups, options, configured, loosened, cart>>
      /\ products[p].status = "NONE"
      /\ products' = [products EXCEPT ![p] = f]
  BY DEF CreateProduct, Changes
<1>2. sizes' = [sizes EXCEPT ![p] = [s \in Sizes |->
           [ status |-> IF s \in active THEN "ACTIVE"
                        ELSE IF s \in chosen THEN "INACTIVE" ELSE "NONE",
             default |-> s \in chosen /\ s = default, price |-> price ]]]
  BY DEF CreateProduct
<1>3. f \in Product /\ f.status \in Usable
  BY DEF ProductGiven
<1>4. /\ products'[p] = f /\ \A q \in Products \ {p} : products'[q] = products[q]
      /\ products' \in [Products -> Product]
  BY <1>1, <1>3 DEF ShopInv, RowsTyped
<1>5. /\ sizes'[p] = [s \in Sizes |->
           [ status |-> IF s \in active THEN "ACTIVE"
                        ELSE IF s \in chosen THEN "INACTIVE" ELSE "NONE",
             default |-> s \in chosen /\ s = default, price |-> price ]]
      /\ \A q \in Products \ {p} : sizes'[q] = sizes[q]
  BY <1>2 DEF ShopInv, RowsTyped
<1>6. sizes'[p] \in [Sizes -> Size]
  BY <1>5 DEF Size, RowStatuses
<1>7. RowsTyped'
  <2>1. sizes' \in [Products -> [Sizes -> Size]]
    BY <1>2, <1>5, <1>6 DEF ShopInv, RowsTyped
  <2>. QED  BY <1>1, <1>4, <2>1 DEF ShopInv, RowsTyped
<1>8. PricingHolds'
  <2>1. ASSUME NEW s \in Sizes
        PROVE  /\ sizes'[p][s].status = IF s \in active THEN "ACTIVE"
                                        ELSE IF s \in chosen THEN "INACTIVE" ELSE "NONE"
               /\ sizes'[p][s].default = (s \in chosen /\ s = default)
    <3>1. PICK d : d = (s \in chosen /\ s = default)
      OBVIOUS
    <3>2. sizes'[p][s] = [ status |-> IF s \in active THEN "ACTIVE"
                                      ELSE IF s \in chosen THEN "INACTIVE" ELSE "NONE",
                           default |-> d, price |-> price ]
      BY <1>5, <3>1, Zenon
    <3>3. sizes'[p][s].status = IF s \in active THEN "ACTIVE"
                                ELSE IF s \in chosen THEN "INACTIVE" ELSE "NONE"
      BY <3>2
    <3>4. sizes'[p][s].default = d
      BY <3>2
    <3>. QED  BY <3>1, <3>3, <3>4, Zenon
  <2>2. {s \in Sizes : Kept(sizes'[p][s])} = chosen
    BY <2>1 DEF Kept, Usable
  <2>3. {s \in Sizes : sizes'[p][s].status = "ACTIVE"} = active
    BY <2>1
  <2>4. f.base > 0 <=> chosen = {}
    BY <1>3 DEF CreateProduct
  <2>5. chosen # {} => default \in active
    BY DEF CreateProduct
  <2>6. default \in active => {t \in chosen : sizes'[p][t].default} = {default}
    BY <2>1
  <2>7. ASSUME NEW q \in Products, products'[q].status # "NONE"
        PROVE  /\ products'[q].base > 0 <=> {s \in Sizes : Kept(sizes'[q][s])} = {}
               /\ {s \in Sizes : Kept(sizes'[q][s])} # {} =>
                    \E s \in {s \in Sizes : sizes'[q][s].status = "ACTIVE"} :
                        {t \in {s1 \in Sizes : Kept(sizes'[q][s1])} :
                            sizes'[q][t].default} = {s}
    <3>1. CASE q = p
      BY <1>4, <2>2, <2>3, <2>4, <2>5, <2>6, <3>1
    <3>2. CASE q # p
      <4>1. products'[q] = products[q] /\ sizes'[q] = sizes[q]
        BY <1>4, <1>5, <3>2
      <4>. QED  BY <2>7, <4>1 DEF ShopInv, PricingHolds, Remaining, Actives
    <3>. QED  BY <3>1, <3>2
  <2>. QED  BY ONLY <2>7 DEF PricingHolds, Remaining, Actives, Kept
<1>9. CategoriesHold'
  <2>1. f.category # Null => Kept(categories[f.category])
    BY DEF CreateProduct, MayAssign
  <2>. QED  BY <1>1, <1>4, <2>1 DEF ShopInv, CategoriesHold, IsParent, Kept
<1>10. f.group # Null => groups[f.group].status # "NONE"
  BY DEF CreateProduct, MayAssign, Kept, Usable
<1>11. ConfiguredHolds'
  <2>1. f.status # "NONE"
    BY <1>3 DEF Usable
  <2>. QED  BY <1>1, <1>4, <1>10, <2>1 DEF ShopInv, ConfiguredHolds
<1>12. DefaultsExplained'
  <2>1. ASSUME f.group # Null PROVE Fits(p)'
    <3>1. \A o \in Options : ~configured'[p][o].present
      BY <1>1 DEF ShopInv, ConfiguredHolds
    <3>2. {o \in Options : /\ configured'[p][o].present /\ configured'[p][o].default
                           /\ options'[o].group = products'[p].group
                           /\ Kept(options'[o])} = {}
      BY <3>1
    <3>3. groups'[products'[p].group].max \in Nat
      <4>1. f.group \in Groups
        BY <1>3, <2>1 DEF Product
      <4>2. groups[f.group] \in Group
        BY <4>1 DEF ShopInv, RowsTyped
      <4>. QED  BY <1>1, <1>4, <4>2, CatalogAssumption DEF Group
    <3>4. Cardinality({}) = 0
      BY FS_EmptySet
    <3>5. Cardinality({o \in Options :
                                /\ configured'[p][o].present /\ configured'[p][o].default
                                /\ options'[o].group = products'[p].group
                                /\ Kept(options'[o])}) <= groups'[products'[p].group].max
      <4>1. 0 <= groups'[products'[p].group].max
        BY <3>3
      <4>. QED  BY <3>2, <3>4, <4>1, Zenon
    <3>. QED  BY <3>5 DEF Fits, DefaultsIn
  <2>2. \A q \in Products \ {p} : DefaultsIn(q, products[q].group)'
                                      = DefaultsIn(q, products[q].group)
    BY <1>1, <1>4 DEF DefaultsIn, Kept
  <2>. QED  BY <1>1, <1>4, <2>1, <2>2, DefaultsFrame
<1>13. CartHolds'
  BY <1>1, CartFrame
<1>. QED  BY <1>7, <1>8, <1>9, <1>11, <1>12, <1>13 DEF ShopInv

\* A product that changes groups may have too many defaults; any other keeps what it has.
LEMMA UpdateProductKeepsShop ==
    ASSUME ShopInv, NEW p \in Products, NEW f \in ProductGiven,
           UpdateProduct(p, f)
    PROVE  ShopInv'
<1>1. /\ UNCHANGED <<categories, sizes, groups, options, configured, cart>>
      /\ Kept(products[p])
      /\ products' = [products EXCEPT ![p] = f]
      /\ loosened' = loosened \cup (IF f.group = products[p].group THEN {} ELSE {p})
  BY DEF UpdateProduct, Changes
<1>2. f \in Product /\ f.status \in Usable
  BY DEF ProductGiven
<1>3. /\ products'[p] = f /\ \A q \in Products \ {p} : products'[q] = products[q]
      /\ products' \in [Products -> Product]
  BY <1>1, <1>2 DEF ShopInv, RowsTyped
<1>4. f.status # "NONE" /\ products[p].status # "NONE"
  BY <1>1, <1>2 DEF Kept, Usable
<1>5. RowsTyped'
  BY <1>1, <1>3 DEF ShopInv, RowsTyped
<1>6. PricingHolds'
  <2>1. f.base > 0 <=> Remaining(p) = {}
    BY <1>4 DEF UpdateProduct, ShopInv, PricingHolds
  <2>2. \A q \in Products : products'[q].status # "NONE" =>
            /\ products[q].status # "NONE"
            /\ products'[q].base > 0 <=> Remaining(q) = {}
    BY <1>3, <1>4, <2>1 DEF ShopInv, PricingHolds
  <2>3. \A q \in Products : Remaining(q)' = Remaining(q)
                                /\ Actives(q)' = Actives(q)
    BY <1>1 DEF Remaining, Actives, Kept
  <2>. QED  BY <1>1, <2>2, <2>3 DEF ShopInv, PricingHolds
<1>7. CategoriesHold'
  <2>1. f.category # Null => Kept(categories[f.category])
    BY <1>1 DEF UpdateProduct, MayAssign, ShopInv, CategoriesHold
  <2>. QED  BY <1>1, <1>3, <2>1 DEF ShopInv, CategoriesHold, IsParent, Kept
<1>8. ConfiguredHolds'
  <2>1. f.group # Null => groups[f.group].status # "NONE"
    <3>1. CASE f.group = products[p].group
      BY <1>4, <3>1 DEF ShopInv, ConfiguredHolds
    <3>2. CASE f.group # products[p].group
      BY <3>2 DEF UpdateProduct, MayAssign, Kept, Usable
    <3>. QED  BY <3>1, <3>2
  <2>. QED  BY <1>1, <1>3, <1>4, <2>1 DEF ShopInv, ConfiguredHolds
<1>9. DefaultsExplained'
  <2>1. \A q \in Products : products'[q].group = products[q].group =>
            DefaultsIn(q, products[q].group)' = DefaultsIn(q, products[q].group)
    BY <1>1 DEF DefaultsIn, Kept
  <2>2. \A q \in Products \ loosened' : products'[q].group = products[q].group
                                            /\ (products'[q].status # "NONE" =>
                                                    products[q].status # "NONE")
    BY <1>1, <1>3, <1>4
  <2>. QED  BY <1>1, <2>1, <2>2, DefaultsFrame
<1>10. CartHolds'
  BY <1>1, CartFrame
<1>. QED  BY <1>5, <1>6, <1>7, <1>8, <1>9, <1>10 DEF ShopInv

LEMMA ArchiveProductKeepsShop ==
    ASSUME ShopInv, NEW p \in Products, ArchiveProduct(p)
    PROVE  ShopInv'
<1>1. /\ UNCHANGED <<categories, sizes, groups, options, configured, loosened, cart>>
      /\ Kept(products[p])
      /\ products' = [products EXCEPT ![p].status = "ARCHIVED"]
  BY DEF ArchiveProduct, Changes
<1>2. products[p] \in Product /\ products \in [Products -> Product]
  BY DEF ShopInv, RowsTyped
<1>3. /\ products'[p].base = products[p].base /\ products'[p].group = products[p].group
      /\ products'[p].category = products[p].category /\ products'[p].status = "ARCHIVED"
      /\ \A q \in Products \ {p} : products'[q] = products[q]
      /\ products' \in [Products -> Product]
  BY <1>1, <1>2 DEF Product, RowStatuses
<1>4. products[p].status # "NONE"
  BY <1>1 DEF Kept, Usable
<1>5. RowsTyped'
  BY <1>1, <1>3 DEF ShopInv, RowsTyped
<1>6. PricingHolds'
  <2>1. \A q \in Products : /\ products'[q].base = products[q].base
                            /\ products[q].status = "NONE" => products'[q].status = "NONE"
    BY <1>3, <1>4
  <2>. QED  BY <1>1, <2>1, PricingFrame
<1>7. CategoriesHold'
  <2>1. ~Kept(products'[p])
    BY <1>3 DEF Kept, Usable
  <2>2. \A q \in Products : Kept(products'[q]) =>
            Kept(products[q]) /\ products'[q].category = products[q].category
    BY <1>3, <2>1
  <2>. QED  BY <1>1, <2>2, CategoriesFrame
<1>8. ConfiguredHolds' /\ DefaultsExplained'
  <2>1. \A q \in Products : /\ products'[q].group = products[q].group
                            /\ products'[q].status = "NONE" <=> products[q].status = "NONE"
    BY <1>3, <1>4
  <2>. QED  BY <1>1, <1>5, <2>1, ModifiersFrame
<1>9. CartHolds'
  BY <1>1, CartFrame
<1>. QED  BY <1>5, <1>6, <1>7, <1>8, <1>9 DEF ShopInv

\* What is written of a size: its row, and which of the others is the default.
LEMMA WriteSizeWrites ==
    ASSUME ShopInv, NEW p \in Products, NEW s \in Sizes,
           NEW row \in Size, NEW r \in Sizes \cup {Null}, WriteSize(p, s, row, r)
    PROVE  /\ sizes' \in [Products -> [Sizes -> Size]]
           /\ sizes'[p][s] = row
           /\ \A t \in Sizes \ {s} :
                  /\ sizes'[p][t].status = sizes[p][t].status
                  /\ r = Null => sizes'[p][t].default = sizes[p][t].default
                  /\ r # Null => sizes'[p][t].default = (t = r)
           /\ \A q \in Products \ {p} : sizes'[q] = sizes[q]
<1>1. PICK w : w = WithDefault(p, r)
  OBVIOUS
<1>2. sizes' = [sizes EXCEPT ![p] = [w EXCEPT ![s] = row]]
  BY <1>1 DEF WriteSize
<1>3. w = [t \in Sizes |-> IF r = Null THEN sizes[p][t]
                           ELSE [sizes[p][t] EXCEPT !.default = (t = r)]]
  BY <1>1 DEF WithDefault
<1>4. sizes \in [Products -> [Sizes -> Size]]
  BY DEF ShopInv, RowsTyped
<1>5. ASSUME NEW t \in Sizes
      PROVE  /\ w[t] \in Size
             /\ w[t].status = sizes[p][t].status
             /\ r = Null => w[t].default = sizes[p][t].default
             /\ r # Null => w[t].default = (t = r)
  <2>1. PICK d \in BOOLEAN : d = (t = r)
    OBVIOUS
  <2>2. PICK old \in Size : old = sizes[p][t]
    BY <1>4
  <2>3. w[t] = IF r = Null THEN old ELSE [old EXCEPT !.default = d]
    BY <1>3, <2>1, <2>2, Zenon
  <2>4. /\ w[t] \in Size /\ w[t].status = old.status
        /\ r = Null => w[t].default = old.default
        /\ r # Null => w[t].default = d
    BY <2>3 DEF Size
  <2>. QED  BY <2>1, <2>2, <2>4, Zenon
<1>6. w \in [Sizes -> Size]
  BY <1>3, <1>5
<1>7. sizes'[p] = [w EXCEPT ![s] = row] /\ \A q \in Products \ {p} : sizes'[q] = sizes[q]
  BY <1>2, <1>4
<1>8. sizes'[p][s] = row /\ \A t \in Sizes \ {s} : sizes'[p][t] = w[t]
  BY <1>6, <1>7
<1>9. sizes' \in [Products -> [Sizes -> Size]]
  BY <1>2, <1>4, <1>6
<1>. QED  BY <1>5, <1>7, <1>8, <1>9, Zenon

\* One product's part of PricingHolds.
Priced(p) ==
    /\ products[p].base > 0 <=> Remaining(p) = {}
    /\ Remaining(p) # {} =>
           \E s \in Actives(p) : {t \in Remaining(p) : sizes[p][t].default} = {s}

\* A command of a size keeps the invariant if it leaves its product priced.
LEMMA SizeStep ==
    ASSUME ShopInv, NEW p \in Products, NEW s \in Sizes,
           NEW row \in Size, NEW r \in Sizes \cup {Null}, WriteSize(p, s, row, r),
           NEW b \in 0 .. MaxPrice, products' = [products EXCEPT ![p].base = b],
           UNCHANGED <<categories, groups, options, configured, loosened, cart>>,
           Priced(p)'
    PROVE  ShopInv'
<1>1. /\ sizes' \in [Products -> [Sizes -> Size]]
      /\ \A q \in Products \ {p} : sizes'[q] = sizes[q]
  BY WriteSizeWrites
<1>2. products[p] \in Product /\ products \in [Products -> Product]
  BY DEF ShopInv, RowsTyped
<1>3. /\ products'[p].group = products[p].group
      /\ products'[p].category = products[p].category
      /\ products'[p].status = products[p].status
      /\ \A q \in Products \ {p} : products'[q] = products[q]
      /\ products' \in [Products -> Product]
  BY <1>2 DEF Product
<1>4. RowsTyped'
  BY <1>1, <1>3 DEF ShopInv, RowsTyped
<1>5. PricingHolds'
  <2>1. ASSUME NEW q \in Products, products'[q].status # "NONE"
        PROVE  Priced(q)'
    <3>1. CASE q = p
      BY <3>1
    <3>2. CASE q # p
      <4>1. products'[q] = products[q] /\ sizes'[q] = sizes[q]
        BY <1>1, <1>3, <3>2
      <4>2. Priced(q)
        BY <2>1, <4>1 DEF ShopInv, PricingHolds, Priced
      <4>. QED  BY ONLY <4>1, <4>2 DEF Priced, Remaining, Actives, Kept
    <3>. QED  BY <3>1, <3>2
  <2>. QED  BY ONLY <2>1 DEF PricingHolds, Priced, Remaining, Actives, Kept
<1>6. CategoriesHold'
  <2>1. \A q \in Products : Kept(products'[q]) =>
            Kept(products[q]) /\ products'[q].category = products[q].category
    BY <1>3 DEF Kept
  <2>. QED  BY <2>1, CategoriesFrame
<1>7. ConfiguredHolds' /\ DefaultsExplained'
  <2>1. \A q \in Products : /\ products'[q].group = products[q].group
                            /\ products'[q].status = "NONE" <=> products[q].status = "NONE"
    BY <1>3
  <2>. QED  BY <1>4, <2>1, ModifiersFrame
<1>8. CartHolds'
  BY CartFrame
<1>. QED  BY <1>4, <1>5, <1>6, <1>7, <1>8 DEF ShopInv

\* A size is added to others, to none that are left, or in the place of the base price.
LEMMA AddSizeKeepsShop ==
    ASSUME ShopInv, NEW p \in Products, NEW s \in Sizes,
           NEW row \in SizeGiven, AddSize(p, s, row)
    PROVE  ShopInv'
<1>1. row \in Size /\ row.status \in Usable
  BY DEF SizeGiven
<1>2. PICK r \in Sizes \cup {Null} : r = IF row.default THEN s ELSE Null
  OBVIOUS
<1>3. /\ UNCHANGED <<categories, groups, options, configured, loosened, cart>>
      /\ WriteSize(p, s, row, r) /\ products' = [products EXCEPT ![p].base = 0]
      /\ Kept(products[p]) /\ sizes[p][s].status = "NONE"
      /\ row.default => row.status = "ACTIVE"
      /\ IF Remaining(p) = {} THEN row.default ELSE products[p].base = 0
  BY <1>2 DEF AddSize, Changes
<1>4. /\ sizes'[p][s] = row
      /\ \A t \in Sizes \ {s} :
             /\ sizes'[p][t].status = sizes[p][t].status
             /\ r = Null => sizes'[p][t].default = sizes[p][t].default
             /\ r # Null => sizes'[p][t].default = (t = r)
  BY <1>1, <1>3, WriteSizeWrites
<1>5. products'[p].base = 0
  BY <1>3 DEF ShopInv, RowsTyped, Product
<1>6. Priced(p)
  BY <1>3 DEF ShopInv, PricingHolds, Priced, Kept, Usable
<1>7. PICK R, S, A : /\ R = Remaining(p) /\ S = Remaining(p)'
                     /\ A = Actives(p)'
  OBVIOUS
<1>8. /\ \A t \in Sizes \ {s} : /\ t \in S <=> t \in R
                                /\ t \in A <=> t \in Actives(p)
      /\ s \in S /\ s \notin R /\ S \subseteq Sizes /\ R \subseteq Sizes
      /\ s \in A <=> row.status = "ACTIVE"
  BY <1>1, <1>3, <1>4, <1>7 DEF Remaining, Actives, Kept, Usable
<1>9. \E d \in A : {t \in S : sizes'[p][t].default} = {d}
  <2>1. CASE row.default
    <3>1. r = s /\ r # Null
      BY <1>2, <2>1, CatalogAssumption
    <3>2. \A t \in S : sizes'[p][t].default <=> t = s
      BY <1>4, <1>8, <2>1, <3>1
    <3>. QED  BY <1>3, <1>8, <2>1, <3>2
  <2>2. CASE ~row.default
    <3>1. r = Null
      BY <1>2, <2>2
    <3>2. PICK d \in Actives(p) : {t \in R : sizes[p][t].default} = {d}
      BY <1>3, <1>6, <1>7, <2>2 DEF Priced
    <3>3. d \in R /\ d # s /\ d \in A
      BY <1>8, <3>2
    <3>4. \A t \in S : sizes'[p][t].default <=> t = d
      <4>1. \A t \in R : sizes[p][t].default <=> t = d
        BY <3>2
      <4>. QED  BY <1>4, <1>8, <2>2, <3>1, <3>3, <4>1
    <3>. QED  BY <1>8, <3>3, <3>4
  <2>. QED  BY <2>1, <2>2
<1>10. Priced(p)'
  BY <1>5, <1>7, <1>8, <1>9 DEF Priced
<1>11. 0 \in 0 .. MaxPrice
  BY CatalogAssumption
<1>. QED  BY <1>1, <1>3, <1>10, <1>11, SizeStep

\* A size that stops being the default names an ACTIVE one that follows it.
LEMMA UpdateSizeKeepsShop ==
    ASSUME ShopInv, NEW p \in Products, NEW s \in Sizes,
           NEW row \in SizeGiven, NEW replacement \in Sizes \cup {Null},
           UpdateSize(p, s, row, replacement)
    PROVE  ShopInv'
<1>1. row \in Size /\ row.status \in Usable
  BY DEF SizeGiven
<1>2. PICK r \in Sizes \cup {Null} :
          /\ WriteSize(p, s, row, r)
          /\ \/ sizes[p][s].default /\ ~row.default /\ r \in Actives(p) \ {s}
             \/ row.default /\ r = s
             \/ ~sizes[p][s].default /\ ~row.default /\ r = Null
  BY DEF UpdateSize, MayFollow
<1>3. /\ UNCHANGED <<categories, products, groups, options, configured, loosened, cart>>
      /\ Kept(products[p]) /\ Kept(sizes[p][s])
      /\ row.default => row.status = "ACTIVE"
  BY DEF UpdateSize, Changes
<1>4. /\ sizes'[p][s] = row
      /\ \A t \in Sizes \ {s} :
             /\ sizes'[p][t].status = sizes[p][t].status
             /\ r = Null => sizes'[p][t].default = sizes[p][t].default
             /\ r # Null => sizes'[p][t].default = (t = r)
  BY <1>1, <1>2, WriteSizeWrites
<1>5. Priced(p)
  BY <1>3 DEF ShopInv, PricingHolds, Priced, Kept, Usable
<1>6. PICK R, S, A, B : /\ R = Remaining(p) /\ S = Remaining(p)'
                        /\ A = Actives(p)' /\ B = Actives(p)
  OBVIOUS
<1>7. /\ \A t \in Sizes \ {s} : /\ t \in S <=> t \in R
                                /\ t \in A <=> t \in B
      /\ s \in S /\ s \in R /\ S \subseteq Sizes /\ R \subseteq Sizes /\ B \subseteq R
      /\ s \in A <=> row.status = "ACTIVE"
  BY <1>1, <1>3, <1>4, <1>6 DEF Remaining, Actives, Kept, Usable
<1>8. PICK d \in B : {t \in R : sizes[p][t].default} = {d}
  BY <1>5, <1>6, <1>7 DEF Priced
<1>9. \A t \in R : sizes[p][t].default <=> t = d
  BY <1>8
<1>10. \E e \in A : {t \in S : sizes'[p][t].default} = {e}
  <2>1. CASE sizes[p][s].default /\ ~row.default /\ r \in Actives(p) \ {s}
    <3>1. r # Null /\ r \in B /\ r # s
      BY <1>6, <1>7, <2>1, CatalogAssumption
    <3>2. \A t \in S : sizes'[p][t].default <=> t = r
      BY <1>4, <1>7, <2>1, <3>1
    <3>. QED  BY <1>7, <3>1, <3>2
  <2>2. CASE row.default /\ r = s
    <3>1. r # Null
      BY <2>2, CatalogAssumption
    <3>2. \A t \in S : sizes'[p][t].default <=> t = s
      BY <1>4, <1>7, <2>2, <3>1
    <3>. QED  BY <1>3, <1>7, <2>2, <3>2
  <2>3. CASE ~sizes[p][s].default /\ ~row.default /\ r = Null
    <3>1. d # s
      BY <1>7, <1>9, <2>3
    <3>2. \A t \in S : sizes'[p][t].default <=> t = d
      BY <1>4, <1>7, <1>9, <2>3, <3>1
    <3>. QED  BY <1>7, <3>1, <3>2
  <2>. QED  BY <1>2, <2>1, <2>2, <2>3
<1>11. Priced(p)'
  <2>1. S # {} /\ R # {}
    BY <1>7
  <2>. QED  BY <1>3, <1>5, <1>6, <1>10, <2>1 DEF Priced
<1>12. products[p].base \in 0 .. MaxPrice /\ products' = [products EXCEPT ![p].base = @]
  <2>1. PICK row0 \in Product : row0 = products[p]
    BY DEF ShopInv, RowsTyped
  <2>2. row0.base \in 0 .. MaxPrice /\ [row0 EXCEPT !.base = row0.base] = row0
    BY DEF Product
  <2>. QED  BY <1>3, <2>1, <2>2 DEF ShopInv, RowsTyped
<1>. QED  BY <1>1, <1>2, <1>3, <1>11, <1>12, SizeStep

\* The last size that is archived leaves a base price behind, any other a default.
LEMMA ArchiveSizeKeepsShop ==
    ASSUME ShopInv, NEW p \in Products, NEW s \in Sizes,
           NEW replacement \in Sizes \cup {Null}, NEW price \in 0 .. MaxPrice,
           ArchiveSize(p, s, replacement, price)
    PROVE  ShopInv'
<1>1. PICK old \in Size : old = sizes[p][s]
  BY DEF ShopInv, RowsTyped
<1>2. PICK row : row = [old EXCEPT !.status = "ARCHIVED", !.default = FALSE]
  OBVIOUS
<1>3. row \in Size /\ row.status = "ARCHIVED" /\ ~row.default
  BY <1>2 DEF Size, RowStatuses
<1>4. /\ UNCHANGED <<categories, groups, options, configured, loosened, cart>>
      /\ Kept(products[p]) /\ Kept(sizes[p][s])
      /\ price > 0 <=> Remaining(p) = {s}
      /\ IF sizes[p][s].default /\ price = 0
             THEN replacement \in Actives(p) \ {s}
             ELSE replacement = Null
      /\ WriteSize(p, s, row, replacement)
      /\ products' = [products EXCEPT ![p].base = price]
  BY <1>1, <1>2 DEF ArchiveSize, Changes, MayFollow
<1>5. /\ sizes'[p][s] = row
      /\ \A t \in Sizes \ {s} :
             /\ sizes'[p][t].status = sizes[p][t].status
             /\ replacement = Null => sizes'[p][t].default = sizes[p][t].default
             /\ replacement # Null => sizes'[p][t].default = (t = replacement)
  BY <1>3, <1>4, WriteSizeWrites
<1>6. Priced(p)
  BY <1>4 DEF ShopInv, PricingHolds, Priced, Kept, Usable
<1>7. products'[p].base = price
  BY <1>4 DEF ShopInv, RowsTyped, Product
<1>8. PICK R, S, A, B : /\ R = Remaining(p) /\ S = Remaining(p)'
                        /\ A = Actives(p)' /\ B = Actives(p)
  OBVIOUS
<1>9. /\ \A t \in Sizes \ {s} : /\ t \in S <=> t \in R
                                /\ t \in A <=> t \in B
      /\ s \notin S /\ s \in R /\ S \subseteq Sizes /\ R \subseteq Sizes /\ B \subseteq R
  BY <1>3, <1>4, <1>5, <1>8 DEF Remaining, Actives, Kept, Usable
<1>10. S = {} <=> R = {s}
  BY <1>9
<1>11. PICK d \in B : {t \in R : sizes[p][t].default} = {d}
  BY <1>6, <1>8, <1>9 DEF Priced
<1>12. \A t \in R : sizes[p][t].default <=> t = d
  BY <1>11
<1>13. ASSUME S # {} PROVE \E e \in A : {t \in S : sizes'[p][t].default} = {e}
  <2>1. price = 0
    BY <1>4, <1>8, <1>10, <1>13, CatalogAssumption
  <2>2. CASE sizes[p][s].default
    <3>1. replacement # Null /\ replacement \in B /\ replacement # s
      BY <1>4, <1>8, <1>9, <2>1, <2>2, CatalogAssumption
    <3>2. \A t \in S : sizes'[p][t].default <=> t = replacement
      BY <1>5, <1>9, <3>1
    <3>. QED  BY <1>9, <3>1, <3>2
  <2>3. CASE ~sizes[p][s].default
    <3>1. d # s /\ replacement = Null
      BY <1>4, <1>9, <1>12, <2>3
    <3>2. \A t \in S : sizes'[p][t].default <=> t = d
      BY <1>5, <1>9, <1>12, <3>1
    <3>. QED  BY <1>9, <3>1, <3>2
  <2>. QED  BY <2>2, <2>3
<1>14. Priced(p)'
  BY <1>4, <1>7, <1>8, <1>10, <1>13 DEF Priced
<1>. QED  BY <1>3, <1>4, <1>14, SizeStep

\* A command of groups and options leaves sizes, categories and the cart alone.
LEMMA ModifierStep ==
    ASSUME ShopInv, UNCHANGED <<categories, products, sizes, cart>>,
           RowsTyped', ConfiguredHolds', DefaultsExplained'
    PROVE  ShopInv'
<1>1. PricingHolds'
  BY PricingFrame
<1>2. CategoriesHold'
  BY CategoriesFrame
<1>3. CartHolds'
  BY CartFrame
<1>. QED  BY <1>1, <1>2, <1>3 DEF ShopInv

\* The group is new, so no product has it, and so are its options.
LEMMA CreateGroupKeepsShop ==
    ASSUME ShopInv, NEW g \in Groups, NEW row \in GroupGiven,
           NEW some \in SUBSET Options, CreateGroup(g, row, some)
    PROVE  ShopInv'
<1>1. /\ UNCHANGED <<categories, products, sizes, configured, loosened, cart>>
      /\ groups[g].status = "NONE" /\ \A o \in some : options[o].status = "NONE"
      /\ groups' = [groups EXCEPT ![g] = row]
      /\ options' = [o \in Options |->
             IF o \in some THEN [status |-> "ACTIVE", group |-> g, available |-> TRUE]
                           ELSE options[o]]
  BY DEF CreateGroup, Changes
<1>2. row \in Group /\ row.status \in Usable
  BY DEF GroupGiven
<1>3. /\ groups'[g] = row /\ \A h \in Groups \ {g} : groups'[h] = groups[h]
      /\ groups' \in [Groups -> Group]
  BY <1>1, <1>2 DEF ShopInv, RowsTyped
<1>4. options' \in [Options -> Option]
  BY <1>1 DEF ShopInv, RowsTyped, Option, RowStatuses
<1>5. \A o \in Options : /\ o \in some => options'[o].status = "ACTIVE"
                         /\ o \notin some => options'[o] = options[o]
  BY <1>1
<1>6. RowsTyped'
  BY <1>1, <1>3, <1>4 DEF ShopInv, RowsTyped
<1>7. ConfiguredHolds'
  <2>1. row.status # "NONE"
    BY <1>2 DEF Usable
  <2>2. ASSUME NEW p \in Products, products[p].status # "NONE", products[p].group # Null
        PROVE  groups'[products[p].group].status # "NONE"
    <3>1. products[p].group \in Groups
      BY <2>2 DEF ShopInv, RowsTyped, Product
    <3>. QED  BY <1>3, <2>1, <2>2, <3>1 DEF ShopInv, ConfiguredHolds
  <2>. QED  BY <1>1, <1>5, <2>2 DEF ShopInv, ConfiguredHolds
<1>8. DefaultsExplained'
  <2>1. ASSUME NEW p \in Products, products[p].status # "NONE", products[p].group # Null
        PROVE  /\ DefaultsIn(p, products[p].group)'
                      \subseteq DefaultsIn(p, products[p].group)
               /\ groups'[products[p].group].max = groups[products[p].group].max
    <3>1. products[p].group \in Groups /\ products[p].group # g
      BY <1>1, <2>1 DEF ShopInv, RowsTyped, Product, ConfiguredHolds
    <3>2. \A o \in Options : configured[p][o].present => o \notin some
      BY <1>1 DEF ShopInv, ConfiguredHolds
    <3>3. DefaultsIn(p, products[p].group)'
              \subseteq DefaultsIn(p, products[p].group)
      BY <1>1, <1>5, <3>2 DEF DefaultsIn, Kept
    <3>. QED  BY <1>3, <3>1, <3>3
  <2>. QED  BY <1>1, <2>1, DefaultsFrame
<1>. QED  BY <1>1, <1>6, <1>7, <1>8, ModifierStep

\* A group that admits less is compared with the defaults of every product that has it.
LEMMA UpdateGroupKeepsShop ==
    ASSUME ShopInv, NEW g \in Groups, NEW row \in GroupGiven,
           UpdateGroup(g, row)
    PROVE  ShopInv'
<1>1. /\ UNCHANGED <<categories, products, sizes, options, configured, loosened, cart>>
      /\ groups' = [groups EXCEPT ![g] = row]
  BY DEF UpdateGroup, Changes
<1>2. row \in Group /\ row.status \in Usable
  BY DEF GroupGiven
<1>3. /\ groups'[g] = row /\ \A h \in Groups \ {g} : groups'[h] = groups[h]
      /\ groups' \in [Groups -> Group]
  BY <1>1, <1>2 DEF ShopInv, RowsTyped
<1>4. RowsTyped'
  BY <1>1, <1>3 DEF ShopInv, RowsTyped
<1>5. ConfiguredHolds'
  <2>1. row.status # "NONE"
    BY <1>2 DEF Usable
  <2>2. ASSUME NEW p \in Products, products[p].status # "NONE", products[p].group # Null
        PROVE  groups'[products[p].group].status # "NONE"
    <3>1. products[p].group \in Groups
      BY <2>2 DEF ShopInv, RowsTyped, Product
    <3>. QED  BY <1>3, <2>1, <2>2, <3>1 DEF ShopInv, ConfiguredHolds
  <2>. QED  BY <1>1, <2>2 DEF ShopInv, ConfiguredHolds
<1>6. DefaultsExplained'
  <2>1. ASSUME NEW p \in Products, products[p].group # Null
        PROVE  \/ Fits(p)'
               \/ /\ DefaultsIn(p, products[p].group)'
                         \subseteq DefaultsIn(p, products[p].group)
                  /\ groups'[products[p].group].max = groups[products[p].group].max
    <3>1. products[p].group \in Groups
      BY <2>1 DEF ShopInv, RowsTyped, Product
    <3>2. {o \in Options : /\ configured'[p][o].present /\ configured'[p][o].default
                           /\ options'[o].group = products'[p].group
                           /\ Kept(options'[o])} = DefaultsIn(p, products[p].group)
      BY <1>1 DEF DefaultsIn
    <3>3. CASE products[p].group = g
      <4>1. Cardinality(DefaultsIn(p, products[p].group)) <= row.max
        BY <3>3 DEF UpdateGroup, DefaultsFit
      <4>2. groups'[products'[p].group].max = row.max
        BY <1>1, <1>3, <3>3
      <4>3. Cardinality({o \in Options :
                                 /\ configured'[p][o].present /\ configured'[p][o].default
                                 /\ options'[o].group = products'[p].group
                                 /\ Kept(options'[o])})
                <= groups'[products'[p].group].max
        BY <3>2, <4>1, <4>2, Zenon
      <4>. QED  BY <4>3 DEF Fits, DefaultsIn
    <3>4. CASE products[p].group # g
      <4>1. DefaultsIn(p, products[p].group)' = DefaultsIn(p, products[p].group)
        BY <1>1 DEF DefaultsIn, Kept
      <4>. QED  BY <1>3, <3>1, <3>4, <4>1
    <3>. QED  BY <3>3, <3>4
  <2>. QED  BY <1>1, <2>1, DefaultsFrame
<1>. QED  BY <1>1, <1>4, <1>5, <1>6, ModifierStep

LEMMA SetGroupKeepsShop ==
    ASSUME ShopInv, NEW g \in Groups,
           ArchiveGroup(g) \/ RestoreGroup(g)
    PROVE  ShopInv'
<1>1. PICK to \in {"ARCHIVED", "ACTIVE"} :
          /\ UNCHANGED <<categories, products, sizes, options, configured, loosened, cart>>
          /\ groups' = [groups EXCEPT ![g].status = to]
  BY DEF ArchiveGroup, RestoreGroup, SetGroup, Changes
<1>2. groups[g] \in Group /\ groups \in [Groups -> Group]
  BY DEF ShopInv, RowsTyped
<1>3. /\ groups'[g].status = to /\ groups'[g].max = groups[g].max
      /\ \A h \in Groups \ {g} : groups'[h] = groups[h]
      /\ groups' \in [Groups -> Group]
  BY <1>1, <1>2 DEF Group, RowStatuses
<1>4. RowsTyped'
  BY <1>1, <1>3 DEF ShopInv, RowsTyped
<1>5. ASSUME NEW p \in Products, products[p].group # Null
      PROVE  /\ groups'[products[p].group].max = groups[products[p].group].max
             /\ groups[products[p].group].status # "NONE" =>
                    groups'[products[p].group].status # "NONE"
  <2>1. products[p].group \in Groups
    BY <1>5 DEF ShopInv, RowsTyped, Product
  <2>. QED  BY <1>1, <1>3, <2>1
<1>6. ConfiguredHolds'
  BY <1>1, <1>5 DEF ShopInv, ConfiguredHolds
<1>7. DefaultsExplained'
  <2>1. \A p \in Products :
            DefaultsIn(p, products[p].group)' = DefaultsIn(p, products[p].group)
    BY <1>1 DEF DefaultsIn, Kept
  <2>. QED  BY <1>1, <1>5, <2>1, DefaultsFrame
<1>. QED  BY <1>1, <1>4, <1>6, <1>7, ModifierStep

\* An option that is new is configured by no product.
LEMMA AddOptionKeepsShop ==
    ASSUME ShopInv, NEW o \in Options, NEW g \in Groups,
           NEW status \in Usable, NEW available \in BOOLEAN,
           AddOption(o, g, status, available)
    PROVE  ShopInv'
<1>1. /\ UNCHANGED <<categories, products, sizes, groups, configured, loosened, cart>>
      /\ options[o].status = "NONE"
      /\ options' = [options EXCEPT ![o] =
                        [status |-> status, group |-> g, available |-> available]]
  BY DEF AddOption, Changes
<1>2. [status |-> status, group |-> g, available |-> available] \in Option
  BY DEF Option, Usable, RowStatuses
<1>3. /\ options' \in [Options -> Option]
      /\ \A n \in Options \ {o} : options'[n] = options[n]
  BY <1>1, <1>2 DEF ShopInv, RowsTyped
<1>4. RowsTyped'
  BY <1>1, <1>3 DEF ShopInv, RowsTyped
<1>5. \A p \in Products : ~configured[p][o].present
  BY <1>1 DEF ShopInv, ConfiguredHolds
<1>6. ConfiguredHolds'
  BY <1>1, <1>3, <1>5 DEF ShopInv, ConfiguredHolds
<1>7. DefaultsExplained'
  <2>1. \A p \in Products : DefaultsIn(p, products[p].group)'
                                \subseteq DefaultsIn(p, products[p].group)
    BY <1>1, <1>3, <1>5 DEF DefaultsIn, Kept
  <2>. QED  BY <1>1, <2>1, DefaultsFrame
<1>. QED  BY <1>1, <1>4, <1>6, <1>7, ModifierStep

\* What an option's own commands write; only the restored one adds to what a product has.
LEMMA SetOptionKeepsShop ==
    ASSUME ShopInv, NEW o \in Options, NEW status \in Usable,
           NEW available \in BOOLEAN,
           \/ UpdateOption(o, status, available)
           \/ ArchiveOption(o)
           \/ RestoreOption(o)
    PROVE  ShopInv'
<1>1. PICK old \in Option : old = options[o]
  BY DEF ShopInv, RowsTyped
<1>2. PICK to \in RowStatuses \ {"NONE"}, free \in BOOLEAN :
          /\ UNCHANGED <<categories, products, sizes, groups, configured, cart>>
          /\ options' = [options EXCEPT ![o].status = to, ![o].available = free]
          /\ loosened \subseteq loosened' /\ loosened' \subseteq Products
          /\ \/ Kept(options[o])
             \/ to = "ARCHIVED"
             \/ \A p \in Products : configured[p][o].present => p \in loosened'
  <2>1. CASE UpdateOption(o, status, available)
    <3>1. status \in RowStatuses \ {"NONE"}
      BY DEF Usable, RowStatuses
    <3>. QED  BY <2>1, <3>1 DEF UpdateOption, SetOption, Changes, Kept,
                                ShopInv, RowsTyped
  <2>2. CASE ArchiveOption(o)
    <3>1. old.available \in BOOLEAN
      BY DEF Option
    <3>. QED  BY <1>1, <2>2, <3>1 DEF ArchiveOption, SetOption, Changes,
                                      RowStatuses, ShopInv, RowsTyped
  <2>3. CASE RestoreOption(o)
    <3>1. old.available \in BOOLEAN
      BY DEF Option
    <3>2. /\ UNCHANGED <<categories, products, sizes, groups, configured, cart>>
          /\ options' = [options EXCEPT ![o].status = "ACTIVE", ![o].available = old.available]
          /\ loosened' = loosened \cup {p \in Products : configured[p][o].present}
      BY <1>1, <2>3 DEF RestoreOption, SetOption, Changes
    <3>. QED  BY <3>1, <3>2 DEF RowStatuses, ShopInv, RowsTyped
  <2>. QED  BY <2>1, <2>2, <2>3
<1>3. PICK new : new = [old EXCEPT !.status = to, !.available = free]
  OBVIOUS
<1>4. new \in Option /\ new.status = to /\ new.group = old.group
  BY <1>3 DEF Option
<1>5. /\ options'[o] = new /\ \A n \in Options \ {o} : options'[n] = options[n]
      /\ options' \in [Options -> Option]
  <2>1. options' = [options EXCEPT ![o] = new]
    BY <1>1, <1>2, <1>3 DEF ShopInv, RowsTyped
  <2>. QED  BY <1>4, <2>1 DEF ShopInv, RowsTyped
<1>6. RowsTyped'
  BY <1>2, <1>5 DEF ShopInv, RowsTyped
<1>7. ConfiguredHolds'
  BY <1>2, <1>4, <1>5 DEF ShopInv, ConfiguredHolds
<1>8. DefaultsExplained'
  <2>1. ASSUME NEW p \in Products \ loosened'
        PROVE  DefaultsIn(p, products[p].group)'
                   \subseteq DefaultsIn(p, products[p].group)
    <3>1. \/ Kept(options[o])
          \/ ~Kept(options'[o])
          \/ ~configured[p][o].present
      BY <1>2, <1>4, <1>5, <2>1 DEF Kept, Usable
    <3>. QED  BY <1>1, <1>2, <1>4, <1>5, <3>1 DEF DefaultsIn, Kept
  <2>. QED  BY <1>2, <2>1, DefaultsFrame
<1>. QED  BY <1>2, <1>6, <1>7, <1>8, ModifierStep

\* A default is counted with the others before it is made one.
LEMMA ConfigureKeepsShop ==
    ASSUME ShopInv, NEW p \in Products, NEW o \in Options,
           NEW row \in Configuration, Configure(p, o, row)
    PROVE  ShopInv'
<1>1. /\ UNCHANGED <<categories, products, sizes, groups, options, loosened, cart>>
      /\ Kept(products[p]) /\ products[p].group # Null
      /\ Kept(options[o])
      /\ configured' = [configured EXCEPT ![p][o] = row]
      /\ row.default =>
             /\ row.price = 0
             /\ Cardinality(DefaultsIn(p, products[p].group) \ {o})
                    < groups[products[p].group].max
  BY DEF Configure, Changes
<1>2. /\ configured' \in [Products -> [Options -> Configuration]]
      /\ configured'[p][o] = row
      /\ \A n \in Options \ {o} : configured'[p][n] = configured[p][n]
      /\ \A q \in Products \ {p} : configured'[q] = configured[q]
  BY <1>1 DEF ShopInv, RowsTyped
<1>3. RowsTyped'
  BY <1>1, <1>2 DEF ShopInv, RowsTyped
<1>4. ConfiguredHolds'
  <2>1. products[p].status # "NONE" /\ options[o].status # "NONE"
    BY <1>1 DEF Kept, Usable
  <2>2. ASSUME NEW q \in Products, NEW n \in Options, configured'[q][n].present
        PROVE  /\ products[q].status # "NONE" /\ options[n].status # "NONE"
               /\ configured'[q][n].default => configured'[q][n].price = 0
    <3>1. CASE q = p /\ n = o
      BY <1>1, <1>2, <2>1, <3>1
    <3>2. CASE ~(q = p /\ n = o)
      <4>1. configured'[q][n] = configured[q][n]
        BY <1>2, <3>2
      <4>. QED  BY <2>2, <4>1 DEF ShopInv, ConfiguredHolds
    <3>. QED  BY <3>1, <3>2
  <2>. QED  BY <1>1, <2>2 DEF ShopInv, ConfiguredHolds
<1>5. DefaultsExplained'
  <2>1. PICK A, B : /\ A = DefaultsIn(p, products[p].group)
                    /\ B = {n \in Options : /\ configured'[p][n].present
                                            /\ configured'[p][n].default
                                            /\ options'[n].group = products'[p].group
                                            /\ Kept(options'[n])}
    OBVIOUS
  <2>2. A \subseteq Options /\ B \subseteq (A \ {o}) \cup {o}
        /\ (o \in B => row.default)
    BY <1>1, <1>2, <2>1 DEF DefaultsIn
  <2>3. CASE row.default
    <3>1. IsFiniteSet(A \ {o})
      BY <2>2, FS_Subset, CatalogAssumption
    <3>2. PICK k \in Nat : k = Cardinality(A \ {o})
      BY <3>1, FS_CardinalityType
    <3>3. IsFiniteSet((A \ {o}) \cup {o}) /\ Cardinality((A \ {o}) \cup {o}) = k + 1
      BY <3>1, <3>2, FS_AddElement
    <3>4. Cardinality(B) \in Nat /\ Cardinality(B) <= k + 1
      BY <2>2, <3>3, FS_Subset, FS_CardinalityType
    <3>5. groups[products[p].group].max \in Nat
      <4>1. products[p].group \in Groups
        BY <1>1 DEF ShopInv, RowsTyped, Product
      <4>2. groups[products[p].group] \in Group
        BY <4>1 DEF ShopInv, RowsTyped
      <4>. QED  BY <4>2, CatalogAssumption DEF Group
    <3>6. k < groups[products[p].group].max
      BY <1>1, <2>1, <2>3, <3>2
    <3>7. Cardinality(B) <= groups'[products'[p].group].max
      BY <1>1, <3>4, <3>5, <3>6
    <3>8. Fits(p)'
      BY <2>1, <3>7 DEF Fits, DefaultsIn
    <3>9. \A q \in Products \ {p} : DefaultsIn(q, products[q].group)'
                                        = DefaultsIn(q, products[q].group)
      BY <1>1, <1>2 DEF DefaultsIn, Kept
    <3>. QED  BY <1>1, <3>8, <3>9, DefaultsFrame
  <2>4. CASE ~row.default
    <3>1. \A q \in Products : DefaultsIn(q, products[q].group)'
                                  \subseteq DefaultsIn(q, products[q].group)
      BY <1>1, <1>2, <2>4 DEF DefaultsIn, Kept
    <3>. QED  BY <1>1, <3>1, DefaultsFrame
  <2>. QED  BY <2>3, <2>4
<1>. QED  BY <1>1, <1>3, <1>4, <1>5, ModifierStep

LEMMA UnconfigureKeepsShop ==
    ASSUME ShopInv, NEW p \in Products, NEW o \in Options,
           Unconfigure(p, o)
    PROVE  ShopInv'
<1>1. /\ UNCHANGED <<categories, products, sizes, groups, options, loosened, cart>>
      /\ configured' = [configured EXCEPT ![p][o].present = FALSE]
  BY DEF Unconfigure, Changes
<1>2. PICK old \in Configuration : old = configured[p][o]
  BY DEF ShopInv, RowsTyped
<1>3. PICK row : row = [old EXCEPT !.present = FALSE]
  OBVIOUS
<1>4. row \in Configuration /\ ~row.present
  BY <1>3 DEF Configuration
<1>5. configured' = [configured EXCEPT ![p][o] = row]
  BY <1>1, <1>2, <1>3
<1>6. /\ configured' \in [Products -> [Options -> Configuration]]
      /\ configured'[p][o] = row
      /\ \A n \in Options \ {o} : configured'[p][n] = configured[p][n]
      /\ \A q \in Products \ {p} : configured'[q] = configured[q]
  BY <1>4, <1>5 DEF ShopInv, RowsTyped
<1>7. \A q \in Products, n \in Options : \/ configured'[q][n] = configured[q][n]
                                         \/ ~configured'[q][n].present
  BY <1>4, <1>6
<1>8. RowsTyped'
  BY <1>1, <1>6 DEF ShopInv, RowsTyped
<1>9. ConfiguredHolds'
  BY <1>1, <1>7 DEF ShopInv, ConfiguredHolds
<1>10. DefaultsExplained'
  <2>1. \A q \in Products : DefaultsIn(q, products[q].group)'
                                \subseteq DefaultsIn(q, products[q].group)
    BY <1>1, <1>7 DEF DefaultsIn, Kept
  <2>. QED  BY <1>1, <2>1, DefaultsFrame
<1>. QED  BY <1>1, <1>8, <1>9, <1>10, ModifierStep

\* Of at most one item, the sum of the quantities is that of the item.
Quantities(items) == MapThenSumSet(LAMBDA i : i.quantity, items)

LEMMA QuantityOfOne ==
    ASSUME NEW items, NEW j, j.quantity \in Nat, items \subseteq {j}
    PROVE  Quantities(items) \in Nat
<1> DEFINE Any(s) == CHOOSE x \in s : TRUE
           Fold(f) == f = [s \in SUBSET items |->
                              IF s = {} THEN 0 ELSE Any(s).quantity + f[s \ {Any(s)}]]
<1>1. Quantities(items) = (CHOOSE f : Fold(f))[items]
  BY Zenon DEF Quantities, MapThenSumSet, MapThenFoldSet
<1>2. \A s \in SUBSET items : s # {} => Any(s) = j /\ s \ {Any(s)} = {}
  <2>1. \A s \in SUBSET items : s # {} => Any(s) \in s
    OBVIOUS
  <2>. QED  BY <2>1
<1>3. PICK z : z = [s \in SUBSET items |-> IF s = {} THEN 0 ELSE j.quantity]
  OBVIOUS
<1>4. Fold(z)
  <2>1. \A s \in SUBSET items : s # {} => z[s \ {Any(s)}] = 0
    BY <1>2, <1>3
  <2>2. \A s \in SUBSET items : s # {} => Any(s).quantity + z[s \ {Any(s)}] = j.quantity
    BY <1>2, <2>1
  <2>. QED  BY <1>3, <2>2
<1>5. PICK F : F = CHOOSE f : Fold(f)
  OBVIOUS
<1>6. Fold(F)
  BY <1>4, <1>5
<1>7. \A s \in SUBSET items :
          F[s] = IF s = {} THEN 0 ELSE Any(s).quantity + F[s \ {Any(s)}]
  BY <1>6
<1>8. F[items] \in Nat
  <2>1. F[{}] = 0
    BY <1>7
  <2>2. items # {} => F[items] = j.quantity + F[{}]
    BY <1>2, <1>7
  <2>. QED  BY <2>1, <2>2
<1>. QED  BY <1>1, <1>5, <1>8

\* What the cart stores of a request is a selection.
LEMMA StoredIsSelection ==
    ASSUME NEW p \in Products, NEW some \in Selections
    PROVE  Stored(p, some) \in Selections
<1>1. PICK chosen \in SUBSET Options : some \in [chosen -> 1 .. MaxQuantity]
  BY DEF Selections
<1>2. ASSUME NEW sel, NEW S \in SUBSET Options, sel \in [S -> 1 .. MaxQuantity]
      PROVE  sel \in Selections
  BY <1>2 DEF Selections
<1>3. CASE products[p].group = Null
  <2>1. <<>> \in [{} -> 1 .. MaxQuantity]
    OBVIOUS
  <2>2. Stored(p, some) = <<>>
    BY <1>3 DEF Stored
  <2>. QED  BY <1>2, <2>1, <2>2
<1>4. CASE products[p].group # Null
  <2>1. PICK sel, S : /\ sel = Stored(p, some)
                      /\ S = Defaults(p) \cup DOMAIN some
    OBVIOUS
  <2>2. sel = [o \in S |-> IF o \in DOMAIN some THEN some[o] ELSE 1]
    BY <1>4, <2>1 DEF Stored, Effective
  <2>3. S \subseteq Options
    BY <1>1, <2>1 DEF Defaults, Selectable
  <2>4. 1 \in 1 .. MaxQuantity
    BY CatalogAssumption
  <2>5. sel \in [S -> 1 .. MaxQuantity]
    BY <1>1, <2>2, <2>4
  <2>. QED  BY <1>2, <2>1, <2>3, <2>5
<1>. QED  BY <1>3, <1>4

\* What a cart has to be like, but for how many items it has.
CartFits(items) ==
    /\ items \subseteq Item
    /\ \A i, j \in items : Alike(i, j) => i = j

LEMMA MergedFits ==
    ASSUME NEW items, CartFits(items), NEW item \in Item,
           \A i \in Merged(items, item) : i.quantity <= MaxQuantity
    PROVE  CartFits(Merged(items, item))
<1>1. PICK same, sum : /\ same = {i \in items : [i EXCEPT !.quantity = item.quantity] = item}
                       /\ sum = Quantities(same)
  OBVIOUS
<1>2. PICK new : new = [item EXCEPT !.quantity = item.quantity + sum]
  OBVIOUS
<1>3. Merged(items, item) = (items \ same) \cup {new}
  BY Zenon, <1>1, <1>2 DEF Merged, Quantities
<1>4. \A i \in Item : [i EXCEPT !.quantity = item.quantity] = item <=> Alike(i, item)
  BY DEF Item, Alike
<1>5. same = {i \in items : Alike(i, item)}
  BY <1>1, <1>4 DEF CartFits
<1>6. sum \in Nat
  <2>1. CASE same = {}
    <3>1. PICK j : j = [quantity |-> 0]
      OBVIOUS
    <3>2. j.quantity \in Nat /\ same \subseteq {j}
      BY <2>1, <3>1
    <3>. QED  BY <1>1, <3>2, QuantityOfOne
  <2>2. CASE same # {}
    <3>1. PICK j \in same : TRUE
      BY <2>2
    <3>2. same \subseteq {j} /\ j \in Item
      BY <1>5, <3>1 DEF CartFits, Alike
    <3>3. j.quantity \in Nat
      BY <3>2, CatalogAssumption DEF Item
    <3>. QED  BY <1>1, <3>2, <3>3, QuantityOfOne
  <2>. QED  BY <2>1, <2>2
<1>7. new \in Item /\ Alike(new, item)
  <2>1. new.quantity = item.quantity + sum /\ new.quantity <= MaxQuantity
    BY <1>2, <1>3 DEF Item
  <2>2. item.quantity + sum \in 1 .. MaxQuantity
    BY <1>6, <2>1, CatalogAssumption DEF Item
  <2>. QED  BY <1>2, <2>2 DEF Item, Alike
<1>8. \A i \in items \ same : ~Alike(i, new) /\ ~Alike(new, i)
  BY <1>5, <1>7 DEF Alike
<1>. QED  BY <1>3, <1>7, <1>8 DEF CartFits

\* The commands of the cart.
LEMMA CartCommandKeepsShop ==
    ASSUME ShopInv, CartCommand
    PROVE  ShopInv'
<1>1. PICK items : Fill(items) /\ CartFits(items)
  <2>1. CartFits(cart)
    BY DEF ShopInv, CartHolds, CartFits
  <2>2. ASSUME NEW p \in Products, NEW s \in Sizes \cup {Null}, NEW some \in Selections,
               NEW n \in 1 .. MaxQuantity
        PROVE  ItemOf(p, s, some, n) \in Item
    BY StoredIsSelection DEF ItemOf, Item
  <2>3. ASSUME NEW p \in Products, NEW s \in Sizes \cup {Null}, NEW some \in Selections,
               NEW n \in 1 .. MaxQuantity,
               AddToCart(p, s, some, n) \/ ReplaceCart(p, s, some, n)
        PROVE  \E items : Fill(items) /\ CartFits(items)
    <3>1. PICK item \in Item : item = ItemOf(p, s, some, n)
      BY <2>2
    <3>2. CASE AddToCart(p, s, some, n)
      <4>1. Fill(Merged(cart, item))
        BY <3>1, <3>2 DEF AddToCart
      <4>2. \A i \in Merged(cart, item) : i.quantity <= MaxQuantity
        BY <4>1 DEF Fill
      <4>. QED  BY <2>1, <4>1, <4>2, MergedFits
    <3>3. CASE ReplaceCart(p, s, some, n)
      <4>1. Fill({item})
        BY <3>1, <3>3 DEF ReplaceCart
      <4>2. CartFits({item})
        BY DEF CartFits
      <4>. QED  BY <4>1, <4>2
    <3>. QED  BY <2>3, <3>2, <3>3
  <2>4. ASSUME NEW i \in cart, NEW s \in Sizes \cup {Null}, NEW some \in Selections,
               NEW n \in 1 .. MaxQuantity, UpdateItem(i, s, some, n)
        PROVE  \E items : Fill(items) /\ CartFits(items)
    <3>1. i.product \in Products
      BY <2>1 DEF CartFits, Item
    <3>2. PICK item \in Item : item = ItemOf(i.product, s, some, n)
      BY <2>2, <3>1
    <3>3. PICK others : others = cart \ {i}
      OBVIOUS
    <3>4. CartFits(others)
      BY <2>1, <3>3 DEF CartFits
    <3>5. Fill(Merged(others, item))
      BY <2>4, <3>2, <3>3 DEF UpdateItem
    <3>6. \A k \in Merged(others, item) : k.quantity <= MaxQuantity
      BY <3>5 DEF Fill
    <3>. QED  BY <3>4, <3>5, <3>6, MergedFits
  <2>5. ASSUME NEW i \in cart, RemoveItem(i)
        PROVE  \E items : Fill(items) /\ CartFits(items)
    <3>1. CartFits(cart \ {i})
      BY <2>1 DEF CartFits
    <3>. QED  BY <2>5, <3>1 DEF RemoveItem
  <2>6. ASSUME ClearCart
        PROVE  \E items : Fill(items) /\ CartFits(items)
    <3>1. CartFits({})
      BY DEF CartFits
    <3>. QED  BY <2>6, <3>1 DEF ClearCart
  <2>. QED  BY <2>3, <2>4, <2>5, <2>6 DEF CartCommand
<1>2. /\ UNCHANGED <<categories, products, sizes, groups, options, configured, loosened>>
      /\ cart' = items /\ Cardinality(items) <= MaxItems
  BY <1>1 DEF Fill, catalog
<1>3. RowsTyped'
  BY <1>2 DEF ShopInv, RowsTyped
<1>4. PricingHolds'
  BY <1>2, PricingFrame
<1>5. CategoriesHold'
  BY <1>2, CategoriesFrame
<1>6. ConfiguredHolds' /\ DefaultsExplained'
  BY <1>2, <1>3, ModifiersFrame
<1>7. CartHolds'
  <2>1. cart' \subseteq Item /\ \A i, j \in cart' : Alike(i, j) => i = j
    BY <1>1, <1>2 DEF CartFits
  <2>2. Cardinality(cart') <= MaxItems
    BY <1>2
  <2>. QED  BY <2>1, <2>2 DEF CartHolds, Item, Selections
<1>. QED  BY <1>3, <1>4, <1>5, <1>6, <1>7 DEF ShopInv

\* Every command of the catalog and of the cart.
LEMMA ShopNext == ASSUME ShopInv, [CatalogNext]_catalogVars PROVE ShopInv'
<1>1. CASE CategoryCommand
  BY <1>1, CategoryKeepsShop, ArchiveCategoryKeepsShop DEF CategoryCommand
<1>2. CASE ProductCommand
  BY <1>2, CreateProductKeepsShop, UpdateProductKeepsShop, ArchiveProductKeepsShop
     DEF ProductCommand
<1>3. CASE SizeCommand
  BY <1>3, AddSizeKeepsShop, UpdateSizeKeepsShop, ArchiveSizeKeepsShop DEF SizeCommand
<1>4. CASE ModifierCommand
  <2>1. ASSUME NEW o \in Options, ArchiveOption(o) \/ RestoreOption(o)
        PROVE  ShopInv'
    <3>1. "ACTIVE" \in Usable /\ TRUE \in BOOLEAN
      BY DEF Usable
    <3>. QED  BY <2>1, <3>1, SetOptionKeepsShop
  <2>. QED  BY <1>4, <2>1, CreateGroupKeepsShop, UpdateGroupKeepsShop, SetGroupKeepsShop,
               AddOptionKeepsShop, SetOptionKeepsShop, ConfigureKeepsShop, UnconfigureKeepsShop
            DEF ModifierCommand
<1>5. CASE CartCommand
  BY <1>5, CartCommandKeepsShop
<1>6. ASSUME NEW status, NEW accepting, NEW mainActive,
             WriteStore(status, accepting, mainActive)
      PROVE  ShopInv'
  BY <1>6, StoreKeepsShop
<1>7. CASE UNCHANGED catalogVars
  <2>1. UNCHANGED <<categories, products, sizes, groups, options, configured, loosened, cart>>
    BY <1>7 DEF catalogVars, catalog
  <2>2. RowsTyped'
    BY <2>1 DEF ShopInv, RowsTyped
  <2>3. ConfiguredHolds' /\ DefaultsExplained'
    BY <2>1, <2>2, ModifiersFrame
  <2>. QED  BY <2>1, <2>2, <2>3, ModifierStep
<1>. QED  BY <1>1, <1>2, <1>3, <1>4, <1>5, <1>6, <1>7 DEF CatalogNext, CatalogCommand

\* Options that cost nothing add nothing to a price, and neither does no option at all.  The
\* function that folds the prices is the one that is 0 everywhere: that one satisfies its
\* equation, and of two that do, a smallest set of options on which they differ is none.
LEMMA NothingExtra ==
    ASSUME NEW p, NEW sel, DOMAIN sel \subseteq Options,
           \A o \in DOMAIN sel : configured[p][o].price * sel[o] = 0
    PROVE  Extra(p, sel) = 0
<1> DEFINE D == DOMAIN sel
           Cost(o) == configured[p][o].price * sel[o]
           Any(s) == CHOOSE x \in s : TRUE
           Fold(f) == f = [s \in SUBSET D |->
                              IF s = {} THEN 0 ELSE Cost(Any(s)) + f[s \ {Any(s)}]]
<1>1. D \subseteq Options
  OBVIOUS
<1>2. \A o \in D : Cost(o) = 0
  OBVIOUS
<1>3. Extra(p, sel) = (CHOOSE f : Fold(f))[D]
  BY Zenon DEF Extra, MapThenSumSet, MapThenFoldSet
<1> HIDE DEF D, Cost
<1>4. \A s \in SUBSET D : s # {} => Any(s) \in s
  OBVIOUS
<1>5. Fold([s \in SUBSET D |-> 0])
  <2>1. \A s \in SUBSET D : s # {} => Cost(Any(s)) + 0 = 0
    BY <1>2, <1>4
  <2>2. PICK z : z = [s \in SUBSET D |-> 0]
    OBVIOUS
  <2>3. \A s \in SUBSET D : s # {} => z[s \ {Any(s)}] = 0
    BY <2>2
  <2>4. z = [s \in SUBSET D |-> IF s = {} THEN 0 ELSE Cost(Any(s)) + z[s \ {Any(s)}]]
    BY <2>1, <2>2, <2>3
  <2>. QED  BY <2>2, <2>4
<1>6. ASSUME NEW f, Fold(f) PROVE \A s \in SUBSET D : f[s] = 0
  <2>1. PICK Wrong : Wrong = {s \in SUBSET D : f[s] # 0}
    OBVIOUS
  <2>2. ASSUME Wrong # {} PROVE FALSE
    <3>1. PICK Counts : Counts = {Cardinality(s) : s \in Wrong}
      OBVIOUS
    <3>2. \A s \in Wrong : IsFiniteSet(s) /\ Cardinality(s) \in Nat
      BY <1>1, <2>1, FS_Subset, FS_CardinalityType, CatalogAssumption
    <3>3. Counts \subseteq Nat /\ Counts # {}
      BY <2>2, <3>1, <3>2
    <3>4. PICK n \in Counts : \A m \in Counts : ~(<<m, n>> \in OpToRel(<, Nat))
      BY <3>3, NatLessThanWellFounded, WFMin
    <3>5. \A m \in Counts : ~(m < n)
      BY <3>3, <3>4 DEF OpToRel
    <3>6. PICK s \in Wrong : n = Cardinality(s)
      BY <3>1
    <3>7. s \in SUBSET D /\ f[s] # 0
      BY <2>1, <3>6
    <3>8. f[s] = IF s = {} THEN 0 ELSE Cost(Any(s)) + f[s \ {Any(s)}]
      BY <1>6, <3>7
    <3>9. s # {}
      BY <3>7, <3>8
    <3>10. Any(s) \in s /\ Cost(Any(s)) = 0
      BY <1>2, <1>4, <3>7, <3>9
    <3>11. s \ {Any(s)} \notin Wrong
      <4>1. Cardinality(s \ {Any(s)}) = n - 1
        BY <3>2, <3>6, <3>10, FS_RemoveElement
      <4>2. n - 1 < n
        BY <3>2, <3>6
      <4>3. n - 1 \notin Counts
        BY <3>5, <4>2
      <4>. QED  BY <3>1, <4>1, <4>3
    <3>12. f[s \ {Any(s)}] = 0
      BY <2>1, <3>7, <3>11
    <3>. QED  BY <3>7, <3>8, <3>9, <3>10, <3>12
  <2>. QED  BY <2>1, <2>2
<1>7. PICK F : F = CHOOSE f : Fold(f)
  OBVIOUS
<1>8. Fold(F)
  BY <1>5, <1>7
<1>. QED  BY <1>3, <1>6, <1>7, <1>8

\* The cart's display and the validation of an order's line: where the cart has no selection,
\* the line takes the defaults, which cost nothing.
LEMMA CartAgrees == ASSUME ShopInv PROVE CartAgreesWithOrder
<1>1. ASSUME NEW i \in cart, IsOrderable(i), store.mainActive,
             products[i.product].base > 0
      PROVE  /\ OrderAccepts(i.product, i.size, i.selections)
             /\ LinePrice(i.product, i.selections) = ShownPrice(i)
  <2>1. PICK p, sel : p = i.product /\ sel = i.selections
    OBVIOUS
  <2>2. p \in Products /\ DOMAIN sel \subseteq Options
    BY <1>1, <2>1 DEF ShopInv, CartHolds, Item, Selections
  <2>3. IsOffered(p) /\ products[p].base > 0 /\ i.size = Null
    BY <1>1, <2>1 DEF IsOrderable, IsOffered, SizeFits
  <2>4. products[p].group = Null => sel = <<>>
    BY <1>1, <2>1 DEF IsOrderable
  <2>5. \A o \in DOMAIN sel : Shown(i, o)
    BY <1>1, <2>1 DEF IsOrderable
  <2>6. \A o \in Options : configured[p][o] \in Configuration
    BY <2>2 DEF ShopInv, RowsTyped
  <2>7. PICK line : line = LineSelections(p, sel)
    OBVIOUS
  <2>8. CASE line = sel
    <3>1. \A o \in DOMAIN line : /\ o \in Selectable(p) /\ options[o].available
                                 /\ line[o] <= configured[p][o].max
      BY <2>1, <2>2, <2>5, <2>8 DEF Shown, Selectable
    <3>2. OrderAccepts(p, i.size, sel)
      BY <2>3, <2>4, <2>7, <3>1 DEF OrderAccepts
    <3>3. LinePrice(p, sel) = ShownPrice(i)
      BY <2>1, <2>3, <2>7, <2>8 DEF LinePrice, ShownPrice, UnitPrice
    <3>. QED  BY <2>1, <3>2, <3>3
  <2>9. CASE line # sel
    <3>1. /\ sel = <<>> /\ products[p].group # Null
          /\ line = [o \in {d \in Defaults(p) : options[d].available} |-> 1]
      BY <2>7, <2>9 DEF LineSelections
    <3>2. \A o \in DOMAIN line : /\ o \in Options /\ o \in Selectable(p)
                                 /\ options[o].available /\ line[o] = 1
                                 /\ configured[p][o].present /\ configured[p][o].default
      BY <3>1 DEF Defaults, Selectable
    <3>3. \A o \in DOMAIN line : line[o] <= configured[p][o].max
      BY <2>6, <3>2, CatalogAssumption DEF Configuration
    <3>4. OrderAccepts(p, i.size, sel)
      BY <2>3, <2>4, <2>7, <3>2, <3>3 DEF OrderAccepts
    <3>5. \A o \in DOMAIN line : configured[p][o].price * line[o] = 0
      <4>1. \A o \in DOMAIN line : configured[p][o].price = 0
        BY <2>2, <3>2 DEF ShopInv, ConfiguredHolds
      <4>. QED  BY <3>2, <4>1
    <3>6. Extra(p, line) = 0
      BY <3>2, <3>5, NothingExtra
    <3>7. Extra(p, sel) = 0
      <4>1. DOMAIN sel = {}
        BY <3>1
      <4>. QED  BY <4>1, NothingExtra
    <3>8. LinePrice(p, sel) = ShownPrice(i)
      BY <2>1, <2>3, <2>7, <3>6, <3>7 DEF LinePrice, ShownPrice, UnitPrice
    <3>. QED  BY <2>1, <3>4, <3>8
  <2>. QED  BY <2>8, <2>9
<1>. QED  BY <1>1 DEF CartAgreesWithOrder

LEMMA ShopAlways == CatalogSpec => []ShopInv
<1>1. CatalogInit => ShopInv
  BY ShopInit
<1>2. ShopInv /\ [CatalogNext]_catalogVars => ShopInv'
  BY ShopNext
<1>. QED  BY <1>1, <1>2, PTL DEF CatalogSpec

\* The row of the store, and how many changes the catalog had.
StoreTyped ==
    /\ store \in [status : RowStatuses, accepting : BOOLEAN, mainActive : BOOLEAN]
    /\ changes \in 0 .. MaxChanges

LEMMA StoreTypedNext ==
    ASSUME StoreTyped, [CatalogNext]_catalogVars PROVE StoreTyped'
<1>1. ASSUME CatalogCommand, changes < MaxChanges PROVE StoreTyped'
  <2>1. CASE CategoryCommand
    <3>1. changes' = changes + 1 /\ UNCHANGED store
      BY <2>1 DEF CategoryCommand, CreateCategory, UpdateCategory,
                  ArchiveCategory, Changes
    <3>. QED  BY <1>1, <3>1, CatalogAssumption DEF StoreTyped, RowStatuses
  <2>2. CASE ProductCommand
    <3>1. changes' = changes + 1 /\ UNCHANGED store
      BY <2>2 DEF ProductCommand, CreateProduct, UpdateProduct,
                  ArchiveProduct, Changes
    <3>. QED  BY <1>1, <3>1, CatalogAssumption DEF StoreTyped, RowStatuses
  <2>3. CASE SizeCommand
    <3>1. changes' = changes + 1 /\ UNCHANGED store
      BY <2>3 DEF SizeCommand, AddSize, UpdateSize, ArchiveSize,
                  Changes
    <3>. QED  BY <1>1, <3>1, CatalogAssumption DEF StoreTyped, RowStatuses
  <2>4. CASE ModifierCommand
    <3>1. changes' = changes + 1 /\ UNCHANGED store
      BY <2>4 DEF ModifierCommand, CreateGroup, UpdateGroup, ArchiveGroup,
                  RestoreGroup, SetGroup, AddOption, SetOption,
                  UpdateOption, ArchiveOption, RestoreOption, Configure,
                  Unconfigure, Changes
    <3>. QED  BY <1>1, <3>1, CatalogAssumption DEF StoreTyped, RowStatuses
  <2>5. ASSUME NEW status \in RowStatuses \ {"NONE"}, NEW accepting \in BOOLEAN,
               NEW mainActive \in BOOLEAN, WriteStore(status, accepting, mainActive)
        PROVE  StoreTyped'
    <3>1. changes' = changes + 1
          /\ store' = [status |-> status, accepting |-> accepting, mainActive |-> mainActive]
      BY <2>5 DEF WriteStore, Changes
    <3>. QED  BY <1>1, <3>1, CatalogAssumption DEF StoreTyped, RowStatuses
  <2>. QED  BY <1>1, <2>1, <2>2, <2>3, <2>4, <2>5 DEF CatalogCommand
<1>2. ASSUME CartCommand PROVE StoreTyped'
  BY <1>2 DEF CartCommand, AddToCart, ReplaceCart, UpdateItem,
              RemoveItem, ClearCart, Fill, catalog, StoreTyped,
              RowStatuses
<1>3. ASSUME UNCHANGED catalogVars PROVE StoreTyped'
  BY <1>3 DEF catalogVars, catalog, StoreTyped, RowStatuses
<1>. QED  BY <1>1, <1>2, <1>3 DEF CatalogNext

\* The types of the catalog and the cart; of the cart, that the quantity of an item which
\* takes those of its like is one, which needs that there was at most one like it.
THEOREM CatalogTypeCorrect == CatalogSpec => []CatalogTypeOK
<1>1. CatalogInit => StoreTyped
  BY CatalogAssumption DEF CatalogInit, StoreTyped, RowStatuses
<1>2. StoreTyped /\ [CatalogNext]_catalogVars => StoreTyped'
  BY StoreTypedNext
<1>3. ShopInv /\ StoreTyped => CatalogTypeOK
  BY DEF ShopInv, RowsTyped, CartHolds, StoreTyped, CategoryRow, CatalogTypeOK
<1>. QED  BY <1>1, <1>2, <1>3, ShopAlways, PTL DEF CatalogSpec

\* Whatever commands a store's catalog sees from its creation on, in whatever order: a product
\* has either a base price or sizes with one ACTIVE default, and nothing that is kept hangs
\* below something archived (CatalogHolds).
THEOREM CatalogAlwaysHolds == CatalogSpec => []CatalogHolds
<1>1. ShopInv => CatalogHolds
  BY DEF ShopInv, CatalogHolds
<1>. QED  BY <1>1, ShopAlways, PTL

\* A product has more default options than its group admits only after a change of its group
\* or the restoration of an option (DefaultsExplained).
THEOREM DefaultsAreExplained ==
    CatalogSpec => []DefaultsExplained
<1>1. ShopInv => DefaultsExplained
  BY DEF ShopInv
<1>. QED  BY <1>1, ShopAlways, PTL

\* What the cart shows as orderable, of a product with a base price and under an ACTIVE main
\* category, an order accepts at the price shown (CartAgreesWithOrder).
THEOREM CartAlwaysAgrees ==
    CatalogSpec => []CartAgreesWithOrder
<1>1. ShopInv => CartAgreesWithOrder
  BY CartAgrees
<1>. QED  BY <1>1, ShopAlways, PTL

=============================================================================

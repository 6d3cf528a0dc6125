------------------------------- MODULE Catalog -------------------------------
(***************************************************************************)
(* What a store sells, and the cart that is filled from it: the products   *)
(* with their sizes, the groups of modifier options and what each product  *)
(* makes of them, the store's own categories, and the cart of a customer.  *)
(*                                                                         *)
(* Every command of the catalog holds the geography lock of the city and   *)
(* the row of the store until it commits; a command of the cart and the    *)
(* validation of an order's line hold that row FOR SHARE.  So each is one  *)
(* action.  What can go wrong is not an interleaving but the sum of many   *)
(* commands, each of which checks its own part of the catalog, and the     *)
(* three places that decide separately what may be ordered: the cart's     *)
(* mutations, the cart's display and the validation of an order's line.    *)
(*                                                                         *)
(* One store of an active city.  Left out: names, images, display order,   *)
(* opening hours, and the availability of a size, which orders never ask.  *)
(***************************************************************************)
EXTENDS Naturals, FiniteSets, Functions, FiniteSetsExt

CONSTANTS Products, Sizes,
          Categories, Groups, Options,
          MaxPrice,      \* bound: prices are 1 .. MaxPrice, of options 0 .. MaxPrice
          MaxSelect,     \* bound: a group's max_select
          MaxQuantity,   \* bound: quantities, 99 in the code
          MaxItems,      \* bound: items of the cart
          MaxChanges,    \* bound: changes of the catalog
          Null

ASSUME CatalogAssumption ==
    /\ MaxPrice \in Nat \ {0} /\ MaxSelect \in Nat \ {0} /\ MaxQuantity \in Nat \ {0}
    /\ MaxItems \in Nat /\ MaxChanges \in Nat
    /\ IsFiniteSet(Options)
    /\ Null \notin Sizes \cup Categories \cup Groups

VARIABLES
    store,        \* PostgreSQL: the row of stores, and whether its main category is ACTIVE
    categories,   \* PostgreSQL: store_categories
    products,     \* PostgreSQL: products
    sizes,        \* PostgreSQL: product_sizes, of each product
    groups,       \* PostgreSQL: modifier_groups
    options,      \* PostgreSQL: modifier_options
    configured,   \* PostgreSQL: product_modifier_options, of each product
    cart,         \* PostgreSQL: cart_items with their selections
    loosened,     \* history: products that changed groups, or had an option restored
    changes       \* bound: changes so far

catalog == <<store, categories, products, sizes, groups, options, configured>>
catalogVars == <<catalog, cart, loosened, changes>>

RowStatuses == {"NONE", "ACTIVE", "INACTIVE", "ARCHIVED"}
Usable == {"ACTIVE", "INACTIVE"}      \* what a command may ask for

\* A product that is not available is like one that is INACTIVE.
Product == [ status : RowStatuses,
             base : 0 .. MaxPrice,                  \* base_price, 0 is null
             category : Categories \cup {Null}, group : Groups \cup {Null} ]
Size == [ status : RowStatuses, default : BOOLEAN, price : 1 .. MaxPrice ]
Group == [ status : RowStatuses, min : 0 .. MaxSelect, max : 1 .. MaxSelect ]
Option == [ status : RowStatuses, group : Groups \cup {Null}, available : BOOLEAN ]
Configuration == [ present : BOOLEAN, price : 0 .. MaxPrice, default : BOOLEAN,
                   max : 1 .. MaxQuantity, available : BOOLEAN ]

\* Selections: some options, and how many of each.
Selections == UNION {[some -> 1 .. MaxQuantity] : some \in SUBSET Options}

Item == [ product : Products, size : Sizes \cup {Null}, selections : Selections,
          quantity : 1 .. MaxQuantity ]

CatalogTypeOK ==
    /\ store \in [status : RowStatuses, accepting : BOOLEAN, mainActive : BOOLEAN]
    /\ categories \in [Categories -> [status : RowStatuses, parent : Categories \cup {Null}]]
    /\ products \in [Products -> Product]
    /\ sizes \in [Products -> [Sizes -> Size]]
    /\ groups \in [Groups -> Group]
    /\ options \in [Options -> Option]
    /\ configured \in [Products -> [Options -> Configuration]]
    /\ cart \subseteq Item /\ Cardinality(cart) <= MaxItems
    /\ loosened \subseteq Products /\ changes \in 0 .. MaxChanges

\* The catalog of a store that was just created.
CatalogInit ==
    /\ store = [status |-> "ACTIVE", accepting |-> TRUE, mainActive |-> TRUE]
    /\ categories = [c \in Categories |-> [status |-> "NONE", parent |-> Null]]
    /\ products = [p \in Products |->
           [status |-> "NONE", base |-> 0, category |-> Null, group |-> Null]]
    /\ sizes = [p \in Products |->
           [s \in Sizes |-> [status |-> "NONE", default |-> FALSE, price |-> 1]]]
    /\ groups = [g \in Groups |-> [status |-> "NONE", min |-> 0, max |-> 1]]
    /\ options = [o \in Options |-> [status |-> "NONE", group |-> Null, available |-> TRUE]]
    /\ configured = [p \in Products |-> [o \in Options |->
           [present |-> FALSE, price |-> 0, default |-> FALSE, max |-> 1, available |-> TRUE]]]
    /\ cart = {} /\ loosened = {} /\ changes = 0

\* Whether a row is there and not archived.
Kept(row) == row.status \in Usable

\* A change of the catalog: lockStore refuses the store that is archived.
Changes == changes' = changes + 1 /\ UNCHANGED cart
Open == store.status # "ARCHIVED"

-----------------------------------------------------------------------------
(* The store *)

\* The store's own commands and those of its main category.
WriteStore(status, accepting, mainActive) ==
    /\ Changes
    /\ store' = [status |-> status, accepting |-> accepting, mainActive |-> mainActive]
    /\ UNCHANGED <<categories, products, sizes, groups, options, configured, loosened>>

-----------------------------------------------------------------------------
(* Store categories *)

Children(c) == {d \in Categories : categories[d].parent = c /\ Kept(categories[d])}

\* A parent is a root that is not archived.
IsParent(c) == Kept(categories[c]) /\ categories[c].parent = Null

CreateCategory(c, parent, status) ==
    /\ Changes /\ Open
    /\ categories[c].status = "NONE"
    /\ parent # Null => IsParent(parent)
    /\ categories' = [categories EXCEPT ![c] = [status |-> status, parent |-> parent]]
    /\ UNCHANGED <<store, products, sizes, groups, options, configured, loosened>>

\* (In the mutant: a root with children may be moved as well.)
MayMoveAnyway(c, parent) ==
    /\ c # parent
    /\ parent # Null => IsParent(parent)

\* A category that is moved under another one has no children of its own.
MayMove(c, parent) ==
    /\ c # parent
    /\ parent # Null => IsParent(parent)
    /\ (categories[c].parent = Null /\ parent # Null) => Children(c) = {}

UpdateCategory(c, parent, status) ==
    /\ Changes /\ Open
    /\ Kept(categories[c])
    /\ parent = categories[c].parent \/ MayMove(c, parent)
    /\ categories' = [categories EXCEPT ![c] = [status |-> status, parent |-> parent]]
    /\ UNCHANGED <<store, products, sizes, groups, options, configured, loosened>>

\* archiveProductsForCategory: the products of the category go with it.
WithoutCategory(c) ==
    [p \in Products |->
        IF products[p].category = c /\ Kept(products[p])
            THEN [products[p] EXCEPT !.status = "ARCHIVED"]
            ELSE products[p]]

ArchiveCategory(c) ==
    /\ Changes
    /\ Kept(categories[c])
    /\ categories[c].parent = Null => Children(c) = {}
    /\ categories' = [categories EXCEPT ![c].status = "ARCHIVED"]
    /\ products' = WithoutCategory(c)
    /\ UNCHANGED <<store, sizes, groups, options, configured, loosened>>

-----------------------------------------------------------------------------
(* Products *)

Remaining(p) == {s \in Sizes : Kept(sizes[p][s])}
Actives(p) == {s \in Sizes : sizes[p][s].status = "ACTIVE"}

\* lockCategory and lockModifierGroup: nothing archived is assigned.
MayAssign(category, group) ==
    /\ category # Null => Kept(categories[category])
    /\ group # Null => Kept(groups[group])

\* With a base price, or with sizes of which one ACTIVE one is the default.
CreateProduct(p, f, chosen, active, default, price) ==
    /\ Changes /\ Open
    /\ products[p].status = "NONE"
    /\ MayAssign(f.category, f.group)
    /\ IF chosen = {} THEN f.base > 0
                      ELSE f.base = 0 /\ default \in active
    /\ products' = [products EXCEPT ![p] = f]
    /\ sizes' = [sizes EXCEPT ![p] = [s \in Sizes |->
           [ status |-> IF s \in active THEN "ACTIVE"
                        ELSE IF s \in chosen THEN "INACTIVE" ELSE "NONE",
             default |-> s \in chosen /\ s = default, price |-> price ]]]
    /\ UNCHANGED <<store, categories, groups, options, configured, loosened>>

\* update: what the body leaves out stays as it is, also where it could not be assigned.
UpdateProduct(p, f) ==
    /\ Changes /\ Open
    /\ Kept(products[p])
    /\ MayAssign(IF f.category = products[p].category THEN Null ELSE f.category,
                 IF f.group = products[p].group THEN Null ELSE f.group)
    /\ f.base = products[p].base \/ (f.base > 0 <=> Remaining(p) = {})
    /\ products' = [products EXCEPT ![p] = f]
    /\ loosened' = loosened \cup (IF f.group = products[p].group THEN {} ELSE {p})
    /\ UNCHANGED <<store, categories, sizes, groups, options, configured>>

ArchiveProduct(p) ==
    /\ Changes
    /\ Kept(products[p])
    /\ products' = [products EXCEPT ![p].status = "ARCHIVED"]
    /\ UNCHANGED <<store, categories, sizes, groups, options, configured, loosened>>

-----------------------------------------------------------------------------
(* Sizes *)

\* The sizes of a product when the default is s, or stays with s = Null.
WithDefault(p, s) ==
    [t \in Sizes |-> IF s = Null THEN sizes[p][t]
                     ELSE [sizes[p][t] EXCEPT !.default = t = s]]

WriteSize(p, s, row, default) ==
    sizes' = [sizes EXCEPT ![p] = [WithDefault(p, default) EXCEPT ![s] = row]]

\* The first size takes the place of the base price, if the caller says so.
AddSize(p, s, row) ==
    /\ Changes /\ Open
    /\ Kept(products[p])
    /\ sizes[p][s].status = "NONE"
    /\ row.default => row.status = "ACTIVE"
    /\ IF Remaining(p) = {} THEN row.default ELSE products[p].base = 0
    /\ (~row.default /\ row.status = "ACTIVE") => \E t \in Actives(p) : sizes[p][t].default
    /\ WriteSize(p, s, row, IF row.default THEN s ELSE Null)
    /\ products' = [products EXCEPT ![p].base = 0]
    /\ UNCHANGED <<store, categories, groups, options, configured, loosened>>

\* Which size may become the default when s no longer is.
MayFollow(p, s, replacement) == replacement \in Actives(p) \ {s}

UpdateSize(p, s, row, replacement) ==
    /\ Changes /\ Open
    /\ Kept(products[p]) /\ Kept(sizes[p][s])
    /\ row.default => row.status = "ACTIVE"
    /\ IF sizes[p][s].default /\ ~row.default
           THEN MayFollow(p, s, replacement) /\ WriteSize(p, s, row, replacement)
           ELSE replacement = Null /\ WriteSize(p, s, row, IF row.default THEN s ELSE Null)
    /\ UNCHANGED <<store, categories, products, groups, options, configured, loosened>>

\* The last size leaves a base price behind.
ArchiveSize(p, s, replacement, price) ==
    /\ Changes /\ Open
    /\ Kept(products[p]) /\ Kept(sizes[p][s])
    /\ price > 0 <=> Remaining(p) = {s}
    /\ IF sizes[p][s].default /\ price = 0
           THEN MayFollow(p, s, replacement)
           ELSE replacement = Null
    /\ WriteSize(p, s, [sizes[p][s] EXCEPT !.status = "ARCHIVED", !.default = FALSE], replacement)
    /\ products' = [products EXCEPT ![p].base = price]
    /\ UNCHANGED <<store, categories, groups, options, configured, loosened>>

-----------------------------------------------------------------------------
(* Modifiers *)

\* The default options of p in group g that a command counts: those not archived.
DefaultsIn(p, g) ==
    {o \in Options : /\ configured[p][o].present /\ configured[p][o].default
                     /\ options[o].group = g /\ Kept(options[o])}

CreateGroup(g, row, some) ==
    /\ Changes /\ Open
    /\ groups[g].status = "NONE"
    /\ row.min <= row.max
    /\ \A o \in some : options[o].status = "NONE"
    /\ groups' = [groups EXCEPT ![g] = row]
    /\ options' = [o \in Options |->
           IF o \in some THEN [status |-> "ACTIVE", group |-> g, available |-> TRUE]
           ELSE options[o]]
    /\ UNCHANGED <<store, categories, products, sizes, configured, loosened>>

\* (In the mutant: max_select is not compared with the defaults.)
DefaultsFitAlways(g, max) == TRUE

\* assertProductDefaultsWithinMax
DefaultsFit(g, max) ==
    \A p \in Products : products[p].group = g => Cardinality(DefaultsIn(p, g)) <= max

UpdateGroup(g, row) ==
    /\ Changes /\ Open
    /\ Kept(groups[g])
    /\ row.min <= row.max
    /\ DefaultsFit(g, row.max)
    /\ groups' = [groups EXCEPT ![g] = row]
    /\ UNCHANGED <<store, categories, products, sizes, options, configured, loosened>>

SetGroup(g, from, to) ==
    /\ Changes /\ Open
    /\ groups[g].status \in from
    /\ groups' = [groups EXCEPT ![g].status = to]
    /\ UNCHANGED <<store, categories, products, sizes, options, configured, loosened>>

ArchiveGroup(g) == SetGroup(g, Usable, "ARCHIVED")
RestoreGroup(g) == SetGroup(g, {"ARCHIVED"}, "ACTIVE")

AddOption(o, g, status, available) ==
    /\ Changes /\ Open
    /\ Kept(groups[g])
    /\ options[o].status = "NONE"
    /\ options' = [options EXCEPT ![o] = [status |-> status, group |-> g, available |-> available]]
    /\ UNCHANGED <<store, categories, products, sizes, groups, configured, loosened>>

SetOption(o, from, status, available) ==
    /\ Changes /\ Open
    /\ options[o].status \in from
    /\ options' = [options EXCEPT ![o].status = status, ![o].available = available]
    /\ UNCHANGED <<store, categories, products, sizes, groups, configured>>

UpdateOption(o, status, available) ==
    SetOption(o, Usable, status, available) /\ UNCHANGED loosened
ArchiveOption(o) == SetOption(o, Usable, "ARCHIVED", options[o].available) /\ UNCHANGED loosened

\* The defaults are not counted again.
RestoreOption(o) ==
    /\ SetOption(o, {"ARCHIVED"}, "ACTIVE", options[o].available)
    /\ loosened' = loosened \cup {p \in Products : configured[p][o].present}

\* upsertProductModifierOption
Configure(p, o, row) ==
    /\ Changes /\ Open
    /\ row.present
    /\ Kept(products[p])
    /\ products[p].group # Null /\ options[o].group = products[p].group
    /\ Kept(options[o]) /\ Kept(groups[products[p].group])
    /\ row.default =>
           /\ row.price = 0
           /\ Cardinality(DefaultsIn(p, products[p].group) \ {o}) < groups[products[p].group].max
    /\ configured' = [configured EXCEPT ![p][o] = row]
    /\ UNCHANGED <<store, categories, products, sizes, groups, options, loosened>>

\* removeProductModifierOption
Unconfigure(p, o) ==
    /\ Changes /\ Open
    /\ Kept(products[p])
    /\ products[p].group # Null /\ options[o].group = products[p].group
    /\ configured[p][o].present
    /\ configured' = [configured EXCEPT ![p][o].present = FALSE]
    /\ UNCHANGED <<store, categories, products, sizes, groups, options, loosened>>

-----------------------------------------------------------------------------
(* What may be ordered *)

\* The store, the product and its category admit orders.
IsOffered(p) ==
    /\ store.status = "ACTIVE" /\ store.accepting /\ store.mainActive
    /\ products[p].status = "ACTIVE"
    /\ products[p].category # Null => categories[products[p].category].status = "ACTIVE"

\* The options of the product's group that it configures and that are ACTIVE.
Selectable(p) ==
    {o \in Options : /\ configured[p][o].present
                     /\ options[o].group = products[p].group /\ options[o].status = "ACTIVE"}

Defaults(p) == {o \in Selectable(p) : configured[p][o].default}

Count(selections) == MapThenSumSet(LAMBDA o : selections[o], DOMAIN selections)
Extra(p, selections) ==
    MapThenSumSet(LAMBDA o : configured[p][o].price * selections[o], DOMAIN selections)
UnitPrice(p, s) == IF products[p].base > 0 THEN products[p].base ELSE sizes[p][s].price

\* A size is asked for exactly if the product has no base price.
SizeFits(p, s) ==
    IF products[p].base > 0 THEN s = Null
    ELSE s # Null /\ s \in Actives(p)

\* validateProduct of the cart: the defaults are part of every selection.
Effective(p, requested) ==
    [o \in Defaults(p) \cup DOMAIN requested |-> IF o \in DOMAIN requested THEN requested[o] ELSE 1]

CartAccepts(p, s, requested) ==
    /\ IsOffered(p) /\ SizeFits(p, s)
    /\ IF products[p].group = Null THEN requested = <<>>
       ELSE LET chosen == Effective(p, requested)
                group == groups[products[p].group] IN
            /\ group.status = "ACTIVE"
            /\ \A o \in DOMAIN chosen :
                   /\ o \in Selectable(p) /\ options[o].available
                   /\ configured[p][o].available /\ chosen[o] <= configured[p][o].max
            /\ Count(chosen) \in group.min .. group.max

\* What the cart stores of a request it accepts.
Stored(p, requested) == IF products[p].group = Null THEN <<>> ELSE Effective(p, requested)

\* validateLine of an order: the defaults only stand in for no selection at all; neither
\* the group nor the product's own availability of an option is asked; and the query of a
\* size names a table it does not read, so that no size is ever found.
LineSelections(p, requested) ==
    IF products[p].group # Null /\ requested = <<>>
        THEN [o \in {d \in Defaults(p) : options[d].available} |-> 1]
        ELSE requested

OrderAccepts(p, s, requested) ==
    /\ IsOffered(p)
    /\ products[p].base > 0 /\ s = Null
    /\ products[p].group = Null => requested = <<>>
    /\ \A o \in DOMAIN LineSelections(p, requested) :
           /\ o \in Selectable(p) /\ options[o].available
           /\ LineSelections(p, requested)[o] <= configured[p][o].max

LinePrice(p, requested) == products[p].base + Extra(p, LineSelections(p, requested))

-----------------------------------------------------------------------------
(* The cart *)

\* insertOrMerge: an item of the same configuration takes the quantity.
Merged(items, item) ==
    LET same == {i \in items : [i EXCEPT !.quantity = item.quantity] = item} IN
    (items \ same) \cup
        {[item EXCEPT !.quantity = item.quantity + MapThenSumSet(LAMBDA i : i.quantity, same)]}

Fill(items) ==
    /\ Cardinality(items) <= MaxItems
    /\ \A i \in items : i.quantity <= MaxQuantity
    /\ cart' = items
    /\ UNCHANGED <<catalog, loosened, changes>>

ItemOf(p, s, requested, quantity) ==
    [product |-> p, size |-> s, selections |-> Stored(p, requested), quantity |-> quantity]

AddToCart(p, s, requested, quantity) ==
    /\ CartAccepts(p, s, requested)
    /\ Fill(Merged(cart, ItemOf(p, s, requested, quantity)))

ReplaceCart(p, s, requested, quantity) ==
    /\ CartAccepts(p, s, requested)
    /\ Fill({ItemOf(p, s, requested, quantity)})

\* update: the quantity is set where the configuration stays, and added where it changes
\* into that of another item.
UpdateItem(i, s, requested, quantity) ==
    /\ i \in cart
    /\ CartAccepts(i.product, s, requested)
    /\ Fill(Merged(cart \ {i}, ItemOf(i.product, s, requested, quantity)))

\* assertMutationStore
IsTaking == store.status = "ACTIVE" /\ store.accepting

RemoveItem(i) == i \in cart /\ IsTaking /\ Fill(cart \ {i})
ClearCart == IsTaking /\ Fill({})

\* (In the mutant: the option's group is not compared with that of the product.)
ShownAnyGroup(i, o) ==
    LET p == i.product IN
    /\ options[o].status = "ACTIVE" /\ options[o].available
    /\ configured[p][o].present /\ configured[p][o].available
    /\ i.selections[o] <= configured[p][o].max

\* get: whether a stored selection is shown as selectable
Shown(i, o) ==
    LET p == i.product IN
    /\ options[o].status = "ACTIVE" /\ options[o].available
    /\ configured[p][o].present /\ configured[p][o].available
    /\ products[p].group = options[o].group
    /\ i.selections[o] <= configured[p][o].max

\* get: isOrderable of an item; the main category is not asked.
IsOrderable(i) ==
    LET p == i.product IN
    /\ store.status = "ACTIVE" /\ store.accepting
    /\ products[p].status = "ACTIVE"
    /\ products[p].category # Null => categories[products[p].category].status = "ACTIVE"
    /\ SizeFits(p, i.size)
    /\ \A o \in DOMAIN i.selections : Shown(i, o)
    /\ IF products[p].group = Null THEN i.selections = <<>>
       ELSE LET group == groups[products[p].group] IN
            group.status = "ACTIVE" /\ Count(i.selections) \in group.min .. group.max

ShownPrice(i) == UnitPrice(i.product, i.size) + Extra(i.product, i.selections)

-----------------------------------------------------------------------------

\* What a command may ask for.
ProductGiven == {f \in Product : f.status \in Usable}
SizeGiven == {row \in Size : row.status \in Usable}
GroupGiven == {row \in Group : row.status \in Usable}

CategoryCommand ==
    \/ \E c \in Categories, parent \in Categories \cup {Null}, status \in Usable :
           CreateCategory(c, parent, status) \/ UpdateCategory(c, parent, status)
    \/ \E c \in Categories : ArchiveCategory(c)

ProductCommand ==
    \/ \E p \in Products, f \in ProductGiven, chosen \in SUBSET Sizes, price \in 1 .. MaxPrice :
           \E active \in SUBSET chosen, default \in chosen \cup {Null} :
               CreateProduct(p, f, chosen, active, default, price)
    \/ \E p \in Products, f \in ProductGiven : UpdateProduct(p, f)
    \/ \E p \in Products : ArchiveProduct(p)

SizeCommand ==
    \/ \E p \in Products, s \in Sizes, row \in SizeGiven : AddSize(p, s, row)
    \/ \E p \in Products, s \in Sizes, row \in SizeGiven, r \in Sizes \cup {Null} :
           UpdateSize(p, s, row, r)
    \/ \E p \in Products, s \in Sizes, r \in Sizes \cup {Null}, price \in 0 .. MaxPrice :
           ArchiveSize(p, s, r, price)

ModifierCommand ==
    \/ \E g \in Groups, row \in GroupGiven :
           UpdateGroup(g, row) \/ \E some \in SUBSET Options : CreateGroup(g, row, some)
    \/ \E g \in Groups : ArchiveGroup(g) \/ RestoreGroup(g)
    \/ \E o \in Options, status \in Usable, available \in BOOLEAN :
           \/ UpdateOption(o, status, available)
           \/ \E g \in Groups : AddOption(o, g, status, available)
    \/ \E o \in Options : ArchiveOption(o) \/ RestoreOption(o)
    \/ \E p \in Products, o \in Options, row \in Configuration : Configure(p, o, row)
    \/ \E p \in Products, o \in Options : Unconfigure(p, o)

CatalogCommand ==
    \/ \E status \in RowStatuses \ {"NONE"}, accepting, mainActive \in BOOLEAN :
           WriteStore(status, accepting, mainActive)
    \/ CategoryCommand \/ ProductCommand \/ SizeCommand \/ ModifierCommand

CartCommand ==
    \/ \E p \in Products, s \in Sizes \cup {Null}, some \in Selections :
           \E n \in 1 .. MaxQuantity : AddToCart(p, s, some, n) \/ ReplaceCart(p, s, some, n)
    \/ \E i \in cart, s \in Sizes \cup {Null}, some \in Selections :
           \E n \in 1 .. MaxQuantity : UpdateItem(i, s, some, n)
    \/ \E i \in cart : RemoveItem(i)
    \/ ClearCart

CatalogNext == (changes < MaxChanges /\ CatalogCommand) \/ CartCommand

CatalogSpec == CatalogInit /\ [][CatalogNext]_catalogVars

-----------------------------------------------------------------------------
(* Properties *)

\* A product has a base price or sizes that are not archived, never both and never neither,
\* and of the sizes exactly one is the default, an ACTIVE one: whichever sizes were added,
\* changed and archived in whatever order, each command looking at its own part only.
PricingHolds ==
    \A p \in Products : products[p].status # "NONE" =>
        /\ products[p].base > 0 <=> Remaining(p) = {}
        /\ Remaining(p) # {} =>
               \E s \in Actives(p) : {t \in Remaining(p) : sizes[p][t].default} = {s}

\* A product never has more default options than its group lets a customer select, and so
\* stays orderable, unless it changed groups or an option was restored: those two commands
\* do not count the defaults, all the others together do.
DefaultsExplained ==
    \A p \in Products \ loosened :
        (products[p].status # "NONE" /\ products[p].group # Null) =>
            Cardinality(DefaultsIn(p, products[p].group)) <= groups[products[p].group].max

\* The tree of a store's categories stays two levels deep and nothing that is kept hangs
\* below something archived: a category below its root, a product in its category.
CategoriesHold ==
    /\ \A c \in Categories : (Kept(categories[c]) /\ categories[c].parent # Null) =>
           IsParent(categories[c].parent)
    /\ \A p \in Products : (Kept(products[p]) /\ products[p].category # Null) =>
           Kept(categories[products[p].category])

\* What no single row shows and no constraint of the database keeps.
CatalogHolds == PricingHolds /\ CategoriesHold

\* What the cart shows as orderable can be ordered, at the price shown, however the catalog
\* changed since it was put there: as long as the main category is ACTIVE, which the cart
\* does not ask, and the product has no sizes, none of which an order finds.
CartAgreesWithOrder ==
    \A i \in cart :
        (IsOrderable(i) /\ store.mainActive /\ products[i.product].base > 0) =>
            /\ OrderAccepts(i.product, i.size, i.selections)
            /\ LinePrice(i.product, i.selections) = ShownPrice(i)

=============================================================================

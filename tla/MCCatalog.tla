----------------------------- MODULE MCCatalog -----------------------------
(* Instances of Catalog for TLC: one product, and three catalogs to start from. *)
EXTENDS Catalog, TLC

CONSTANTS p1, s1, s2, s3, c1, c2, c3, g1, g2, o1, o2

NoProduct == [status |-> "NONE", base |-> 0, category |-> Null, group |-> Null]
NoSize == [status |-> "NONE", default |-> FALSE, price |-> 1]
ASize(default) == [NoSize EXCEPT !.status = "ACTIVE", !.default = default]
NoCategory == [status |-> "NONE", parent |-> Null]
NoGroup == [status |-> "NONE", min |-> 0, max |-> 1]
NoOption == [status |-> "NONE", group |-> Null, available |-> TRUE]
AnOption == [status |-> "ACTIVE", group |-> g1, available |-> TRUE]
NotConfigured == [present |-> FALSE, price |-> 0, default |-> FALSE, max |-> 1, available |-> TRUE]

Empty == [ categories |-> [c \in Categories |-> NoCategory],
           products |-> [p \in Products |-> NoProduct],
           sizes |-> [p \in Products |-> [s \in Sizes |-> NoSize]],
           groups |-> [g \in Groups |-> NoGroup],
           options |-> [o \in Options |-> NoOption],
           configured |-> [p \in Products |-> [o \in Options |-> NotConfigured]],
           changes |-> 0 ]

\* A root with a category below it.
Tree == [ Empty EXCEPT
            !.categories = (c1 :> [status |-> "ACTIVE", parent |-> Null]) @@
                           (c2 :> [status |-> "ACTIVE", parent |-> c1]) @@
                           [c \in Categories |-> NoCategory],
            !.changes = 1 ]

\* A product with two sizes.
Sized == [ Empty EXCEPT
            !.products = [p \in Products |-> [NoProduct EXCEPT !.status = "ACTIVE"]],
            !.sizes = [p \in Products |->
                (s1 :> ASize(TRUE)) @@ (s2 :> ASize(FALSE)) @@ [s \in Sizes |-> NoSize]] ]

\* A product with a group of two options, the first one its default; and another group.
Modified == [ Empty EXCEPT
            !.products = [p \in Products |->
                [NoProduct EXCEPT !.status = "ACTIVE", !.base = 1, !.group = g1]],
            !.groups = [g \in Groups |-> [NoGroup EXCEPT !.status = "ACTIVE", !.max = 2]],
            !.options = [o \in Options |-> AnOption],
            !.configured = [p \in Products |->
                (o1 :> [NotConfigured EXCEPT !.present = TRUE, !.default = TRUE]) @@
                [o \in Options |-> NotConfigured]] ]

\* A run starts from one of the three instead of from the empty catalog, so that the few
\* changes it is allowed reach further.  Each can be created from the empty one.
StockInit ==
    /\ store = [status |-> "ACTIVE", accepting |-> TRUE, mainActive |-> TRUE]
    /\ \E s \in {Tree, Sized, Modified} :
           /\ categories = s.categories /\ products = s.products /\ sizes = s.sizes
           /\ groups = s.groups /\ options = s.options /\ configured = s.configured
           /\ changes = s.changes
    /\ cart = {} /\ loosened = {}

StockSpec == StockInit /\ [][CatalogNext]_catalogVars

=============================================================================

----------------------------- MODULE OrderItems -----------------------------
(***************************************************************************)
(* What an order costs and how often a command counts: the customer places *)
(* the order, the merchant or the desk edits its lines, and each of them   *)
(* sends a command again when the answer is lost.                          *)
(*                                                                         *)
(* Placing asks for a delivery quote first, outside of any transaction,    *)
(* and only then takes the lock of its key and looks the key up.  An edit  *)
(* is one transaction that holds its key and the order's row, so that it   *)
(* is one action here.  Prices, the store and the coverage change at any   *)
(* time, and a transaction holds the rows it read until it commits: what   *)
(* it finds is chosen when it runs.                                        *)
(***************************************************************************)
EXTENDS Naturals, Sequences, FiniteSets

CONSTANTS Products, Orders,
          Carts,         \* what a customer may ask for: sequences of [product, quantity]
          PlaceKeys,     \* keys of one customer in one city
          Placings,      \* concurrent requests to place
          EditKeys,      \* keys of one actor in one city
          MaxPrice,      \* bound: prices are 1 .. MaxPrice
          MaxQuantity,   \* bound: quantities in edits, 99 in the code
          MaxLines,      \* bound: lines an order grows to
          MaxEdits,      \* bound: edits in all
          None

ASSUME OrderItemsAssumption ==
    /\ MaxPrice \in Nat \ {0} /\ MaxQuantity \in Nat \ {0} /\ MaxLines \in Nat /\ MaxEdits \in Nat
    /\ Carts \subseteq Seq([product : Products, quantity : 1 .. MaxQuantity])
    /\ None \notin Orders \cup Carts

VARIABLES
    orders,       \* PostgreSQL: orders
    items,        \* PostgreSQL: order_items, in the order of their creation
    placed,       \* PostgreSQL: order_idempotency_keys
    commands,     \* PostgreSQL: offer_idempotency_keys; the rows that are COMPLETED
    placings      \* placings[c]: the request c and how far it is

vars == <<orders, items, placed, commands, placings>>

Operations == {"itemAdd", "itemRemove", "itemQuantity", "itemReplace"}

Order == [ status   : {"NONE", "EDITABLE", "LOCKED"},
           subtotal : Nat ]

Line == [ product  : Products,
          price    : 1 .. MaxPrice,     \* unit_price_snapshot with its modifiers
          quantity : 1 .. MaxQuantity,
          total    : Nat,
          state    : {"ACTIVE", "REMOVED", "REPLACED"},
          before   : {"ACTIVE", "REMOVED"},   \* what it was when it was replaced
          replaces : 0 .. MaxLines ]

\* What is hashed with a command; line, quantity and product where it has them.
Arguments == [ order    : Orders,
               line     : 0 .. MaxLines,
               product  : Products \cup {None},
               quantity : 0 .. MaxQuantity ]

Placing == [ step  : {"idle", "quoted", "answered", "refused", "gone"},
             cart  : Carts \cup {None},
             key   : PlaceKeys \cup {None},
             again : BOOLEAN,            \* its order was there when the request came
             order : Orders \cup {None} ]

NoPlacing == [step |-> "idle", cart |-> None, key |-> None, again |-> FALSE, order |-> None]

TypeOK ==
    /\ orders \in [Orders -> Order]
    /\ items \in [Orders -> Seq(Line)]
    /\ DOMAIN placed \subseteq PlaceKeys
    /\ placed \in [DOMAIN placed -> [cart : Carts, order : Orders]]
    /\ DOMAIN commands \subseteq Operations \X EditKeys
    /\ commands \in [DOMAIN commands -> Arguments]
    /\ placings \in [Placings -> Placing]

Init ==
    /\ orders = [o \in Orders |-> [status |-> "NONE", subtotal |-> 0]]
    /\ items = [o \in Orders |-> <<>>]
    /\ placed = <<>>
    /\ commands = <<>>
    /\ placings = [c \in Placings |-> NoPlacing]

With(f, x, v) == [y \in DOMAIN f \cup {x} |-> IF y = x THEN v ELSE f[y]]

\* amounts[1] + ... + amounts[n]
Sum(n, amounts) ==
    LET sum[i \in 0 .. n] == IF i = 0 THEN 0 ELSE sum[i - 1] + amounts[i]
    IN sum[n]

Total(lines) == Sum(Len(lines), [i \in DOMAIN lines |-> lines[i].total])

-----------------------------------------------------------------------------
(* Validation of a line: what it would be in the order now *)

\* validateLine holds the store and the product FOR SHARE until the transaction ends.
LineOf(product, quantity, price, replaced) ==
    [ product |-> product, price |-> price, quantity |-> quantity,
      total |-> price * quantity, state |-> "ACTIVE", before |-> "ACTIVE",
      replaces |-> replaced ]

-----------------------------------------------------------------------------
(* Placing *)

Answered(c, order) == placings' = [placings EXCEPT ![c].step = "answered", ![c].order = order]
Refused(c) == placings' = [placings EXCEPT ![c].step = "refused"]

\* Whether a request is a repetition whose order exists.
IsRepeated(cart, key) == key \in DOMAIN placed /\ placed[key].cart = cart

\* estimate, before the transaction: the store accepts orders and there is a delivery to
\* the address, or the request is refused.
Quote(c, cart, key, admits) ==
    /\ placings[c].step = "idle"
    /\ placings' = [placings EXCEPT ![c] =
           [ step |-> IF admits THEN "quoted" ELSE "refused", cart |-> cart, key |-> key,
             again |-> IsRepeated(cart, key), order |-> None ]]
    /\ UNCHANGED <<orders, items, placed, commands>>

\* (In the mutant: the key is looked up before the lock is taken.)
KnownAtFirst(c) == placings[c].key \in DOMAIN placed /\ placings[c].again
Known(c) == placings[c].key \in DOMAIN placed

\* The key is known: its order, or a refusal to take it for another payload.
PlaceAgain(c) ==
    /\ placings[c].step = "quoted"
    /\ Known(c)
    /\ IF placed[placings[c].key].cart = placings[c].cart
       THEN Answered(c, placed[placings[c].key].order)
       ELSE Refused(c)
    /\ UNCHANGED <<orders, items, placed, commands>>

PlacedLines(cart, prices) ==
    [ i \in DOMAIN cart |->
          LineOf(cart[i].product, cart[i].quantity, prices[cart[i].product], 0) ]

PlaceNew(c, o, prices) ==
    /\ placings[c].step = "quoted"
    /\ ~Known(c)
    /\ orders[o].status = "NONE"
    /\ LET lines == PlacedLines(placings[c].cart, prices) IN
       /\ orders' = [orders EXCEPT ![o] = [status |-> "EDITABLE", subtotal |-> Total(lines)]]
       /\ items' = [items EXCEPT ![o] = lines]
    /\ placed' = With(placed, placings[c].key, [cart |-> placings[c].cart, order |-> o])
    /\ Answered(c, o)
    /\ UNCHANGED commands

\* The transaction finds what the quote did not: the store no longer accepts orders, a
\* product cannot be had, the address is not covered.
PlaceRefused(c) ==
    /\ placings[c].step = "quoted"
    /\ ~Known(c)
    /\ Refused(c)
    /\ UNCHANGED <<orders, items, placed, commands>>

\* The answer arrives, or is lost and the customer asks again: with another request.
Answer(c) ==
    /\ placings[c].step \in {"answered", "refused"}
    /\ placings' = [placings EXCEPT ![c] = [NoPlacing EXCEPT !.step = "gone"]]
    /\ UNCHANGED <<orders, items, placed, commands>>

-----------------------------------------------------------------------------
(* Edits: one transaction each, that begins with the key *)

\* beginOfferIdempotency inserts the key, or waits for the transaction that holds it.
\* The row a transaction inserts is COMPLETED when it commits and gone when it does not.
\* (In the mutant: the key is not in the way of a command that has another payload.)
ProceedsUnlessSame(op, key, of) ==
    <<op, key>> \in DOMAIN commands => commands[<<op, key>>] # of
Proceeds(op, key, of) == <<op, key>> \notin DOMAIN commands

Editable(o) == orders[o].status = "EDITABLE"

\* (In the mutant: a line may be edited again after it has been removed or replaced.)
Present(o, i) == i \in DOMAIN items[o]
Active(o, i) == i \in DOMAIN items[o] /\ items[o][i].state = "ACTIVE"

\* The order has these lines, its subtotal changes by what goes and what comes, which the
\* table admits unless it becomes negative, and the key is used up.
Edit(op, key, of, lines, less, more) ==
    /\ Cardinality(DOMAIN commands) < MaxEdits
    /\ orders[of.order].subtotal + more >= less
    /\ orders' = [orders EXCEPT ![of.order].subtotal = @ + more - less]
    /\ items' = [items EXCEPT ![of.order] = lines]
    /\ commands' = With(commands, <<op, key>>, of)
    /\ UNCHANGED <<placed, placings>>

AddItem(key, of, price) ==
    /\ Proceeds("itemAdd", key, of)
    /\ Editable(of.order)
    /\ Len(items[of.order]) < MaxLines
    /\ LET line == LineOf(of.product, of.quantity, price, 0) IN
       Edit("itemAdd", key, of, Append(items[of.order], line), 0, line.total)

RemoveItem(key, of) ==
    /\ Proceeds("itemRemove", key, of)
    /\ Editable(of.order)
    /\ Active(of.order, of.line)
    /\ Edit("itemRemove", key, of,
            [items[of.order] EXCEPT ![of.line].state = "REMOVED"],
            items[of.order][of.line].total, 0)

\* The prices are those the line was ordered at.
ChangeQuantity(key, of) ==
    /\ Proceeds("itemQuantity", key, of)
    /\ Editable(of.order)
    /\ Active(of.order, of.line)
    /\ LET line  == items[of.order][of.line]
           total == line.price * of.quantity
       IN Edit("itemQuantity", key, of,
               [items[of.order] EXCEPT ![of.line].quantity = of.quantity,
                                       ![of.line].total = total],
               line.total, total)

\* A line that was removed may be replaced; its total is taken off once more.
Replaceable(line) == line.state # "REPLACED"

ReplaceItem(key, of, price) ==
    /\ Proceeds("itemReplace", key, of)
    /\ Editable(of.order)
    /\ of.line \in DOMAIN items[of.order]
    /\ Replaceable(items[of.order][of.line])
    /\ Len(items[of.order]) < MaxLines
    /\ LET original == items[of.order][of.line]
           line     == LineOf(of.product, of.quantity, price, of.line)
       IN Edit("itemReplace", key, of,
               Append([items[of.order] EXCEPT
                           ![of.line].state = "REPLACED",
                           ![of.line].before =
                               IF original.state = "REPLACED" THEN @ ELSE original.state], line),
               original.total, line.total)

-----------------------------------------------------------------------------
(* What goes on around them *)

\* The lifecycle locks the items, and a reopened order may be edited again.
Progress(o) ==
    /\ orders[o].status \in {"EDITABLE", "LOCKED"}
    /\ orders' = [orders EXCEPT ![o].status = IF @ = "EDITABLE" THEN "LOCKED" ELSE "EDITABLE"]
    /\ UNCHANGED <<items, placed, commands, placings>>

Next ==
    \/ \E c \in Placings :
           \/ \E cart \in Carts, key \in PlaceKeys, admits \in BOOLEAN :
                  Quote(c, cart, key, admits)
           \/ PlaceAgain(c)
           \/ \E o \in Orders, prices \in [Products -> 1 .. MaxPrice] : PlaceNew(c, o, prices)
           \/ PlaceRefused(c)
           \/ Answer(c)
    \/ \E key \in EditKeys, o \in Orders :
           \/ \E p \in Products, q \in 1 .. MaxQuantity, price \in 1 .. MaxPrice :
                  AddItem(key, [order |-> o, line |-> 0, product |-> p, quantity |-> q], price)
           \/ \E i \in 1 .. MaxLines :
                  \/ RemoveItem(key, [order |-> o, line |-> i, product |-> None, quantity |-> 0])
                  \/ \E q \in 1 .. MaxQuantity :
                         ChangeQuantity(key, [order |-> o, line |-> i, product |-> None,
                                              quantity |-> q])
                  \/ \E p \in Products, q \in 1 .. MaxQuantity, price \in 1 .. MaxPrice :
                         ReplaceItem(key, [order |-> o, line |-> i, product |-> p,
                                           quantity |-> q], price)
    \/ \E o \in Orders : Progress(o)

Spec == Init /\ [][Next]_vars

-----------------------------------------------------------------------------
(* Properties *)

\* What the active ones of these lines cost, and the ones that were removed and then
\* replaced.
ActiveTotal(lines) ==
    Sum(Len(lines), [i \in DOMAIN lines |->
        IF lines[i].state = "ACTIVE" THEN lines[i].total ELSE 0])

RemovedThenReplacedTotal(lines) ==
    Sum(Len(lines), [i \in DOMAIN lines |->
        IF lines[i].state = "REPLACED" /\ lines[i].before = "REMOVED"
        THEN lines[i].total ELSE 0])

\* What an order costs is what its active lines cost, less the lines that were replaced
\* after they had been removed, whose totals replaceItem takes off a second time
\* (order.service.ts addItem, removeItem, changeQuantity, replaceItem, each of which
\* derives the subtotal from the one before and never from the lines).
SubtotalExplained ==
    \A o \in Orders :
        orders[o].subtotal + RemovedThenReplacedTotal(items[o]) = ActiveTotal(items[o])

\* "Recalculate product subtotal + total" (docs/m4a-orders-core.md): the subtotal of an
\* order is the sum of its active lines.
SubtotalAgrees ==
    \A o \in Orders : orders[o].subtotal = ActiveTotal(items[o])

\* Each line was replaced by one other at most, and has the state for it: the audit rows
\* of an order form chains (replaceItem, ORDER_ITEM_ALREADY_REPLACED).
ReplacedOnce ==
    \A o \in Orders : \A i \in DOMAIN items[o] :
        Cardinality({j \in DOMAIN items[o] : items[o][j].replaces = i})
            = IF items[o][i].state = "REPLACED" THEN 1 ELSE 0

\* The lines of an order account for its subtotal and for each other.
LinesExplained == SubtotalExplained /\ ReplacedOnce

\* However often, and at whatever time, a customer repeats a request, there is one order
\* for it, and two requests that were answered with one order asked for the same under the
\* same key (OrderService.create, its advisory lock and order_idempotency_keys).
PlacedOnce ==
    /\ \A o \in Orders :
           orders[o].status # "NONE" =>
               Cardinality({k \in DOMAIN placed : placed[k].order = o}) = 1
    /\ \A c \in Placings :
           placings[c].step = "answered" =>
               /\ placings[c].key \in DOMAIN placed
               /\ placed[placings[c].key] = [cart |-> placings[c].cart, order |-> placings[c].order]

\* An order that was placed changes its lines only by a command whose key has been used
\* for nothing yet and is used up with it: a command that is repeated, or sent with an old
\* key, edits nothing (beginOfferIdempotency and completeOfferIdempotency, in the
\* transaction of the edit).
EditsOncePerKey ==
    [][\A o \in Orders :
           orders[o].status # "NONE" /\ items'[o] # items[o] =>
               \E c \in DOMAIN commands' \ DOMAIN commands :
                   /\ \A d \in DOMAIN commands : commands'[d] = commands[d]
                   /\ commands'[c].order = o]_vars

\* "Same payload replays the original order" (docs/m4a-orders-core.md): a request that
\* repeats one whose order exists is not refused.
RetryIsAnswered ==
    \A c \in Placings : placings[c].again => placings[c].step # "refused"

=============================================================================

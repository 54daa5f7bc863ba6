------------------------------- MODULE Orders -------------------------------
(***************************************************************************)
(* Placing and cancelling orders: any number of use-case calls run in one  *)
(* event loop and share the products and the orders of the repositories.   *)
(* Modelled from PlaceOrderUseCase, CancelOrderUseCase, load_owned_order,  *)
(* Order, Sku and the repository ports with their in-memory adapters.      *)
(*                                                                         *)
(* A call can be interrupted, fail or be cancelled wherever it awaits a    *)
(* repository, so one action is one reply of a repository with what the    *)
(* use case does until it awaits again.  A repository hands out the object *)
(* it keeps, not a copy, as the in-memory adapters do; a save that fails   *)
(* saved nothing.                                                          *)
(***************************************************************************)
EXTENDS Naturals, Sequences, FiniteSets, Functions

CONSTANTS
    Placement,       \* the calls that place an order, and the orders they place
    Cancellation,    \* the calls that cancel one
    Buyer,           \* the buyers
    Sku,             \* what a command can name, existing or not
    Sold,            \* those that exist and ship to the address
    BuyerOf,         \* the buyer of each call
    Items,           \* the items of each placement: a SKU and a quantity
    CurrencyOf,      \* the currency of each SKU's price
    Initial,         \* the stock to begin with
    None,            \* no order
    MaxFailures      \* bound: failed or cancelled repository calls

Item == [sku : Sku, quantity : Nat \ {0}]

ASSUME OrdersAssumption ==
    /\ Sold \subseteq Sku
    /\ BuyerOf \in [Placement \union Cancellation -> Buyer]
    /\ Items \in [Placement -> Seq(Item)]
    /\ \A p \in Placement : Len(Items[p]) > 0
    /\ Initial \in [Sku -> Nat]
    /\ IsFiniteSet(Placement)
    /\ None \notin Placement
    /\ MaxFailures \in Nat

VARIABLES
    stock,           \* Sku.stock
    lines,           \* what each placement deducted: the lines of its order
    taken,           \* how many of its items a placement has dealt with
    placing,         \* where each placement is
    lastId,          \* the order-id counter
    orderId,         \* the id each order was given, 0 before that
    repository,      \* the order saved under each id
    status,          \* Order.status of each order
    cancelling,      \* where each cancellation is
    target,          \* the order it loaded
    looked,          \* how many of the order's items it has looked up
    failures         \* bookkeeping: failed repository calls so far

vars == <<stock, lines, taken, placing, lastId, orderId, repository, status,
          cancelling, target, looked, failures>>

Init ==
    /\ stock = Initial
    /\ lines = [p \in Placement |-> [s \in Sku |-> 0]]
    /\ taken = [p \in Placement |-> 0]
    /\ placing = [p \in Placement |-> "items"]
    /\ lastId = 0
    /\ orderId = [p \in Placement |-> 0]
    /\ repository = <<>>
    /\ status = [p \in Placement |-> "DRAFT"]
    /\ cancelling = [c \in Cancellation |-> "load"]
    /\ target = [c \in Cancellation |-> None]
    /\ looked = [c \in Cancellation |-> 0]
    /\ failures = 0

-----------------------------------------------------------------------------
(* Placing an order                                                        *)

Goto(p, step) == placing' = [placing EXCEPT ![p] = step]

\* The finally clause: everything that was deducted goes back.
Restored(p) == [s \in Sku |-> stock[s] + lines[p][s]]

\* (mutant of Rollback: only the failure of an item is compensated)
RollbackItemsOnly(p) ==
    /\ stock' = IF placing[p] = "items" THEN Restored(p) ELSE stock
    /\ Goto(p, "failed")

Rollback(p) ==
    /\ stock' = Restored(p)
    /\ Goto(p, "failed")

\* (mutant of IsAvailable: off by one)
IsAvailableButOne(s, quantity) == stock[s] + 1 >= quantity

IsAvailable(s, quantity) == stock[s] >= quantity

\* find_by_id answers for the next item, which is deducted at once.
DeductItem(p) ==
    LET item == Items[p][taken[p] + 1] IN
    /\ placing[p] = "items"
    /\ item.sku \in Sold
    /\ IsAvailable(item.sku, item.quantity)
    /\ stock' = [stock EXCEPT ![item.sku] = @ - item.quantity]
    /\ lines' = [lines EXCEPT ![p][item.sku] = @ + item.quantity]
    /\ taken' = [taken EXCEPT ![p] = @ + 1]
    /\ Goto(p, IF taken[p] + 1 = Len(Items[p]) THEN "id" ELSE "items")
    /\ UNCHANGED <<lastId, orderId, repository, status, cancelling, target,
                   looked, failures>>

\* The item does not exist, does not ship or is out of stock.
RejectItem(p) ==
    LET item == Items[p][taken[p] + 1] IN
    /\ placing[p] = "items"
    /\ item.sku \notin Sold \/ ~ IsAvailable(item.sku, item.quantity)
    /\ Rollback(p)
    /\ UNCHANGED <<lines, taken, lastId, orderId, repository, status, cancelling,
                   target, looked, failures>>

Currencies(p) == {CurrencyOf[Items[p][i].sku] : i \in 1..Len(Items[p])}

\* (mutant of NextOrderId: the counter restarts at the number of saved orders)
NextIdBySize == Cardinality(DOMAIN repository) + 1

NextOrderId == lastId + 1

\* next_order_id answers, and Order.place makes and confirms the order.  Lines
\* of different currencies are refused there.
MakeOrder(p) ==
    /\ placing[p] = "id"
    /\ lastId' = NextOrderId
    /\ IF Cardinality(Currencies(p)) = 1
       THEN /\ orderId' = [orderId EXCEPT ![p] = NextOrderId]
            /\ status' = [status EXCEPT ![p] = "CONFIRMED"]
            /\ Goto(p, "save")
            /\ UNCHANGED stock
       ELSE /\ Rollback(p)
            /\ UNCHANGED <<orderId, status>>
    /\ UNCHANGED <<lines, taken, repository, cancelling, target, looked, failures>>

SaveOrder(p) ==
    /\ placing[p] = "save"
    /\ repository' = [i \in DOMAIN repository \union {orderId[p]} |->
                         IF i = orderId[p] THEN p ELSE repository[i]]
    /\ Goto(p, "placed")
    /\ UNCHANGED <<stock, lines, taken, lastId, orderId, status, cancelling,
                   target, looked, failures>>

\* Any call of a placement fails, or its task is cancelled while it waits.
PlacementFails(p) ==
    /\ placing[p] \in {"items", "id", "save"}
    /\ failures < MaxFailures
    /\ failures' = failures + 1
    /\ Rollback(p)
    /\ UNCHANGED <<lines, taken, lastId, orderId, repository, status, cancelling,
                   target, looked>>

-----------------------------------------------------------------------------
(* Cancelling an order                                                     *)

MayAccess(c, p) == BuyerOf[p] = BuyerOf[c]

MayLoad(c, id) == id \in DOMAIN repository /\ MayAccess(c, repository[id])

\* load_owned_order, for an id the caller may well have invented.
LoadOrder(c, id) ==
    /\ cancelling[c] = "load"
    /\ \/ /\ MayLoad(c, id)
          /\ target' = [target EXCEPT ![c] = repository[id]]
          /\ cancelling' = [cancelling EXCEPT ![c] = "lookup"]
       \/ /\ ~ MayLoad(c, id)
          /\ cancelling' = [cancelling EXCEPT ![c] = "refused"]
          /\ UNCHANGED target
    /\ UNCHANGED <<stock, lines, taken, placing, lastId, orderId, repository,
                   status, looked, failures>>

\* find_by_id answers for a line that is not the last one.
LookUpLine(c) ==
    /\ cancelling[c] = "lookup"
    /\ looked[c] + 1 < Len(Items[target[c]])
    /\ looked' = [looked EXCEPT ![c] = @ + 1]
    /\ UNCHANGED <<stock, lines, taken, placing, lastId, orderId, repository,
                   status, cancelling, target, failures>>

\* (mutant of MayCancel: Order.cancel does not look at the status)
MayCancelAgain(p) == TRUE

MayCancel(p) == status[p] = "CONFIRMED"

\* The last answer: the order is cancelled and its lines go back, or it was
\* cancelled by another call in the meantime.
CancelOrder(c) ==
    LET p == target[c] IN
    /\ cancelling[c] = "lookup"
    /\ looked[c] + 1 = Len(Items[p])
    /\ \/ /\ MayCancel(p)
          /\ status' = [status EXCEPT ![p] = "CANCELLED"]
          /\ stock' = Restored(p)
          /\ cancelling' = [cancelling EXCEPT ![c] = "save"]
       \/ /\ ~ MayCancel(p)
          /\ cancelling' = [cancelling EXCEPT ![c] = "refused"]
          /\ UNCHANGED <<status, stock>>
    /\ UNCHANGED <<lines, taken, placing, lastId, orderId, repository, target,
                   looked, failures>>

\* The repository already holds this object, so the save changes nothing.
SaveCancelled(c) ==
    /\ cancelling[c] = "save"
    /\ cancelling' = [cancelling EXCEPT ![c] = "cancelled"]
    /\ UNCHANGED <<stock, lines, taken, placing, lastId, orderId, repository,
                   status, target, looked, failures>>

\* Any call of a cancellation fails or is cancelled; nothing is undone.
CancellationFails(c) ==
    /\ cancelling[c] \in {"load", "lookup", "save"}
    /\ failures < MaxFailures
    /\ failures' = failures + 1
    /\ cancelling' = [cancelling EXCEPT ![c] =
                         IF cancelling[c] = "save" THEN "unsaved" ELSE "refused"]
    /\ UNCHANGED <<stock, lines, taken, placing, lastId, orderId, repository,
                   status, target, looked>>

-----------------------------------------------------------------------------
Place(p) ==
    \/ DeductItem(p)
    \/ RejectItem(p)
    \/ MakeOrder(p)
    \/ SaveOrder(p)
    \/ PlacementFails(p)

\* Ids beyond the counter are all alike: one of them stands for the rest.
Cancel(c) ==
    \/ \E id \in 1..(lastId + 1) : LoadOrder(c, id)
    \/ LookUpLine(c)
    \/ CancelOrder(c)
    \/ SaveCancelled(c)
    \/ CancellationFails(c)

Next ==
    \/ \E p \in Placement : Place(p)
    \/ \E c \in Cancellation : Cancel(c)

Spec == Init /\ [][Next]_vars

-----------------------------------------------------------------------------
(* Properties                                                              *)

\* Among the types: no stock is ever negative, so nothing is oversold.
TypeOK ==
    /\ stock \in [Sku -> Nat]
    /\ lines \in [Placement -> [Sku -> Nat]]
    /\ \A p \in Placement : taken[p] \in 0..Len(Items[p])
    /\ placing \in [Placement -> {"items", "id", "save", "placed", "failed"}]
    /\ lastId \in Nat
    /\ orderId \in [Placement -> Nat]
    /\ DOMAIN repository \subseteq Nat \ {0}
    /\ \A id \in DOMAIN repository : repository[id] \in Placement
    /\ status \in [Placement -> {"DRAFT", "CONFIRMED", "CANCELLED"}]
    /\ cancelling \in [Cancellation ->
           {"load", "lookup", "save", "cancelled", "unsaved", "refused"}]
    /\ target \in [Cancellation -> Placement \union {None}]
    /\ looked \in [Cancellation -> Nat]
    /\ failures \in Nat

\* What an order or a placement under way keeps from the stock.
Keeps(p) ==
    placing[p] \in {"items", "id", "save"}
    \/ (placing[p] = "placed" /\ status[p] = "CONFIRMED")

\* No unit is lost or invented: what is missing from the stock is in a
\* placement under way or in an order that was placed and not cancelled,
\* whichever calls overlap, fail or are cancelled.  (the finally clause of
\* PlaceOrderUseCase, the order of the steps of CancelOrderUseCase)
StockConserved ==
    \A s \in Sku :
        stock[s] + SumFunction([p \in Placement |-> IF Keeps(p) THEN lines[p][s] ELSE 0])
            = Initial[s]

\* A placed order stays in the repository under its id, so its buyer can query
\* and cancel it.  (next_order_id and save of calls that overlap)
OrderKept ==
    \A p \in Placement :
        placing[p] = "placed" =>
            orderId[p] \in DOMAIN repository /\ repository[orderId[p]] = p

\* Of several calls that cancel one order, all of which may have loaded it
\* while it was confirmed, at most one succeeds and returns the stock; it is a
\* call of the order's own buyer, and the order was saved before.  (Order.cancel
\* after the last await of CancelOrderUseCase, load_owned_order)
CancelledOnce ==
    \A c, d \in Cancellation :
        /\ cancelling[c] \in {"save", "cancelled", "unsaved"}
        /\ cancelling[d] \in {"save", "cancelled", "unsaved"}
        /\ target[c] = target[d]
        => c = d
CancelledByOwner ==
    \A p \in Placement :
        status[p] = "CANCELLED" =>
            /\ placing[p] = "placed"
            /\ \E c \in Cancellation : target[c] = p /\ BuyerOf[c] = BuyerOf[p]
CancelledOnceByOwner == CancelledOnce /\ CancelledByOwner

=============================================================================

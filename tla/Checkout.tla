------------------------------ MODULE Checkout ------------------------------
(***************************************************************************)
(* From a cart to an order and back (src/store/orders.js, pricing.js,      *)
(* coupons.js, catalog.js): the quote, the one transaction that places an  *)
(* order, cancelling and restoring it, the owner's edits of the catalogue, *)
(* and the published storefront that has to follow the stock.              *)
(*                                                                         *)
(* Everything here is synchronous, so a handler is one action.  What may   *)
(* come between two of them is an edit between the quote the shopper saw   *)
(* and the order, an order between opening a product's form and saving it, *)
(* and a crash before the storefront was rebuilt.                          *)
(***************************************************************************)
EXTENDS Integers, FiniteSets, Functions

CONSTANTS
  Items,      \* what is counted and sold: a product, or one option of it
  Keys,       \* the (sku, variant) pairs a cart may hold
  ItemOf,     \* key -> the item it resolves to
  Orders,     \* bound: the orders that may be placed
  Prices,     \* unit prices, in minor units
  Off,        \* what the coupon takes off, at most the subtotal
  Limits,     \* the max_uses the owner may give the coupon
  Codes,      \* may the shopper enter the coupon's code, may they not
  MaxQty,     \* MAX_QTY, the most of one item in an order
  PerOrder,   \* item -> its own max_per_order, MaxQty when it has none
  MaxStock,   \* bound: the stock the owner may set
  MaxUnits,   \* bound: the stock a cancelled order may bring an item to
  Low,        \* the low-stock line
  Losses      \* how a rebuild may be lost: "crash", "export" (one that throws)

Untracked == -1   \* stock IS NULL: sold without counting
Gone      == -2   \* no such row

ASSUME CheckoutAssumption ==
  /\ ItemOf \in [Keys -> Items]
  /\ IsFiniteSet(Keys) /\ IsFiniteSet(Items) /\ IsFiniteSet(Orders)
  /\ PerOrder \in [Items -> 1 .. MaxQty]
  /\ Prices \subseteq Nat /\ Limits \subseteq Nat /\ Off \in Nat
  /\ MaxQty \in Nat /\ Low \in Nat
  /\ MaxUnits \in Nat /\ MaxStock \in 0 .. MaxUnits
  /\ Codes \subseteq BOOLEAN /\ Losses \subseteq {"crash", "export"}

VARIABLES
  stock,    \* item -> its count, Untracked or Gone
  price,    \* item -> its unit price
  coupon,   \* the one coupon: is it there, its uses and their limit
  order,    \* order -> status, lines, whether the coupon was used, the total charged
  cart,     \* the shopper's stored cart, the code on the checkout page, and the
            \* total last shown for exactly this cart, if it was
  form,     \* the product editor the owner has open, if any: its item and the stock it shows
  pub,      \* item -> what the published storefront says of its stock
  timer,    \* is a rebuild scheduled?
  missed    \* history: has a rebuild been lost since the storefront was last built?

vars == <<stock, price, coupon, order, cart, form, pub, timer, missed>>

Lines   == [Items -> 0 .. MaxQty]
Stock   == {Gone, Untracked} \cup 0 .. MaxUnits
NoLines == [i \in Items |-> 0]
NoOrder == [status |-> "none", lines |-> NoLines, coupon |-> FALSE, total |-> 0]
NoCart  == [want |-> [k \in Keys |-> 0], coupon |-> FALSE, shown |-> FALSE, total |-> 0]
Form    == [item: Items, stock: Stock]

-----------------------------------------------------------------------------
(* What the storefront says of a count: untracked, sold out, the exact number *)
(* at or under the low-stock line, or plenty (soldOutFingerprint).            *)

Mark(n) == IF n <= Low THEN n ELSE Low + 1
Marks(counts) == [i \in Items |-> Mark(counts[i])]

Init ==
  /\ stock \in [Items -> 0 .. MaxStock]
  /\ price \in [Items -> Prices]
  /\ coupon \in [live: {TRUE}, used: {0}, max: Limits]
  /\ order = [o \in Orders |-> NoOrder]
  /\ cart = NoCart /\ form = {}
  /\ pub = Marks(stock) /\ timer = FALSE /\ missed = FALSE

-----------------------------------------------------------------------------
(* The quote: a cart resolved, merged and clamped against the database. *)

Smaller(a, b) == IF a < b THEN a ELSE b

\* Lines that are the same item in truth are one line, at most MAX_QTY.
Asked(want, i) == Smaller(SumFunctionOnSet(want, {k \in Keys : ItemOf[k] = i}), MaxQty)

\* A product that is gone or sold out leaves the cart; a count too high is clamped.
Left(want, i) ==
  LET most == Smaller(Asked(want, i), PerOrder[i])
  IN CASE stock[i] = Gone      -> 0
       [] stock[i] = Untracked -> most
       [] OTHER                -> Smaller(most, stock[i])

QuoteLines(want) == [i \in Items |-> Left(want, i)]

\* The cart is not what the shopper asked for any more: GONE, SOLD_OUT,
\* STOCK_LIMIT, QTY_LIMIT.
Changed(want) == \E i \in Items : Left(want, i) # Asked(want, i)

CouponApplies == coupon.live /\ coupon.used < coupon.max

Total(lines, off) ==
  LET subtotal == SumFunctionOnSet([i \in Items |-> price[i] * lines[i]], Items)
  IN IF off THEN subtotal - Smaller(Off, subtotal) ELSE subtotal

\* Any page of the shop, in any tab: the quantity of one line of the stored cart.
SetQty(k, n) ==
  /\ cart' = [cart EXCEPT !.want[k] = n, !.shown = FALSE, !.total = 0]
  /\ UNCHANGED <<stock, price, coupon, order, form, pub, timer, missed>>

\* The quote's lines, each under one of the item's keys (adopt).
Adopted(lines) ==
  [k \in Keys |-> IF k = CHOOSE j \in Keys : ItemOf[j] = ItemOf[k] THEN lines[ItemOf[k]] ELSE 0]

Quoted(code) ==
  LET lines == QuoteLines(cart.want)
  IN [want |-> Adopted(lines), coupon |-> code, shown |-> TRUE,
      total |-> Total(lines, code /\ CouponApplies)]

\* The cart page and the checkout page show the quote, and the cart follows it.
ShowQuote(code) ==
  /\ cart' = Quoted(code)
  /\ UNCHANGED <<stock, price, coupon, order, form, pub, timer, missed>>

-----------------------------------------------------------------------------
(* Taking stock and giving it back. *)

\* A counted item has enough, or the item is not counted (takeStock).
CanTake(lines) ==
  \A i \in Items : lines[i] > 0 => stock[i] = Untracked \/ stock[i] >= lines[i]

Take(lines) == [i \in Items |-> IF stock[i] >= 0 THEN stock[i] - lines[i] ELSE stock[i]]
Give(lines) == [i \in Items |-> IF stock[i] >= 0 THEN stock[i] + lines[i] ELSE stock[i]]

WithinUnits(counts) == \A i \in Items : counts[i] <= MaxUnits   \* bound

\* Mutant: the storefront is rebuilt for a sold-out mark only, not for a count.
PlaceOrderSoldOutOnly(o) ==
  /\ order[o].status = "none"
  /\ ~Changed(cart.want)
  /\ LET lines == QuoteLines(cart.want)
         off   == cart.coupon /\ CouponApplies
     IN /\ lines # NoLines /\ CanTake(lines)
        /\ stock' = Take(lines)
        /\ coupon' = IF off THEN [coupon EXCEPT !.used = @ + 1] ELSE coupon
        /\ order' = [order EXCEPT ![o] = [status |-> "active", lines |-> lines,
                                          coupon |-> off, total |-> Total(lines, off)]]
  /\ timer' = (timer \/ \E i \in Items : stock[i] # 0 /\ stock'[i] = 0)
  /\ cart' = NoCart
  /\ UNCHANGED <<price, form, pub, missed>>

\* One immediate transaction: quote again, take the stock and the coupon, write.
PlaceOrder(o) ==
  /\ order[o].status = "none"
  /\ ~Changed(cart.want)
  /\ LET lines == QuoteLines(cart.want)
         off   == cart.coupon /\ CouponApplies
     IN /\ lines # NoLines /\ CanTake(lines)
        /\ stock' = Take(lines)
        /\ coupon' = IF off THEN [coupon EXCEPT !.used = @ + 1] ELSE coupon
        /\ order' = [order EXCEPT ![o] = [status |-> "active", lines |-> lines,
                                          coupon |-> off, total |-> Total(lines, off)]]
  /\ timer' = (timer \/ Marks(stock') # Marks(stock))
  /\ cart' = NoCart
  /\ UNCHANGED <<price, form, pub, missed>>

\* The transaction is undone, and the answer is the new quote (CART_CHANGED).
OrderRefused ==
  /\ Changed(cart.want)
  /\ cart' = Quoted(cart.coupon)
  /\ UNCHANGED <<stock, price, coupon, order, form, pub, timer, missed>>

\* Mutant: an order already cancelled is cancelled again.
CancelAgain(o) ==
  /\ order[o].status # "none"
  /\ stock' = Give(order[o].lines) /\ WithinUnits(stock')
  /\ coupon' = IF order[o].coupon /\ coupon.live /\ coupon.used > 0
               THEN [coupon EXCEPT !.used = @ - 1] ELSE coupon
  /\ order' = [order EXCEPT ![o].status = "cancelled"]
  /\ timer' = TRUE
  /\ UNCHANGED <<price, cart, form, pub, missed>>

\* Mutant: the stock is returned, the coupon use is not.
CancelKeepsUse(o) ==
  /\ order[o].status = "active"
  /\ stock' = Give(order[o].lines) /\ WithinUnits(stock')
  /\ order' = [order EXCEPT ![o].status = "cancelled"]
  /\ timer' = TRUE
  /\ UNCHANGED <<price, coupon, cart, form, pub, missed>>

\* Mutant: the count of uses is not held at zero.
CancelBelowZero(o) ==
  /\ order[o].status = "active"
  /\ stock' = Give(order[o].lines) /\ WithinUnits(stock')
  /\ coupon' = IF order[o].coupon /\ coupon.live
               THEN [coupon EXCEPT !.used = @ - 1] ELSE coupon
  /\ order' = [order EXCEPT ![o].status = "cancelled"]
  /\ timer' = TRUE
  /\ UNCHANGED <<price, cart, form, pub, missed>>

\* Cancelling returns the stock and the coupon use, whatever became of either.
Cancel(o) ==
  /\ order[o].status = "active"
  /\ stock' = Give(order[o].lines) /\ WithinUnits(stock')
  /\ coupon' = IF order[o].coupon /\ coupon.live /\ coupon.used > 0
               THEN [coupon EXCEPT !.used = @ - 1] ELSE coupon
  /\ order' = [order EXCEPT ![o].status = "cancelled"]
  /\ timer' = TRUE
  /\ UNCHANGED <<price, cart, form, pub, missed>>

\* Mutant: the stock is taken again, the coupon use is not.
RestoreWithoutCoupon(o) ==
  /\ order[o].status = "cancelled"
  /\ CanTake(order[o].lines)
  /\ stock' = Take(order[o].lines)
  /\ order' = [order EXCEPT ![o].status = "active"]
  /\ timer' = TRUE
  /\ UNCHANGED <<price, coupon, cart, form, pub, missed>>

\* Leaving 'cancelled' takes the stock again, all of it, or is refused.
Restore(o) ==
  /\ order[o].status = "cancelled"
  /\ CanTake(order[o].lines)
  /\ stock' = Take(order[o].lines)
  /\ coupon' = IF order[o].coupon /\ coupon.live
               THEN [coupon EXCEPT !.used = @ + 1] ELSE coupon
  /\ order' = [order EXCEPT ![o].status = "active"]
  /\ timer' = TRUE
  /\ UNCHANGED <<price, cart, form, pub, missed>>

-----------------------------------------------------------------------------
(* The owner's catalogue.  Each edit rebuilds the storefront before it answers; *)
(* a rebuild that throws is logged, and the edit stands (refreshNow).         *)

Publish ==
  \/ pub' = Marks(stock') /\ missed' = FALSE
  \/ "export" \in Losses /\ UNCHANGED pub /\ missed' = TRUE

SetStock(i, n) ==
  /\ stock[i] # Gone
  /\ stock' = [stock EXCEPT ![i] = n]
  /\ Publish
  /\ UNCHANGED <<price, coupon, order, cart, form, timer>>

EditorOpens(i) ==
  /\ stock[i] # Gone
  /\ form' = {[item |-> i, stock |-> stock[i]]}
  /\ UNCHANGED <<stock, price, coupon, order, cart, pub, timer, missed>>

\* The form writes every field it shows, the count included, over what is there now.
EditorSaves(p) ==
  /\ \E f \in form :
       /\ stock[f.item] # Gone
       /\ price' = [price EXCEPT ![f.item] = p]
       /\ stock' = [stock EXCEPT ![f.item] = f.stock]
  /\ form' = {}
  /\ Publish
  /\ UNCHANGED <<coupon, order, cart, timer>>

DeleteProduct(i) ==
  /\ stock[i] # Gone
  /\ stock' = [stock EXCEPT ![i] = Gone]
  /\ Publish
  /\ UNCHANGED <<price, coupon, order, cart, form, timer>>

\* A coupon saved again keeps its uses; one deleted and made again starts at none.
SaveCoupon(n) ==
  /\ coupon' = [live |-> TRUE, used |-> IF coupon.live THEN coupon.used ELSE 0, max |-> n]
  /\ UNCHANGED <<stock, price, order, cart, form, pub, timer, missed>>

DeleteCoupon ==
  /\ coupon.live
  /\ coupon' = [coupon EXCEPT !.live = FALSE, !.used = 0]
  /\ UNCHANGED <<stock, price, order, cart, form, pub, timer, missed>>

-----------------------------------------------------------------------------
(* The storefront: one rebuild 400 ms after the first call that asked for it. *)

Rebuild ==
  /\ timer
  /\ pub' = Marks(stock) /\ timer' = FALSE /\ missed' = FALSE
  /\ UNCHANGED <<stock, price, coupon, order, cart, form>>

\* The process ends in those 400 ms, or the export throws and is only logged.
RebuildLost ==
  /\ Losses # {} /\ timer
  /\ timer' = FALSE /\ missed' = TRUE
  /\ UNCHANGED <<stock, price, coupon, order, cart, form, pub>>

OwnerEdits ==
  \/ \E i \in Items : \/ \E n \in {Untracked} \cup 0 .. MaxStock : SetStock(i, n)
                      \/ EditorOpens(i) \/ DeleteProduct(i)
  \/ \E p \in Prices : EditorSaves(p)
  \/ \E n \in Limits : SaveCoupon(n)
  \/ DeleteCoupon

Next ==
  \/ \E k \in Keys, n \in 0 .. MaxQty : SetQty(k, n)
  \/ \E code \in Codes : ShowQuote(code)
  \/ OrderRefused
  \/ \E o \in Orders : PlaceOrder(o) \/ Cancel(o) \/ Restore(o)
  \/ OwnerEdits
  \/ Rebuild \/ RebuildLost

Spec == Init /\ [][Next]_vars

-----------------------------------------------------------------------------
(* Properties. *)

TypeOK ==
  /\ stock \in [Items -> Stock]
  /\ price \in [Items -> Prices]
  /\ coupon \in [live: BOOLEAN, used: 0 .. Cardinality(Orders), max: Limits]
  /\ order \in [Orders -> [status: {"none", "active", "cancelled"}, lines: Lines,
                          coupon: BOOLEAN, total: Nat]]
  /\ cart \in [want: [Keys -> 0 .. MaxQty], coupon: BOOLEAN, shown: BOOLEAN, total: Nat]
  /\ form \in SUBSET Form
  /\ pub \in [Items -> Stock] /\ timer \in BOOLEAN /\ missed \in BOOLEAN

Active == {o \in Orders : order[o].status = "active"}
Sold(i) == SumFunctionOnSet([o \in Orders |-> order[o].lines[i]], Active)
CouponUses == Cardinality({o \in Active : order[o].coupon})

\* Outside the owner's own edits, a count moves by exactly what the orders that
\* stand hold more or less of the item: no order takes twice, gives back twice,
\* or takes one line of two (placeOrder, setStatus).
StockFollowsOrders ==
  [][\A i \in Items : stock[i] >= 0 /\ stock'[i] >= 0 =>
       OwnerEdits \/ stock'[i] - stock[i] = Sold(i) - Sold(i)']_vars

\* The coupon is never charged with a use that no standing order holds, so nobody is
\* refused it on account of an order that was cancelled, whatever is restored, deleted
\* and made again (setStatus, deleteCoupon).
UsesBacked == coupon.used <= CouponUses

\* The coupon's uses move with the orders that stand and hold it, and stop at
\* zero when the coupon was deleted and made again in between (setStatus).
UsesFollowOrders ==
  [][coupon.live /\ coupon'.live =>
       \/ coupon'.used - coupon.used = CouponUses' - CouponUses
       \/ coupon.used = 0 /\ coupon'.used = 0]_vars

\* What the storefront says of a count is true, or a rebuild is on its way, or one
\* was lost and none was made since: whatever orders, cancellations, restores and
\* edits come in between, a lost rebuild is healed by the next one (scheduleRefresh).
StorefrontFollows == \A i \in Items : pub[i] # Mark(stock[i]) => timer \/ missed

-----------------------------------------------------------------------------
(* What the comments and the documents say, and the code does not keep. *)

\* "restoring a cancelled order takes them again or names what is missing"
\* (bent-store.md:105): the uses of a coupon stay within its limit.
CouponWithinLimit == coupon.live => coupon.used <= coupon.max

\* "the cart changed under the shopper, and they must see the new cart before they
\* are charged for it" (pricing.js:25): an order for the cart that was last shown
\* is charged at the total that was shown with it.
ChargedWhatWasSeen ==
  [][\A o \in Orders : order[o].status = "none" /\ order'[o].status = "active" /\ cart.shown =>
       order'[o].total = cart.total]_vars

\* "when it changed, the storefront is rebuilt, so the published pages never claim a
\* number that is no longer true" (orders.js:149): a restart before the timer fires
\* leaves them claiming it until something else rebuilds.
StorefrontAlwaysFollows == \A i \in Items : pub[i] # Mark(stock[i]) => timer

=============================================================================

------------------------------ MODULE Gateway ------------------------------
(***************************************************************************)
(* The card gateway (src/store/gateway/index.js) and the part of an order  *)
(* it decides: the paid mark (src/store/orders.js).                        *)
(*                                                                         *)
(* One process, a synchronous database, and an await at every provider     *)
(* call.  Whatever a handler does between two awaits is one action; the    *)
(* three provider calls (open a page, inquire, refund) are split at their  *)
(* await, so anything may happen before the answer is applied, and a       *)
(* crash forgets the calls that wait while the rows stay.  The provider's  *)
(* side (what was charged, what was given back) is modelled from how the   *)
(* drivers read it.                                                        *)
(***************************************************************************)
EXTENDS Integers, FiniteSets

CONSTANTS
  Orders,       \* the card orders of the store
  Total,        \* order -> its total in minor units, fixed when it is placed
  Sums,         \* the sums a hosted page may turn out to have charged
  Txns,         \* the provider's transaction ids
  MaxRows,      \* bound: payment rows, MAX_ROWS_PER_ORDER in the code
  HookMax,      \* HOOK_MAX, the inquiries one row may cost
  Refunds,      \* bound: the refund calls that may be open at one time
  BodyLoss,     \* may a connection die between the status line and the body?
  NoOrder, NoTxn

Rows  == 1 .. MaxRows
Modes == {"test", "live"}

ASSUME GatewayAssumption ==
  /\ Total \in [Orders -> Nat \ {0}]
  /\ Sums \subseteq Nat
  /\ MaxRows \in Nat /\ HookMax \in Nat
  /\ BodyLoss \in BOOLEAN
  /\ NoOrder \notin Orders /\ NoTxn \notin Txns

VARIABLES
  order,    \* order -> status, the paid mark, and whether the owner set it by hand
  row,      \* the table store_payments
  opening,  \* rows whose createSession call waits for its answer
  inquiry,  \* inquiries at the provider, each with what the page looked like when it left
  refund,   \* refund calls, at the provider and not yet settled in the books
  page,     \* provider: the hosted page of each row
  gaveBack  \* provider: what was really given back on each row

vars == <<order, row, opening, inquiry, refund, page, gaveBack>>

Order == [status: {"active", "cancelled"}, paid: BOOLEAN, byHand: BOOLEAN]

Row == [order: Orders \cup {NoOrder}, mode: Modes,
        status: {"none", "pending", "failed", "paid", "mismatch", "refunded"},
        session: BOOLEAN, txn: Txns \cup {NoTxn}, tries: Nat,
        refunded: Nat, unknown: Nat, locked: BOOLEAN, setPaid: BOOLEAN]

Page    == [state: {"open", "declined", "charged"}, sum: Nat, txn: Txns \cup {NoTxn}]
Inquiry == [row: Rows, n: Nat, saw: Page]
Refund  == [row: Rows \cup {0}, sum: Nat,
            at: {"idle", "sent", "done", "refused"}, waiting: BOOLEAN]

NoRow    == [order |-> NoOrder, mode |-> "test", status |-> "none", session |-> FALSE,
             txn |-> NoTxn, tries |-> 0, refunded |-> 0, unknown |-> 0,
             locked |-> FALSE, setPaid |-> FALSE]
NoRefund == [row |-> 0, sum |-> 0, at |-> "idle", waiting |-> FALSE]

Init ==
  /\ order    = [o \in Orders |-> [status |-> "active", paid |-> FALSE, byHand |-> FALSE]]
  /\ row      = [r \in Rows |-> NoRow]
  /\ opening  = {}
  /\ inquiry  = {}
  /\ refund   = [i \in Refunds |-> NoRefund]
  /\ page     = [r \in Rows |-> [state |-> "open", sum |-> 0, txn |-> NoTxn]]
  /\ gaveBack = [r \in Rows |-> 0]

-----------------------------------------------------------------------------
(* What the queries ask. *)

Amount(r)  == Total[row[r].order]
Unpaid(r)  == row[r].status \in {"pending", "failed"}
Settled(r) == row[r].status \in {"paid", "refunded"}
RowsOf(o)  == {r \in Rows : row[r].order = o}

\* Does row r of the table rows still hold real money?
HoldsMoney(rows, r) ==
  /\ rows[r].mode = "live"
  /\ rows[r].status \in {"paid", "refunded"}
  /\ Total[rows[r].order] - rows[r].refunded > 0

IsGatewayPaid(o) == \E r \in RowsOf(o) : row[r].mode = "live" /\ row[r].status = "paid"

\* Mutant: no UNIQUE index.
TxnTakenNever(r, txn) == FALSE

\* The UNIQUE index on (provider, mode, transaction_id).
TxnTaken(r, txn) ==
  /\ txn # NoTxn
  /\ \E s \in Rows \ {r} : row[s].txn = txn /\ row[s].mode = row[r].mode

-----------------------------------------------------------------------------
(* Opening a hosted page. *)

\* The row is written before the provider is asked, in the mode the settings
\* name now.  How many pages may be open, and when an open one is handed back
\* instead, is the PayDoor module's.
StartSession(o, m) ==
  /\ order[o].status # "cancelled" /\ ~order[o].paid
  /\ \A r \in RowsOf(o) : row[r].status # "paid"
  /\ \E r \in Rows :
       /\ row[r].status = "none" /\ \A s \in 1 .. r - 1 : row[s].status # "none"
       /\ row' = [row EXCEPT ![r] = [NoRow EXCEPT !.order = o, !.mode = m,
                                        !.status = "pending"]]
       /\ opening' = opening \cup {r}
  /\ UNCHANGED <<order, inquiry, refund, page, gaveBack>>

SessionOpened(r) ==
  /\ r \in opening
  /\ row' = [row EXCEPT ![r].session = TRUE]
  /\ opening' = opening \ {r}
  /\ UNCHANGED <<order, inquiry, refund, page, gaveBack>>

SessionRefused(r) ==
  /\ r \in opening
  /\ row' = [row EXCEPT ![r].status = "failed"]
  /\ opening' = opening \ {r}
  /\ UNCHANGED <<order, inquiry, refund, page, gaveBack>>

-----------------------------------------------------------------------------
(* Settling a confirmed payment, and the two ways there. *)

\* Mutant: a confirmed page is a paid order, whatever it charged.
MatchesAnything(r, p) == TRUE

\* The charge p is the sum the order asks; the order takes its paid mark from it.
Matches(r, p) == p.sum = Amount(r)
Marks(r, p) ==
  /\ Matches(r, p) /\ row[r].mode = "live"
  /\ order[row[r].order].status # "cancelled" /\ ~order[row[r].order].paid

\* One immediate transaction: the guarded update, the amount check, the mark.
Settle(r, p) ==
  IF Unpaid(r) /\ ~TxnTaken(r, p.txn)
  THEN /\ row' = [row EXCEPT ![r] = [@ EXCEPT
                    !.status = IF Matches(r, p) THEN "paid" ELSE "mismatch",
                    !.txn = p.txn, !.setPaid = Marks(r, p)]]
       /\ order' = IF Marks(r, p) THEN [order EXCEPT ![row[r].order].paid = TRUE] ELSE order
  ELSE UNCHANGED <<row, order>>

\* Mutant: only a row still pending takes the news; a recorded decline is final.
CallbackSettlesPending(r) ==
  /\ row[r].session /\ row[r].status = "pending"
  /\ page[r].state = "charged"
  /\ Settle(r, page[r])
  /\ UNCHANGED <<opening, inquiry, refund, page, gaveBack>>

\* The callback that authenticates itself (Grow): settled on the spot.
CallbackSettles(r) ==
  /\ row[r].session /\ Unpaid(r)
  /\ page[r].state = "charged"
  /\ Settle(r, page[r])
  /\ UNCHANGED <<opening, inquiry, refund, page, gaveBack>>

\* The inquiry, from any trigger: the slot is claimed before the await.
AskProvider(r) ==
  /\ Unpaid(r) /\ row[r].session /\ row[r].tries < HookMax
  /\ row' = [row EXCEPT ![r].tries = @ + 1]
  /\ inquiry' = inquiry \cup {[row |-> r, n |-> row[r].tries + 1, saw |-> page[r]]}
  /\ UNCHANGED <<order, opening, refund, page, gaveBack>>

\* The answer tells of the page as it was at some moment of the call.
AnswerOf(q) == {q.saw, page[q.row]}

InquiryPaid(q) ==
  /\ inquiry' = inquiry \ {q}
  /\ \E p \in AnswerOf(q) : p.state = "charged" /\ Settle(q.row, p)
  /\ UNCHANGED <<opening, refund, page, gaveBack>>

\* Mutant: the decline is written without looking at the row again.
InquiryDeclinedBlind(q) ==
  /\ inquiry' = inquiry \ {q}
  /\ \E p \in AnswerOf(q) : p.state = "declined"
  /\ row' = [row EXCEPT ![q.row].status = "failed"]
  /\ UNCHANGED <<order, opening, refund, page, gaveBack>>

InquiryDeclined(q) ==
  /\ inquiry' = inquiry \ {q}
  /\ \E p \in AnswerOf(q) : p.state = "declined"
  /\ row' = IF row[q.row].status = "pending"
            THEN [row EXCEPT ![q.row].status = "failed"] ELSE row
  /\ UNCHANGED <<order, opening, refund, page, gaveBack>>

\* Inconclusive, or our own call failed: nothing moves.
InquiryMoot(q) ==
  /\ inquiry' = inquiry \ {q}
  /\ UNCHANGED <<order, row, opening, refund, page, gaveBack>>

-----------------------------------------------------------------------------
(* Refunds: reserved in the books before the provider is asked. *)

\* The paid mark goes when a row of ours had set it and no live row holds money.
ClearPaidIfNothingLeft(o, rows) ==
  IF /\ order[o].paid
     /\ \E r \in Rows : rows[r].order = o /\ rows[r].setPaid
     /\ ~ \E r \in Rows : rows[r].order = o /\ HoldsMoney(rows, r)
  THEN [order EXCEPT ![o].paid = FALSE, ![o].byHand = FALSE]
  ELSE order

\* Mutant: the cap is checked, the lock and the open question are not.
RefundStartAgain(i, r, want) ==
  /\ refund[i].at = "idle"
  /\ Settled(r) /\ want > 0 /\ row[r].refunded + want <= Amount(r)
  /\ row' = [row EXCEPT ![r] = [@ EXCEPT
               !.refunded = row[r].refunded + want,
               !.unknown = row[r].unknown + want, !.locked = TRUE,
               !.status = IF row[r].refunded + want >= Amount(r)
                          THEN "refunded" ELSE row[r].status]]
  /\ refund' = [refund EXCEPT ![i] = [row |-> r, sum |-> want, at |-> "sent", waiting |-> TRUE]]
  /\ UNCHANGED <<order, opening, inquiry, page, gaveBack>>

RefundStart(i, r, want) ==
  /\ refund[i].at = "idle"
  /\ Settled(r) /\ row[r].unknown = 0 /\ ~row[r].locked
  /\ want > 0 /\ row[r].refunded + want <= Amount(r)
  /\ row' = [row EXCEPT ![r] = [@ EXCEPT
               !.refunded = row[r].refunded + want,
               !.unknown = row[r].unknown + want, !.locked = TRUE,
               !.status = IF row[r].refunded + want >= Amount(r)
                          THEN "refunded" ELSE row[r].status]]
  /\ refund' = [refund EXCEPT ![i] = [row |-> r, sum |-> want, at |-> "sent", waiting |-> TRUE]]
  /\ UNCHANGED <<order, opening, inquiry, page, gaveBack>>

Less(n, m) == IF n > m THEN n - m ELSE 0

RefundAccepted(i) ==
  /\ refund[i].waiting /\ refund[i].at = "done"
  /\ LET r == refund[i].row IN
       /\ row' = [row EXCEPT ![r] = [@ EXCEPT
                    !.unknown = Less(row[r].unknown, refund[i].sum), !.locked = FALSE]]
       /\ order' = ClearPaidIfNothingLeft(row[r].order, row')
  /\ refund' = [refund EXCEPT ![i] = NoRefund]
  /\ UNCHANGED <<opening, inquiry, page, gaveBack>>

\* Mutant: the sum is put back, the status is left at refunded.
RefundRefusedKeepsStatus(i) ==
  /\ refund[i].waiting /\ refund[i].at = "refused"
  /\ LET r == refund[i].row IN
       row' = [row EXCEPT ![r] = [@ EXCEPT
                 !.refunded = Less(row[r].refunded, refund[i].sum), !.locked = FALSE,
                 !.unknown = Less(row[r].unknown, refund[i].sum)]]
  /\ refund' = [refund EXCEPT ![i] = NoRefund]
  /\ UNCHANGED <<order, opening, inquiry, page, gaveBack>>

\* A definite refusal.  An answer whose body was lost reads as one.
RefundRefused(i) ==
  /\ refund[i].waiting
  /\ refund[i].at = "refused" \/ (BodyLoss /\ refund[i].at = "done")
  /\ LET r == refund[i].row
         left == Less(row[r].refunded, refund[i].sum)
     IN row' = [row EXCEPT ![r] = [@ EXCEPT
                  !.refunded = left, !.locked = FALSE,
                  !.unknown = Less(row[r].unknown, refund[i].sum),
                  !.status = IF left < Amount(r) THEN "paid" ELSE "refunded"]]
  /\ refund' = [refund EXCEPT ![i] = NoRefund]
  /\ UNCHANGED <<order, opening, inquiry, page, gaveBack>>

\* Mutant: a timeout is taken for a refusal.
RefundUnknownReleases(i) ==
  /\ refund[i].waiting
  /\ LET r == refund[i].row IN
       row' = [row EXCEPT ![r] = [@ EXCEPT
                 !.refunded = Less(row[r].refunded, refund[i].sum), !.locked = FALSE,
                 !.unknown = Less(row[r].unknown, refund[i].sum), !.status = "paid"]]
  /\ refund' = [refund EXCEPT ![i].waiting = FALSE]
  /\ UNCHANGED <<order, opening, inquiry, page, gaveBack>>

\* A timeout, a dead connection or a 5xx: the sum stays reserved as unknown.
RefundUnknown(i) ==
  /\ refund[i].waiting
  /\ row' = [row EXCEPT ![refund[i].row].locked = FALSE]
  /\ refund' = [refund EXCEPT ![i].waiting = FALSE]
  /\ UNCHANGED <<order, opening, inquiry, page, gaveBack>>

\* Mutant: a lock left by a crash never ages.
LockAgesNever(r) == FALSE /\ UNCHANGED vars

\* REFUND_LOCK_MS pass and the lock no longer counts.  A call still waiting
\* would have hit TIMEOUT_MS, an eighth of that, long before.
LockAges(r) ==
  /\ row[r].locked
  /\ \A i \in Refunds : ~(refund[i].row = r /\ refund[i].waiting)
  /\ row' = [row EXCEPT ![r].locked = FALSE]
  /\ UNCHANGED <<order, opening, inquiry, refund, page, gaveBack>>

\* Mutant: the decision is booked, the mark is not looked at.
ResolveDoneKeepsMark(i) ==
  /\ refund[i].at = "done" /\ ~refund[i].waiting
  /\ LET r == refund[i].row IN
       /\ row[r].unknown > 0 /\ ~row[r].locked
       /\ row' = [row EXCEPT ![r] = [@ EXCEPT !.unknown = 0, !.locked = FALSE]]
  /\ refund' = [refund EXCEPT ![i] = NoRefund]
  /\ UNCHANGED <<order, opening, inquiry, page, gaveBack>>

\* The owner looked in the provider's panel and says what happened there.
ResolveDone(i) ==
  /\ refund[i].at = "done" /\ ~refund[i].waiting
  /\ LET r == refund[i].row IN
       /\ row[r].unknown > 0 /\ ~row[r].locked
       /\ row' = [row EXCEPT ![r] = [@ EXCEPT !.unknown = 0, !.locked = FALSE]]
       /\ order' = ClearPaidIfNothingLeft(row[r].order, row')
  /\ refund' = [refund EXCEPT ![i] = NoRefund]
  /\ UNCHANGED <<opening, inquiry, page, gaveBack>>

\* Mutant: the whole amount is put back, not the unknown part of it.
ResolveUndoneWhole(i) ==
  /\ refund[i].at = "refused" /\ ~refund[i].waiting
  /\ LET r == refund[i].row
     IN /\ row[r].unknown > 0 /\ ~row[r].locked
        /\ row' = [row EXCEPT ![r] = [@ EXCEPT
                     !.refunded = row[r].refunded - Amount(r), !.unknown = 0,
                     !.status = "paid"]]
  /\ refund' = [refund EXCEPT ![i] = NoRefund]
  /\ UNCHANGED <<order, opening, inquiry, page, gaveBack>>

ResolveUndone(i) ==
  /\ refund[i].at = "refused" /\ ~refund[i].waiting
  /\ LET r == refund[i].row
         left == Less(row[r].refunded, row[r].unknown)
     IN /\ row[r].unknown > 0 /\ ~row[r].locked
        /\ row' = [row EXCEPT ![r] = [@ EXCEPT
                     !.refunded = left, !.unknown = 0, !.locked = FALSE,
                     !.status = IF left < Amount(r) THEN "paid" ELSE row[r].status]]
  /\ refund' = [refund EXCEPT ![i] = NoRefund]
  /\ UNCHANGED <<order, opening, inquiry, page, gaveBack>>

-----------------------------------------------------------------------------
(* The owner's own acts on the order, and the crash. *)

MarkPaid(o) ==
  /\ ~order[o].paid
  /\ order' = [order EXCEPT ![o].paid = TRUE, ![o].byHand = TRUE]
  /\ UNCHANGED <<row, opening, inquiry, refund, page, gaveBack>>

UnmarkPaid(o) ==
  /\ order[o].paid /\ ~IsGatewayPaid(o)
  /\ order' = [order EXCEPT ![o].paid = FALSE, ![o].byHand = FALSE]
  /\ UNCHANGED <<row, opening, inquiry, refund, page, gaveBack>>

\* Cancelling, and restoring a cancelled order (its stock is the Checkout module's).
SetStatus(o) ==
  /\ order' = [order EXCEPT ![o].status = IF @ = "active" THEN "cancelled" ELSE "active"]
  /\ UNCHANGED <<row, opening, inquiry, refund, page, gaveBack>>

\* The process dies: every call that waited is forgotten, the tables stay.
Crash ==
  /\ opening # {} \/ inquiry # {} \/ \E i \in Refunds : refund[i].waiting
  /\ opening' = {} /\ inquiry' = {}
  /\ refund' = [i \in Refunds |-> [refund[i] EXCEPT !.waiting = FALSE]]
  /\ UNCHANGED <<order, row, page, gaveBack>>

-----------------------------------------------------------------------------
(* The provider: the hosted page, and the refunds it is asked for. *)

ShopperPays(r, sum, txn) ==
  /\ row[r].session /\ page[r].state # "charged"
  /\ page' = [page EXCEPT ![r] = [state |-> "charged", sum |-> sum, txn |-> txn]]
  /\ UNCHANGED <<order, row, opening, inquiry, refund, gaveBack>>

CardDeclined(r) ==
  /\ row[r].session /\ page[r].state = "open"
  /\ page' = [page EXCEPT ![r].state = "declined"]
  /\ UNCHANGED <<order, row, opening, inquiry, refund, gaveBack>>

ProviderRefunds(i) ==
  /\ refund[i].at = "sent"
  /\ refund' = [refund EXCEPT ![i].at = "done"]
  /\ gaveBack' = [gaveBack EXCEPT ![refund[i].row] = @ + refund[i].sum]
  /\ UNCHANGED <<order, row, opening, inquiry, page>>

\* Refused by the provider, or lost on the way there.
ProviderRefuses(i) ==
  /\ refund[i].at = "sent"
  /\ refund' = [refund EXCEPT ![i].at = "refused"]
  /\ UNCHANGED <<order, row, opening, inquiry, page, gaveBack>>

-----------------------------------------------------------------------------
RefundSums == UNION {1 .. Total[o] : o \in Orders}

RefundNext(i) ==
  \/ \E r \in Rows, want \in RefundSums : RefundStart(i, r, want)
  \/ RefundAccepted(i) \/ RefundRefused(i) \/ RefundUnknown(i)
  \/ ResolveDone(i) \/ ResolveUndone(i)
  \/ ProviderRefunds(i) \/ ProviderRefuses(i)

Next ==
  \/ \E o \in Orders : MarkPaid(o) \/ UnmarkPaid(o) \/ SetStatus(o)
  \/ \E o \in Orders, m \in Modes : StartSession(o, m)
  \/ \E r \in Rows : \/ SessionOpened(r) \/ SessionRefused(r)
                     \/ CallbackSettles(r) \/ AskProvider(r) \/ LockAges(r)
                     \/ CardDeclined(r)
                     \/ \E s \in Sums, t \in Txns : ShopperPays(r, s, t)
  \/ \E q \in inquiry : InquiryPaid(q) \/ InquiryDeclined(q) \/ InquiryMoot(q)
  \/ \E i \in Refunds : RefundNext(i)
  \/ Crash

Spec == Init /\ [][Next]_vars

\* A driver call always ends: its answer, or TIMEOUT_MS.  Time passes, so an old
\* lock ages; the provider resends a callback until it is acknowledged.
FairSpec ==
  /\ Spec
  /\ \A i \in Refunds : WF_vars(RefundAccepted(i) \/ RefundRefused(i) \/ RefundUnknown(i))
  /\ \A r \in Rows : WF_vars(LockAges(r)) /\ WF_vars(CallbackSettles(r))

-----------------------------------------------------------------------------
(* Properties. *)

TypeOK ==
  /\ order \in [Orders -> Order]
  /\ row \in [Rows -> Row]
  /\ opening \subseteq Rows
  /\ inquiry \subseteq Inquiry
  /\ refund \in [Refunds -> Refund]
  /\ page \in [Rows -> Page]
  /\ gaveBack \in [Rows -> Nat]

\* The books bracket the truth: what the provider gave back on a row is at most
\* the refunded sum and at least that sum less the part still unknown, across
\* timeouts, crashes and the owner's decisions (refund, resolveUnknownRefund).
BooksBracketTruth ==
  \A r \in Rows : /\ row[r].refunded - row[r].unknown <= gaveBack[r]
                  /\ gaveBack[r] <= row[r].refunded

\* No row is ever given back more than its page charged: the reservation holds
\* against concurrent clicks and against a retry after an unknown outcome.
NeverOverRefunded == \A r \in Rows : gaveBack[r] <= page[r].sum

\* A row is booked as paid only for the exact sum the provider charged on that
\* row's own page, and as a mismatch only for another sum (settle).
VerdictMatchesCharge ==
  \A r \in Rows : row[r].status \in {"paid", "refunded", "mismatch"} =>
    /\ page[r].state = "charged" /\ row[r].txn = page[r].txn
    /\ (row[r].status # "mismatch") <=> (page[r].sum = Amount(r))

\* One provider transaction settles one row, whichever of callback, page and
\* owner's check got there first (the UNIQUE index under settle).
OneTransactionOneRow ==
  \A r, s \in Rows :
    r # s /\ row[r].txn # NoTxn /\ row[r].mode = row[s].mode => row[r].txn # row[s].txn

\* A mark the gateway set stands on real money: some live row of the order holds
\* a part of its sum, or has a refund nobody knows the outcome of.
PaidIsBacked ==
  \A o \in Orders : order[o].paid /\ ~order[o].byHand =>
    \E r \in RowsOf(o) : HoldsMoney(row, r) \/ (row[r].mode = "live" /\ row[r].unknown > 0)

\* Behind every unknown sum there is exactly one refund call of that sum, and
\* while it waits for the provider the row is locked: nobody can decide it early
\* and no second refund of the row can be at the provider (refund, the lock).
UnknownIsOneCall ==
  /\ \A r \in Rows : row[r].unknown > 0 =>
       \E i \in Refunds : /\ refund[i].row = r /\ refund[i].sum = row[r].unknown
                          /\ \A j \in Refunds \ {i} : refund[j].row # r
  /\ \A i \in Refunds : refund[i].waiting => row[refund[i].row].locked

\* What is settled stays settled: a late decline, a late session failure or a
\* second confirmation never moves a confirmed row or swaps its transaction.
SettledIsFinal ==
  [][\A r \in Rows : row[r].status \in {"paid", "refunded", "mismatch"} =>
       /\ row'[r].txn = row[r].txn /\ row'[r].setPaid = row[r].setPaid
       /\ \/ row'[r].status = row[r].status
          \/ {row[r].status, row'[r].status} = {"paid", "refunded"}]_vars

\* A refund cut off by a crash or a timeout always becomes the owner's to decide:
\* no row stays "on its way to the provider" for ever (REFUND_LOCK_MS).
DecisionReachesOwner ==
  \A r \in Rows : row[r].unknown > 0 ~> (row[r].unknown = 0 \/ ~row[r].locked)

\* A charge reaches the books even after a recorded decline, unless its
\* transaction already settled another row (the callback, settle).
ChargeReachesBooks ==
  \A r \in Rows : page[r].state = "charged" ~> (~Unpaid(r) \/ TxnTaken(r, page[r].txn))

-----------------------------------------------------------------------------
(* What the code's comments and documents say, and the code does not keep. *)

\* "An order the owner marked paid by hand (...) keeps its mark whatever happens
\* to a stray card payment" (gateway/index.js:773): no step on a row that did not
\* set the mark removes it.
HandMarkSurvives ==
  [][\A o \in Orders :
       /\ order[o].byHand
       /\ \E r \in RowsOf(o) : ~row[r].setPaid /\ row'[r] # row[r]
       => order'[o].byHand]_vars

\* "The order keeps its mark meanwhile" (gateway/index.js:856): while the refund
\* of a row that set the mark is unknown, no other refund step removes the mark.
UnknownKeepsMark ==
  [][\A r \in Rows :
       /\ row[r].setPaid /\ row[r].unknown > 0 /\ row'[r].unknown > 0
       /\ row' # row /\ order[row[r].order].paid
       => order'[row[r].order].paid]_vars

\* "The checkbox cannot un-pay money the gateway still holds" (bent-store.md:159):
\* an order is marked while the row that marked it holds the charge, none of it
\* at the provider.
CheckboxKeepsHeldMoney ==
  \A r \in Rows : row[r].setPaid /\ row[r].status = "paid" /\ row[r].unknown = 0
    => order[row[r].order].paid

-----------------------------------------------------------------------------
(* The gateway implements the ledger: what it holds, doubts and gave back. *)

CallsOf(r) == {i \in Refunds : refund[i].row = r}

Held  == [r \in Rows |-> IF Settled(r) THEN Amount(r) - row[r].refunded ELSE 0]
Doubt == [r \in Rows |-> row[r].unknown]
Fate  == [r \in Rows |-> IF CallsOf(r) = {} THEN "idle"
                         ELSE refund[CHOOSE i \in CallsOf(r) : TRUE].at]

Ledger == INSTANCE RefundLedger WITH
            Amounts <- RefundSums, held <- Held, doubt <- Doubt, fate <- Fate, back <- gaveBack

\* Every step of the gateway is a step of the ledger, or none: a charge is booked
\* once, and only what is held is sent, once, and decided as the provider did.
LedgerSpec == Ledger!Spec

=============================================================================

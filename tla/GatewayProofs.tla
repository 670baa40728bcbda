--------------------------- MODULE GatewayProofs ---------------------------
(***************************************************************************)
(* What Gateway.tla keeps for every store, every set of orders, rows,      *)
(* transactions and refund calls, and every sum a page may charge.         *)
(***************************************************************************)
EXTENDS GatewayInv, TLAPS

\* Subtraction that stops at zero (MAX(0, n - m) in the updates of refund).
LEMMA LessFact ==
  ASSUME NEW n \in Nat, NEW m \in Nat
  PROVE  /\ Less(n, m) \in Nat
         /\ m <= n => Less(n, m) = n - m
         /\ Less(n, n) = 0
  BY DEF Less

\* Every sum asked back is a positive number.
LEMMA SumFact ==
  ASSUME NEW want \in RefundSums
  PROVE  want \in Nat /\ want > 0
  BY GatewayAssumption DEF RefundSums

\* The rule on the paid mark only ever clears it, and on one order only.
LEMMA ClearFact ==
  ASSUME NEW o, NEW rows, order \in [Orders -> Order]
  PROVE  /\ ClearPaidIfNothingLeft(o, rows) \in [Orders -> Order]
         /\ \A p \in Orders \ {o} : ClearPaidIfNothingLeft(o, rows)[p] = order[p]
  BY DEF ClearPaidIfNothingLeft, Order

\* A table keeps its shape when one row, if there is such a row, gets a new value.
LEMMA UpdateFact ==
  ASSUME row \in [Rows -> Row], NEW r, NEW v, r \in Rows => v \in Row
  PROVE  [row EXCEPT ![r] = v] \in [Rows -> Row]
  OBVIOUS

-----------------------------------------------------------------------------
(* Type correctness. *)

LEMMA TypeInit == Init => TypeOK
  BY GatewayAssumption
  DEF Init, TypeOK, Order, Row, Page, Inquiry, Refund, NoRow, NoRefund, Rows, Modes

LEMMA SettleType ==
  ASSUME TypeOK, NEW r \in Rows, NEW p \in Page, Settle(r, p)
  PROVE  row' \in [Rows -> Row] /\ order' \in [Orders -> Order]
<1>1. row[r] \in Row /\ p.txn \in Txns \cup {NoTxn}
  BY DEF TypeOK, Page
<1>2. Marks(r, p) \in BOOLEAN
  BY DEF Marks, Matches
<1>3. row' \in [Rows -> Row]
  <2>1. [row[r] EXCEPT !.status = IF Matches(r, p) THEN "paid" ELSE "mismatch",
                       !.txn = p.txn, !.setPaid = Marks(r, p)] \in Row
    BY <1>1, <1>2 DEF Row
  <2>2. QED
    BY <2>1, UpdateFact DEF Settle, TypeOK
<1>4. order' \in [Orders -> Order]
  <2>1. order' = order \/ order' = [order EXCEPT ![row[r].order].paid = TRUE]
    BY DEF Settle
  <2>2. QED
    BY <2>1, ZenonT(30) DEF TypeOK, Order
<1>5. QED
  BY <1>3, <1>4

LEMMA TypeStep == TypeOK /\ [Next]_vars => TypeOK'
<1> SUFFICES ASSUME TypeOK, [Next]_vars PROVE TypeOK'
  OBVIOUS
<1>0. /\ \A o \in Orders : order[o] \in Order
      /\ \A r \in Rows : row[r] \in Row
      /\ \A i \in Refunds : refund[i] \in Refund
  BY DEF TypeOK
<1>1. ASSUME NEW o \in Orders, MarkPaid(o) \/ UnmarkPaid(o) \/ SetStatus(o) PROVE TypeOK'
  <2>1. CASE MarkPaid(o)
    BY <2>1, <1>0 DEF MarkPaid, TypeOK, Order
  <2>2. CASE UnmarkPaid(o)
    BY <2>2, <1>0 DEF UnmarkPaid, TypeOK, Order
  <2>3. CASE SetStatus(o)
    BY <2>3, <1>0 DEF SetStatus, TypeOK, Order
  <2>4. QED
    BY <1>1, <2>1, <2>2, <2>3
<1>2. ASSUME NEW o \in Orders, NEW m \in Modes, StartSession(o, m) PROVE TypeOK'
  <2>1. [NoRow EXCEPT !.order = o, !.mode = m, !.status = "pending"] \in Row
    BY DEF NoRow, Row
  <2>2. QED
    BY <1>2, <2>1 DEF StartSession, TypeOK
<1>3. ASSUME NEW r \in Rows, SessionOpened(r) \/ SessionRefused(r) \/ LockAges(r)
      PROVE  TypeOK'
  <2>1. CASE SessionOpened(r)
    BY <2>1, <1>0, ZenonT(30) DEF SessionOpened, TypeOK, Row
  <2>2. CASE SessionRefused(r)
    BY <2>2, <1>0, SMTT(20) DEF SessionRefused, TypeOK, Row
  <2>3. CASE LockAges(r)
    <3>1. row' = [row EXCEPT ![r].locked = FALSE]
      BY <2>3 DEF LockAges
    <3>2. row' \in [Rows -> Row]
      BY <1>0, <3>1, ZenonT(30) DEF TypeOK, Row
    <3>3. QED
      BY <2>3, <3>2 DEF LockAges, TypeOK
  <2>4. QED
    BY <1>3, <2>1, <2>2, <2>3
<1>4. ASSUME NEW r \in Rows, CallbackSettles(r) PROVE TypeOK'
  <2>1. page[r] \in Page
    BY DEF TypeOK
  <2>2. QED
    BY <1>4, <2>1, SettleType DEF CallbackSettles, TypeOK
<1>5. ASSUME NEW r \in Rows, AskProvider(r) PROVE TypeOK'
  BY <1>5, SMTT(20) DEF AskProvider, TypeOK, Row, Inquiry
<1>6. ASSUME NEW r \in Rows, CardDeclined(r) PROVE TypeOK'
  BY <1>6 DEF CardDeclined, TypeOK, Page
<1>7. ASSUME NEW r \in Rows, NEW s \in Sums, NEW t \in Txns, ShopperPays(r, s, t)
      PROVE  TypeOK'
  BY <1>7, GatewayAssumption DEF ShopperPays, TypeOK, Page
<1>8. ASSUME NEW q \in inquiry, InquiryPaid(q) PROVE TypeOK'
  <2>1. q.row \in Rows /\ AnswerOf(q) \subseteq Page
    BY DEF TypeOK, Inquiry, AnswerOf
  <2>2. QED
    BY <1>8, <2>1, SettleType DEF InquiryPaid, TypeOK
<1>9. ASSUME NEW q \in inquiry, InquiryDeclined(q) \/ InquiryMoot(q) PROVE TypeOK'
  BY <1>9, SMTT(20) DEF InquiryDeclined, InquiryMoot, TypeOK, Row, Inquiry
<1>10. ASSUME NEW i \in Refunds, RefundNext(i) PROVE TypeOK'
  <2>0. /\ refund[i].sum \in Nat /\ refund[i].row \in Rows \cup {0}
        /\ NoRefund \in Refund
    BY <1>0 DEF Refund, NoRefund
  <2> DEFINE r    == refund[i].row
             back == Less(row[r].refunded, refund[i].sum)
             off  == Less(row[r].unknown, refund[i].sum)
  <2>a. r \in Rows => row[r] \in Row /\ off \in Nat /\ back \in Nat
    BY <1>0, <2>0, LessFact DEF Row
  <2>1. ASSUME NEW s \in Rows, NEW want \in RefundSums, RefundStart(i, s, want)
        PROVE  TypeOK'
    <3>1. row' \in [Rows -> Row]
      <4>1. /\ row[s] \in Row
            /\ row[s].refunded + want \in Nat /\ row[s].unknown + want \in Nat
        BY <1>0, SumFact DEF Row
      <4>2. [row[s] EXCEPT
               !.refunded = row[s].refunded + want,
               !.unknown = row[s].unknown + want, !.locked = TRUE,
               !.status = IF row[s].refunded + want >= Amount(s)
                          THEN "refunded" ELSE row[s].status] \in Row
        BY <4>1 DEF Row
      <4>3. QED
        BY <2>1, <4>2, UpdateFact DEF RefundStart, TypeOK
    <3>2. [row |-> s, sum |-> want, at |-> "sent", waiting |-> TRUE] \in Refund
      BY SumFact DEF Refund
    <3>3. QED
      BY <2>1, <3>1, <3>2 DEF RefundStart, TypeOK
  <2>2. CASE RefundAccepted(i)
    <3>1. row' \in [Rows -> Row]
      <4>1. r \in Rows => [row[r] EXCEPT !.unknown = off, !.locked = FALSE] \in Row
        BY <2>a DEF Row
      <4>2. QED
        BY <2>2, <4>1, UpdateFact DEF RefundAccepted, TypeOK
    <3>2. order' \in [Orders -> Order]
      BY <2>2, ClearFact DEF RefundAccepted, TypeOK
    <3>3. QED
      BY <2>0, <2>2, <3>1, <3>2 DEF RefundAccepted, TypeOK
  <2>3. CASE RefundRefused(i)
    <3>1. row' \in [Rows -> Row]
      <4>1. r \in Rows =>
              [row[r] EXCEPT
                 !.refunded = back, !.locked = FALSE, !.unknown = off,
                 !.status = IF back < Amount(r) THEN "paid" ELSE "refunded"] \in Row
        BY <2>a DEF Row
      <4>2. QED
        BY <2>3, <4>1, UpdateFact DEF RefundRefused, TypeOK
    <3>2. QED
      BY <2>0, <2>3, <3>1 DEF RefundRefused, TypeOK
  <2>4. CASE RefundUnknown(i)
    <3>1. row' \in [Rows -> Row]
      <4>1. r \in Rows => [row[r] EXCEPT !.locked = FALSE] \in Row
        BY <2>a DEF Row
      <4>2. row' = [row EXCEPT ![r] = [row[r] EXCEPT !.locked = FALSE]]
        BY <2>4 DEF RefundUnknown
      <4>3. QED
        BY <4>1, <4>2, UpdateFact DEF TypeOK
    <3>2. refund' \in [Refunds -> Refund]
      BY <1>0, <2>4 DEF RefundUnknown, TypeOK, Refund
    <3>3. QED
      BY <2>4, <3>1, <3>2 DEF RefundUnknown, TypeOK
  <2>5. CASE ResolveDone(i)
    <3>1. row' \in [Rows -> Row]
      <4>1. r \in Rows => [row[r] EXCEPT !.unknown = 0, !.locked = FALSE] \in Row
        BY <2>a DEF Row
      <4>2. QED
        BY <2>5, <4>1, UpdateFact DEF ResolveDone, TypeOK
    <3>2. order' \in [Orders -> Order]
      BY <2>5, ClearFact DEF ResolveDone, TypeOK
    <3>3. QED
      BY <2>0, <2>5, <3>1, <3>2 DEF ResolveDone, TypeOK
  <2>6. CASE ResolveUndone(i)
    <3> DEFINE left == Less(row[r].refunded, row[r].unknown)
    <3>1. row' \in [Rows -> Row]
      <4>1. r \in Rows => left \in Nat
        BY <2>a, LessFact DEF Row
      <4>2. r \in Rows =>
              [row[r] EXCEPT !.refunded = left, !.unknown = 0, !.locked = FALSE,
                             !.status = IF left < Amount(r) THEN "paid" ELSE row[r].status] \in Row
        BY <2>a, <4>1 DEF Row
      <4>3. QED
        BY <2>6, <4>2, UpdateFact DEF ResolveUndone, TypeOK
    <3>2. QED
      BY <2>0, <2>6, <3>1 DEF ResolveUndone, TypeOK
  <2>7. CASE ProviderRefunds(i) \/ ProviderRefuses(i)
    BY <1>0, <2>7 DEF ProviderRefunds, ProviderRefuses, TypeOK, Refund
  <2>8. QED
    BY <1>10, <2>1, <2>2, <2>3, <2>4, <2>5, <2>6, <2>7 DEF RefundNext
<1>11. CASE Crash
  BY <1>11, ZenonT(30) DEF Crash, TypeOK, Refund
<1>12. CASE UNCHANGED vars
  BY <1>12 DEF vars, TypeOK
<1>13. QED
  BY <1>1, <1>2, <1>3, <1>4, <1>5, <1>6, <1>7, <1>8, <1>9, <1>10, <1>11, <1>12 DEF Next

\* The tables, the calls in flight and the provider's accounts keep their shape
\* whatever the interleaving: no sum goes below zero, no row loses its columns.
THEOREM TypeCorrect == Spec => []TypeOK
  BY TypeInit, TypeStep, PTL DEF Spec

-----------------------------------------------------------------------------
(* The inductive invariant: one lemma per action, or per group of actions    *)
(* that disturb the same parts.                                              *)

LEMMA InvInit == Init => IInv
<1> SUFFICES ASSUME Init PROVE IInv
  OBVIOUS
<1>1. TypeOK
  BY TypeInit
<1>2. /\ \A r \in Rows : row[r] = NoRow /\ page[r].state = "open" /\ gaveBack[r] = 0
      /\ \A i \in Refunds : refund[i] = NoRefund
      /\ \A o \in Orders : ~order[o].paid
      /\ opening = {} /\ inquiry = {}
  BY DEF Init
<1>3. RowHasOrder /\ UnsettledIsBlank /\ PageNeedsSession /\ SawIsStable /\ SumsAddUp
  BY <1>2 DEF RowHasOrder, UnsettledIsBlank, PageNeedsSession, SawIsStable, SumsAddUp,
              Settled, Unpaid, NoRow
<1>4. CallsBackUnknown /\ BackIsExact
  BY <1>2 DEF CallsBackUnknown, BackIsExact, NoRow, NoRefund
<1>5. VerdictMatchesCharge /\ OneTransactionOneRow
  BY <1>2 DEF VerdictMatchesCharge, OneTransactionOneRow, NoRow
<1>6. MarkHasSetter /\ PaidIsBacked
  BY <1>2 DEF MarkHasSetter, PaidIsBacked
<1>7. QED
  BY <1>1, <1>3, <1>4, <1>5, <1>6 DEF IInv

\* The owner's acts touch the orders only, so only the marks are in question.
LEMMA OwnerStep ==
  ASSUME IInv, NEW o \in Orders, MarkPaid(o) \/ UnmarkPaid(o) \/ SetStatus(o), TypeOK'
  PROVE  IInv'
<1>1. UNCHANGED <<row, opening, inquiry, refund, page, gaveBack>>
  BY DEF MarkPaid, UnmarkPaid, SetStatus
<1>2. \A p \in Orders : order'[p].paid /\ ~order'[p].byHand => order[p].paid /\ ~order[p].byHand
  <2>0. order \in [Orders -> Order]
    BY DEF IInv, TypeOK
  <2>1. CASE MarkPaid(o)
    BY <2>0, <2>1 DEF MarkPaid, Order
  <2>2. CASE UnmarkPaid(o)
    BY <2>0, <2>2 DEF UnmarkPaid, Order
  <2>3. CASE SetStatus(o)
    BY <2>0, <2>3 DEF SetStatus, Order
  <2>4. QED
    BY <2>1, <2>2, <2>3
<1>3. MarkHasSetter' /\ PaidIsBacked'
  BY <1>1, <1>2 DEF IInv, MarkHasSetter, PaidIsBacked, RowsOf, HoldsMoney
<1>4. /\ RowHasOrder' /\ UnsettledIsBlank' /\ PageNeedsSession' /\ SawIsStable' /\ SumsAddUp'
      /\ CallsBackUnknown' /\ BackIsExact' /\ VerdictMatchesCharge' /\ OneTransactionOneRow'
  BY <1>1 DEF IInv, RowHasOrder, UnsettledIsBlank, PageNeedsSession, SawIsStable, SumsAddUp,
              CallsBackUnknown, BackIsExact, VerdictMatchesCharge, OneTransactionOneRow,
              Settled, Unpaid, Amount
<1>5. QED
  BY <1>3, <1>4 DEF IInv

\* A mark stays backed while the rows that hold, owe or set it keep doing so.
LEMMA MarksKept ==
  ASSUME IInv, UNCHANGED order,
         \A s \in Rows : Settled(s) =>
           /\ row'[s].order = row[s].order /\ row'[s].mode = row[s].mode
           /\ row'[s].setPaid = row[s].setPaid
           /\ row[s].mode = "live" /\ (HoldsMoney(row, s) \/ row[s].unknown > 0) =>
                HoldsMoney(row', s) \/ row'[s].unknown > 0
  PROVE  MarkHasSetter' /\ PaidIsBacked'
<1>1. \A s \in Rows : row[s].setPaid \/ HoldsMoney(row, s) \/ row[s].unknown > 0 => Settled(s)
  BY DEF IInv, UnsettledIsBlank, HoldsMoney, Settled, TypeOK, Row
<1>2. MarkHasSetter'
  BY <1>1 DEF IInv, MarkHasSetter
<1>3. PaidIsBacked'
  <2>1. ASSUME NEW o \in Orders, order[o].paid, ~order[o].byHand
        PROVE  \E s \in Rows : /\ row'[s].order = o
                               /\ \/ HoldsMoney(row', s)
                                  \/ row'[s].mode = "live" /\ row'[s].unknown > 0
    <3>1. PICK s \in Rows : /\ row[s].order = o
                            /\ \/ HoldsMoney(row, s)
                               \/ row[s].mode = "live" /\ row[s].unknown > 0
      BY <2>1 DEF IInv, PaidIsBacked, RowsOf
    <3>2. row[s].mode = "live" /\ Settled(s)
      BY <1>1, <3>1 DEF HoldsMoney
    <3>3. QED
      BY <3>1, <3>2
  <2>2. QED
    BY <2>1 DEF PaidIsBacked, RowsOf
<1>4. QED
  BY <1>2, <1>3

\* A new row carries nothing yet.
LEMMA StartStep ==
  ASSUME IInv, NEW o \in Orders, NEW m \in Modes, StartSession(o, m), TypeOK'
  PROVE  IInv'
<1> USE DEF IInv
<1>1. PICK r \in Rows :
        /\ row[r].status = "none"
        /\ row' = [row EXCEPT ![r] = [NoRow EXCEPT !.order = o, !.mode = m,
                                                   !.status = "pending"]]
        /\ opening' = opening \cup {r}
  BY DEF StartSession
<1>2. UNCHANGED <<order, inquiry, refund, page, gaveBack>>
  BY DEF StartSession
<1>3. \A s \in Rows \ {r} : row'[s] = row[s]
  BY <1>1 DEF TypeOK
<1>4. /\ row'[r].order = o /\ row'[r].status = "pending" /\ ~row'[r].session
      /\ row'[r].txn = NoTxn /\ row'[r].refunded = 0 /\ row'[r].unknown = 0
      /\ ~row'[r].locked /\ ~row'[r].setPaid
  BY <1>1 DEF NoRow, TypeOK
<1>5. row[r].refunded = 0 /\ row[r].unknown = 0 /\ ~row[r].session /\ ~Settled(r)
  BY <1>1 DEF UnsettledIsBlank, Settled
<1>6. RowHasOrder' /\ UnsettledIsBlank' /\ SumsAddUp'
  BY <1>3, <1>4 DEF RowHasOrder, UnsettledIsBlank, SumsAddUp, Settled, Amount
<1>7. PageNeedsSession' /\ SawIsStable'
  BY <1>1, <1>2, <1>3, <1>4, <1>5
  DEF PageNeedsSession, SawIsStable, Unpaid, TypeOK, Inquiry
<1>8. CallsBackUnknown' /\ BackIsExact'
  BY <1>2, <1>3, <1>4, <1>5 DEF CallsBackUnknown, BackIsExact, Settled
<1>9. VerdictMatchesCharge' /\ OneTransactionOneRow'
  BY <1>2, <1>3, <1>4 DEF VerdictMatchesCharge, OneTransactionOneRow, Amount
<1>10. MarkHasSetter' /\ PaidIsBacked'
  BY <1>2, <1>3, <1>5, MarksKept DEF HoldsMoney
<1>11. QED
  BY <1>6, <1>7, <1>8, <1>9, <1>10

\* The driver's answer to createSession finds the row as it left it.
LEMMA SessionStep ==
  ASSUME IInv, NEW r \in Rows, SessionOpened(r) \/ SessionRefused(r), TypeOK'
  PROVE  IInv'
<1> USE DEF IInv
<1>1. UNCHANGED <<order, inquiry, refund, page, gaveBack>> /\ opening' = opening \ {r}
  BY DEF SessionOpened, SessionRefused
<1>2. row[r].status = "pending" /\ ~row[r].session
  BY DEF SessionOpened, SessionRefused, PageNeedsSession
<1>3. /\ \A s \in Rows \ {r} : row'[s] = row[s]
      /\ row'[r].status \in {"pending", "failed"} /\ row'[r].order = row[r].order
      /\ row'[r].txn = row[r].txn /\ row'[r].refunded = row[r].refunded
      /\ row'[r].unknown = row[r].unknown /\ row'[r].locked = row[r].locked
      /\ row'[r].setPaid = row[r].setPaid /\ row'[r].mode = row[r].mode
  <2>0. row \in [Rows -> Row]
    BY DEF TypeOK
  <2>1. CASE SessionOpened(r)
    BY <1>2, <2>0, <2>1 DEF SessionOpened, Row
  <2>2. CASE SessionRefused(r)
    BY <1>2, <2>0, <2>2 DEF SessionRefused, Row
  <2>3. QED
    BY <2>1, <2>2
<1>4. RowHasOrder' /\ UnsettledIsBlank' /\ SumsAddUp'
  BY <1>2, <1>3 DEF RowHasOrder, UnsettledIsBlank, SumsAddUp, Settled, Amount
<1>5. PageNeedsSession' /\ SawIsStable'
  BY <1>1, <1>2, <1>3 DEF PageNeedsSession, SawIsStable, Unpaid, TypeOK, Inquiry
<1>6. CallsBackUnknown' /\ BackIsExact'
  BY <1>1, <1>2, <1>3 DEF CallsBackUnknown, BackIsExact, Settled
<1>7. VerdictMatchesCharge' /\ OneTransactionOneRow'
  BY <1>1, <1>2, <1>3 DEF VerdictMatchesCharge, OneTransactionOneRow, Amount
<1>8. MarkHasSetter' /\ PaidIsBacked'
  BY <1>1, <1>2, <1>3, MarksKept DEF Settled, HoldsMoney
<1>9. QED
  BY <1>4, <1>5, <1>6, <1>7, <1>8

\* An inquiry leaves with the page as it is; its slot is the only change to the row.
LEMMA AskStep ==
  ASSUME IInv, NEW r \in Rows, AskProvider(r), TypeOK'
  PROVE  IInv'
<1> USE DEF IInv
<1>1. UNCHANGED <<order, opening, refund, page, gaveBack>>
  BY DEF AskProvider
<1>2. /\ \A s \in Rows \ {r} : row'[s] = row[s]
      /\ row'[r] = [row[r] EXCEPT !.tries = row[r].tries + 1]
      /\ row[r].session /\ row[r] \in Row
  BY DEF AskProvider, TypeOK
<1>3. \A s \in Rows :
        /\ row'[s].status = row[s].status /\ row'[s].order = row[s].order
        /\ row'[s].txn = row[s].txn /\ row'[s].refunded = row[s].refunded
        /\ row'[s].unknown = row[s].unknown /\ row'[s].locked = row[s].locked
        /\ row'[s].setPaid = row[s].setPaid /\ row'[s].mode = row[s].mode
        /\ row'[s].session = row[s].session
  BY <1>2 DEF Row
<1>4. RowHasOrder' /\ UnsettledIsBlank' /\ SumsAddUp'
  BY <1>3 DEF RowHasOrder, UnsettledIsBlank, SumsAddUp, Settled, Amount
<1>5. PageNeedsSession'
  BY <1>1, <1>3 DEF PageNeedsSession, Unpaid, TypeOK
<1>6. SawIsStable'
  <2>1. inquiry' = inquiry \cup {[row |-> r, n |-> row[r].tries + 1, saw |-> page[r]]}
    BY DEF AskProvider
  <2>2. QED
    BY <1>1, <1>2, <1>3, <2>1 DEF SawIsStable, TypeOK, Inquiry
<1>7. CallsBackUnknown' /\ BackIsExact'
  BY <1>1, <1>3 DEF CallsBackUnknown, BackIsExact, Settled
<1>8. VerdictMatchesCharge' /\ OneTransactionOneRow'
  BY <1>1, <1>3 DEF VerdictMatchesCharge, OneTransactionOneRow, Amount
<1>9. MarkHasSetter' /\ PaidIsBacked'
  BY <1>1, <1>3, MarksKept DEF HoldsMoney
<1>10. QED
  BY <1>4, <1>5, <1>6, <1>7, <1>8, <1>9

\* A decline, whenever it arrives, moves a pending row to failed and nothing else.
LEMMA AnswerlessStep ==
  ASSUME IInv, NEW q \in inquiry, InquiryDeclined(q) \/ InquiryMoot(q), TypeOK'
  PROVE  IInv'
<1> USE DEF IInv
<1>1. UNCHANGED <<order, opening, refund, page, gaveBack>> /\ inquiry' \subseteq inquiry
  BY DEF InquiryDeclined, InquiryMoot
<1>2. /\ q.row \in Rows /\ row[q.row].session
      /\ opening \subseteq Rows /\ \A p \in inquiry : p.row \in Rows
  BY DEF SawIsStable, TypeOK, Inquiry
<1>3. \A s \in Rows :
        /\ \/ row'[s].status = row[s].status
           \/ row[s].session /\ row[s].status = "pending" /\ row'[s].status = "failed"
        /\ row'[s].order = row[s].order
        /\ row'[s].txn = row[s].txn /\ row'[s].refunded = row[s].refunded
        /\ row'[s].unknown = row[s].unknown /\ row'[s].locked = row[s].locked
        /\ row'[s].setPaid = row[s].setPaid /\ row'[s].mode = row[s].mode
        /\ row'[s].session = row[s].session
  <2>1. \/ row' = row
        \/ row[q.row].status = "pending" /\ row' = [row EXCEPT ![q.row].status = "failed"]
    BY DEF InquiryDeclined, InquiryMoot
  <2>2. QED
    BY <1>2, <2>1 DEF TypeOK, Row
<1>4. RowHasOrder' /\ UnsettledIsBlank' /\ SumsAddUp'
  BY <1>3 DEF RowHasOrder, UnsettledIsBlank, SumsAddUp, Settled, Amount
<1>5. PageNeedsSession' /\ SawIsStable'
  <2>1. PageNeedsSession'
    BY <1>1, <1>2, <1>3 DEF PageNeedsSession, Unpaid
  <2>2. SawIsStable'
    BY <1>1, <1>2, <1>3 DEF SawIsStable
  <2>3. QED
    BY <2>1, <2>2
<1>6. CallsBackUnknown' /\ BackIsExact'
  BY <1>1, <1>3 DEF CallsBackUnknown, BackIsExact, Settled
<1>7. VerdictMatchesCharge' /\ OneTransactionOneRow'
  BY <1>1, <1>3 DEF VerdictMatchesCharge, OneTransactionOneRow, Amount
<1>8. MarkHasSetter' /\ PaidIsBacked'
  BY <1>1, <1>3, MarksKept DEF Settled, HoldsMoney
<1>9. QED
  BY <1>4, <1>5, <1>6, <1>7, <1>8

\* The page changes under a row that is not settled, or does not change to matter.
LEMMA PageStep ==
  ASSUME IInv, NEW r \in Rows,
         CardDeclined(r) \/ \E s \in Sums, t \in Txns : ShopperPays(r, s, t), TypeOK'
  PROVE  IInv'
<1> USE DEF IInv
<1>1. UNCHANGED <<order, row, opening, inquiry, refund, gaveBack>>
  BY DEF CardDeclined, ShopperPays
<1>2. /\ row[r].session /\ page[r].state # "charged"
      /\ \A s \in Rows \ {r} : page'[s] = page[s]
  BY DEF CardDeclined, ShopperPays, TypeOK
<1>3. VerdictMatchesCharge'
  BY <1>1, <1>2 DEF VerdictMatchesCharge, Amount
<1>4. PageNeedsSession' /\ SawIsStable'
  BY <1>1, <1>2 DEF PageNeedsSession, SawIsStable, Unpaid, TypeOK, Inquiry
<1>5. /\ RowHasOrder' /\ UnsettledIsBlank' /\ SumsAddUp' /\ CallsBackUnknown'
      /\ BackIsExact' /\ OneTransactionOneRow' /\ MarkHasSetter' /\ PaidIsBacked'
  BY <1>1 DEF RowHasOrder, UnsettledIsBlank, SumsAddUp, CallsBackUnknown, BackIsExact,
              OneTransactionOneRow, MarkHasSetter, PaidIsBacked, Settled, Amount, RowsOf,
              HoldsMoney
<1>6. QED
  BY <1>3, <1>4, <1>5

\* Settling with the charge the row's own page made: the heart of the matter.
LEMMA SettleStep ==
  ASSUME IInv, NEW r \in Rows, row[r].session, page[r].state = "charged",
         Settle(r, page[r]), UNCHANGED <<opening, refund, page, gaveBack>>,
         inquiry' \subseteq inquiry, TypeOK'
  PROVE  IInv'
<1> USE DEF IInv
<1> DEFINE p == page[r]
           o == row[r].order
<1>1. CASE UNCHANGED <<row, order>>
  <2>1. PageNeedsSession' /\ SawIsStable'
    BY <1>1 DEF PageNeedsSession, SawIsStable, Unpaid, TypeOK, Inquiry
  <2>2. /\ RowHasOrder' /\ UnsettledIsBlank' /\ SumsAddUp' /\ CallsBackUnknown'
        /\ BackIsExact' /\ VerdictMatchesCharge' /\ OneTransactionOneRow'
        /\ MarkHasSetter' /\ PaidIsBacked'
    BY <1>1 DEF RowHasOrder, UnsettledIsBlank, SumsAddUp, CallsBackUnknown, BackIsExact,
                VerdictMatchesCharge, OneTransactionOneRow, MarkHasSetter, PaidIsBacked,
                Settled, Amount, RowsOf, HoldsMoney
  <2>3. QED
    BY <2>1, <2>2
<1>2. CASE ~UNCHANGED <<row, order>>
  <2>1. /\ Unpaid(r) /\ ~TxnTaken(r, p.txn)
        /\ row' = [row EXCEPT ![r] = [row[r] EXCEPT
                     !.status = IF Matches(r, p) THEN "paid" ELSE "mismatch",
                     !.txn = p.txn, !.setPaid = Marks(r, p)]]
        /\ order' = IF Marks(r, p) THEN [order EXCEPT ![o].paid = TRUE] ELSE order
    BY <1>2 DEF Settle
  <2>2. \A s \in Rows \ {r} : row'[s] = row[s]
    BY <2>1 DEF TypeOK
  <2>3. row[r] \in Row /\ order \in [Orders -> Order]
    BY DEF TypeOK
  <2>4. /\ row'[r].status = IF Matches(r, p) THEN "paid" ELSE "mismatch"
        /\ row'[r].txn = p.txn /\ row'[r].order = o /\ row'[r].mode = row[r].mode
        /\ row'[r].refunded = row[r].refunded /\ row'[r].unknown = row[r].unknown
        /\ row'[r].locked = row[r].locked /\ row'[r].session
    BY <2>1, <2>3 DEF TypeOK, Row
  <2>5. row'[r].setPaid = Marks(r, p)
    BY <2>1, <2>3 DEF TypeOK, Row
  <2>6. /\ o \in Orders /\ Amount(r) \in Nat /\ Amount(r) > 0
    BY <2>1, GatewayAssumption DEF Unpaid, RowHasOrder, Amount
  <2>7. /\ row[r].refunded = 0 /\ row[r].unknown = 0 /\ ~row[r].locked
        /\ row[r].status \in {"pending", "failed"}
    BY <2>1 DEF UnsettledIsBlank, Unpaid, Settled
  <2>8. RowHasOrder' /\ UnsettledIsBlank'
    <3>1. row'[r].setPaid => row'[r].status = "paid"
      BY <2>4, <2>5 DEF Marks
    <3>2. QED
      BY <2>2, <2>4, <2>6, <2>7, <3>1 DEF RowHasOrder, UnsettledIsBlank, Settled
  <2>9. SumsAddUp'
    <3>1. row'[r].setPaid => row'[r].mode = "live"
      BY <2>4, <2>5 DEF Marks
    <3>2. QED
      BY <2>2, <2>4, <2>6, <2>7, <3>1 DEF SumsAddUp, Settled, Amount
  <2>10. PageNeedsSession' /\ SawIsStable'
    <3>1. r \notin opening
      BY DEF PageNeedsSession
    <3>2. QED
      BY <2>2, <2>4, <3>1 DEF PageNeedsSession, SawIsStable, Unpaid, TypeOK, Inquiry
  <2>11. CallsBackUnknown' /\ BackIsExact'
    BY <2>2, <2>4, <2>7 DEF CallsBackUnknown, BackIsExact, Settled
  <2>12. VerdictMatchesCharge'
    BY <2>2, <2>4 DEF VerdictMatchesCharge, Amount, Matches
  <2>13. OneTransactionOneRow'
    BY <2>1, <2>2, <2>4 DEF OneTransactionOneRow, TxnTaken
  <2>14. MarkHasSetter' /\ PaidIsBacked'
    <3>1. CASE ~Marks(r, p)
      BY <2>1, <2>2, <2>7, <3>1, MarksKept DEF Settled, HoldsMoney
    <3>2. CASE Marks(r, p)
      <4>1. /\ row'[r].setPaid /\ row'[r].order = o /\ row'[r].mode = "live"
            /\ HoldsMoney(row', r)
        BY <2>4, <2>5, <2>6, <2>7, <3>2 DEF Marks, HoldsMoney, Amount
      <4>2. \A x \in Orders \ {o} : order'[x] = order[x]
        BY <2>1, <2>3, <3>2
      <4>3. ASSUME NEW x \in Orders \ {o}, order[x].paid, ~order[x].byHand
            PROVE  /\ \E s \in Rows : row'[s].order = x /\ row'[s].setPaid
                   /\ \E s \in Rows : /\ row'[s].order = x
                                      /\ \/ HoldsMoney(row', s)
                                         \/ row'[s].mode = "live" /\ row'[s].unknown > 0
        BY <2>2, <4>3 DEF MarkHasSetter, PaidIsBacked, RowsOf, HoldsMoney
      <4>4. QED
        BY <4>1, <4>2, <4>3 DEF MarkHasSetter, PaidIsBacked, RowsOf
    <3>3. QED
      BY <3>1, <3>2
  <2>15. QED
    BY <2>8, <2>9, <2>10, <2>11, <2>12, <2>13, <2>14
<1>3. QED
  BY <1>1, <1>2

LEMMA CallbackStep ==
  ASSUME IInv, NEW r \in Rows, CallbackSettles(r), TypeOK'
  PROVE  IInv'
  BY SettleStep DEF CallbackSettles

\* A late answer tells of the charge as it still is, so it settles like a callback.
LEMMA InquiryPaidStep ==
  ASSUME IInv, NEW q \in inquiry, InquiryPaid(q), TypeOK'
  PROVE  IInv'
<1>1. q.row \in Rows /\ row[q.row].session
  BY DEF IInv, SawIsStable, TypeOK, Inquiry
<1>2. PICK p \in AnswerOf(q) : p.state = "charged" /\ Settle(q.row, p)
  BY DEF InquiryPaid
<1>3. p = page[q.row]
  BY <1>2 DEF AnswerOf, IInv, SawIsStable
<1>4. inquiry' \subseteq inquiry /\ UNCHANGED <<opening, refund, page, gaveBack>>
  BY DEF InquiryPaid
<1>5. QED
  BY <1>1, <1>2, <1>3, <1>4, SettleStep

-----------------------------------------------------------------------------
(* Refunds. *)

\* What stands behind a call that is not idle.
LEMMA CallFact ==
  ASSUME IInv, NEW i \in Refunds, refund[i].at # "idle"
  PROVE  LET r == refund[i].row IN
         /\ r \in Rows /\ Settled(r) /\ Amount(r) \in Nat
         /\ row[r] \in Row
         /\ refund[i].sum \in Nat /\ refund[i].sum > 0 /\ refund[i].sum = row[r].unknown
         /\ row[r].unknown <= row[r].refunded /\ row[r].refunded <= Amount(r)
         /\ \A j \in Refunds \ {i} : refund[j].row # r
<1> DEFINE r == refund[i].row
<1> USE DEF IInv
<1>1. /\ r \in Rows /\ Settled(r)
      /\ refund[i].sum > 0 /\ refund[i].sum = row[r].unknown
  BY DEF CallsBackUnknown
<1>2. row[r] \in Row /\ refund[i].sum \in Nat
  BY <1>1 DEF TypeOK, Refund
<1>3. Amount(r) \in Nat
  BY <1>1, GatewayAssumption DEF Amount, RowHasOrder, Settled
<1>4. row[r].unknown <= row[r].refunded /\ row[r].refunded <= Amount(r)
  BY <1>1 DEF SumsAddUp
<1>5. ASSUME NEW j \in Refunds \ {i} PROVE refund[j].row # r
  <2>1. CASE refund[j].at = "idle"
    BY <1>1, <2>1 DEF CallsBackUnknown, NoRefund, Rows
  <2>2. CASE refund[j].at # "idle"
    BY <2>2 DEF CallsBackUnknown
  <2>3. QED
    BY <2>1, <2>2
<1>6. QED
  BY <1>1, <1>2, <1>3, <1>4, <1>5

\* A step that only rewrites the sums of one settled row leaves the rest alone.
LEMMA BooksFrame ==
  ASSUME IInv, NEW r \in Rows, Settled(r), UNCHANGED <<opening, inquiry, page>>,
         \A s \in Rows \ {r} : row'[s] = row[s],
         row'[r].order = row[r].order, row'[r].mode = row[r].mode,
         row'[r].txn = row[r].txn, row'[r].session = row[r].session,
         row'[r].setPaid = row[r].setPaid,
         row'[r].status = "paid" \/ row'[r].status = "refunded",
         row'[r].unknown <= row'[r].refunded, row'[r].refunded <= Amount(r),
         (row'[r].status = "refunded") <=> (row'[r].refunded = Amount(r)),
         row'[r].locked => row'[r].unknown > 0
  PROVE  /\ RowHasOrder' /\ UnsettledIsBlank' /\ PageNeedsSession' /\ SawIsStable'
         /\ SumsAddUp' /\ VerdictMatchesCharge' /\ OneTransactionOneRow'
<1> USE DEF IInv
<1>1. RowHasOrder' /\ UnsettledIsBlank'
  BY DEF RowHasOrder, UnsettledIsBlank, Settled
<1>2. PageNeedsSession' /\ SawIsStable'
  BY DEF PageNeedsSession, SawIsStable, Unpaid, Settled, TypeOK, Inquiry
<1>3. SumsAddUp'
  BY DEF SumsAddUp, Settled, Amount
<1>4. VerdictMatchesCharge' /\ OneTransactionOneRow'
  BY DEF VerdictMatchesCharge, OneTransactionOneRow, Amount, Settled
<1>5. QED
  BY <1>1, <1>2, <1>3, <1>4

\* The reservation: nothing of the row was at the provider, now one call is.
LEMMA RefundStartStep ==
  ASSUME IInv, NEW i \in Refunds, NEW r \in Rows, NEW want \in RefundSums,
         RefundStart(i, r, want), TypeOK'
  PROVE  IInv'
<1> USE DEF IInv
<1>1. /\ UNCHANGED <<order, opening, inquiry, page, gaveBack>>
      /\ refund[i].at = "idle" /\ Settled(r) /\ row[r].unknown = 0 /\ ~row[r].locked
      /\ row[r].refunded + want <= Amount(r)
  BY DEF RefundStart
<1>2. /\ row[r] \in Row /\ want \in Nat /\ want > 0
      /\ Amount(r) \in Nat
  BY <1>1, SumFact, GatewayAssumption DEF TypeOK, Amount, RowHasOrder, Settled
<1>3. /\ \A s \in Rows \ {r} : row'[s] = row[s]
      /\ \A j \in Refunds \ {i} : refund'[j] = refund[j]
      /\ refund'[i] = [row |-> r, sum |-> want, at |-> "sent", waiting |-> TRUE]
  BY DEF RefundStart, TypeOK
<1>4. /\ row'[r].order = row[r].order /\ row'[r].mode = row[r].mode
      /\ row'[r].txn = row[r].txn /\ row'[r].session = row[r].session
      /\ row'[r].setPaid = row[r].setPaid /\ row'[r].locked
      /\ row'[r].refunded = row[r].refunded + want /\ row'[r].unknown = want
      /\ row'[r].status = IF row[r].refunded + want >= Amount(r)
                          THEN "refunded" ELSE row[r].status
  BY <1>1, <1>2 DEF RefundStart, TypeOK, Row
<1>5. row[r].refunded < Amount(r) /\ row[r].status = "paid"
  BY <1>1, <1>2 DEF SumsAddUp, Settled, Row
<1>6. /\ RowHasOrder' /\ UnsettledIsBlank' /\ PageNeedsSession' /\ SawIsStable'
      /\ SumsAddUp' /\ VerdictMatchesCharge' /\ OneTransactionOneRow'
  <2>1. /\ row'[r].unknown <= row'[r].refunded /\ row'[r].refunded <= Amount(r)
        /\ (row'[r].status = "refunded") <=> (row'[r].refunded = Amount(r))
        /\ row'[r].status = "paid" \/ row'[r].status = "refunded"
        /\ row'[r].locked => row'[r].unknown > 0
    BY <1>1, <1>2, <1>4, <1>5 DEF Row
  <2>2. QED
    BY <1>1, <1>3, <1>4, <2>1, BooksFrame
<1>7. \A j \in Refunds : refund[j].row # r
  BY <1>1, CallFact DEF CallsBackUnknown, NoRefund, Rows
<1>8. CallsBackUnknown'
  BY <1>1, <1>2, <1>3, <1>4, <1>5, <1>7 DEF CallsBackUnknown, Settled
<1>9. BackIsExact'
  BY <1>1, <1>2, <1>3, <1>4, <1>7 DEF BackIsExact, Row
<1>10. MarkHasSetter' /\ PaidIsBacked'
  BY <1>1, <1>2, <1>3, <1>4, MarksKept DEF HoldsMoney
<1>11. QED
  BY <1>6, <1>8, <1>9, <1>10

\* The provider's half: an account moves exactly when the call is carried out.
LEMMA ProviderStep ==
  ASSUME IInv, NEW i \in Refunds, ProviderRefunds(i) \/ ProviderRefuses(i), TypeOK'
  PROVE  IInv'
<1> USE DEF IInv
<1> DEFINE r == refund[i].row
<1>1. UNCHANGED <<order, row, opening, inquiry, page>> /\ refund[i].at = "sent"
  BY DEF ProviderRefunds, ProviderRefuses
<1>2. r \in Rows /\ refund[i].sum = row[r].unknown /\ refund[i] \in Refund
  BY <1>1, CallFact DEF TypeOK
<1>3. \A j \in Refunds \ {i} : refund[j].row # r
  BY <1>1, CallFact
<1>4. /\ \A j \in Refunds \ {i} : refund'[j] = refund[j]
      /\ refund'[i].row = r /\ refund'[i].sum = refund[i].sum
      /\ refund'[i].waiting = refund[i].waiting /\ refund'[i].at \in {"done", "refused"}
  BY <1>2 DEF ProviderRefunds, ProviderRefuses, TypeOK, Refund
<1>5. /\ RowHasOrder' /\ UnsettledIsBlank' /\ SumsAddUp' /\ VerdictMatchesCharge'
      /\ OneTransactionOneRow' /\ MarkHasSetter' /\ PaidIsBacked'
  BY <1>1 DEF RowHasOrder, UnsettledIsBlank, SumsAddUp, VerdictMatchesCharge,
              OneTransactionOneRow, MarkHasSetter, PaidIsBacked, Settled, Amount, RowsOf,
              HoldsMoney
<1>6. PageNeedsSession' /\ SawIsStable'
  BY <1>1 DEF PageNeedsSession, SawIsStable, Unpaid, TypeOK, Inquiry
<1>7. CallsBackUnknown'
  BY <1>1, <1>4 DEF CallsBackUnknown, Settled, NoRefund
<1>8. BackIsExact'
  <2>1. CASE ProviderRefunds(i)
    <3>1. /\ \A s \in Rows \ {r} : gaveBack'[s] = gaveBack[s]
          /\ gaveBack'[r] = gaveBack[r] + refund[i].sum /\ refund'[i].at = "done"
      BY <1>2, <2>1 DEF ProviderRefunds, TypeOK, Refund
    <3>2. row[r].refunded \in Nat /\ row[r].unknown \in Nat
      BY <1>2 DEF TypeOK, Row
    <3>3. ASSUME ~BodyLoss PROVE gaveBack[r] = row[r].refunded - row[r].unknown
      BY <1>1, <1>2, <1>3, <3>3 DEF BackIsExact
    <3>4. ASSUME ~BodyLoss PROVE gaveBack'[r] = row[r].refunded
      BY <1>2, <3>1, <3>2, <3>3, <3>4
    <3>5. QED
      BY <1>1, <1>4, <3>1, <3>4 DEF BackIsExact
  <2>2. CASE ProviderRefuses(i)
    <3>1. gaveBack' = gaveBack /\ refund'[i].at = "refused"
      BY <2>2 DEF ProviderRefuses, TypeOK, Refund
    <3>2. QED
      BY <1>1, <1>4, <3>1 DEF BackIsExact
  <2>3. QED
    BY <2>1, <2>2
<1>9. QED
  BY <1>5, <1>6, <1>7, <1>8

\* A lock is lifted, by an unknown outcome or by age: the books' sums stay.
LEMMA UnlockStep ==
  ASSUME IInv, NEW r \in Rows, Settled(r),
         row' = [row EXCEPT ![r].locked = FALSE],
         UNCHANGED <<order, opening, inquiry, page, gaveBack>>,
         \A j \in Refunds : /\ refund'[j].row = refund[j].row /\ refund'[j].sum = refund[j].sum
                            /\ refund'[j].at = refund[j].at
                            /\ refund'[j].waiting => refund[j].waiting /\ refund[j].row # r,
         TypeOK'
  PROVE  IInv'
<1> USE DEF IInv
<1>1. row[r] \in Row /\ \A s \in Rows \ {r} : row'[s] = row[s]
  BY DEF TypeOK
<1>2. /\ row'[r].order = row[r].order /\ row'[r].mode = row[r].mode
      /\ row'[r].txn = row[r].txn /\ row'[r].session = row[r].session
      /\ row'[r].setPaid = row[r].setPaid /\ ~row'[r].locked
      /\ row'[r].refunded = row[r].refunded /\ row'[r].unknown = row[r].unknown
      /\ row'[r].status = row[r].status
  BY <1>1 DEF TypeOK, Row
<1>3. /\ RowHasOrder' /\ UnsettledIsBlank' /\ PageNeedsSession' /\ SawIsStable'
      /\ SumsAddUp' /\ VerdictMatchesCharge' /\ OneTransactionOneRow'
  <2>1. /\ row[r].unknown <= row[r].refunded /\ row[r].refunded <= Amount(r)
        /\ (row[r].status = "refunded") <=> (row[r].refunded = Amount(r))
        /\ row[r].status = "paid" \/ row[r].status = "refunded"
    BY DEF SumsAddUp, Settled
  <2>2. QED
    BY <1>1, <1>2, <2>1, BooksFrame
<1>4. CallsBackUnknown'
  BY <1>1, <1>2 DEF CallsBackUnknown, Settled
<1>5. BackIsExact'
  BY <1>1, <1>2 DEF BackIsExact
<1>6. MarkHasSetter' /\ PaidIsBacked'
  BY <1>1, <1>2, MarksKept DEF HoldsMoney
<1>7. QED
  BY <1>3, <1>4, <1>5, <1>6

LEMMA RefundUnknownStep ==
  ASSUME IInv, NEW i \in Refunds, RefundUnknown(i), TypeOK'
  PROVE  IInv'
<1> DEFINE r == refund[i].row
<1>1. refund[i].waiting /\ refund[i] \in Refund
  BY DEF RefundUnknown, IInv, TypeOK
<1>2. refund[i].at # "idle"
  BY <1>1 DEF IInv, CallsBackUnknown, NoRefund
<1>3. /\ r \in Rows /\ Settled(r) /\ \A j \in Refunds \ {i} : refund[j].row # r
  BY <1>2, CallFact
<1>4. /\ row' = [row EXCEPT ![r].locked = FALSE]
      /\ refund' = [refund EXCEPT ![i].waiting = FALSE]
      /\ UNCHANGED <<order, opening, inquiry, page, gaveBack>>
  BY DEF RefundUnknown
<1>5. \A j \in Refunds : /\ refund'[j].row = refund[j].row /\ refund'[j].sum = refund[j].sum
                         /\ refund'[j].at = refund[j].at
                         /\ refund'[j].waiting => refund[j].waiting /\ refund[j].row # r
  BY <1>1, <1>2, <1>3, <1>4 DEF IInv, TypeOK, Refund
<1>6. QED
  BY <1>3, <1>4, <1>5, UnlockStep

LEMMA LockAgesStep ==
  ASSUME IInv, NEW r \in Rows, LockAges(r), TypeOK'
  PROVE  IInv'
<1>1. /\ row[r].locked /\ row' = [row EXCEPT ![r].locked = FALSE]
      /\ \A i \in Refunds : ~(refund[i].row = r /\ refund[i].waiting)
      /\ UNCHANGED <<order, opening, inquiry, refund, page, gaveBack>>
  BY DEF LockAges
<1>2. Settled(r)
  BY <1>1 DEF IInv, UnsettledIsBlank
<1>3. QED
  BY <1>1, <1>2, UnlockStep

\* A crash forgets who waits; the rows and the provider know all that matters.
LEMMA CrashStep ==
  ASSUME IInv, Crash, TypeOK'
  PROVE  IInv'
<1> USE DEF IInv
<1>1. /\ UNCHANGED <<order, row, page, gaveBack>> /\ opening' = {} /\ inquiry' = {}
      /\ refund' = [i \in Refunds |-> [refund[i] EXCEPT !.waiting = FALSE]]
  BY DEF Crash
<1>2. \A j \in Refunds : /\ refund'[j].row = refund[j].row /\ refund'[j].sum = refund[j].sum
                         /\ refund'[j].at = refund[j].at /\ ~refund'[j].waiting
  BY <1>1 DEF TypeOK, Refund
<1>3. /\ RowHasOrder' /\ UnsettledIsBlank' /\ SumsAddUp' /\ VerdictMatchesCharge'
      /\ OneTransactionOneRow' /\ MarkHasSetter' /\ PaidIsBacked'
  BY <1>1 DEF RowHasOrder, UnsettledIsBlank, SumsAddUp, VerdictMatchesCharge,
              OneTransactionOneRow, MarkHasSetter, PaidIsBacked, Settled, Amount, RowsOf,
              HoldsMoney
<1>4. PageNeedsSession' /\ SawIsStable'
  BY <1>1 DEF PageNeedsSession, SawIsStable, Unpaid
<1>5. CallsBackUnknown'
  <2>1. UNCHANGED row
    BY <1>1
  <2>2. QED
    BY <1>2, <2>1 DEF CallsBackUnknown, Settled
<1>6. BackIsExact'
  BY <1>1, <1>2, ZenonT(30) DEF BackIsExact
<1>7. QED
  BY <1>3, <1>4, <1>5, <1>6

\* A call is decided: its sum leaves the unknown column and the row is free again.
LEMMA DecisionFact ==
  ASSUME IInv, NEW i \in Refunds, refund[i].at # "idle", NEW left \in Nat,
         LET r == refund[i].row IN
         /\ left = row[r].refunded \/ left = row[r].refunded - row[r].unknown
         /\ \A s \in Rows \ {r} : row'[s] = row[s]
         /\ row'[r].order = row[r].order /\ row'[r].mode = row[r].mode
         /\ row'[r].txn = row[r].txn /\ row'[r].session = row[r].session
         /\ row'[r].setPaid = row[r].setPaid /\ ~row'[r].locked
         /\ row'[r].refunded = left /\ row'[r].unknown = 0
         /\ row'[r].status = IF left < Amount(r) THEN "paid" ELSE "refunded",
         refund' = [refund EXCEPT ![i] = NoRefund],
         UNCHANGED <<opening, inquiry, page, gaveBack>>,
         ~BodyLoss => (left = row[refund[i].row].refunded <=> refund[i].at = "done"),
         TypeOK'
  PROVE  /\ RowHasOrder' /\ UnsettledIsBlank' /\ PageNeedsSession' /\ SawIsStable'
         /\ SumsAddUp' /\ VerdictMatchesCharge' /\ OneTransactionOneRow'
         /\ CallsBackUnknown' /\ BackIsExact'
<1> USE DEF IInv
<1> DEFINE r == refund[i].row
<1>1. /\ r \in Rows /\ Settled(r) /\ Amount(r) \in Nat /\ row[r] \in Row
      /\ refund[i].sum > 0 /\ refund[i].sum = row[r].unknown
      /\ row[r].unknown <= row[r].refunded /\ row[r].refunded <= Amount(r)
      /\ \A j \in Refunds \ {i} : refund[j].row # r
  BY CallFact
<1>2. /\ \A s \in Rows \ {r} : row'[s] = row[s]
      /\ \A j \in Refunds \ {i} : refund'[j] = refund[j]
      /\ refund'[i].at = "idle" /\ refund'[i].row = 0 /\ ~refund'[i].waiting
  BY DEF TypeOK, NoRefund
<1>3. /\ row'[r].order = row[r].order /\ row'[r].mode = row[r].mode
      /\ row'[r].txn = row[r].txn /\ row'[r].session = row[r].session
      /\ row'[r].setPaid = row[r].setPaid /\ ~row'[r].locked
      /\ row'[r].refunded = left /\ row'[r].unknown = 0
      /\ row'[r].status = IF left < Amount(r) THEN "paid" ELSE "refunded"
  OBVIOUS
<1>4. left <= Amount(r)
  BY <1>1 DEF Row
<1>5. /\ RowHasOrder' /\ UnsettledIsBlank' /\ PageNeedsSession' /\ SawIsStable'
      /\ SumsAddUp' /\ VerdictMatchesCharge' /\ OneTransactionOneRow'
  <2>1. /\ row'[r].unknown <= row'[r].refunded /\ row'[r].refunded <= Amount(r)
        /\ (row'[r].status = "refunded") <=> (row'[r].refunded = Amount(r))
        /\ row'[r].status = "paid" \/ row'[r].status = "refunded"
    BY <1>1, <1>3, <1>4
  <2>2. QED
    BY <1>1, <1>2, <1>3, <2>1, BooksFrame
<1>6. CallsBackUnknown'
  <2>1. \A j \in Refunds : refund'[j].at # "idle" =>
          refund'[j] = refund[j] /\ refund[j].row \in Rows \ {r}
    BY <1>1, <1>2 DEF CallsBackUnknown
  <2>2. ASSUME NEW j \in Refunds, refund'[j].at # "idle"
        PROVE  /\ refund'[j].row \in Rows /\ Settled(refund[j].row)'
               /\ refund'[j].sum > 0 /\ refund'[j].sum = row'[refund'[j].row].unknown
               /\ refund'[j].waiting => row'[refund'[j].row].locked
    <3>1. row'[refund'[j].row] = row[refund[j].row]
      BY <1>2, <2>1, <2>2
    <3>2. QED
      BY <2>1, <2>2, <3>1 DEF CallsBackUnknown, Settled
  <2>3. \A j \in Refunds : refund'[j].at = "idle" => refund'[j].row = 0 /\ ~refund'[j].waiting
    BY <1>2 DEF CallsBackUnknown
  <2>4. \A j, k \in Refunds : j # k /\ refund'[j].at # "idle" /\ refund'[k].at # "idle" =>
          refund'[j].row # refund'[k].row
    BY <2>1 DEF CallsBackUnknown
  <2>5. ASSUME NEW s \in Rows, row'[s].unknown > 0
        PROVE  \E j \in Refunds : refund'[j].at # "idle" /\ refund'[j].row = s
    <3>1. s # r /\ row'[s] = row[s]
      BY <1>2, <1>3, <2>5
    <3>2. PICK j \in Refunds : refund[j].at # "idle" /\ refund[j].row = s
      BY <2>5, <3>1 DEF CallsBackUnknown
    <3>3. QED
      BY <1>2, <3>1, <3>2
  <2>6. QED
    BY <2>2, <2>3, <2>4, <2>5 DEF CallsBackUnknown
<1>7. BackIsExact'
  <2>1. ASSUME ~BodyLoss PROVE gaveBack[r] = left
    <3>1. CASE refund[i].at = "done"
      BY <1>1, <2>1, <3>1 DEF BackIsExact
    <3>2. CASE refund[i].at # "done"
      BY <1>1, <2>1, <3>2 DEF BackIsExact
    <3>3. QED
      BY <3>1, <3>2
  <2>2. ASSUME ~BodyLoss, NEW s \in Rows
        PROVE  gaveBack[s] = IF \E j \in Refunds : refund'[j].at = "done" /\ refund'[j].row = s
                             THEN row'[s].refunded
                             ELSE row'[s].refunded - row'[s].unknown
    <3>1. CASE s = r
      BY <1>1, <1>2, <1>3, <2>1, <2>2, <3>1
    <3>2. CASE s # r
      BY <1>1, <1>2, <2>2, <3>2 DEF BackIsExact
    <3>3. QED
      BY <3>1, <3>2
  <2>3. QED
    BY <2>2 DEF BackIsExact
<1>8. QED
  BY <1>5, <1>6, <1>7

\* The mark goes only when nothing backs it, and no other order's does.
LEMMA ClearStep ==
  ASSUME IInv, NEW r \in Rows, row[r].order \in Orders,
         order' = ClearPaidIfNothingLeft(row[r].order, row'),
         \A s \in Rows \ {r} : row'[s] = row[s],
         row'[r].order = row[r].order, row'[r].setPaid = row[r].setPaid
  PROVE  MarkHasSetter' /\ PaidIsBacked'
<1> USE DEF IInv
<1> DEFINE o == row[r].order
<1>1. \A p \in Orders \ {o} : order'[p] = order[p]
  BY ClearFact DEF TypeOK
<1>2. ASSUME NEW p \in Orders \ {o}, order[p].paid, ~order[p].byHand
      PROVE  /\ \E s \in Rows : row'[s].order = p /\ row'[s].setPaid
             /\ \E s \in Rows : /\ row'[s].order = p
                                /\ \/ HoldsMoney(row', s)
                                   \/ row'[s].mode = "live" /\ row'[s].unknown > 0
  BY <1>2 DEF MarkHasSetter, PaidIsBacked, RowsOf, HoldsMoney
<1>3. ASSUME order'[o].paid, ~order'[o].byHand
      PROVE  /\ \E s \in Rows : row'[s].order = o /\ row'[s].setPaid
             /\ \E s \in Rows : row'[s].order = o /\ HoldsMoney(row', s)
  <2>1. order[o] \in Order /\ order \in [Orders -> Order]
    BY DEF TypeOK
  <2>2. order' = order
    BY <1>3, <2>1 DEF ClearPaidIfNothingLeft, Order
  <2>3. \E s \in Rows : row'[s].order = o /\ row'[s].setPaid
    BY <1>3, <2>2 DEF MarkHasSetter
  <2>4. order[o].paid
    BY <1>3, <2>2
  <2>5. \E s \in Rows : row'[s].order = o /\ HoldsMoney(row', s)
    <3>1. SUFFICES ASSUME ~ \E s \in Rows : row'[s].order = o /\ HoldsMoney(row', s)
                   PROVE  FALSE
      OBVIOUS
    <3>2. order' = [order EXCEPT ![o].paid = FALSE, ![o].byHand = FALSE]
      BY <2>3, <2>4, <3>1 DEF ClearPaidIfNothingLeft
    <3>3. QED
      BY <1>3, <2>1, <3>2 DEF Order
  <2>6. QED
    BY <2>3, <2>5
<1>4. QED
  BY <1>1, <1>2, <1>3 DEF MarkHasSetter, PaidIsBacked, RowsOf

LEMMA RefundAcceptedStep ==
  ASSUME IInv, NEW i \in Refunds, RefundAccepted(i), TypeOK'
  PROVE  IInv'
<1> USE DEF IInv
<1> DEFINE r == refund[i].row
<1>1. /\ refund[i].at = "done" /\ refund' = [refund EXCEPT ![i] = NoRefund]
      /\ UNCHANGED <<opening, inquiry, page, gaveBack>>
      /\ row' = [row EXCEPT ![r] = [row[r] EXCEPT
                   !.unknown = Less(row[r].unknown, refund[i].sum), !.locked = FALSE]]
      /\ order' = ClearPaidIfNothingLeft(row[r].order, row')
  BY DEF RefundAccepted
<1>2. /\ r \in Rows /\ Settled(r) /\ row[r] \in Row /\ refund[i].sum = row[r].unknown
      /\ row[r].refunded <= Amount(r) /\ Amount(r) \in Nat
  BY <1>1, CallFact
<1>3. Less(row[r].unknown, refund[i].sum) = 0
  BY <1>2, LessFact DEF Row
<1>4. /\ \A s \in Rows \ {r} : row'[s] = row[s]
      /\ row'[r].order = row[r].order /\ row'[r].mode = row[r].mode
      /\ row'[r].txn = row[r].txn /\ row'[r].session = row[r].session
      /\ row'[r].setPaid = row[r].setPaid /\ ~row'[r].locked
      /\ row'[r].refunded = row[r].refunded /\ row'[r].unknown = 0
      /\ row'[r].status = row[r].status
  BY <1>1, <1>2, <1>3 DEF TypeOK, Row
<1>5. row[r].status = IF row[r].refunded < Amount(r) THEN "paid" ELSE "refunded"
  BY <1>2 DEF SumsAddUp, Settled, Row
<1>6. /\ RowHasOrder' /\ UnsettledIsBlank' /\ PageNeedsSession' /\ SawIsStable'
      /\ SumsAddUp' /\ VerdictMatchesCharge' /\ OneTransactionOneRow'
      /\ CallsBackUnknown' /\ BackIsExact'
  <2>1. row[r].refunded \in Nat
    BY <1>2 DEF Row
  <2>2. QED
    BY <1>1, <1>4, <1>5, <2>1, DecisionFact
<1>7. MarkHasSetter' /\ PaidIsBacked'
  BY <1>1, <1>2, <1>4, ClearStep DEF RowHasOrder, Settled
<1>8. QED
  BY <1>6, <1>7

LEMMA ResolveDoneStep ==
  ASSUME IInv, NEW i \in Refunds, ResolveDone(i), TypeOK'
  PROVE  IInv'
<1> USE DEF IInv
<1> DEFINE r == refund[i].row
<1>1. /\ refund[i].at = "done" /\ refund' = [refund EXCEPT ![i] = NoRefund]
      /\ UNCHANGED <<opening, inquiry, page, gaveBack>>
      /\ row' = [row EXCEPT ![r] = [row[r] EXCEPT !.unknown = 0, !.locked = FALSE]]
      /\ order' = ClearPaidIfNothingLeft(row[r].order, row')
  BY DEF ResolveDone
<1>2. /\ r \in Rows /\ Settled(r) /\ row[r] \in Row
      /\ row[r].refunded <= Amount(r) /\ Amount(r) \in Nat
  BY <1>1, CallFact
<1>3. /\ \A s \in Rows \ {r} : row'[s] = row[s]
      /\ row'[r].order = row[r].order /\ row'[r].mode = row[r].mode
      /\ row'[r].txn = row[r].txn /\ row'[r].session = row[r].session
      /\ row'[r].setPaid = row[r].setPaid /\ ~row'[r].locked
      /\ row'[r].refunded = row[r].refunded /\ row'[r].unknown = 0
      /\ row'[r].status = row[r].status
  BY <1>1, <1>2 DEF TypeOK, Row
<1>4. row[r].status = IF row[r].refunded < Amount(r) THEN "paid" ELSE "refunded"
  BY <1>2 DEF SumsAddUp, Settled, Row
<1>5. /\ RowHasOrder' /\ UnsettledIsBlank' /\ PageNeedsSession' /\ SawIsStable'
      /\ SumsAddUp' /\ VerdictMatchesCharge' /\ OneTransactionOneRow'
      /\ CallsBackUnknown' /\ BackIsExact'
  <2>1. row[r].refunded \in Nat
    BY <1>2 DEF Row
  <2>2. QED
    BY <1>1, <1>3, <1>4, <2>1, DecisionFact
<1>6. MarkHasSetter' /\ PaidIsBacked'
  BY <1>1, <1>2, <1>3, ClearStep DEF RowHasOrder, Settled
<1>7. QED
  BY <1>5, <1>6

\* A refusal gives the sum back to the row, so the row backs its mark again.
LEMMA RefundRefusedStep ==
  ASSUME IInv, NEW i \in Refunds, RefundRefused(i), TypeOK'
  PROVE  IInv'
<1> USE DEF IInv
<1> DEFINE r == refund[i].row
           left == row[r].refunded - row[r].unknown
<1>1. /\ refund[i].waiting /\ (refund[i].at = "refused" \/ (BodyLoss /\ refund[i].at = "done"))
      /\ refund' = [refund EXCEPT ![i] = NoRefund]
      /\ UNCHANGED <<order, opening, inquiry, page, gaveBack>>
      /\ row' = [row EXCEPT ![r] = [row[r] EXCEPT
                   !.refunded = Less(row[r].refunded, refund[i].sum), !.locked = FALSE,
                   !.unknown = Less(row[r].unknown, refund[i].sum),
                   !.status = IF Less(row[r].refunded, refund[i].sum) < Amount(r)
                              THEN "paid" ELSE "refunded"]]
  BY DEF RefundRefused
<1>2. /\ r \in Rows /\ Settled(r) /\ row[r] \in Row /\ refund[i].sum = row[r].unknown
      /\ row[r].unknown > 0 /\ row[r].unknown <= row[r].refunded
      /\ row[r].refunded <= Amount(r) /\ Amount(r) \in Nat
  BY <1>1, CallFact
<1>3. /\ row[r].refunded \in Nat /\ row[r].unknown \in Nat /\ left \in Nat
      /\ Less(row[r].unknown, refund[i].sum) = 0 /\ Less(row[r].refunded, refund[i].sum) = left
  <2>1. row[r].refunded \in Nat /\ row[r].unknown \in Nat /\ left \in Nat
    BY <1>2 DEF Row
  <2>2. QED
    BY <1>2, <2>1, LessFact
<1>4. /\ \A s \in Rows \ {r} : row'[s] = row[s]
      /\ row'[r].order = row[r].order /\ row'[r].mode = row[r].mode
      /\ row'[r].txn = row[r].txn /\ row'[r].session = row[r].session
      /\ row'[r].setPaid = row[r].setPaid /\ ~row'[r].locked
      /\ row'[r].refunded = left /\ row'[r].unknown = 0
      /\ row'[r].status = IF left < Amount(r) THEN "paid" ELSE "refunded"
  <2>1. row' = [row EXCEPT ![r] = [row[r] EXCEPT !.refunded = left, !.locked = FALSE, !.unknown = 0,
                                     !.status = IF left < Amount(r) THEN "paid" ELSE "refunded"]]
    BY <1>1, <1>3
  <2>2. row \in [Rows -> Row]
    BY DEF TypeOK
  <2>3. QED
    BY <1>2, <2>1, <2>2 DEF Row
<1>5. /\ RowHasOrder' /\ UnsettledIsBlank' /\ PageNeedsSession' /\ SawIsStable'
      /\ SumsAddUp' /\ VerdictMatchesCharge' /\ OneTransactionOneRow'
      /\ CallsBackUnknown' /\ BackIsExact'
  <2>1. /\ refund[i].at # "idle" /\ left # row[r].refunded
        /\ ~BodyLoss => refund[i].at # "done"
    BY <1>1, <1>2, <1>3 DEF CallsBackUnknown
  <2>2. QED
    BY <1>1, <1>3, <1>4, <2>1, DecisionFact
<1>6. MarkHasSetter' /\ PaidIsBacked'
  <2>1. row'[r].mode = "live" => HoldsMoney(row', r)
    BY <1>2, <1>3, <1>4 DEF HoldsMoney, Amount
  <2>2. QED
    BY <1>1, <1>2, <1>4, <2>1, MarksKept, ZenonT(30) DEF HoldsMoney
<1>7. QED
  BY <1>5, <1>6

LEMMA ResolveUndoneStep ==
  ASSUME IInv, NEW i \in Refunds, ResolveUndone(i), TypeOK'
  PROVE  IInv'
<1> USE DEF IInv
<1> DEFINE r == refund[i].row
           left == row[r].refunded - row[r].unknown
<1>1. /\ refund[i].at = "refused"
      /\ refund' = [refund EXCEPT ![i] = NoRefund]
      /\ UNCHANGED <<order, opening, inquiry, page, gaveBack>>
      /\ row' = [row EXCEPT ![r] = [row[r] EXCEPT
                   !.refunded = Less(row[r].refunded, row[r].unknown), !.unknown = 0,
                   !.locked = FALSE,
                   !.status = IF Less(row[r].refunded, row[r].unknown) < Amount(r)
                              THEN "paid" ELSE row[r].status]]
  BY DEF ResolveUndone
<1>2. /\ r \in Rows /\ Settled(r) /\ row[r] \in Row
      /\ row[r].unknown > 0 /\ row[r].unknown <= row[r].refunded
      /\ row[r].refunded <= Amount(r) /\ Amount(r) \in Nat
  BY <1>1, CallFact
<1>3. /\ row[r].refunded \in Nat /\ row[r].unknown \in Nat /\ left \in Nat
      /\ Less(row[r].refunded, row[r].unknown) = left /\ left < Amount(r)
  <2>1. row[r].refunded \in Nat /\ row[r].unknown \in Nat
    BY <1>2 DEF Row
  <2>2. left \in Nat /\ left < Amount(r)
    BY <1>2, <2>1
  <2>3. QED
    BY <1>2, <2>1, <2>2, LessFact
<1>4. /\ \A s \in Rows \ {r} : row'[s] = row[s]
      /\ row'[r].order = row[r].order /\ row'[r].mode = row[r].mode
      /\ row'[r].txn = row[r].txn /\ row'[r].session = row[r].session
      /\ row'[r].setPaid = row[r].setPaid /\ ~row'[r].locked
      /\ row'[r].refunded = left /\ row'[r].unknown = 0
      /\ row'[r].status = IF left < Amount(r) THEN "paid" ELSE "refunded"
  BY <1>1, <1>2, <1>3 DEF TypeOK, Row
<1>5. /\ RowHasOrder' /\ UnsettledIsBlank' /\ PageNeedsSession' /\ SawIsStable'
      /\ SumsAddUp' /\ VerdictMatchesCharge' /\ OneTransactionOneRow'
      /\ CallsBackUnknown' /\ BackIsExact'
  <2>1. /\ refund[i].at # "idle" /\ left # row[r].refunded
        /\ ~BodyLoss => refund[i].at # "done"
    BY <1>1, <1>2, <1>3 DEF CallsBackUnknown
  <2>2. QED
    BY <1>1, <1>3, <1>4, <2>1, DecisionFact
<1>6. MarkHasSetter' /\ PaidIsBacked'
  <2>1. row'[r].mode = "live" => HoldsMoney(row', r)
    BY <1>2, <1>3, <1>4 DEF HoldsMoney, Amount
  <2>2. QED
    BY <1>1, <1>2, <1>4, <2>1, MarksKept DEF HoldsMoney
<1>7. QED
  BY <1>5, <1>6

-----------------------------------------------------------------------------
(* The theorems. *)

LEMMA InvStep == IInv /\ [Next]_vars => IInv'
<1> SUFFICES ASSUME IInv, [Next]_vars PROVE IInv'
  OBVIOUS
<1>0. TypeOK'
  BY TypeStep DEF IInv
<1>1. ASSUME NEW o \in Orders, MarkPaid(o) \/ UnmarkPaid(o) \/ SetStatus(o) PROVE IInv'
  BY <1>0, <1>1, OwnerStep
<1>2. ASSUME NEW o \in Orders, NEW m \in Modes, StartSession(o, m) PROVE IInv'
  BY <1>0, <1>2, StartStep
<1>3. ASSUME NEW r \in Rows, SessionOpened(r) \/ SessionRefused(r) PROVE IInv'
  BY <1>0, <1>3, SessionStep
<1>4. ASSUME NEW r \in Rows, CallbackSettles(r) PROVE IInv'
  BY <1>0, <1>4, CallbackStep
<1>5. ASSUME NEW r \in Rows, AskProvider(r) PROVE IInv'
  BY <1>0, <1>5, AskStep
<1>6. ASSUME NEW r \in Rows, LockAges(r) PROVE IInv'
  BY <1>0, <1>6, LockAgesStep
<1>7. ASSUME NEW r \in Rows, CardDeclined(r) \/ \E s \in Sums, t \in Txns : ShopperPays(r, s, t)
      PROVE  IInv'
  BY <1>0, <1>7, PageStep
<1>8. ASSUME NEW q \in inquiry, InquiryPaid(q) PROVE IInv'
  BY <1>0, <1>8, InquiryPaidStep
<1>9. ASSUME NEW q \in inquiry, InquiryDeclined(q) \/ InquiryMoot(q) PROVE IInv'
  BY <1>0, <1>9, AnswerlessStep
<1>10. ASSUME NEW i \in Refunds, RefundNext(i) PROVE IInv'
  <2>1. ASSUME NEW r \in Rows, NEW want \in RefundSums, RefundStart(i, r, want) PROVE IInv'
    BY <1>0, <2>1, RefundStartStep
  <2>2. CASE RefundAccepted(i)
    BY <1>0, <2>2, RefundAcceptedStep
  <2>3. CASE RefundRefused(i)
    BY <1>0, <2>3, RefundRefusedStep
  <2>4. CASE RefundUnknown(i)
    BY <1>0, <2>4, RefundUnknownStep
  <2>5. CASE ResolveDone(i)
    BY <1>0, <2>5, ResolveDoneStep
  <2>6. CASE ResolveUndone(i)
    BY <1>0, <2>6, ResolveUndoneStep
  <2>7. CASE ProviderRefunds(i) \/ ProviderRefuses(i)
    BY <1>0, <2>7, ProviderStep
  <2>8. QED
    BY <1>10, <2>1, <2>2, <2>3, <2>4, <2>5, <2>6, <2>7 DEF RefundNext
<1>11. CASE Crash
  BY <1>0, <1>11, CrashStep
<1>12. CASE UNCHANGED vars
  BY <1>0, <1>12
  DEF vars, IInv, RowHasOrder, UnsettledIsBlank, PageNeedsSession, SawIsStable, SumsAddUp,
      CallsBackUnknown, BackIsExact, VerdictMatchesCharge, OneTransactionOneRow,
      MarkHasSetter, PaidIsBacked, Settled, Unpaid, Amount, RowsOf, HoldsMoney
<1>13. QED
  BY <1>1, <1>2, <1>3, <1>4, <1>5, <1>6, <1>7, <1>8, <1>9, <1>10, <1>11, <1>12 DEF Next

\* The strengthening holds for ever, lost answer bodies or not.
THEOREM Inductive == Spec => []IInv
  BY InvInit, InvStep, PTL DEF Spec

\* A row is booked for exactly the sum its page charged, whoever reported it
\* and however late (settle).
THEOREM Verdict == Spec => []VerdictMatchesCharge
<1>1. IInv => VerdictMatchesCharge
  BY DEF IInv
<1>2. QED
  BY <1>1, Inductive, PTL

\* One transaction never settles two rows of a mode (the UNIQUE index in settle).
THEOREM OneRow == Spec => []OneTransactionOneRow
<1>1. IInv => OneTransactionOneRow
  BY DEF IInv
<1>2. QED
  BY <1>1, Inductive, PTL

\* The gateway's paid mark is always backed (settle, clearPaidIfNothingLeft).
THEOREM Backed == Spec => []PaidIsBacked
<1>1. IInv => PaidIsBacked
  BY DEF IInv
<1>2. QED
  BY <1>1, Inductive, PTL

\* Behind an unknown sum there is one call, and a waiting call locks its row
\* (refund, resolveUnknownRefund).
THEOREM OneCall == Spec => []UnknownIsOneCall
<1>1. IInv => UnknownIsOneCall
  <2> SUFFICES ASSUME IInv PROVE UnknownIsOneCall
    OBVIOUS
  <2>1. ASSUME NEW r \in Rows, row[r].unknown > 0
        PROVE  \E i \in Refunds : /\ refund[i].row = r /\ refund[i].sum = row[r].unknown
                                  /\ \A j \in Refunds \ {i} : refund[j].row # r
    <3>1. PICK i \in Refunds : refund[i].at # "idle" /\ refund[i].row = r
      BY <2>1 DEF IInv, CallsBackUnknown
    <3>2. refund[i].sum = row[r].unknown /\ \A j \in Refunds \ {i} : refund[j].row # r
      BY <3>1, CallFact
    <3>3. QED
      BY <3>1, <3>2
  <2>2. \A i \in Refunds : refund[i].waiting => row[refund[i].row].locked
    BY DEF IInv, CallsBackUnknown
  <2>3. QED
    BY <2>1, <2>2 DEF UnknownIsOneCall
<1>2. QED
  BY <1>1, Inductive, PTL

\* While every answer arrives whole, the books bracket what the provider did.
THEOREM Bracket == ASSUME ~BodyLoss PROVE Spec => []BooksBracketTruth
<1>1. IInv => BooksBracketTruth
  <2> SUFFICES ASSUME IInv, NEW r \in Rows
               PROVE  /\ row[r].refunded - row[r].unknown <= gaveBack[r]
                      /\ gaveBack[r] <= row[r].refunded
    BY DEF BooksBracketTruth
  <2>1. row[r].refunded \in Nat /\ row[r].unknown \in Nat
    BY DEF IInv, TypeOK, Row
  <2>2. gaveBack[r] = row[r].refunded \/ gaveBack[r] = row[r].refunded - row[r].unknown
    BY DEF IInv, BackIsExact
  <2>3. QED
    BY <2>1, <2>2
<1>2. QED
  BY <1>1, Inductive, PTL

\* ... and no page is ever given back more than it charged.
THEOREM NoOverRefund == ASSUME ~BodyLoss PROVE Spec => []NeverOverRefunded
<1>1. IInv => NeverOverRefunded
  <2> SUFFICES ASSUME IInv, NEW r \in Rows PROVE gaveBack[r] <= page[r].sum
    BY DEF NeverOverRefunded
  <2>1. /\ row[r].refunded \in Nat /\ row[r].unknown \in Nat
        /\ gaveBack[r] \in Nat /\ page[r].sum \in Nat
    BY DEF IInv, TypeOK, Row, Page
  <2>2. gaveBack[r] <= row[r].refunded
    BY <2>1 DEF IInv, BackIsExact
  <2>3. CASE Settled(r)
    <3>1. page[r].sum = Amount(r)
      BY <2>3 DEF IInv, VerdictMatchesCharge, Settled
    <3>2. row[r].refunded <= Amount(r)
      BY <2>3 DEF IInv, SumsAddUp
    <3>3. QED
      BY <2>1, <2>2, <3>1, <3>2
  <2>4. CASE ~Settled(r)
    BY <2>1, <2>2, <2>4 DEF IInv, UnsettledIsBlank
  <2>5. QED
    BY <2>3, <2>4
<1>2. QED
  BY <1>1, Inductive, PTL

\* What a step may do to a row that is already decided.
Final(r) ==
  row[r].status \in {"paid", "refunded", "mismatch"} =>
    /\ row'[r].txn = row[r].txn /\ row'[r].setPaid = row[r].setPaid
    /\ \/ row'[r].status = row[r].status
       \/ {row[r].status, row'[r].status} = {"paid", "refunded"}

\* Steps that leave the decided rows as they are, and the refund steps that move
\* their sums: the status goes between paid and refunded, nothing else.
LEMMA FinalStep == IInv /\ [Next]_vars => \A r \in Rows : Final(r)
<1> SUFFICES ASSUME IInv, [Next]_vars, NEW r \in Rows PROVE Final(r)
  OBVIOUS
<1>0. row \in [Rows -> Row] /\ row[r] \in Row
  BY DEF IInv, TypeOK
<1>1. CASE UNCHANGED row
  BY <1>1 DEF Final
<1>2. ASSUME NEW o \in Orders, NEW m \in Modes, StartSession(o, m) PROVE Final(r)
  BY <1>0, <1>2 DEF StartSession, Final
<1>3. ASSUME NEW s \in Rows, SessionOpened(s) \/ SessionRefused(s) PROVE Final(r)
  <2>1. row[s].status = "pending"
    BY <1>3 DEF IInv, PageNeedsSession, SessionOpened, SessionRefused
  <2>2. r # s => row'[r] = row[r]
    BY <1>0, <1>3 DEF SessionOpened, SessionRefused
  <2>3. QED
    BY <2>1, <2>2 DEF Final
<1>4. ASSUME NEW s \in Rows, NEW p, Settle(s, p) PROVE Final(r)
  <2>1. CASE r = s /\ ~Unpaid(s)
    BY <1>4, <2>1 DEF Settle, Final
  <2>2. CASE r = s /\ Unpaid(s)
    BY <2>2 DEF Unpaid, Final
  <2>3. CASE r # s
    BY <1>0, <1>4, <2>3 DEF Settle, Final
  <2>4. QED
    BY <2>1, <2>2, <2>3
<1>5. ASSUME NEW s \in Rows, AskProvider(s) \/ LockAges(s) PROVE Final(r)
  <2>1. CASE AskProvider(s)
    BY <1>0, <2>1 DEF AskProvider, Final, Row
  <2>2. CASE LockAges(s)
    BY <1>0, <2>2 DEF LockAges, Final, Row
  <2>3. QED
    BY <1>5, <2>1, <2>2
<1>6. ASSUME NEW q \in inquiry, InquiryDeclined(q) PROVE Final(r)
  BY <1>0, <1>6 DEF InquiryDeclined, Final
<1>7. ASSUME NEW i \in Refunds, RefundNext(i) PROVE Final(r)
  <2> DEFINE s == refund[i].row
  <2>0. refund[i].at # "idle" => s \in Rows /\ Settled(s)
    BY CallFact
  <2>1. ASSUME NEW t \in Rows, NEW want \in RefundSums, RefundStart(i, t, want)
        PROVE  Final(r)
    BY <1>0, <2>1 DEF RefundStart, Settled, Final, Row
  <2>2. CASE RefundAccepted(i)
    BY <1>0, <2>0, <2>2 DEF RefundAccepted, Settled, Final, Row
  <2>3. CASE RefundRefused(i)
    <3>1. refund[i].at # "idle" /\ refund[i].waiting
      BY <2>3 DEF RefundRefused
    <3>2. CASE r # s
      BY <1>0, <2>3, <3>2 DEF RefundRefused, Final
    <3>3. CASE r = s
      <4>1. /\ row'[r].txn = row[r].txn /\ row'[r].setPaid = row[r].setPaid
            /\ row'[r].status \in {"paid", "refunded"}
        BY <1>0, <2>3, <3>3 DEF RefundRefused, Row
      <4>2. row[r].status \in {"paid", "refunded"}
        BY <2>0, <3>1, <3>3 DEF Settled
      <4>3. QED
        BY <4>1, <4>2 DEF Final
    <3>4. QED
      BY <3>2, <3>3
  <2>4. CASE RefundUnknown(i)
    <3>1. row' = [row EXCEPT ![s].locked = FALSE]
      BY <2>4 DEF RefundUnknown
    <3>2. QED
      BY <1>0, <3>1 DEF Final, Row
  <2>5. CASE ResolveDone(i)
    BY <1>0, <2>5 DEF ResolveDone, Final, Row
  <2>6. CASE ResolveUndone(i)
    <3>1. refund[i].at # "idle"
      BY <2>6 DEF ResolveUndone
    <3>2. CASE r # s
      BY <1>0, <2>6, <3>2 DEF ResolveUndone, Final
    <3>3. CASE r = s
      <4>1. /\ row'[r].txn = row[r].txn /\ row'[r].setPaid = row[r].setPaid
            /\ row'[r].status = "paid" \/ row'[r].status = row[r].status
        BY <1>0, <2>6, <3>3 DEF ResolveUndone, Row
      <4>2. row[r].status \in {"paid", "refunded"}
        BY <2>0, <3>1, <3>3 DEF Settled
      <4>3. QED
        BY <4>1, <4>2 DEF Final
    <3>4. QED
      BY <3>2, <3>3
  <2>7. CASE UNCHANGED row
    BY <2>7 DEF Final
  <2>8. QED
    BY <1>7, <2>1, <2>2, <2>3, <2>4, <2>5, <2>6, <2>7 DEF RefundNext, ProviderRefunds, ProviderRefuses
<1>8. ASSUME NEW s \in Rows, CallbackSettles(s) PROVE Final(r)
  BY <1>4, <1>8 DEF CallbackSettles
<1>9. ASSUME NEW q \in inquiry, InquiryPaid(q) PROVE Final(r)
  BY <1>4, <1>9 DEF InquiryPaid, IInv, TypeOK, Inquiry
<1>10. ASSUME NEW o \in Orders, MarkPaid(o) \/ UnmarkPaid(o) \/ SetStatus(o)
       PROVE  UNCHANGED row
  BY <1>10 DEF MarkPaid, UnmarkPaid, SetStatus
<1>11. ASSUME NEW s \in Rows,
              CardDeclined(s) \/ \E x \in Sums, t \in Txns : ShopperPays(s, x, t)
       PROVE  UNCHANGED row
  BY <1>11 DEF CardDeclined, ShopperPays
<1>12. ASSUME NEW q \in inquiry, InquiryMoot(q) PROVE UNCHANGED row
  BY <1>12 DEF InquiryMoot
<1>13. Crash \/ UNCHANGED vars => UNCHANGED row
  BY DEF Crash, vars
<1>14. QED
  BY <1>1, <1>2, <1>3, <1>5, <1>6, <1>7, <1>8, <1>9, <1>10, <1>11, <1>12, <1>13 DEF Next

\* A decided row never moves again, but for the sums of its refunds (settle, refund).
THEOREM Finality == Spec => SettledIsFinal
<1>1. IInv /\ [Next]_vars =>
        [\A r \in Rows : row[r].status \in {"paid", "refunded", "mismatch"} =>
           /\ row'[r].txn = row[r].txn /\ row'[r].setPaid = row[r].setPaid
           /\ \/ row'[r].status = row[r].status
              \/ {row[r].status, row'[r].status} = {"paid", "refunded"}]_vars
  BY FinalStep DEF Final
<1>2. QED
  BY <1>1, Inductive, PTL DEF Spec, SettledIsFinal

-----------------------------------------------------------------------------
(* Gateway.tla implements RefundLedger.tla, for every value of the constants, *)
(* as long as every answer of the provider arrives whole.                     *)


\* The fate of a row's money is that of its one call, if it has one.
FateIsOfCall ==
  \A r \in Rows :
    /\ (\A i \in Refunds : refund[i].row # r) => Fate[r] = "idle"
    /\ \A i \in Refunds : refund[i].row = r => Fate[r] = refund[i].at

LEMMA FateFact == IInv => FateIsOfCall
<1> SUFFICES ASSUME IInv, NEW r \in Rows
             PROVE  /\ (\A i \in Refunds : refund[i].row # r) => Fate[r] = "idle"
                    /\ \A i \in Refunds : refund[i].row = r => Fate[r] = refund[i].at
  BY DEF FateIsOfCall
<1>1. ASSUME \A i \in Refunds : refund[i].row # r PROVE Fate[r] = "idle"
  BY <1>1 DEF Fate, CallsOf
<1>2. ASSUME NEW i \in Refunds, refund[i].row = r PROVE Fate[r] = refund[i].at
  <2>1. refund[i].at # "idle"
    BY <1>2 DEF IInv, CallsBackUnknown, Rows
  <2>2. CallsOf(r) = {i}
    BY <1>2, <2>1, CallFact DEF CallsOf
  <2>3. QED
    BY <1>2, <2>2 DEF Fate
<1>3. QED
  BY <1>1, <1>2

LEMMA FateNext ==
  IInv' => \A r \in Rows :
             /\ (\A i \in Refunds : refund'[i].row # r) => Fate'[r] = "idle"
             /\ \A i \in Refunds : refund'[i].row = r => Fate'[r] = refund'[i].at
<1>1. IInv' => FateIsOfCall'
  BY FateFact, PTL
<1>2. QED
  BY <1>1 DEF FateIsOfCall

LEMMA LedgerInit == Init => Ledger!Init
<1> SUFFICES ASSUME Init PROVE Ledger!Init
  OBVIOUS
<1>1. \A r \in Rows : Held[r] = 0 /\ Doubt[r] = 0
  BY DEF Init, NoRow, Held, Doubt, Settled
<1>2. \A r \in Rows : Fate[r] = "idle"
  BY DEF Init, NoRefund, Fate, CallsOf, Rows
<1>3. /\ Held = [r \in Rows |-> 0] /\ Doubt = [r \in Rows |-> 0]
      /\ Fate = [r \in Rows |-> "idle"]
  BY <1>1, <1>2 DEF Held, Doubt, Fate
<1>4. QED
  BY <1>3 DEF Ledger!Init, Init

\* Steps that move none of the sums and no call are steps of nothing in the ledger.
LEMMA Quiet ==
  ASSUME IInv, IInv', UNCHANGED gaveBack,
         \A i \in Refunds : refund'[i].row = refund[i].row /\ refund'[i].at = refund[i].at,
         \A r \in Rows :
           /\ row'[r].refunded = row[r].refunded /\ row'[r].unknown = row[r].unknown
           /\ Settled(r)' <=> Settled(r)
           /\ Settled(r) => row'[r].order = row[r].order
  PROVE  UNCHANGED <<Held, Doubt, Fate, gaveBack>>
<1>1. \A r \in Rows : Held'[r] = Held[r] /\ Doubt'[r] = Doubt[r]
  BY DEF Held, Doubt, Amount
<1>2. \A r \in Rows : Fate'[r] = Fate[r]
  BY FateFact, FateNext DEF FateIsOfCall
<1>3. QED
  BY <1>1, <1>2 DEF Held, Doubt, Fate

\* A charge of the right sum is booked on a blank row; another one is not booked.
LEMMA SettleBooks ==
  ASSUME ~BodyLoss, IInv, IInv', NEW r \in Rows, NEW p, Settle(r, p),
         UNCHANGED <<refund, gaveBack>>
  PROVE  [Ledger!Next]_(<<Held, Doubt, Fate, gaveBack>>)
<1> DEFINE o == row[r].order
<1>1. CASE UNCHANGED row
  BY <1>1, Quiet DEF Settled
<1>2. CASE ~UNCHANGED row
  <2>1. /\ Unpaid(r)
        /\ row' = [row EXCEPT ![r] = [row[r] EXCEPT
                     !.status = IF Matches(r, p) THEN "paid" ELSE "mismatch",
                     !.txn = p.txn, !.setPaid = Marks(r, p)]]
    BY <1>2 DEF Settle
  <2>2. /\ row[r] \in Row /\ row \in [Rows -> Row]
        /\ ~Settled(r) /\ row[r].refunded = 0 /\ row[r].unknown = 0
    BY <2>1 DEF IInv, TypeOK, UnsettledIsBlank, Unpaid, Settled
  <2>3. /\ \A s \in Rows \ {r} : row'[s] = row[s]
        /\ row'[r].status = IF Matches(r, p) THEN "paid" ELSE "mismatch"
        /\ row'[r].order = o /\ row'[r].refunded = 0 /\ row'[r].unknown = 0
    BY <2>1, <2>2 DEF Row
  <2>4. CASE ~Matches(r, p)
    BY <2>2, <2>3, <2>4, Quiet DEF Settled
  <2>5. CASE Matches(r, p)
    <3>1. /\ o \in Orders /\ Amount(r) \in RefundSums /\ Amount(r) \in Nat
      BY <2>1, GatewayAssumption DEF IInv, RowHasOrder, Unpaid, Amount, RefundSums
    <3>2. \A i \in Refunds : refund[i].row # r
      BY <2>2, CallFact DEF IInv, CallsBackUnknown, Rows
    <3>3. Held[r] = 0 /\ Doubt[r] = 0 /\ gaveBack[r] = 0
      BY <2>2, <3>2 DEF Held, Doubt, IInv, BackIsExact
    <3>4. \A s \in Rows : /\ Held'[s] = IF s = r THEN Amount(r) ELSE Held[s]
                          /\ Doubt'[s] = Doubt[s] /\ Fate'[s] = Fate[s]
      BY <2>2, <2>3, <2>5, <3>1, FateFact, FateNext
      DEF Held, Doubt, Settled, Amount, FateIsOfCall
    <3>5. /\ Held' = [Held EXCEPT ![r] = Amount(r)]
          /\ Doubt' = Doubt /\ Fate' = Fate
      BY <3>4 DEF Held, Doubt, Fate
    <3>6. Ledger!Book(r, Amount(r))
      BY <3>3, <3>5 DEF Ledger!Book
    <3>7. QED
      BY <3>1, <3>6 DEF Ledger!Next
  <2>6. QED
    BY <2>4, <2>5
<1>3. QED
  BY <1>1, <1>2

\* The reservation sends the sum.
LEMMA StartSends ==
  ASSUME IInv, IInv', NEW i \in Refunds, NEW r \in Rows, NEW want \in RefundSums,
         RefundStart(i, r, want)
  PROVE  Ledger!Next
<1>1. /\ refund[i].at = "idle" /\ Settled(r) /\ row[r].unknown = 0
      /\ row[r].refunded + want <= Amount(r) /\ UNCHANGED gaveBack
  BY DEF RefundStart
<1>2. /\ row[r] \in Row /\ row \in [Rows -> Row] /\ want \in Nat /\ Amount(r) \in Nat
      /\ row[r].refunded \in Nat
  BY <1>1, SumFact, GatewayAssumption DEF IInv, TypeOK, Amount, RowHasOrder, Settled, Row
<1>3. /\ \A s \in Rows \ {r} : row'[s] = row[s]
      /\ \A j \in Refunds \ {i} : refund'[j] = refund[j]
      /\ refund'[i].row = r /\ refund'[i].at = "sent"
  BY DEF RefundStart, IInv, TypeOK
<1>4. /\ row'[r].order = row[r].order /\ row'[r].refunded = row[r].refunded + want
      /\ row'[r].unknown = want /\ row'[r].status \in {"paid", "refunded"}
  BY <1>1, <1>2 DEF RefundStart, Settled, Row
<1>5. \A j \in Refunds : refund[j].row # r
  BY <1>1, CallFact DEF IInv, CallsBackUnknown, Rows
<1>6. Held[r] = Amount(r) - row[r].refunded /\ Doubt[r] = 0 /\ Fate[r] = "idle"
  BY <1>1, <1>5, FateFact DEF Held, Doubt, FateIsOfCall
<1>7. \A s \in Rows : /\ Held'[s]  = IF s = r THEN Held[r] - want ELSE Held[s]
                      /\ Doubt'[s] = IF s = r THEN want ELSE Doubt[s]
  BY <1>1, <1>2, <1>3, <1>4, <1>6 DEF Held, Doubt, Settled, Amount
<1>8. \A s \in Rows : Fate'[s] = IF s = r THEN "sent" ELSE Fate[s]
  <2>1. refund[i].row = 0
    BY <1>1 DEF IInv, CallsBackUnknown
  <2>2. QED
    BY <1>3, <2>1, FateFact, FateNext DEF FateIsOfCall, Rows
<1>9. /\ Held' = [Held EXCEPT ![r] = Held[r] - want]
      /\ Doubt' = [Doubt EXCEPT ![r] = want]
      /\ Fate' = [Fate EXCEPT ![r] = "sent"]
  BY <1>7, <1>8 DEF Held, Doubt, Fate
<1>10. Ledger!Send(r, want)
  BY <1>1, <1>2, <1>6, <1>9 DEF Ledger!Send
<1>11. QED
  BY <1>10 DEF Ledger!Next

\* A decision in the books follows what the provider did.
LEMMA DecisionFollows ==
  ASSUME IInv, IInv', NEW i \in Refunds, refund[i].at \in {"done", "refused"},
         refund' = [refund EXCEPT ![i] = NoRefund], UNCHANGED gaveBack,
         LET r == refund[i].row IN
         /\ \A s \in Rows \ {r} : row'[s] = row[s]
         /\ row'[r].order = row[r].order /\ row'[r].unknown = 0
         /\ row'[r].status \in {"paid", "refunded"}
         /\ row'[r].refunded = IF refund[i].at = "done" THEN row[r].refunded
                               ELSE row[r].refunded - row[r].unknown
  PROVE  Ledger!Next
<1> DEFINE r == refund[i].row
<1>1. /\ r \in Rows /\ Settled(r) /\ Amount(r) \in Nat /\ row[r] \in Row
      /\ \A j \in Refunds \ {i} : refund[j].row # r
  BY CallFact
<1>2. row[r].refunded \in Nat /\ row[r].unknown \in Nat
  BY <1>1 DEF Row
<1>3. /\ \A j \in Refunds \ {i} : refund'[j] = refund[j]
      /\ refund'[i].row = 0
  BY DEF IInv, TypeOK, NoRefund
<1>4. Fate[r] = refund[i].at
  BY <1>1, FateFact DEF FateIsOfCall
<1>5. \A s \in Rows : Fate'[s] = IF s = r THEN "idle" ELSE Fate[s]
  <2>1. Fate'[r] = "idle"
    BY <1>1, <1>3, FateNext DEF Rows
  <2>2. ASSUME NEW s \in Rows \ {r} PROVE Fate'[s] = Fate[s]
    BY <1>1, <1>3, FateFact, FateNext DEF FateIsOfCall, Rows
  <2>3. QED
    BY <2>1, <2>2
<1>6. \A s \in Rows : Doubt'[s] = IF s = r THEN 0 ELSE Doubt[s]
  BY DEF Doubt
<1>7. /\ Fate' = [Fate EXCEPT ![r] = "idle"] /\ Doubt' = [Doubt EXCEPT ![r] = 0]
  <2>1. Fate' = [Fate EXCEPT ![r] = "idle"]
    <3>1. Fate' = [s \in Rows |-> Fate'[s]] /\ Fate = [s \in Rows |-> Fate[s]]
      BY DEF Fate
    <3>2. QED
      BY <1>5, <3>1
  <2>2. Doubt' = [Doubt EXCEPT ![r] = 0]
    BY <1>6 DEF Doubt
  <2>3. QED
    BY <2>1, <2>2
<1>8. CASE refund[i].at = "done"
  <2>1. \A s \in Rows : Held'[s] = Held[s]
    BY <1>1, <1>8 DEF Held, Settled, Amount
  <2>2. Held' = Held
    BY <2>1 DEF Held
  <2>3. Ledger!WriteOff(r)
    BY <1>4, <1>7, <1>8, <2>2 DEF Ledger!WriteOff
  <2>4. QED
    BY <1>1, <2>3 DEF Ledger!Next
<1>9. CASE refund[i].at = "refused"
  <2>1. \A s \in Rows : Held'[s] = IF s = r THEN Held[r] + Doubt[r] ELSE Held[s]
    BY <1>1, <1>2, <1>9 DEF Held, Doubt, Settled, Amount
  <2>2. Held' = [Held EXCEPT ![r] = Held[r] + Doubt[r]]
    BY <2>1 DEF Held
  <2>3. Ledger!Restore(r)
    BY <1>4, <1>7, <1>9, <2>2 DEF Ledger!Restore
  <2>4. QED
    BY <1>1, <2>3 DEF Ledger!Next
<1>10. QED
  BY <1>8, <1>9

\* The provider's own step.
LEMMA ProviderGives ==
  ASSUME IInv, IInv', NEW i \in Refunds, ProviderRefunds(i) \/ ProviderRefuses(i)
  PROVE  Ledger!Next
<1> DEFINE r == refund[i].row
<1>1. refund[i].at = "sent" /\ UNCHANGED row
  BY DEF ProviderRefunds, ProviderRefuses
<1>2. /\ r \in Rows /\ refund[i].sum = row[r].unknown /\ refund[i] \in Refund
      /\ \A j \in Refunds \ {i} : refund[j].row # r
  BY <1>1, CallFact DEF IInv, TypeOK
<1>3. Fate[r] = "sent" /\ Doubt[r] = refund[i].sum
  BY <1>1, <1>2, FateFact DEF FateIsOfCall, Doubt
<1>4. Held' = Held /\ Doubt' = Doubt
  BY <1>1 DEF Held, Doubt, Settled, Amount
<1>5. ASSUME NEW a, refund' = [refund EXCEPT ![i].at = a]
      PROVE  Fate' = [Fate EXCEPT ![r] = a]
  <2>1. /\ \A j \in Refunds \ {i} : refund'[j] = refund[j]
        /\ refund'[i].row = r /\ refund'[i].at = a
    BY <1>2, <1>5 DEF IInv, TypeOK, Refund
  <2>2. \A s \in Rows : Fate'[s] = IF s = r THEN a ELSE Fate[s]
    BY <1>2, <2>1, FateFact, FateNext DEF FateIsOfCall
  <2>3. QED
    BY <2>2 DEF Fate
<1>6. CASE ProviderRefunds(i)
  <2>1. Ledger!Give(r)
    BY <1>3, <1>4, <1>5, <1>6 DEF ProviderRefunds, Ledger!Give
  <2>2. QED
    BY <1>2, <2>1 DEF Ledger!Next
<1>7. CASE ProviderRefuses(i)
  <2>1. Ledger!Refuse(r)
    BY <1>3, <1>4, <1>5, <1>7 DEF ProviderRefuses, Ledger!Refuse
  <2>2. QED
    BY <1>2, <2>1 DEF Ledger!Next
<1>8. QED
  BY <1>6, <1>7

LEMMA LedgerStep ==
  ASSUME ~BodyLoss, IInv, IInv', [Next]_vars
  PROVE  [Ledger!Next]_(<<Held, Doubt, Fate, gaveBack>>)
<1> DEFINE L == [Ledger!Next]_(<<Held, Doubt, Fate, gaveBack>>)
<1>0. row \in [Rows -> Row] /\ \A r \in Rows : row[r] \in Row
  BY DEF IInv, TypeOK
<1>1. ASSUME UNCHANGED <<row, refund, gaveBack>> PROVE L
  BY <1>1, Quiet DEF Settled
<1>2. ASSUME NEW o \in Orders, MarkPaid(o) \/ UnmarkPaid(o) \/ SetStatus(o) PROVE L
  BY <1>1, <1>2 DEF MarkPaid, UnmarkPaid, SetStatus
<1>3. ASSUME NEW o \in Orders, NEW m \in Modes, StartSession(o, m) PROVE L
  <2>1. PICK r \in Rows :
          /\ row[r].status = "none"
          /\ row' = [row EXCEPT ![r] = [NoRow EXCEPT !.order = o, !.mode = m,
                                                     !.status = "pending"]]
    BY <1>3 DEF StartSession
  <2>2. /\ row'[r].status = "pending" /\ row'[r].refunded = 0 /\ row'[r].unknown = 0
        /\ \A s \in Rows \ {r} : row'[s] = row[s]
    BY <1>0, <2>1 DEF NoRow
  <2>3. ~Settled(r) /\ row[r].refunded = 0 /\ row[r].unknown = 0
    BY <2>1 DEF Settled, IInv, UnsettledIsBlank
  <2>4. UNCHANGED <<refund, gaveBack>>
    BY <1>3 DEF StartSession
  <2>5. QED
    BY <2>2, <2>3, <2>4, Quiet DEF Settled
<1>4. ASSUME NEW r \in Rows, SessionOpened(r) \/ SessionRefused(r) PROVE L
  <2>1. row[r].status = "pending" /\ UNCHANGED <<refund, gaveBack>>
    BY <1>4 DEF IInv, PageNeedsSession, SessionOpened, SessionRefused
  <2>2. /\ \A s \in Rows \ {r} : row'[s] = row[s]
        /\ row'[r].status \in {"pending", "failed"}
        /\ row'[r].refunded = row[r].refunded /\ row'[r].unknown = row[r].unknown
    <3>1. CASE SessionOpened(r)
      BY <1>0, <2>1, <3>1 DEF SessionOpened, Row
    <3>2. CASE SessionRefused(r)
      BY <1>0, <3>2 DEF SessionRefused, Row
    <3>3. QED
      BY <1>4, <3>1, <3>2
  <2>3. QED
    BY <2>1, <2>2, Quiet DEF Settled
<1>5. ASSUME NEW r \in Rows, CallbackSettles(r) PROVE L
  BY <1>5, SettleBooks DEF CallbackSettles
<1>6. ASSUME NEW q \in inquiry, InquiryPaid(q) PROVE L
  BY <1>6, SettleBooks DEF InquiryPaid, IInv, TypeOK, Inquiry
<1>7. ASSUME NEW r \in Rows, AskProvider(r) \/ LockAges(r) PROVE L
  <2>1. CASE AskProvider(r)
    BY <1>0, <2>1, Quiet DEF AskProvider, Settled, Row
  <2>2. CASE LockAges(r)
    BY <1>0, <2>2, Quiet DEF LockAges, Settled, Row
  <2>3. QED
    BY <1>7, <2>1, <2>2
<1>8. ASSUME NEW r \in Rows,
             CardDeclined(r) \/ \E s \in Sums, t \in Txns : ShopperPays(r, s, t) PROVE L
  BY <1>1, <1>8 DEF CardDeclined, ShopperPays
<1>9. ASSUME NEW q \in inquiry, InquiryDeclined(q) \/ InquiryMoot(q) PROVE L
  <2>1. UNCHANGED <<refund, gaveBack>>
    BY <1>9 DEF InquiryDeclined, InquiryMoot
  <2>2. \/ row' = row
        \/ row[q.row].status = "pending" /\ row' = [row EXCEPT ![q.row].status = "failed"]
    BY <1>9 DEF InquiryDeclined, InquiryMoot
  <2>3. q.row \in Rows
    BY DEF IInv, TypeOK, Inquiry
  <2>4. QED
    BY <1>0, <2>1, <2>2, <2>3, Quiet DEF Settled, Row
<1>10. ASSUME NEW i \in Refunds, RefundNext(i) PROVE L
  <2> DEFINE r == refund[i].row
  <2>1. ASSUME NEW s \in Rows, NEW want \in RefundSums, RefundStart(i, s, want) PROVE L
    BY <2>1, StartSends
  <2>2. refund[i].at # "idle" =>
          /\ r \in Rows /\ Settled(r) /\ row[r] \in Row
          /\ refund[i].sum = row[r].unknown /\ row[r].unknown <= row[r].refunded
          /\ row[r].refunded \in Nat /\ row[r].unknown \in Nat
    BY CallFact DEF Row
  <2>3. CASE RefundAccepted(i)
    <3>1. Less(row[r].unknown, refund[i].sum) = 0
      BY <2>2, <2>3, LessFact DEF RefundAccepted
    <3>2. QED
      BY <1>0, <2>2, <2>3, <3>1, DecisionFollows DEF RefundAccepted, Settled, Row
  <2>4. CASE RefundRefused(i)
    <3>1. /\ Less(row[r].unknown, refund[i].sum) = 0
          /\ Less(row[r].refunded, refund[i].sum) = row[r].refunded - row[r].unknown
      BY <2>2, <2>4, LessFact DEF RefundRefused
    <3>2. QED
      BY <1>0, <2>2, <2>4, <3>1, DecisionFollows DEF RefundRefused, Row
  <2>5. CASE RefundUnknown(i)
    <3>1. refund[i] \in Refund /\ refund \in [Refunds -> Refund]
      BY DEF IInv, TypeOK
    <3>2. /\ row' = [row EXCEPT ![r].locked = FALSE] /\ UNCHANGED gaveBack
          /\ refund' = [refund EXCEPT ![i].waiting = FALSE]
      BY <2>5 DEF RefundUnknown
    <3>3. \A j \in Refunds : refund'[j].row = refund[j].row /\ refund'[j].at = refund[j].at
      BY <3>1, <3>2 DEF Refund
    <3>4. QED
      BY <1>0, <3>2, <3>3, Quiet DEF Settled, Row
  <2>6. CASE ResolveDone(i)
    BY <1>0, <2>2, <2>6, DecisionFollows DEF ResolveDone, Settled, Row
  <2>7. CASE ResolveUndone(i)
    <3>1. Less(row[r].refunded, row[r].unknown) = row[r].refunded - row[r].unknown
      BY <2>2, <2>7, LessFact DEF ResolveUndone
    <3>2. QED
      BY <1>0, <2>2, <2>7, <3>1, DecisionFollows DEF ResolveUndone, Settled, Row
  <2>8. CASE ProviderRefunds(i) \/ ProviderRefuses(i)
    BY <2>8, ProviderGives
  <2>9. QED
    BY <1>10, <2>1, <2>3, <2>4, <2>5, <2>6, <2>7, <2>8 DEF RefundNext
<1>11. CASE Crash
  <2>1. UNCHANGED <<row, gaveBack>>
    BY <1>11 DEF Crash
  <2>2. \A j \in Refunds : refund'[j].row = refund[j].row /\ refund'[j].at = refund[j].at
    BY <1>11 DEF Crash, IInv, TypeOK, Refund
  <2>3. QED
    BY <2>1, <2>2, Quiet DEF Settled
<1>12. CASE UNCHANGED vars
  BY <1>1, <1>12 DEF vars
<1>13. QED
  BY <1>2, <1>3, <1>4, <1>5, <1>6, <1>7, <1>8, <1>9, <1>10, <1>11, <1>12 DEF Next

\* The gateway keeps the ledger's promise while every answer arrives whole: what is
\* booked once is held, in doubt or given back, and never sent twice.
THEOREM ImplementsLedger == ASSUME ~BodyLoss PROVE Spec => LedgerSpec
<1>1. IInv /\ IInv' /\ [Next]_vars => [Ledger!Next]_(Ledger!lvars)
  BY LedgerStep DEF Ledger!lvars
<1>2. QED
  BY <1>1, LedgerInit, Inductive, PTL DEF Spec, LedgerSpec, Ledger!Spec
=============================================================================

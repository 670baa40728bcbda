---------------------------- MODULE GatewayInv ----------------------------
(***************************************************************************)
(* The inductive invariant of Gateway.tla, in named parts.  The checked    *)
(* properties are not inductive by themselves: that the books bracket the  *)
(* truth depends on which refund call stands behind an unknown sum and     *)
(* what became of it at the provider, that a mark is backed depends on the *)
(* row that set it, and a late answer is harmless because a charge, once   *)
(* seen, never changes.                                                    *)
(***************************************************************************)
EXTENDS Gateway

\* A row belongs to an order from its first moment.
RowHasOrder == \A r \in Rows : row[r].status # "none" => row[r].order \in Orders

\* Nothing but a settled row carries money, a lock, a mark or a transaction.
UnsettledIsBlank ==
  \A r \in Rows :
    /\ ~Settled(r) => /\ row[r].refunded = 0 /\ row[r].unknown = 0
                      /\ ~row[r].locked /\ ~row[r].setPaid
    /\ ~(Settled(r) \/ row[r].status = "mismatch") => row[r].txn = NoTxn
    /\ row[r].status = "none" => ~row[r].session /\ row[r].order = NoOrder

\* A page exists at the provider for the shopper only once its session is ours.
PageNeedsSession ==
  /\ \A r \in Rows : ~row[r].session => Unpaid(r) \/ row[r].status = "none"
  /\ \A r \in Rows : ~row[r].session => page[r].state = "open"
  /\ \A r \in opening : row[r].status = "pending" /\ ~row[r].session

\* What an inquiry saw of a charge is what the charge still is.
SawIsStable ==
  \A q \in inquiry :
    /\ row[q.row].session
    /\ q.saw.state = "charged" => page[q.row] = q.saw

\* The sums of a settled row add up, and its status says whether any is left.
SumsAddUp ==
  \A r \in Rows : Settled(r) =>
    /\ row[r].unknown <= row[r].refunded /\ row[r].refunded <= Amount(r)
    /\ (row[r].status = "refunded") <=> (row[r].refunded = Amount(r))
    /\ row[r].locked => row[r].unknown > 0
    /\ row[r].setPaid => row[r].mode = "live"

\* A refund call that is not idle stands behind the unknown sum of its row, alone.
CallsBackUnknown ==
  /\ \A i \in Refunds : refund[i].at # "idle" =>
       /\ refund[i].row \in Rows /\ Settled(refund[i].row)
       /\ refund[i].sum > 0 /\ refund[i].sum = row[refund[i].row].unknown
       /\ refund[i].waiting => row[refund[i].row].locked
  /\ \A i \in Refunds : refund[i].at = "idle" => refund[i].row = 0 /\ ~refund[i].waiting
  /\ \A i, j \in Refunds :
       i # j /\ refund[i].at # "idle" /\ refund[j].at # "idle" => refund[i].row # refund[j].row
  /\ \A r \in Rows : row[r].unknown > 0 =>
       \E i \in Refunds : refund[i].at # "idle" /\ refund[i].row = r

\* What went back is exactly what the books wrote off, and the unknown sum
\* with it when the provider did carry the refund out.
BackIsExact ==
  ~BodyLoss =>
    \A r \in Rows :
      gaveBack[r] = IF \E i \in Refunds : refund[i].at = "done" /\ refund[i].row = r
                    THEN row[r].refunded
                    ELSE row[r].refunded - row[r].unknown

\* A mark that is not the owner's was set by a row of the order.
MarkHasSetter ==
  \A o \in Orders : order[o].paid /\ ~order[o].byHand =>
    \E r \in Rows : row[r].order = o /\ row[r].setPaid

IInv ==
  /\ TypeOK /\ RowHasOrder /\ UnsettledIsBlank /\ PageNeedsSession /\ SawIsStable
  /\ SumsAddUp /\ CallsBackUnknown /\ BackIsExact
  /\ VerdictMatchesCharge /\ OneTransactionOneRow
  /\ MarkHasSetter /\ PaidIsBacked
=============================================================================

---------------------------- MODULE RefundLedger ----------------------------
(***************************************************************************)
(* What a payment row promises about its money, whatever the gateway, the  *)
(* network, the provider and the owner do: a charge booked on a row is at  *)
(* every moment either still held, at the provider with an unknown fate,   *)
(* or given back; and a sum leaves for the provider only while nothing of  *)
(* that row is there already.  Gateway.tla is shown to implement this.     *)
(***************************************************************************)
EXTENDS Integers

CONSTANTS Rows, Amounts  \* the rows, and the positive sums they may hold

VARIABLES
  held,   \* what the books still hold on the row
  doubt,  \* the sum sent to the provider, not decided in the books
  fate,   \* what the provider did with that sum
  back    \* what the provider gave back on the row

lvars == <<held, doubt, fate, back>>

Init ==
  /\ held  = [r \in Rows |-> 0]
  /\ doubt = [r \in Rows |-> 0]
  /\ fate  = [r \in Rows |-> "idle"]
  /\ back  = [r \in Rows |-> 0]

\* A charge is booked, once.
Book(r, sum) ==
  /\ held[r] = 0 /\ doubt[r] = 0 /\ back[r] = 0
  /\ held' = [held EXCEPT ![r] = sum]
  /\ UNCHANGED <<doubt, fate, back>>

Send(r, sum) ==
  /\ doubt[r] = 0 /\ fate[r] = "idle"
  /\ sum <= held[r]
  /\ held'  = [held EXCEPT ![r] = @ - sum]
  /\ doubt' = [doubt EXCEPT ![r] = sum]
  /\ fate'  = [fate EXCEPT ![r] = "sent"]
  /\ UNCHANGED back

Give(r) ==
  /\ fate[r] = "sent"
  /\ fate' = [fate EXCEPT ![r] = "done"]
  /\ back' = [back EXCEPT ![r] = @ + doubt[r]]
  /\ UNCHANGED <<held, doubt>>

Refuse(r) ==
  /\ fate[r] = "sent"
  /\ fate' = [fate EXCEPT ![r] = "refused"]
  /\ UNCHANGED <<held, doubt, back>>

\* The books learn that the sum went back: it is gone for good.
WriteOff(r) ==
  /\ fate[r] = "done"
  /\ fate'  = [fate EXCEPT ![r] = "idle"]
  /\ doubt' = [doubt EXCEPT ![r] = 0]
  /\ UNCHANGED <<held, back>>

\* The books learn that it did not: the row holds it again.
Restore(r) ==
  /\ fate[r] = "refused"
  /\ fate'  = [fate EXCEPT ![r] = "idle"]
  /\ held'  = [held EXCEPT ![r] = @ + doubt[r]]
  /\ doubt' = [doubt EXCEPT ![r] = 0]
  /\ UNCHANGED back

Next == \E r \in Rows :
  \/ \E sum \in Amounts : Book(r, sum) \/ Send(r, sum)
  \/ Give(r) \/ Refuse(r) \/ WriteOff(r) \/ Restore(r)

Spec == Init /\ [][Next]_lvars
=============================================================================

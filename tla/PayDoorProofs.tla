--------------------------- MODULE PayDoorProofs ---------------------------
(***************************************************************************)
(* The pay door keeps its types and loses no callback, for every number of *)
(* rows, sessions, tabs and terminals, and every pace of the page.         *)
(***************************************************************************)
EXTENDS PayDoor, WellFoundedInduction, TLAPS

\* The least number of a set.
LEMMA LeastExists ==
  ASSUME NEW S \in SUBSET Nat, S # {}
  PROVE  \E x \in S : \A y \in S : x <= y
<1> DEFINE R == OpToRel(<, Nat)
<1>1. IsWellFoundedOn(R, Nat)
  BY NatLessThanWellFounded, Zenon
<1>2. \A x, y \in Nat : y < x => <<y, x>> \in R
  BY DEF OpToRel
<1> HIDE DEF R
<1>3. PICK x \in S : \A y \in S : ~ (<<y, x>> \in R)
  <2>1. S \subseteq Nat /\ S # {}
    OBVIOUS
  <2>2. QED
    BY <1>1, <2>1, WFMin, Zenon
<1>4. \A y \in S : ~(y < x)
  BY <1>2, <1>3
<1>5. QED
  BY <1>4

\* The greatest number of a set below a bound.
LEMMA GreatestExists ==
  ASSUME NEW n \in Nat, NEW S \in SUBSET (1 .. n), S # {}
  PROVE  \E x \in S : \A y \in S : y <= x
<1> DEFINE T == {n - x : x \in S}
<1>1. T \in SUBSET Nat /\ T # {}
  <2>1. \A x \in S : n - x \in Nat
    OBVIOUS
  <2>2. T \in SUBSET Nat
    BY <2>1
  <2>3. PICK x \in S : TRUE
    OBVIOUS
  <2>4. n - x \in T
    BY <2>3
  <2>5. QED
    BY <2>2, <2>4
<1>2. PICK t \in T : \A u \in T : t <= u
  BY <1>1, LeastExists
<1>3. PICK x \in S : t = n - x
  BY <1>2
<1>4. \A y \in S : n - x <= n - y
  BY <1>2, <1>3
<1>5. QED
  BY <1>3, <1>4

\* A row that has a session, or whose page is being opened, was written.
RowsSound ==
  /\ row \in [Rows -> Row] /\ opening \subseteq Rows
  /\ \A r \in Rows : row[r].session \/ r \in opening => row[r].status # "none"

\* An inquiry is about a row that was written.
CallsSound == call \subseteq Call /\ \A c \in call : row[c.row].status # "none"

\* So is the one a page load waits for.
TabsSound ==
  /\ tab \in [Tabs -> Tab]
  /\ \A t \in Tabs : tab[t].at = "asking" => tab[t].row \in Rows

RestSound ==
  /\ charged \subseteq Rows /\ due \subseteq Rows /\ unread \subseteq Rows
  /\ keys \in Terminals \cup {None}

IInv == RowsSound /\ CallsSound /\ TabsSound /\ RestSound

-----------------------------------------------------------------------------
(* The rows. *)

\* What was written stays written.
Kept == \A s \in Rows : row[s].status # "none" => row'[s].status # "none"

\* One row changes, into a written one.
LEMMA OneRow ==
  ASSUME RowsSound, NEW r \in Rows, NEW v \in Row, v.status # "none",
         row' = [row EXCEPT ![r] = v], opening' \subseteq opening \cup {r}
  PROVE  RowsSound' /\ Kept
<1>1. row' \in [Rows -> Row] /\ row'[r] = v /\ \A s \in Rows \ {r} : row'[s] = row[s]
  BY DEF RowsSound
<1>2. opening' \subseteq Rows
  BY DEF RowsSound
<1> QED
  BY <1>1, <1>2 DEF RowsSound, Kept

LEMMA SameRows ==
  ASSUME RowsSound, row' = row, opening' \subseteq opening
  PROVE  RowsSound' /\ Kept
BY DEF RowsSound, Kept

\* An inquiry claims a row that has tries left.
LEMMA ClaimFact ==
  ASSUME PayDoorAssumption, RowsSound, NEW r \in Rows, Claim(r),
         row[r].tries < HookMax, row[r].status # "none", opening' = opening
  PROVE  RowsSound' /\ Kept
<1> DEFINE v == [row[r] EXCEPT !.tries = @ + 1, !.clock = 0]
<1>1. row \in [Rows -> Row] /\ row[r] \in Row
  BY DEF RowsSound
<1>2. row' = [row EXCEPT ![r] = v]
  BY <1>1 DEF Claim
<1>3. row[r].tries + 1 \in 0 .. HookMax /\ 0 \in 0 .. Gap
  BY <1>1 DEF Row, PayDoorAssumption
<1>4. v \in Row /\ v.status = row[r].status
  BY <1>1, <1>3 DEF Row
<1> HIDE DEF v
<1> QED
  BY <1>2, <1>4, OneRow

\* An answer makes the row paid or failed, or leaves it.
LEMMA AnswerFact ==
  ASSUME RowsSound, NEW r \in Rows, NEW saw,
         Confirm(r, saw) \/ Decline(r, saw) \/ Moot, opening' = opening
  PROVE  RowsSound' /\ Kept
<1>1. row \in [Rows -> Row] /\ row[r] \in Row
  BY DEF RowsSound
<1>2. CASE row' = row
  BY <1>2, SameRows
<1>3. CASE \E x \in {"paid", "failed"} : row' = [row EXCEPT ![r].status = x]
  <2>1. PICK x \in {"paid", "failed"} : row' = [row EXCEPT ![r].status = x]
    BY <1>3
  <2> DEFINE v == [row[r] EXCEPT !.status = x]
  <2>2. row' = [row EXCEPT ![r] = v]
    BY <1>1, <2>1
  <2>3. v \in Row /\ v.status # "none"
    BY <1>1 DEF Row
  <2> HIDE DEF v
  <2> QED
    BY <2>2, <2>3, OneRow
<1> QED
  BY <1>2, <1>3 DEF Confirm, Decline, Moot

\* The calls and the tabs that stay are about rows that stay.
LEMMA CallsKept ==
  ASSUME CallsSound, Kept, call' \subseteq call
  PROVE  CallsSound'
BY DEF CallsSound, Kept, Call

-----------------------------------------------------------------------------
(* The pay door. *)

LEMMA StartSessionStep ==
  ASSUME PayDoorAssumption, IInv, StartSession
  PROVE  IInv'
<1>1. PICK r \in Rows \ Used :
        /\ row' = [row EXCEPT ![r] = [NoRow EXCEPT !.status = "pending", !.tail = keys]]
        /\ opening' = opening \cup {r}
  BY DEF StartSession
<1> DEFINE v == [NoRow EXCEPT !.status = "pending", !.tail = keys]
<1>2. NoRow \in Row
  BY DEF NoRow, Row, PayDoorAssumption
<1>3. v \in Row /\ v.status = "pending"
  BY <1>2 DEF Row, IInv, RestSound
<1> HIDE DEF v
<1>4. RowsSound' /\ Kept
  BY <1>1, <1>3, OneRow DEF IInv, v
<1>5. CallsSound' /\ TabsSound' /\ RestSound'
  BY <1>4, CallsKept DEF StartSession, IInv, TabsSound, RestSound
<1> QED
  BY <1>4, <1>5 DEF IInv

LEMMA OpenedStep ==
  ASSUME PayDoorAssumption, IInv, NEW r \in Rows, SessionOpened(r) \/ SessionRefused(r)
  PROVE  IInv'
<1>1. row \in [Rows -> Row] /\ row[r] \in Row /\ row[r].status # "none"
  BY DEF IInv, RowsSound, SessionOpened, SessionRefused
<1>2. PICK v \in Row : v.status # "none" /\ row' = [row EXCEPT ![r] = v]
  <2>1. CASE SessionOpened(r)
    <3> DEFINE v == [row[r] EXCEPT !.session = TRUE]
    <3>1. v \in Row /\ v.status # "none"
      BY <1>1 DEF Row
    <3>2. row' = [row EXCEPT ![r] = v]
      BY <1>1, <2>1 DEF SessionOpened
    <3> QED
      BY <3>1, <3>2
  <2>2. CASE SessionRefused(r)
    <3> DEFINE v == [row[r] EXCEPT !.status = "failed"]
    <3>1. v \in Row /\ v.status # "none"
      BY <1>1 DEF Row
    <3>2. row' = [row EXCEPT ![r] = v]
      BY <1>1, <2>2 DEF SessionRefused
    <3> QED
      BY <3>1, <3>2
  <2> QED
    BY <2>1, <2>2
<1>3. opening' \subseteq opening \cup {r}
  BY DEF SessionOpened, SessionRefused
<1>4. RowsSound' /\ Kept
  BY <1>2, <1>3, OneRow DEF IInv
<1>5. CallsSound' /\ TabsSound' /\ RestSound'
  BY <1>4, CallsKept DEF SessionOpened, SessionRefused, IInv, TabsSound, RestSound
<1> QED
  BY <1>4, <1>5 DEF IInv

-----------------------------------------------------------------------------
(* The callback. *)

LEMMA HookStep ==
  ASSUME PayDoorAssumption, IInv, NEW r \in Rows,
         HookAcked(r) \/ HookMisfit(r) \/ HookAsks(r)
  PROVE  IInv'
<1>1. row[r].status # "none"
  BY DEF IInv, RowsSound, HookAcked, HookMisfit, HookAsks
<1>2. RowsSound' /\ Kept
  <2>1. CASE HookAcked(r)
    BY <2>1, SameRows DEF HookAcked, IInv
  <2>2. CASE HookMisfit(r) \/ HookAsks(r)
    BY <1>1, <2>2, ClaimFact DEF HookMisfit, HookAsks, IInv
  <2> QED
    BY <2>1, <2>2
<1>3. CallsSound'
  <2>1. CASE HookAcked(r) \/ HookMisfit(r)
    BY <1>2, <2>1, CallsKept DEF HookAcked, HookMisfit, IInv
  <2>2. CASE HookAsks(r)
    <3> DEFINE c == [row |-> r, n |-> row[r].tries + 1, saw |-> r \in charged]
    <3>1. row[r].tries + 1 \in 1 .. HookMax
      BY <2>2 DEF HookAsks, IInv, RowsSound, Row, PayDoorAssumption
    <3>2. (r \in charged) \in BOOLEAN
      OBVIOUS
    <3>3. c \in Call
      BY <3>1, <3>2 DEF Call
    <3>4. call' = call \cup {c} /\ c.row = r
      BY <2>2 DEF HookAsks
    <3> HIDE DEF c
    <3>5. \A d \in call : d.row \in Rows
      BY DEF IInv, CallsSound, Call
    <3> QED
      BY <1>1, <1>2, <3>3, <3>4, <3>5 DEF IInv, CallsSound, Kept
  <2> QED
    BY <2>1, <2>2
<1>4. TabsSound' /\ RestSound'
  BY DEF HookAcked, HookMisfit, HookAsks, IInv, TabsSound, RestSound
<1> QED
  BY <1>2, <1>3, <1>4 DEF IInv

LEMMA CallStep ==
  ASSUME PayDoorAssumption, IInv, NEW c \in call,
         HookAnswered(c) \/ HookUnreadable(c) \/ HookFailed(c)
  PROVE  IInv'
<1>1. c.row \in Rows /\ row[c.row].status # "none"
  BY DEF IInv, CallsSound, Call
<1>2. Confirm(c.row, c.saw) \/ Decline(c.row, c.saw) \/ Moot
  BY DEF HookAnswered, HookUnreadable, HookFailed
<1>3. opening' = opening /\ call' \subseteq call
  BY DEF HookAnswered, HookUnreadable, HookFailed
<1>4. RowsSound' /\ Kept
  BY <1>1, <1>2, <1>3, AnswerFact DEF IInv
<1>5. CallsSound'
  BY <1>3, <1>4, CallsKept DEF IInv
<1>6. TabsSound' /\ RestSound'
  BY <1>1 DEF HookAnswered, HookUnreadable, HookFailed, IInv, TabsSound, RestSound
<1> QED
  BY <1>4, <1>5, <1>6 DEF IInv

-----------------------------------------------------------------------------
(* The order page. *)

\* The row a loop looks at is one of its rows.
LEMMA HeadFact ==
  ASSUME PayDoorAssumption, IInv, NEW t \in Tabs, Looping(t)
  PROVE  Head(t) \in tab[t].todo /\ Head(t) \in Rows /\ tab[t] \in Tab
<1>1. tab[t] \in Tab
  BY DEF IInv, TabsSound
<1>2. tab[t].todo \in SUBSET (1 .. MaxRows) /\ tab[t].todo # {} /\ MaxRows \in Nat
  BY <1>1 DEF Tab, Rows, Looping, PayDoorAssumption
<1>3. \E r \in tab[t].todo : \A s \in tab[t].todo : s <= r
  BY <1>2, GreatestExists
<1>4. Head(t) \in tab[t].todo
  BY <1>3 DEF Head, Latest
<1> QED
  BY <1>1, <1>2, <1>4 DEF Rows

\* One tab changes, into one of its type.
LEMMA OneTab ==
  ASSUME TabsSound, NEW t \in Tabs, NEW v \in Tab, v.at = "asking" => v.row \in Rows,
         tab' = [tab EXCEPT ![t] = v]
  PROVE  TabsSound'
BY DEF TabsSound

LEMMA LoadStartsStep ==
  ASSUME PayDoorAssumption, IInv, NEW t \in Tabs, NEW d \in Elapsed, LoadStarts(t, d)
  PROVE  IInv'
<1>1. row \in [Rows -> Row] /\ tab[t] \in Tab /\ charged \subseteq Rows
  BY DEF IInv, RowsSound, TabsSound, RestSound
<1>2. ASSUME NEW r \in Rows
      PROVE  /\ row'[r] \in Row
             /\ row'[r].status = row[r].status /\ row'[r].session = row[r].session
  <2>1. row[r] \in Row
    BY <1>1
  <2>2. CASE row[r].clock = Unset
    BY <2>1, <2>2 DEF LoadStarts, Later
  <2>3. CASE row[r].clock # Unset
    <3>1. row[r].clock \in 0 .. Gap /\ d \in Nat /\ Gap \in Nat
      BY <2>1, <2>3 DEF Row, PayDoorAssumption
    <3> DEFINE c == MinOf(row[r].clock + d, Gap)
    <3>2. c \in 0 .. Gap
      BY <3>1 DEF MinOf
    <3>3. row'[r] = [row[r] EXCEPT !.clock = c]
      BY <2>3 DEF LoadStarts, Later
    <3> HIDE DEF c
    <3> QED
      BY <2>1, <3>2, <3>3 DEF Row
  <2> QED
    BY <2>2, <2>3
<1>3. row' \in [Rows -> Row]
  BY <1>2 DEF LoadStarts, Later
<1>4. RowsSound' /\ Kept
  BY <1>2, <1>3 DEF LoadStarts, IInv, RowsSound, Kept
<1> DEFINE v == [TabOff EXCEPT
               !.at = "looping", !.todo = IF Paid THEN {} ELSE Askable,
               !.polls = IF tab[t].at = "timer" THEN tab[t].polls ELSE 0,
               !.paid = IF tab[t].at = "timer" THEN tab[t].paid ELSE charged]
<1>5. v \in Tab /\ v.at = "looping"
  <2>1. TabOff \in Tab
    BY DEF TabOff, Tab
  <2>2. Askable \subseteq Rows
    BY DEF Askable, Sessions
  <2> QED
    BY <1>1, <2>1, <2>2 DEF Tab
<1>6. tab' = [tab EXCEPT ![t] = v]
  BY DEF LoadStarts
<1> HIDE DEF v
<1>7. TabsSound'
  BY <1>5, <1>6, OneTab DEF IInv
<1>8. CallsSound' /\ RestSound'
  BY <1>4, CallsKept DEF LoadStarts, IInv, RestSound
<1> QED
  BY <1>4, <1>7, <1>8 DEF IInv

LEMMA LoadPassesStep ==
  ASSUME PayDoorAssumption, IInv, NEW t \in Tabs, LoadPasses(t)
  PROVE  IInv'
<1> DEFINE r == Head(t)
<1>1. r \in Rows /\ tab[t] \in Tab
  BY HeadFact DEF LoadPasses
<1>2. row \in [Rows -> Row] /\ row[r] \in Row
  BY <1>1 DEF IInv, RowsSound
<1>3. RowsSound' /\ Kept
  <2>1. CASE row' = row
    BY <2>1, SameRows DEF LoadPasses, IInv
  <2>2. CASE row' = [row EXCEPT ![r].clock = 0] /\ Unpaid(r)
    <3> DEFINE v == [row[r] EXCEPT !.clock = 0]
    <3>1. row' = [row EXCEPT ![r] = v]
      BY <1>2, <2>2
    <3>2. v \in Row /\ v.status # "none"
      BY <1>2, <2>2 DEF Row, Unpaid, PayDoorAssumption
    <3> HIDE DEF v
    <3> QED
      BY <1>1, <3>1, <3>2, OneRow DEF LoadPasses, IInv
  <2> QED
    BY <2>1, <2>2 DEF LoadPasses
<1> DEFINE w == [tab[t] EXCEPT !.todo = @ \ {r}]
<1>4. w \in Tab /\ w.at = "looping"
  BY <1>1 DEF Tab, LoadPasses, Looping
<1>5. tab' = [tab EXCEPT ![t] = w]
  BY DEF LoadPasses, IInv, TabsSound
<1> HIDE DEF w
<1>6. TabsSound'
  BY <1>4, <1>5, OneTab DEF IInv
<1>7. CallsSound' /\ RestSound'
  BY <1>3, CallsKept DEF LoadPasses, IInv, RestSound
<1> QED
  BY <1>3, <1>6, <1>7 DEF IInv

LEMMA LoadAsksStep ==
  ASSUME PayDoorAssumption, IInv, NEW t \in Tabs, LoadAsks(t)
  PROVE  IInv'
<1> DEFINE r == Head(t)
<1>1. r \in Rows /\ tab[t] \in Tab /\ tab[t].at = "looping"
  BY HeadFact DEF LoadAsks, Looping
<1>2. row[r].tries < HookMax /\ row[r].status # "none"
  BY <1>1 DEF LoadAsks, Ripe, Unpaid, IInv, RowsSound, Row, PayDoorAssumption
<1>3. RowsSound' /\ Kept
  BY <1>1, <1>2, ClaimFact DEF LoadAsks, IInv
<1> DEFINE left == [tab[t] EXCEPT !.todo = @ \ {r}, !.asked = @ + 1]
           asking == [left EXCEPT !.at = "asking", !.row = r, !.saw = r \in charged]
<1>4. left \in Tab /\ left.at = "looping"
  <2>1. tab[t].asked + 1 \in Nat /\ tab[t].todo \ {r} \in SUBSET Rows
    BY <1>1 DEF Tab
  <2> HIDE DEF r
  <2> QED
    BY <1>1, <2>1 DEF Tab
<1>5. asking \in Tab /\ asking.row \in Rows
  <2> HIDE DEF left
  <2>1. (r \in charged) \in BOOLEAN
    OBVIOUS
  <2> QED
    BY <1>1, <1>4, <2>1 DEF Tab
<1>6. tab' = [tab EXCEPT ![t] = left] \/ tab' = [tab EXCEPT ![t] = asking]
  BY DEF LoadAsks
<1> HIDE DEF left, asking
<1>7. TabsSound'
  BY <1>4, <1>5, <1>6, OneTab DEF IInv
<1>8. CallsSound' /\ RestSound'
  BY <1>3, CallsKept DEF LoadAsks, IInv, RestSound
<1> QED
  BY <1>3, <1>7, <1>8 DEF IInv

LEMMA LoadAnsweredStep ==
  ASSUME PayDoorAssumption, IInv, NEW t \in Tabs, LoadAnswered(t)
  PROVE  IInv'
<1> DEFINE r == tab[t].row
           back == [tab[t] EXCEPT !.at = "looping", !.row = 0, !.saw = FALSE]
           stop == [back EXCEPT !.todo = {}]
<1>1. tab[t] \in Tab /\ r \in Rows
  BY DEF IInv, TabsSound, LoadAnswered
<1>2. RowsSound' /\ Kept
  BY <1>1, AnswerFact DEF LoadAnswered, IInv
<1>3. back \in Tab /\ back.at = "looping"
  BY <1>1 DEF Tab
<1>4. stop \in Tab /\ stop.at = "looping"
  <2> HIDE DEF back
  <2> QED
    BY <1>3 DEF Tab
<1>5. tab' = [tab EXCEPT ![t] = back] \/ tab' = [tab EXCEPT ![t] = stop]
  BY DEF LoadAnswered
<1> HIDE DEF back, stop
<1>6. TabsSound'
  BY <1>3, <1>4, <1>5, OneTab DEF IInv
<1>7. CallsSound' /\ RestSound'
  BY <1>2, CallsKept DEF LoadAnswered, IInv, RestSound
<1> QED
  BY <1>2, <1>6, <1>7 DEF IInv

LEMMA LoadPaintsStep ==
  ASSUME PayDoorAssumption, IInv, NEW t \in Tabs, LoadPaints(t)
  PROVE  IInv'
<1> DEFINE timer == [TabOff EXCEPT !.at = "timer", !.polls = tab[t].polls + 1, !.paid = tab[t].paid]
           still == [TabOff EXCEPT !.at = "still"]
<1>1. tab[t] \in Tab /\ TabOff \in Tab
  BY DEF IInv, TabsSound, TabOff, Tab
<1>2. timer \in Tab /\ timer.at = "timer" /\ still \in Tab /\ still.at = "still"
  <2>1. tab[t].polls + 1 \in Nat /\ tab[t].paid \in SUBSET Rows
    BY <1>1 DEF Tab
  <2> QED
    BY <1>1, <2>1 DEF Tab
<1>3. tab' = [tab EXCEPT ![t] = timer] \/ tab' = [tab EXCEPT ![t] = still]
  BY DEF LoadPaints
<1> HIDE DEF timer, still
<1>4. TabsSound'
  BY <1>2, <1>3, OneTab DEF IInv
<1>5. RowsSound' /\ Kept
  BY SameRows DEF LoadPaints, IInv
<1>6. CallsSound' /\ RestSound'
  BY <1>5, CallsKept DEF LoadPaints, IInv, RestSound
<1> QED
  BY <1>4, <1>5, <1>6 DEF IInv

-----------------------------------------------------------------------------
(* The owner, the clock, the crash and the buyer. *)

LEMMA AgeStep ==
  ASSUME PayDoorAssumption, IInv, NEW r \in Rows, Age(r)
  PROVE  IInv'
<1>1. row \in [Rows -> Row]
  BY DEF IInv, RowsSound
<1>2. ASSUME NEW s \in Rows
      PROVE  /\ row'[s] \in Row
             /\ row'[s].status = row[s].status /\ row'[s].session = row[s].session
  <2>1. row[s] \in Row
    BY <1>1
  <2>2. row'[s] = row[s] \/ \E a \in {"fresh", "stale", "old"} : row'[s] = [row[s] EXCEPT !.age = a]
    BY DEF Age
  <2> QED
    BY <2>1, <2>2 DEF Row
<1>3. row' \in [Rows -> Row]
  BY <1>2 DEF Age
<1>4. RowsSound' /\ Kept
  BY <1>2, <1>3 DEF Age, IInv, RowsSound, Kept
<1>5. CallsSound' /\ TabsSound' /\ RestSound'
  BY <1>4, CallsKept DEF Age, IInv, TabsSound, RestSound
<1> QED
  BY <1>4, <1>5 DEF IInv

LEMMA WorldStep ==
  ASSUME PayDoorAssumption, IInv,
         \/ \E r \in Rows : ShopperPays(r)
         \/ \E k \in Terminals \cup {None} : KeysChange(k)
         \/ UNCHANGED vars
  PROVE  IInv'
<1>1. row' = row /\ opening' = opening /\ call' = call /\ tab' = tab
  BY DEF ShopperPays, KeysChange, vars
<1>2. RowsSound' /\ Kept
  BY <1>1, SameRows DEF IInv
<1>3. CallsSound'
  BY <1>1, <1>2, CallsKept DEF IInv
<1>4. TabsSound' /\ RestSound'
  BY <1>1 DEF ShopperPays, KeysChange, vars, IInv, TabsSound, RestSound
<1> QED
  BY <1>2, <1>3, <1>4 DEF IInv

LEMMA CrashStep ==
  ASSUME PayDoorAssumption, IInv, Crash
  PROVE  IInv'
<1>1. RowsSound' /\ Kept
  BY SameRows DEF Crash, IInv
<1>2. CallsSound' /\ RestSound'
  BY <1>1, CallsKept DEF Crash, IInv, RestSound
<1> DEFINE still == [TabOff EXCEPT !.at = "still"]
<1>3. still \in Tab /\ still.at = "still"
  BY DEF TabOff, Tab
<1>4. \A t \in Tabs : tab'[t] = tab[t] \/ tab'[t] = still
  BY DEF Crash
<1>5. tab' = [t \in Tabs |-> tab'[t]]
  BY DEF Crash
<1> HIDE DEF still
<1>6. TabsSound'
  BY <1>3, <1>4, <1>5 DEF IInv, TabsSound
<1> QED
  BY <1>1, <1>2, <1>6 DEF IInv

LEMMA InvStep ==
  ASSUME PayDoorAssumption, IInv, [Next]_vars
  PROVE  IInv'
BY StartSessionStep, OpenedStep, HookStep, CallStep, LoadStartsStep, LoadPassesStep, LoadAsksStep,
   LoadAnsweredStep, LoadPaintsStep, AgeStep, WorldStep, CrashStep DEF Next

LEMMA Inductive == Spec => []IInv
<1>1. Init => IInv
  <2> SUFFICES ASSUME Init PROVE IInv
    OBVIOUS
  <2>1. NoRow \in Row /\ NoRow.session = FALSE /\ TabOff \in Tab /\ TabOff.at = "away"
    BY PayDoorAssumption DEF NoRow, Row, TabOff, Tab
  <2>2. RowsSound
    BY <2>1 DEF Init, RowsSound
  <2>3. TabsSound
    BY <2>1 DEF Init, TabsSound
  <2> QED
    BY <2>2, <2>3 DEF Init, IInv, CallsSound, RestSound
<1>2. IInv /\ [Next]_vars => IInv'
  BY InvStep, PayDoorAssumption
<1> QED
  BY <1>1, <1>2, PTL DEF Spec

-----------------------------------------------------------------------------

\* Every variable keeps its type; in particular no row is asked about more often than
\* HookMax, however tabs and callbacks claim it at the same time.
THEOREM TypeCorrect == Spec => []TypeOK
<1>1. IInv => TypeOK
  BY DEF IInv, RowsSound, CallsSound, TabsSound, RestSound, TypeOK
<1> QED
  BY <1>1, Inductive, PTL

\* Whoever acknowledges a callback has settled its row, or finds all its inquiries
\* spent, or has another terminal's keys, or got an answer that cannot be used.
LEMMA CallbackStep ==
  ASSUME PayDoorAssumption, IInv, [Next]_vars, NEW r \in due \ due'
  PROVE  \/ row'[r].status = "paid" \/ row[r].tries >= HookMax
         \/ (keys # None /\ ~KeysFit(r)) \/ r \in unread'
<1>1. r \in Rows /\ due' # due
  BY DEF IInv, RestSound
<1>2. ASSUME NEW s \in Rows, HookAcked(s)
      PROVE  row'[r].status = "paid" \/ row[r].tries >= HookMax
  <2>1. r = s /\ row' = row
    BY <1>2 DEF HookAcked
  <2>2. row[r] \in Row /\ row[r].status # "none"
    BY <1>1, <1>2, <2>1 DEF IInv, RowsSound, HookAcked
  <2> QED
    BY <1>2, <2>1, <2>2 DEF HookAcked, Unpaid, Row
<1>3. ASSUME NEW s \in Rows, HookMisfit(s)
      PROVE  keys # None /\ ~KeysFit(r)
  BY <1>3 DEF HookMisfit
<1>4. ASSUME NEW c \in call, HookAnswered(c)
      PROVE  row'[r].status = "paid"
  <2>1. r = c.row /\ c.saw
    BY <1>1, <1>4 DEF HookAnswered
  <2>2. row \in [Rows -> Row] /\ row[r] \in Row /\ row[r].status # "none"
    BY <1>1, <2>1 DEF IInv, RowsSound, CallsSound
  <2>3. Confirm(r, c.saw)
    BY <1>1, <1>4, <2>1 DEF HookAnswered, Decline
  <2> QED
    BY <1>1, <2>2, <2>3 DEF Confirm, Unpaid, Row
<1>5. ASSUME NEW c \in call, HookUnreadable(c)
      PROVE  r \in unread'
  BY <1>1, <1>5 DEF HookUnreadable
<1>6. CASE Next
  <2>1. \/ \E s \in Rows : HookAcked(s) \/ HookMisfit(s)
        \/ \E c \in call : HookAnswered(c) \/ HookUnreadable(c)
    BY <1>1, <1>6
    DEF Next, StartSession, SessionOpened, SessionRefused, HookAsks, HookFailed, LoadStarts,
        LoadPasses, LoadAsks, LoadAnswered, LoadPaints, Age, ShopperPays, KeysChange, Crash
  <2> QED
    BY <1>2, <1>3, <1>4, <1>5, <2>1
<1> QED
  BY <1>1, <1>6 DEF vars

\* No crash, timeout or other transient failure, no missing keys and no callback of an
\* earlier decline acknowledges a charge that is still open.  An answer that cannot be
\* used and another terminal's keys do, and the property names both.
THEOREM CallbackKept == Spec => CallbackNotLost
<1>1. IInv /\ [Next]_vars =>
        [\A r \in due \ due' :
           \/ row'[r].status = "paid" \/ row[r].tries >= HookMax
           \/ (keys # None /\ ~KeysFit(r)) \/ r \in unread']_vars
  BY CallbackStep, PayDoorAssumption
<1> QED
  BY <1>1, Inductive, PTL DEF Spec, CallbackNotLost
=============================================================================

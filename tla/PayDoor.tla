------------------------------ MODULE PayDoor ------------------------------
(***************************************************************************)
(* The pay door of one card order and the two triggers that find out what  *)
(* became of it (src/store/gateway/index.js, public/tz-store.js): opening  *)
(* hosted pages under the caps, the provider's callback that only says     *)
(* "ask now" (Cardcom), and the order page that polls when the buyer lands *)
(* back.  Whether a confirmed charge is the right sum, and what it does to *)
(* the order, is Gateway.tla's; here a confirmed row is simply paid.       *)
(*                                                                         *)
(* An await separates a claim from its answer, and also one row of a page  *)
(* load from the next, so every load is a loop of steps.                   *)
(***************************************************************************)
EXTENDS Integers, FiniteSets

CONSTANTS
  MaxRows,      \* MAX_ROWS_PER_ORDER
  MaxSessions,  \* MAX_SESSIONS_PER_ORDER
  VerifyMax,    \* VERIFY_MAX, the inquiries of one row the order page may spend
  HookMax,      \* HOOK_MAX, the inquiries of one row in all
  PageCalls,    \* PAGE_CALLS, the provider calls of one page load
  Gap,          \* the throttle of a row, in polls: VERIFY_GAP_MS by POLL_MS, rounded up
  MaxPolls,     \* MAX_POLLS of the order page
  Elapsed,      \* how many poll gaps may pass between two page loads
  Tabs,         \* order pages open in browsers
  Terminals,    \* the provider accounts the owner has keys of
  None

Rows == 1 .. MaxRows
Unset == -1                \* last_verify_at IS NULL

ASSUME PayDoorAssumption ==
  /\ MaxRows \in Nat /\ MaxSessions \in Nat
  /\ HookMax \in Nat /\ VerifyMax \in 0 .. HookMax /\ PageCalls \in Nat
  /\ Gap \in Nat /\ MaxPolls \in Nat /\ Elapsed \subseteq Nat
  /\ None \notin Terminals

VARIABLES
  row,      \* the order's rows of store_payments, oldest first
  opening,  \* rows whose createSession call waits for its answer
  charged,  \* provider: rows whose page took the money
  due,      \* provider: charged rows whose callback nobody acknowledged yet
  call,     \* inquiries a callback started, at the provider
  tab,      \* the order page of each browser tab
  keys,     \* the terminal whose keys are stored, or None
  unread    \* history: charged rows whose callback was acknowledged on an unusable answer

vars == <<row, opening, charged, due, call, tab, keys, unread>>

Row == [status: {"none", "pending", "failed", "paid"}, tail: Terminals \cup {None},
        session: BOOLEAN, tries: 0 .. HookMax, clock: {Unset} \cup 0 .. Gap, age: {"fresh", "stale", "old"}]
Call == [row: Rows, n: 1 .. HookMax, saw: BOOLEAN]
Tab == [at: {"away", "looping", "asking", "timer", "still"}, polls: Nat,
        todo: SUBSET Rows, asked: Nat, row: Rows \cup {0}, saw: BOOLEAN,
        paid: SUBSET Rows]  \* history: what the buyer had paid when the page was opened

NoRow  == [status |-> "none", tail |-> None, session |-> FALSE, tries |-> 0,
           clock |-> Unset, age |-> "fresh"]
TabOff == [at |-> "away", polls |-> 0, todo |-> {}, asked |-> 0, row |-> 0, saw |-> FALSE,
           paid |-> {}]

Init ==
  /\ row = [r \in Rows |-> NoRow]
  /\ opening = {} /\ charged = {} /\ due = {} /\ call = {} /\ unread = {}
  /\ tab = [t \in Tabs |-> TabOff]
  /\ keys \in Terminals

-----------------------------------------------------------------------------
(* What the queries ask. *)

Used      == {r \in Rows : row[r].status # "none"}
Sessions  == {r \in Rows : row[r].session}
Unpaid(r) == row[r].status \in {"pending", "failed"}
Paid      == \E r \in Rows : row[r].status = "paid"
Latest(S) == CHOOSE r \in S : \A s \in S : s <= r

\* The rows a page load asks about.
Askable == {r \in Sessions : Unpaid(r) /\ row[r].age # "old"}

\* publicPayment: is it worth asking again?
Verifying == ~Paid /\ \E r \in Askable : row[r].tries < VerifyMax

-----------------------------------------------------------------------------
(* The pay door. *)

\* A page still fresh is handed back.
FreshPage == \E r \in Sessions : row[r].status = "pending" /\ row[r].age = "fresh"

\* The row is written before the provider is asked.
StartSession ==
  /\ ~Paid /\ keys # None /\ ~FreshPage
  /\ Cardinality(Sessions) < MaxSessions
  /\ \E r \in Rows \ Used :
       /\ \A s \in Rows \ Used : r <= s
       /\ row' = [row EXCEPT ![r] = [NoRow EXCEPT !.status = "pending", !.tail = keys]]
       /\ opening' = opening \cup {r}
  /\ UNCHANGED <<charged, due, call, tab, keys, unread>>

SessionOpened(r) ==
  /\ r \in opening
  /\ row' = [row EXCEPT ![r].session = TRUE]
  /\ opening' = opening \ {r}
  /\ UNCHANGED <<charged, due, call, tab, keys, unread>>

SessionRefused(r) ==
  /\ r \in opening
  /\ row' = [row EXCEPT ![r].status = "failed"]
  /\ opening' = opening \ {r}
  /\ UNCHANGED <<charged, due, call, tab, keys, unread>>

-----------------------------------------------------------------------------
(* What an inquiry does to its row. *)

\* The slot is claimed in one guarded update; the clock of the page starts again.
Claim(r) == row' = [row EXCEPT ![r].tries = @ + 1, ![r].clock = 0]

\* The keys that are stored open this row's page at the provider.
KeysFit(r) == keys = row[r].tail

\* The answer, about the page as it was at some moment of the call.
Confirm(r, saw) ==
  /\ saw \/ r \in charged
  /\ row' = IF Unpaid(r) THEN [row EXCEPT ![r].status = "paid"] ELSE row

Decline(r, saw) ==
  /\ ~saw
  /\ row' = IF row[r].status = "pending" THEN [row EXCEPT ![r].status = "failed"] ELSE row

Moot == UNCHANGED row

-----------------------------------------------------------------------------
(* The callback that says "ask now". *)


\* Acknowledged at once: the row is settled, or has cost all its inquiries.
HookAcked(r) ==
  /\ row[r].session
  /\ ~Unpaid(r) \/ (keys # None /\ row[r].tries >= HookMax)
  /\ due' = due \ {r}
  /\ UNCHANGED <<row, opening, charged, call, tab, keys, unread>>

\* The keys are gone: 503, the provider keeps its callback.  (Nothing changes.)
\* The keys are another terminal's: the inquiry fails here, and the reply is 200.
HookMisfit(r) ==
  /\ row[r].session /\ Unpaid(r)
  /\ keys # None /\ ~KeysFit(r) /\ row[r].tries < HookMax
  /\ Claim(r)
  /\ due' = due \ {r}
  /\ UNCHANGED <<opening, charged, call, tab, keys, unread>>

HookAsks(r) ==
  /\ row[r].session /\ Unpaid(r) /\ KeysFit(r) /\ row[r].tries < HookMax
  /\ Claim(r)
  /\ call' = call \cup {[row |-> r, n |-> row[r].tries + 1, saw |-> r \in charged]}
  /\ UNCHANGED <<opening, charged, due, tab, keys, unread>>

\* The inquiry is answered, and so is the callback: it is done with.
HookAnswered(c) ==
  /\ Confirm(c.row, c.saw) \/ Decline(c.row, c.saw)
  /\ call' = call \ {c}
  /\ due' = IF c.saw THEN due \ {c.row} ELSE due
  /\ UNCHANGED <<opening, charged, tab, keys, unread>>

\* The answer settles nothing: the page is not done, the provider reports an error,
\* or its answer cannot be read or is about another page.  None of that counts as
\* transient, so the callback is acknowledged with a 200 though the row stays open.
HookUnreadable(c) ==
  /\ Moot
  /\ call' = call \ {c}
  /\ IF c.saw THEN due' = due \ {c.row} /\ unread' = unread \cup {c.row}
               ELSE UNCHANGED <<due, unread>>
  /\ UNCHANGED <<opening, charged, tab, keys>>

\* Mutant: a transient failure is acknowledged too.
HookFailedAcks(c) ==
  /\ Moot
  /\ call' = call \ {c}
  /\ due' = due \ {c.row}
  /\ UNCHANGED <<opening, charged, tab, keys, unread>>

\* No answer, a timeout or a 5xx, the transient failures: 503, the provider keeps its
\* callback.
HookFailed(c) ==
  /\ Moot
  /\ call' = call \ {c}
  /\ UNCHANGED <<opening, charged, due, tab, keys, unread>>

-----------------------------------------------------------------------------
(* The order page: one load is a loop over the unpaid sessions, newest first. *)

MinOf(a, b) == IF a < b THEN a ELSE b
Later(rows, d) ==
  [r \in Rows |-> IF rows[r].clock = Unset THEN rows[r]
                  ELSE [rows[r] EXCEPT !.clock = MinOf(@ + d, Gap)]]

\* The buyer lands, reloads, or the page's own timer fires.
LoadStarts(t, d) ==
  /\ tab[t].at \in {"away", "still", "timer"}
  /\ row' = Later(row, d)
  /\ tab' = [tab EXCEPT ![t] = [TabOff EXCEPT
               !.at = "looping", !.todo = IF Paid THEN {} ELSE Askable,
               !.polls = IF tab[t].at = "timer" THEN tab[t].polls ELSE 0,
               !.paid = IF tab[t].at = "timer" THEN tab[t].paid ELSE charged]]
  /\ UNCHANGED <<opening, charged, due, call, keys, unread>>

Looping(t) == tab[t].at = "looping" /\ tab[t].todo # {} /\ tab[t].asked < PageCalls
Head(t) == Latest(tab[t].todo)
\* Mutant: the page's own bound on inquiries is left out.
RipeUnbounded(r) == Unpaid(r) /\ row[r].age # "old" /\ row[r].clock >= Gap
Ripe(r) == Unpaid(r) /\ row[r].tries < VerifyMax /\ row[r].age # "old" /\ row[r].clock >= Gap

\* Mutant: every row the loop looks at uses up a provider call.
LoadPassesCosts(t) ==
  /\ Looping(t) /\ ~Ripe(Head(t))
  /\ LET r == Head(t) IN
       row' = IF /\ row[r].clock = Unset /\ Unpaid(r)
                 /\ row[r].tries < VerifyMax /\ row[r].age # "old"
              THEN [row EXCEPT ![r].clock = 0] ELSE row
  /\ tab' = [tab EXCEPT ![t].todo = @ \ {Head(t)}, ![t].asked = @ + 1]
  /\ UNCHANGED <<opening, charged, due, call, keys, unread>>

\* A settled, exhausted, expired or throttled row costs nothing; a row never
\* asked about only starts its clock.
LoadPasses(t) ==
  /\ Looping(t) /\ ~Ripe(Head(t))
  /\ LET r == Head(t) IN
       row' = IF /\ row[r].clock = Unset /\ Unpaid(r)
                 /\ row[r].tries < VerifyMax /\ row[r].age # "old"
              THEN [row EXCEPT ![r].clock = 0] ELSE row
  /\ tab' = [tab EXCEPT ![t].todo = @ \ {Head(t)}]
  /\ UNCHANGED <<opening, charged, due, call, keys, unread>>

LoadAsks(t) ==
  /\ Looping(t) /\ Ripe(Head(t))
  /\ Claim(Head(t))
  /\ LET left == [tab[t] EXCEPT !.todo = @ \ {Head(t)}, !.asked = @ + 1] IN
       tab' = [tab EXCEPT ![t] =
         IF KeysFit(Head(t))
         THEN [left EXCEPT !.at = "asking", !.row = Head(t), !.saw = Head(t) \in charged]
         ELSE left]
  /\ UNCHANGED <<opening, charged, due, call, keys, unread>>

\* The loop stops on a settle of its own.
LoadAnswered(t) ==
  /\ tab[t].at = "asking"
  /\ LET r == tab[t].row
         back == [tab[t] EXCEPT !.at = "looping", !.row = 0, !.saw = FALSE]
     IN \/ /\ Confirm(r, tab[t].saw)
           /\ tab' = [tab EXCEPT ![t] = IF Unpaid(r) THEN [back EXCEPT !.todo = {}] ELSE back]
        \/ /\ Decline(r, tab[t].saw) \/ Moot
           /\ tab' = [tab EXCEPT ![t] = back]
  /\ UNCHANGED <<opening, charged, due, call, keys, unread>>

\* The page paints the answer, and arms its timer while the newest row is pending.
Waiting(t) ==
  /\ Verifying /\ Used # {} /\ row[Latest(Used)].status = "pending"
  /\ tab[t].polls < MaxPolls

LoadPaints(t) ==
  /\ tab[t].at = "looping" /\ ~Looping(t)
  /\ tab' = [tab EXCEPT ![t] =
       IF Waiting(t)
       THEN [TabOff EXCEPT !.at = "timer", !.polls = tab[t].polls + 1, !.paid = tab[t].paid]
       ELSE [TabOff EXCEPT !.at = "still"]]
  /\ UNCHANGED <<row, opening, charged, due, call, keys, unread>>

-----------------------------------------------------------------------------
(* The owner, the clock, the crash, and the buyer at the provider. *)

KeysChange(k) ==
  /\ keys # k
  /\ keys' = k
  /\ UNCHANGED <<row, opening, charged, due, call, tab, unread>>

\* SESSION_FRESH_MS pass, then VERIFY_WINDOW_MS; an older row is never the younger one.
Age(r) ==
  /\ row[r].status # "none" /\ row[r].age # "old"
  /\ row' = [s \in Rows |->
       IF s > r \/ row[s].status = "none" \/ row[s].age # row[r].age THEN row[s]
       ELSE [row[s] EXCEPT !.age = IF @ = "fresh" THEN "stale" ELSE "old"]]
  /\ UNCHANGED <<opening, charged, due, call, tab, keys, unread>>

ShopperPays(r) ==
  /\ row[r].session /\ r \notin charged
  /\ charged' = charged \cup {r}
  /\ due' = due \cup {r}
  /\ UNCHANGED <<row, opening, call, tab, keys, unread>>

\* What waits is forgotten: a callback in it is never answered, a page load fails.
Crash ==
  /\ opening # {} \/ call # {} \/ \E t \in Tabs : tab[t].at \in {"looping", "asking"}
  /\ opening' = {} /\ call' = {}
  /\ tab' = [t \in Tabs |-> IF tab[t].at \in {"looping", "asking"}
                            THEN [TabOff EXCEPT !.at = "still"] ELSE tab[t]]
  /\ UNCHANGED <<row, charged, due, keys, unread>>

Next ==
  \/ StartSession
  \/ \E r \in Rows : \/ SessionOpened(r) \/ SessionRefused(r)
                     \/ HookAcked(r) \/ HookMisfit(r) \/ HookAsks(r)
                     \/ Age(r) \/ ShopperPays(r)
  \/ \E c \in call : HookAnswered(c) \/ HookUnreadable(c) \/ HookFailed(c)
  \/ \E t \in Tabs : \/ \E d \in Elapsed : LoadStarts(t, d)
                     \/ LoadPasses(t) \/ LoadAsks(t) \/ LoadAnswered(t) \/ LoadPaints(t)
  \/ \E k \in Terminals \cup {None} : KeysChange(k)
  \/ Crash

Spec == Init /\ [][Next]_vars

HookHandled(r) == r \in due /\ (HookAcked(r) \/ HookMisfit(r) \/ HookAsks(r))
HookReturns(r) ==
  \E c \in call : c.row = r /\ (HookAnswered(c) \/ HookUnreadable(c) \/ HookFailed(c))
LoadGoesOn(t)  == LoadPasses(t) \/ LoadAsks(t) \/ LoadAnswered(t) \/ LoadPaints(t)

\* The provider resends a callback until it is acknowledged; a call ends with its
\* answer or with TIMEOUT_MS; a request that was taken is carried to its end.
FairSpec ==
  /\ Spec
  /\ \A r \in Rows : WF_vars(HookHandled(r)) /\ WF_vars(HookReturns(r))
  /\ \A t \in Tabs : WF_vars(LoadGoesOn(t))

-----------------------------------------------------------------------------
(* Properties. *)

TypeOK ==
  /\ row \in [Rows -> Row]
  /\ opening \subseteq Rows /\ charged \subseteq Rows /\ due \subseteq Rows /\ unread \subseteq Rows
  /\ call \subseteq Call
  /\ tab \in [Tabs -> Tab]
  /\ keys \in Terminals \cup {None}

\* The provider is told "done" of a charge only when the row is settled or has
\* cost all its inquiries: a crash, a transient failure, missing keys or a callback
\* of an earlier decline never acknowledge it (handleHook).  Two refusals do, and
\* leave the row open: the keys of another terminal, and an answer the code cannot
\* use, for only a transient failure is answered 503.
CallbackNotLost ==
  [][\A r \in due \ due' :
       \/ row'[r].status = "paid" \/ row[r].tries >= HookMax
       \/ (keys # None /\ ~KeysFit(r)) \/ r \in unread']_vars


\* A buyer who keeps reloading the order page gets every session asked about,
\* older tabs' too, until the order is paid or it is spent or a day old: throttled
\* and spent rows do not use up a load's provider calls (verifyForOrder).
ReloadsReachAll ==
  (\A t \in Tabs : []<><<LoadPaints(t)>>_vars /\ []<><<LoadStarts(t, Gap)>>_vars) =>
    \A r \in Rows : (r \in charged) ~>
      (~Unpaid(r) \/ Paid \/ row[r].age = "old" \/ row[r].tries >= VerifyMax)

-----------------------------------------------------------------------------
(* What the comments and the documents say, and the code does not keep. *)

\* "At most MAX_SESSIONS_PER_ORDER sessions ... per order" (gateway/index.js:30).
SessionsCapped == Cardinality(Sessions) <= MaxSessions

\* "a missed callback still settles the order when the buyer lands back, even on
\* an older tab's session" (gateway/index.js:45): a page that stops asking with
\* polls left has asked about what the buyer had paid when it was opened.
StopsWhenAllAsked ==
  [][\A t \in Tabs :
       LoadPaints(t) /\ tab'[t].at = "still" /\ tab[t].polls < MaxPolls /\ ~Paid
       => \A r \in tab[t].paid \cap Askable : row[r].tries > 0]_vars

=============================================================================

------------------------------ MODULE WhatsApp ------------------------------
(***************************************************************************)
(* WhatsApp (src/crm/wa-ledger.js, wa-send.js, wa-webhook.js and the       *)
(* erasure of a person in subject.js): the ledger decides a send from its  *)
(* own rows, the request goes to Meta behind an await, and its outcome is  *)
(* a row; Meta's webhook reports what customers wrote and what became of   *)
(* the messages, late, repeated and in any order.                          *)
(*                                                                         *)
(* Meta is external: it takes a request or not, keeps the customer-service *)
(* windows by the time the customer wrote, bills at delivery.  Time goes   *)
(* in ticks, Day of them to the 24 hours of a window and of the tier.      *)
(* Authentication templates, charged as marketing and free of the opt-in,  *)
(* are left out.                                                           *)
(***************************************************************************)
EXTENDS Integers, FiniteSets

CONSTANTS
  Phones,    \* the people
  NoPhone,   \* none of them
  Made,      \* bound: sends that get past the gate
  Mails,     \* bound: inbound messages
  Limit,     \* tierLimit
  Day,       \* ticks in CSW_HOURS, and in the tier's rolling day
  West,      \* ticks the server's clock is behind UTC, 0 at Greenwich or east of it
  Horizon,   \* bound: ticks
  Notices,   \* the delivery statuses Meta reports
  Restarts   \* bound: restarts of the server

ASSUME WhatsAppAssumption ==
  /\ Made \in Nat /\ Mails \in Nat /\ Limit \in Nat \ {0}
  /\ Day \in Nat \ {0} /\ Horizon \in Nat \ {0} /\ Restarts \in Nat /\ West \in Nat
  /\ Notices \subseteq {"sent", "delivered", "read", "failed"}
  /\ NoPhone \notin Phones

Sends    == 1 .. Made
Inbounds == 1 .. Mails
Ticks    == 0 .. Horizon

VARIABLES
  now,       \* the tick, from 1
  restarts,  \* restarts so far
  optin,     \* crm_wa_optins: phones with a live marketing opt-in
  expires,   \* crm_wa_windows: phone -> expires_at, 0 for no window
  send,      \* the sends and their rows in crm_wa_messages
  meta,      \* external: what Meta made of each send
  inbound,   \* the messages customers wrote and their rows
  told,      \* history: sends whose delivery Meta reported to a row that was there
  priced,    \* history: sends whose price came with a report to a row that was there
  most       \* history: the most sends that were ever on their way at the same time

vars == <<now, restarts, optin, expires, send, meta, inbound, told, priced, most>>

Rows == {"failed", "accepted", "sent", "delivered", "read"}

\* "asked" is the await of the request; "lost" and "erased" sends have no row.
Send == [at: {"none", "asked", "lost", "erased"} \cup Rows, phone: Phones \cup {NoPhone},
         kind: {"text", "utility", "marketing"}, outside: BOOLEAN, billable: BOOLEAN,
         wamid: BOOLEAN, created: Ticks, delivered: BOOLEAN]

\* took is when Meta took the request, 0 for never; inside, whether its window was open.
Meta == [took: Ticks, inside: BOOLEAN, phone: Phones \cup {NoPhone}]

\* came is created_at of the row, 0 for no row.
Inbound == [phone: Phones \cup {NoPhone}, wrote: Ticks, came: Ticks]

NoSend == [at |-> "none", phone |-> NoPhone, kind |-> "text", outside |-> FALSE,
           billable |-> FALSE, wamid |-> FALSE, created |-> 0, delivered |-> FALSE]
NoMeta == [took |-> 0, inside |-> FALSE, phone |-> NoPhone]
NoMail == [phone |-> NoPhone, wrote |-> 0, came |-> 0]

Init ==
  /\ now = 1 /\ restarts = 0 /\ optin = {} /\ told = {} /\ priced = {} /\ most = 0
  /\ expires = [p \in Phones |-> 0]
  /\ send = [s \in Sends |-> NoSend]
  /\ meta = [s \in Sends |-> NoMeta]
  /\ inbound = [m \in Inbounds |-> NoMail]

-----------------------------------------------------------------------------
(* The gate (decideSend): reads of the ledger only. *)

\* expires_at is UTC and read twice, as UTC and as a local time: the later one counts.
Open(p) == expires[p] # 0 /\ expires[p] + West > now

\* The outside-window rows of the rolling day.
Recent(s) == send[s].at \in Rows /\ send[s].outside /\ send[s].created > now - Day

CountedOutside == {send[s].phone : s \in {t \in Sends : Recent(t)}}

\* Mutant: one recipient more than the tier.
AllowedOneMore(p, kind) ==
  /\ kind = "marketing" => p \in optin
  /\ kind = "text" => Open(p)
  /\ ~Open(p) => p \in CountedOutside \/ Cardinality(CountedOutside) <= Limit

Allowed(p, kind) ==
  /\ kind = "marketing" => p \in optin
  /\ kind = "text" => Open(p)
  /\ ~Open(p) => p \in CountedOutside \/ Cardinality(CountedOutside) < Limit

\* classifyPricing: marketing costs everywhere, utility outside the window.
Priced(p, kind) == kind = "marketing" \/ (kind = "utility" /\ ~Open(p))

Flying == {s \in Sends : send[s].at = "asked"}

\* Meta's own window: Day from the time the customer wrote.
MetaOpen(p) ==
  \E m \in Inbounds : inbound[m].phone = p /\ inbound[m].wrote > 0 /\ inbound[m].wrote + Day > now

\* sendMessage up to its await; outside_csw and the pricing are those of the decision.
\* Meta gets the request and takes it, or not; its answer may be long in coming.
SendMessage(s, p, kind, taken) ==
  /\ \A t \in Sends : send[t].at = "none" <=> t >= s
  /\ Allowed(p, kind)
  /\ send' = [send EXCEPT ![s] = [NoSend EXCEPT !.at = "asked", !.phone = p, !.kind = kind,
                                    !.outside = ~Open(p), !.billable = Priced(p, kind)]]
  /\ meta' = IF taken THEN [meta EXCEPT ![s] = [took |-> now, inside |-> MetaOpen(p), phone |-> p]]
                      ELSE meta
  /\ most' = IF Cardinality(Flying) < most THEN most ELSE Cardinality(Flying) + 1
  /\ UNCHANGED <<now, restarts, optin, expires, inbound, told, priced>>

\* 200 with a message id.
Accepted(s) ==
  /\ send[s].at = "asked" /\ meta[s].took > 0
  /\ send' = [send EXCEPT ![s].at = "accepted", ![s].wamid = TRUE, ![s].created = now]
  /\ UNCHANGED <<now, restarts, optin, expires, meta, inbound, told, most, priced>>

\* Refused, timed out, or an answer that does not parse: a failed row, whatever Meta
\* made of the request.
Unheard(s) ==
  /\ send[s].at = "asked"
  /\ send' = [send EXCEPT ![s].at = "failed", ![s].outside = FALSE, ![s].billable = FALSE,
                          ![s].created = now]
  /\ UNCHANGED <<now, restarts, optin, expires, meta, inbound, told, most, priced>>

\* The server restarts: the requests on their way leave no row.
Restart ==
  /\ restarts < Restarts /\ Flying # {}
  /\ restarts' = restarts + 1
  /\ send' = [s \in Sends |-> IF s \in Flying THEN [NoSend EXCEPT !.at = "lost"] ELSE send[s]]
  /\ UNCHANGED <<now, optin, expires, meta, inbound, told, most, priced>>

-----------------------------------------------------------------------------
(* The owner: opt-ins, and the erasure of a person. *)

GrantOptIn(p) ==
  /\ p \notin optin /\ optin' = optin \cup {p}
  /\ UNCHANGED <<now, restarts, expires, send, meta, inbound, told, most, priced>>

RevokeOptIn(p) ==
  /\ p \in optin /\ optin' = optin \ {p}
  /\ UNCHANGED <<now, restarts, expires, send, meta, inbound, told, most, priced>>

\* eraseContact: every row that holds the phone goes.
EraseContact(p) ==
  /\ optin' = optin \ {p}
  /\ expires' = [expires EXCEPT ![p] = 0]
  /\ send' = [s \in Sends |-> IF send[s].at \in Rows /\ send[s].phone = p
                              THEN [NoSend EXCEPT !.at = "erased"] ELSE send[s]]
  /\ inbound' = [m \in Inbounds |-> IF inbound[m].phone = p
                                    THEN [inbound[m] EXCEPT !.came = 0] ELSE inbound[m]]
  /\ told' = {s \in told : send[s].phone # p}
  /\ priced' = {s \in priced : send[s].phone # p}
  /\ UNCHANGED <<now, restarts, meta, most>>

-----------------------------------------------------------------------------
(* Meta, and its webhook. *)

\* It charges by the category and by its own window.
Charged(s) == send[s].kind = "marketing" \/ (send[s].kind = "utility" /\ ~meta[s].inside)

Known(s) == send[s].at \in Rows /\ send[s].wamid

Reported(s, notice, price) ==
  /\ told' = IF notice = "delivered" THEN told \cup {s} ELSE told
  /\ priced' = IF price THEN priced \cup {s} ELSE priced

\* Mutant: the price stays the one decided before the send.
StatusUnpriced(s, notice, price) ==
  /\ Known(s)
  /\ send' = [send EXCEPT ![s].at = notice,
                          ![s].delivered = @ \/ notice = "delivered"]
  /\ Reported(s, notice, price)
  /\ UNCHANGED <<now, restarts, optin, expires, meta, inbound, most>>

\* A status overwrites the one before it; whichever of them carries Meta's pricing
\* corrects the price.  Of a message whose id no row holds, nothing is kept
\* (processStatus, updateStatus).
Status(s, notice, price) ==
  /\ Known(s)
  /\ send' = [send EXCEPT ![s].at = notice,
                          ![s].delivered = @ \/ notice = "delivered",
                          ![s].billable = IF price THEN Charged(s) ELSE @]
  /\ Reported(s, notice, price)
  /\ UNCHANGED <<now, restarts, optin, expires, meta, inbound, most>>

\* A customer writes; the webhook comes when it comes.
Writes(m, p) ==
  /\ \A i \in Inbounds : inbound[i].wrote = 0 <=> i >= m
  /\ inbound' = [inbound EXCEPT ![m] = [NoMail EXCEPT !.phone = p, !.wrote = now]]
  /\ UNCHANGED <<now, restarts, optin, expires, send, meta, told, most, priced>>

\* Mutant: every window lasts as long as one that an ad opened.
OpenedForAd(p) == expires' = [expires EXCEPT ![p] = now + 3 * Day]

Opened(p) == expires' = [expires EXCEPT ![p] = now + Day]

\* Mutant: the window opens before the repeated id is noticed.
ArrivesOpeningFirst(m) ==
  /\ inbound[m].wrote > 0
  /\ Opened(inbound[m].phone)
  /\ inbound' = [inbound EXCEPT ![m].came = IF @ = 0 THEN now ELSE @]
  /\ UNCHANGED <<now, restarts, optin, send, meta, told, most, priced>>

\* Its webhook, for the first time or again: Meta repeats it until a 2xx gets through.
\* A row with its id is there already or is written now, and only then the window
\* opens, from now on (processInbound, recordMessage, openWindow).
Arrives(m) ==
  /\ inbound[m].wrote > 0
  /\ IF inbound[m].came = 0
     THEN inbound' = [inbound EXCEPT ![m].came = now] /\ Opened(inbound[m].phone)
     ELSE UNCHANGED <<inbound, expires>>
  /\ UNCHANGED <<now, restarts, optin, send, meta, told, most, priced>>

Tick ==
  /\ now < Horizon /\ now' = now + 1
  /\ UNCHANGED <<restarts, optin, expires, send, meta, inbound, told, most, priced>>

Next ==
  \/ Tick \/ Restart
  \/ \E p \in Phones :
       \/ GrantOptIn(p) \/ RevokeOptIn(p) \/ EraseContact(p)
       \/ \E m \in Inbounds : Writes(m, p)
  \/ \E s \in Sends :
       \/ Accepted(s) \/ Unheard(s)
       \/ \E p \in Phones, kind \in {"text", "utility", "marketing"}, taken \in BOOLEAN :
            SendMessage(s, p, kind, taken)
       \/ \E notice \in Notices, price \in BOOLEAN : Status(s, notice, price)
  \/ \E m \in Inbounds : Arrives(m)

Spec == Init /\ [][Next]_vars

-----------------------------------------------------------------------------
(* Properties. *)

TypeOK ==
  /\ now \in Ticks /\ restarts \in 0 .. Restarts
  /\ optin \subseteq Phones /\ told \subseteq Sends /\ priced \subseteq Sends /\ most \in 0 .. Made
  /\ expires \in [Phones -> 0 .. Horizon + Day]
  /\ send \in [Sends -> Send]
  /\ meta \in [Sends -> Meta]
  /\ inbound \in [Inbounds -> Inbound]

\* The requests Meta took in the last day outside its own window, and for whom:
\* that is what Meta's tier counts, whatever became of the rows here.
TakenOutside == {s \in Sends : meta[s].took > 0 /\ meta[s].took > now - Day /\ ~meta[s].inside}
Reached      == {meta[s].phone : s \in TakenOutside}

\* Those the ledger does not know of: lost in a restart, erased with the person,
\* recorded as failed because nobody heard the answer, or sent in a window that is
\* open here and closed at Meta (all but the first two are rows with outside_csw = 0).
Missed == {s \in TakenOutside : send[s].at \in {"lost", "erased"} \/ ~send[s].outside}

\* "The tier ceiling: refuse locally BEFORE Meta refuses for us" (wa-ledger.js:202):
\* Meta takes requests for more people in a day than the tier allows only by one for
\* every send that was on its way while another was decided, and by the people of
\* the sends the ledger missed; nothing that ages out, is repeated, is answered late
\* or is reported afterwards adds to that.
QuotaHolds ==
  Cardinality(Reached) < Limit + most + Cardinality({meta[s].phone : s \in Missed})

\* "silently, before it can trip the UNIQUE index or re-extend the window"
\* (wa-ledger.js:276): a window lasts Day from the first arrival of the latest
\* message of that person that is on record, and webhooks that come again never
\* lengthen it.
WindowIsEarned ==
  \A p \in Phones :
    /\ \A m \in Inbounds : inbound[m].phone = p /\ inbound[m].came > 0
                             => inbound[m].came + Day <= expires[p]
    /\ expires[p] # 0 => \E m \in Inbounds : /\ inbound[m].phone = p /\ inbound[m].came > 0
                                             /\ expires[p] = inbound[m].came + Day

\* spendEstimate: delivered rows that bill.
InEstimate(s) == send[s].at \in Rows /\ send[s].billable /\ send[s].delivered

\* A utility template the two windows disagree about has the ledger's price until
\* Meta's comes.
Mispriced(s) == s \notin priced /\ send[s].kind = "utility" /\ send[s].outside = meta[s].inside

\* "... from DELIVERED billable rows - because Meta charges at delivery"
\* (wa-ledger.js:364): the estimate counts exactly the messages Meta billed and
\* reported as delivered while their row was there, at whatever price they were sent,
\* in whatever order and however often the reports came, with a price or without:
\* the price decided before the send is wrong only where the windows disagreed.
SpendIsBilled == \A s \in Sends : ~Mispriced(s) => (InEstimate(s) <=> s \in told /\ Charged(s))

-----------------------------------------------------------------------------
(* What the comments say, and the code does not keep. *)

\* "Nothing left the building." (wa-send.js:122)
FailedSentNothing == \A s \in Sends : send[s].at = "failed" /\ ~send[s].wamid => meta[s].took = 0

\* "refuse locally BEFORE Meta refuses" (wa-ledger.js:202): never more than the tier.
TierHolds == Cardinality(Reached) <= Limit

\* "Free-form only while the window is open" (wa-ledger.js:195): what Meta takes as
\* text it takes within its own window.
TextInWindow ==
  \A s \in Sends : send[s].at \in Rows \cup {"asked"} /\ send[s].kind = "text" /\ meta[s].took > 0
                    => meta[s].inside

=============================================================================

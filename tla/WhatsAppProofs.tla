--------------------------- MODULE WhatsAppProofs ---------------------------
(***************************************************************************)
(* What WhatsApp.tla keeps for every number of people, sends and messages, *)
(* every tier and every length of a window.                                *)
(***************************************************************************)
EXTENDS WhatsApp, FiniteSetTheorems, TLAPS

\* What the ledger decided a send will cost, by its own window.
Decided(s) == send[s].kind = "marketing" \/ (send[s].kind = "utility" /\ send[s].outside)

\* A send is told of, stamped as delivered and priced by Meta only while its row is
\* there; its price is the decided one until Meta's comes, and Meta's from then on.
SendSound(s) ==
  /\ send[s].delivered <=> s \in told
  /\ s \in told \cup priced => Known(s)
  /\ send[s].at = "asked" => ~send[s].wamid
  /\ s \in priced => (send[s].billable <=> Charged(s))
  /\ s \notin priced /\ (send[s].at = "asked" \/ Known(s)) => (send[s].billable <=> Decided(s))

SendsSound ==
  /\ send \in [Sends -> Send] /\ meta \in [Sends -> Meta]
  /\ told \subseteq Sends /\ priced \subseteq Sends
  /\ \A s \in Sends : SendSound(s)

\* What Meta took was asked for before its row was written, and for the same person.
TookSound ==
  \A s \in Sends : meta[s].took > 0 =>
    /\ send[s].at # "none" /\ meta[s].took <= now
    /\ send[s].at \in Rows \cup {"asked"} => meta[s].phone = send[s].phone
    /\ send[s].at \in Rows => meta[s].took <= send[s].created

\* A message is on record only after it was written, and not from a time to come.
MailsSound ==
  /\ now \in Ticks /\ now > 0
  /\ expires \in [Phones -> 0 .. Horizon + Day]
  /\ inbound \in [Inbounds -> Inbound]
  /\ \A m \in Inbounds :
       /\ inbound[m].came <= now
       /\ inbound[m].wrote = 0 => inbound[m].came = 0
       /\ inbound[m].wrote > 0 => inbound[m].phone \in Phones
  /\ WindowIsEarned

\* Whom the tier counts or may come to count: the rows of the day, and the sends on
\* their way outside the window.
FlyingOutside == {s \in Sends : send[s].at = "asked" /\ send[s].outside}
Aimed == CountedOutside \cup {send[s].phone : s \in FlyingOutside}

TierSound ==
  /\ most \in 0 .. Made
  /\ Cardinality(Aimed) < Limit + most

RestSound == restarts \in 0 .. Restarts /\ optin \subseteq Phones

IInv == SendsSound /\ TookSound /\ MailsSound /\ TierSound /\ RestSound

-----------------------------------------------------------------------------
(* The sends: types, and what the estimate counts. *)

\* One send changes, into one of its type.
LEMMA OneSend ==
  ASSUME SendsSound, NEW s \in Sends, NEW v \in Send, send' = [send EXCEPT ![s] = v]
  PROVE  /\ send' \in [Sends -> Send] /\ send'[s] = v
         /\ \A t \in Sends \ {s} : send'[t] = send[t]
  BY DEF SendsSound

\* A send that nothing happens to stays sound.
LEMMA SameSend ==
  ASSUME NEW s \in Sends, SendSound(s), send'[s] = send[s], meta'[s] = meta[s],
         s \in told' <=> s \in told, s \in priced' <=> s \in priced
  PROVE  SendSound(s)'
BY DEF SendSound, Known, Charged, Decided

LEMMA RequestKeeps ==
  ASSUME SendsSound, now \in Ticks, NEW s \in Sends, NEW p \in Phones,
         NEW kind \in {"text", "utility", "marketing"}, NEW taken \in BOOLEAN,
         SendMessage(s, p, kind, taken)
  PROVE  SendsSound'
<1> DEFINE v == [NoSend EXCEPT !.at = "asked", !.phone = p, !.kind = kind,
                              !.outside = ~Open(p), !.billable = Priced(p, kind)]
           n == [took |-> now, inside |-> MetaOpen(p), phone |-> p]
<1>1. send[s].at = "none" /\ s \notin told /\ s \notin priced
  <2>1. s >= s
    BY WhatsAppAssumption DEF Sends
  <2>2. send[s].at = "none"
    BY <2>1 DEF SendMessage
  <2>3. QED
    BY <2>2 DEF SendsSound, SendSound, Known, Rows
<1>2. Open(p) \in BOOLEAN /\ Priced(p, kind) \in BOOLEAN /\ MetaOpen(p) \in BOOLEAN
  BY DEF Open, Priced, MetaOpen
<1>3. NoSend \in Send
  BY WhatsAppAssumption DEF NoSend, Send, Rows, Ticks
<1>4. v \in Send
  BY <1>2, <1>3 DEF Send, Rows
<1>5. /\ v.at = "asked" /\ v.delivered = FALSE /\ v.wamid = FALSE /\ v.kind = kind
      /\ v.outside = ~Open(p) /\ v.billable = Priced(p, kind)
  BY DEF NoSend
<1>6. n \in Meta
  BY <1>2 DEF Meta
<1>7. send' = [send EXCEPT ![s] = v] /\ told' = told /\ priced' = priced
  BY DEF SendMessage
<1>8. /\ meta' \in [Sends -> Meta]
      /\ \A t \in Sends \ {s} : meta'[t] = meta[t]
  BY <1>6 DEF SendMessage, SendsSound
<1> HIDE DEF v, n
<1>9. /\ send' \in [Sends -> Send] /\ send'[s] = v
      /\ \A t \in Sends \ {s} : send'[t] = send[t]
  BY <1>4, <1>7, OneSend
<1>10. \A t \in Sends \ {s} : SendSound(t)'
  BY <1>7, <1>8, <1>9, SameSend DEF SendsSound
<1>11. SendSound(s)'
  BY <1>1, <1>5, <1>7, <1>9 DEF SendSound, Known, Decided, Priced
<1>12. QED
  BY <1>7, <1>8, <1>9, <1>10, <1>11 DEF SendsSound

LEMMA AnswerKeeps ==
  ASSUME SendsSound, now \in Ticks, NEW s \in Sends, Accepted(s) \/ Unheard(s)
  PROVE  SendsSound'
<1> DEFINE a == [send[s] EXCEPT !.at = "accepted", !.wamid = TRUE, !.created = now]
           u == [send[s] EXCEPT !.at = "failed", !.outside = FALSE, !.billable = FALSE, !.created = now]
<1>1. /\ send[s] \in Send /\ send[s].at = "asked" /\ SendSound(s)
      /\ s \notin told /\ s \notin priced
  BY DEF Accepted, Unheard, SendsSound, SendSound, Known, Rows
<1>2. a \in Send /\ u \in Send
  BY <1>1 DEF Send, Rows
<1>3. /\ a.delivered = send[s].delivered /\ u.delivered = send[s].delivered
      /\ a.at = "accepted" /\ u.at = "failed" /\ u.wamid = send[s].wamid
      /\ a.billable = send[s].billable /\ a.kind = send[s].kind /\ a.outside = send[s].outside
  BY <1>1 DEF Send
<1>4. /\ send' = [send EXCEPT ![s] = a] \/ send' = [send EXCEPT ![s] = u]
      /\ told' = told /\ priced' = priced /\ meta' = meta
  BY DEF Accepted, Unheard, SendsSound
<1> HIDE DEF a, u
<1>5. /\ send' \in [Sends -> Send] /\ send'[s] \in {a, u}
      /\ \A t \in Sends \ {s} : send'[t] = send[t]
  BY <1>2, <1>4, OneSend
<1>6. \A t \in Sends \ {s} : SendSound(t)'
  BY <1>4, <1>5, SameSend DEF SendsSound
<1>7. SendSound(s)'
  <2>1. CASE send'[s] = a
    BY <1>1, <1>3, <1>4, <2>1 DEF SendSound, Known, Decided
  <2>2. CASE send'[s] = u
    BY <1>1, <1>3, <1>4, <2>2 DEF SendSound, Known, Decided
  <2>3. QED
    BY <1>5, <2>1, <2>2
<1>8. QED
  BY <1>4, <1>5, <1>6, <1>7 DEF SendsSound

\* A report that comes again, or behind a later one, brings Meta's price or none.
LEMMA StatusKeeps ==
  ASSUME SendsSound, NEW s \in Sends, NEW notice \in Notices, NEW price \in BOOLEAN,
         Status(s, notice, price)
  PROVE  SendsSound'
<1> DEFINE v == [send[s] EXCEPT !.at = notice,
                               !.delivered = send[s].delivered \/ notice = "delivered",
                               !.billable = IF price THEN Charged(s) ELSE send[s].billable]
<1>1. /\ send[s] \in Send /\ notice \in Rows /\ Charged(s) \in BOOLEAN
      /\ send[s].delivered \in BOOLEAN /\ send[s].billable \in BOOLEAN
  BY WhatsAppAssumption DEF SendsSound, Rows, Charged, Send
<1>2. v \in Send
  BY <1>1 DEF Send
<1>3. /\ v.at = notice /\ v.kind = send[s].kind /\ v.wamid = send[s].wamid
      /\ v.outside = send[s].outside
      /\ v.delivered <=> send[s].delivered \/ notice = "delivered"
      /\ v.billable = IF price THEN Charged(s) ELSE send[s].billable
  BY <1>1 DEF Send
<1>4. /\ send' = [send EXCEPT ![s] = v]
      /\ told' = IF notice = "delivered" THEN told \cup {s} ELSE told
      /\ priced' = IF price THEN priced \cup {s} ELSE priced
      /\ meta' = meta
  BY DEF Status, Reported, SendsSound
<1> HIDE DEF v
<1>5. /\ send' \in [Sends -> Send] /\ send'[s] = v
      /\ \A t \in Sends \ {s} : send'[t] = send[t]
  BY <1>2, <1>4, OneSend
<1>6. \A t \in Sends \ {s} : SendSound(t)'
  <2>1. \A t \in Sends \ {s} : (t \in told' <=> t \in told) /\ (t \in priced' <=> t \in priced)
    BY <1>4
  <2>2. QED
    BY <1>4, <1>5, <2>1, SameSend DEF SendsSound
<1>7. SendSound(s)'
  <2>1. SendSound(s) /\ Known(s) /\ send[s].wamid
    BY DEF SendsSound, Status, Known
  <2>2. Known(s)' /\ (Charged(s)' <=> Charged(s)) /\ (Decided(s)' <=> Decided(s))
        /\ send'[s].wamid
    BY <1>1, <1>3, <1>4, <1>5, <2>1 DEF Known, Charged, Decided
  <2>3. send'[s].delivered <=> s \in told'
    BY <1>3, <1>4, <1>5, <2>1 DEF SendSound
  <2>4. s \in priced' => (send'[s].billable <=> Charged(s)')
    BY <1>3, <1>4, <1>5, <2>1, <2>2 DEF SendSound
  <2>5. s \notin priced' => (send'[s].billable <=> Decided(s)')
    BY <1>3, <1>4, <1>5, <2>1, <2>2 DEF SendSound
  <2>6. send'[s].at # "asked"
    BY <1>1, <1>3, <1>5 DEF Rows
  <2>7. QED
    BY <2>2, <2>3, <2>4, <2>5, <2>6 DEF SendSound
<1>8. told' \subseteq Sends /\ priced' \subseteq Sends
  BY <1>4 DEF SendsSound
<1>9. QED
  BY <1>4, <1>5, <1>6, <1>7, <1>8 DEF SendsSound

\* Sends that vanish were not told of, or are forgotten there, too.
LEMMA VanishKeeps ==
  ASSUME SendsSound, NEW gone \in SUBSET Sends, NEW at \in {"lost", "erased"},
         send' = [s \in Sends |-> IF s \in gone THEN [NoSend EXCEPT !.at = at] ELSE send[s]],
         told' = told \ gone, priced' = priced \ gone, meta' = meta
  PROVE  SendsSound'
<1> DEFINE v == [NoSend EXCEPT !.at = at]
<1>1. NoSend \in Send
  BY WhatsAppAssumption DEF NoSend, Send, Rows, Ticks
<1>2. v \in Send /\ ~v.delivered /\ v.at \notin Rows \cup {"asked"}
  BY <1>1 DEF Send, NoSend, Rows
<1> HIDE DEF v
<1>3. send' \in [Sends -> Send]
  BY <1>2 DEF SendsSound, v
<1>4. \A s \in Sends : send'[s] = IF s \in gone THEN v ELSE send[s]
  BY DEF v
<1>5. \A s \in Sends \ gone : SendSound(s)'
  BY <1>4, SameSend DEF SendsSound
<1>6. \A s \in gone : SendSound(s)'
  BY <1>2, <1>4 DEF SendSound, Known
<1>7. QED
  BY <1>3, <1>5, <1>6 DEF SendsSound

LEMMA SendsKeep ==
  ASSUME IInv, [Next]_vars
  PROVE  SendsSound'
<1>0. SendsSound /\ now \in Ticks
  BY DEF IInv, MailsSound
<1>1. ASSUME UNCHANGED <<send, meta, told, priced>> PROVE SendsSound'
  <2>1. \A s \in Sends : SendSound(s)'
    BY <1>0, <1>1, SameSend DEF SendsSound
  <2>2. QED
    BY <1>0, <1>1, <2>1 DEF SendsSound
<1>2. CASE Restart
  <2>1. told' = told \ Flying /\ priced' = priced \ Flying /\ Flying \in SUBSET Sends
    BY <1>0, <1>2 DEF Restart, Flying, SendsSound, SendSound, Known, Rows
  <2>2. QED
    BY <1>0, <1>2, <2>1, VanishKeeps DEF Restart
<1>3. ASSUME NEW p \in Phones, EraseContact(p) PROVE SendsSound'
  <2> DEFINE gone == {s \in Sends : send[s].at \in Rows /\ send[s].phone = p}
  <2>1. told' = told \ gone /\ priced' = priced \ gone
    BY <1>0, <1>3 DEF EraseContact, SendsSound, SendSound, Known
  <2>2. /\ send' = [s \in Sends |-> IF s \in gone THEN [NoSend EXCEPT !.at = "erased"] ELSE send[s]]
        /\ meta' = meta
    BY <1>3 DEF EraseContact
  <2>3. gone \in SUBSET Sends
    OBVIOUS
  <2> HIDE DEF gone
  <2>4. QED
    BY <1>0, <2>1, <2>2, <2>3, VanishKeeps
<1>4. ASSUME NEW s \in Sends, Accepted(s) \/ Unheard(s) PROVE SendsSound'
  BY <1>0, <1>4, AnswerKeeps
<1>5. ASSUME NEW s \in Sends, NEW p \in Phones, NEW kind \in {"text", "utility", "marketing"},
             NEW taken \in BOOLEAN, SendMessage(s, p, kind, taken)
      PROVE  SendsSound'
  BY <1>0, <1>5, RequestKeeps
<1>6. ASSUME NEW s \in Sends, NEW notice \in Notices, NEW price \in BOOLEAN,
             Status(s, notice, price)
      PROVE  SendsSound'
  BY <1>0, <1>6, StatusKeeps
<1>7. CASE Tick
  BY <1>1, <1>7 DEF Tick
<1>8. ASSUME NEW p \in Phones, GrantOptIn(p) \/ RevokeOptIn(p) PROVE SendsSound'
  BY <1>1, <1>8 DEF GrantOptIn, RevokeOptIn
<1>9. ASSUME NEW m \in Inbounds, Arrives(m) \/ \E p \in Phones : Writes(m, p) PROVE SendsSound'
  BY <1>1, <1>9 DEF Arrives, Writes
<1>10. CASE UNCHANGED vars
  BY <1>1, <1>10 DEF vars
<1>11. QED
  BY <1>2, <1>3, <1>4, <1>5, <1>6, <1>7, <1>8, <1>9, <1>10 DEF Next

-----------------------------------------------------------------------------
(* What Meta took. *)

LEMMA TookKeeps ==
  ASSUME IInv, [Next]_vars
  PROVE  TookSound'
<1>0. /\ TookSound /\ SendsSound /\ now \in Nat
      /\ \A s \in Sends : meta[s].took \in Nat /\ send[s].created \in Nat
  BY WhatsAppAssumption DEF IInv, MailsSound, SendsSound, Ticks, Meta, Send
\* Nothing new is taken, and the rows keep what they say.
<1>1. ASSUME meta' = meta, now' \in Nat, now <= now',
             \A s \in Sends :
               \/ send'[s] = send[s]
               \/ send'[s].at \in {"lost", "erased"}
               \/ /\ send[s].at \in Rows /\ send'[s].at \in Rows
                  /\ send'[s].phone = send[s].phone /\ send'[s].created = send[s].created
               \/ /\ send[s].at = "asked" /\ send'[s].at \in Rows
                  /\ send'[s].phone = send[s].phone /\ send'[s].created = now
      PROVE  TookSound'
  BY <1>0, <1>1 DEF TookSound, Rows
<1>2. CASE Tick
  BY <1>0, <1>1, <1>2 DEF Tick
<1>3. CASE Restart
  BY <1>0, <1>1, <1>3 DEF Restart, NoSend
<1>4. ASSUME NEW p \in Phones, EraseContact(p) PROVE TookSound'
  BY <1>0, <1>1, <1>4 DEF EraseContact, NoSend
<1>5. ASSUME NEW s \in Sends, Accepted(s) \/ Unheard(s) PROVE TookSound'
  <2>1. \A t \in Sends \ {s} : send'[t] = send[t]
    BY <1>0, <1>5 DEF Accepted, Unheard, SendsSound
  <2>2. /\ send[s].at = "asked" /\ send'[s].at \in Rows /\ send'[s].phone = send[s].phone
        /\ send'[s].created = now
    BY <1>0, <1>5 DEF Accepted, Unheard, SendsSound, Send, Rows
  <2>3. QED
    BY <1>0, <1>1, <1>5, <2>1, <2>2 DEF Accepted, Unheard
<1>6. ASSUME NEW s \in Sends, NEW notice \in Notices, NEW price \in BOOLEAN,
             Status(s, notice, price)
      PROVE  TookSound'
  <2>1. \A t \in Sends \ {s} : send'[t] = send[t]
    BY <1>0, <1>6 DEF Status, SendsSound
  <2>2. /\ send[s].at \in Rows /\ send'[s].at \in Rows /\ send'[s].phone = send[s].phone
        /\ send'[s].created = send[s].created
    BY <1>0, <1>6, WhatsAppAssumption DEF Status, Known, SendsSound, Send, Rows
  <2>3. now' = now /\ meta' = meta
    BY <1>6 DEF Status
  <2>4. QED
    BY <1>0, <1>1, <2>1, <2>2, <2>3
<1>7. ASSUME NEW s \in Sends, NEW p \in Phones, NEW kind \in {"text", "utility", "marketing"},
             NEW taken \in BOOLEAN, SendMessage(s, p, kind, taken)
      PROVE  TookSound'
  <2>1. s >= s
    BY WhatsAppAssumption DEF Sends
  <2>2. send[s].at = "none" /\ now' = now
    BY <1>7, <2>1 DEF SendMessage
  <2>3. \A t \in Sends \ {s} : send'[t] = send[t] /\ meta'[t] = meta[t]
    BY <1>0, <1>7 DEF SendMessage, SendsSound
  <2>4. /\ send'[s].at = "asked" /\ send'[s].phone = p
        /\ meta'[s] = meta[s] \/ (meta'[s].took = now /\ meta'[s].phone = p)
    BY <1>0, <1>7 DEF SendMessage, SendsSound, NoSend
  <2>5. \A t \in Sends \ {s} : meta'[t].took > 0 =>
          /\ send'[t].at # "none" /\ meta'[t].took <= now'
          /\ send'[t].at \in Rows \cup {"asked"} => meta'[t].phone = send'[t].phone
          /\ send'[t].at \in Rows => meta'[t].took <= send'[t].created
    BY <1>0, <2>2, <2>3 DEF TookSound
  <2>6. meta[s].took = 0
    BY <1>0, <2>2 DEF TookSound
  <2>7. QED
    BY <1>0, <2>2, <2>4, <2>5, <2>6 DEF TookSound, Rows
<1>8. ASSUME NEW p \in Phones, GrantOptIn(p) \/ RevokeOptIn(p) PROVE TookSound'
  BY <1>0, <1>1, <1>8 DEF GrantOptIn, RevokeOptIn
<1>9. ASSUME NEW m \in Inbounds, Arrives(m) \/ \E p \in Phones : Writes(m, p) PROVE TookSound'
  <2>1. UNCHANGED <<now, send, meta>>
    BY <1>9 DEF Arrives, Writes
  <2>2. QED
    BY <1>0, <1>1, <2>1
<1>10. CASE UNCHANGED vars
  BY <1>0, <1>1, <1>10 DEF vars
<1>11. QED
  BY <1>2, <1>3, <1>4, <1>5, <1>6, <1>7, <1>8, <1>9, <1>10 DEF Next

-----------------------------------------------------------------------------
(* The windows. *)

LEMMA ArrivesKeeps ==
  ASSUME MailsSound, NEW m \in Inbounds, Arrives(m)
  PROVE  MailsSound'
<1>1. CASE inbound[m].came # 0
  BY <1>1 DEF Arrives, MailsSound, WindowIsEarned
<1>2. CASE inbound[m].came = 0
  <2> DEFINE p == inbound[m].phone
             v == [inbound[m] EXCEPT !.came = now]
  <2>1. p \in Phones /\ inbound[m] \in Inbound /\ now \in Nat /\ now > 0 /\ now <= Horizon
    BY WhatsAppAssumption DEF Arrives, MailsSound, Ticks
  <2>2. /\ inbound' = [inbound EXCEPT ![m] = v] /\ expires' = [expires EXCEPT ![p] = now + Day]
        /\ now' = now
    BY <1>2 DEF Arrives, Opened
  <2>3. /\ v \in Inbound /\ v.phone = p /\ v.came = now /\ v.wrote = inbound[m].wrote
        /\ v.wrote > 0
    BY <2>1 DEF Inbound, Ticks, Arrives, MailsSound
  <2> HIDE DEF v
  <2>4. /\ inbound' \in [Inbounds -> Inbound] /\ inbound'[m] = v
        /\ \A i \in Inbounds \ {m} : inbound'[i] = inbound[i]
    BY <2>2, <2>3 DEF MailsSound
  <2>5. /\ expires' \in [Phones -> 0 .. Horizon + Day] /\ expires'[p] = now + Day
        /\ \A q \in Phones \ {p} : expires'[q] = expires[q]
    <3>1. now + Day \in 0 .. Horizon + Day
      BY <2>1, WhatsAppAssumption
    <3> HIDE DEF p
    <3>2. QED
      BY <2>1, <2>2, <3>1 DEF MailsSound
  <2>6. \A i \in Inbounds : inbound[i].came \in Nat /\ inbound[i].came <= now
    BY WhatsAppAssumption DEF MailsSound, Inbound, Ticks
  <2>7. \A q \in Phones, i \in Inbounds :
          inbound'[i].phone = q /\ inbound'[i].came > 0 => inbound'[i].came + Day <= expires'[q]
    <3>1. ASSUME NEW i \in Inbounds, NEW q \in Phones, inbound'[i].phone = q, inbound'[i].came > 0
          PROVE  inbound'[i].came + Day <= expires'[q]
      <4>1. inbound'[i].came <= now /\ inbound'[i].came \in Nat
        BY <2>1, <2>3, <2>4, <2>6
      <4>2. CASE q = p
        BY <2>1, <2>5, <4>1, <4>2, WhatsAppAssumption
      <4>3. CASE q # p
        <5>1. i # m /\ inbound'[i] = inbound[i]
          BY <2>3, <2>4, <3>1, <4>3
        <5>2. QED
          BY <2>5, <3>1, <4>3, <5>1 DEF MailsSound, WindowIsEarned
      <4>4. QED
        BY <4>2, <4>3
    <3>2. QED
      BY <3>1
  <2>8. \A q \in Phones : expires'[q] # 0 =>
          \E i \in Inbounds : /\ inbound'[i].phone = q /\ inbound'[i].came > 0
                              /\ expires'[q] = inbound'[i].came + Day
    <3> SUFFICES ASSUME NEW q \in Phones, expires'[q] # 0
                 PROVE  \E i \in Inbounds : /\ inbound'[i].phone = q /\ inbound'[i].came > 0
                                            /\ expires'[q] = inbound'[i].came + Day
      OBVIOUS
    <3>1. CASE q = p
      BY <2>1, <2>3, <2>4, <2>5, <3>1
    <3>2. CASE q # p
      <4>1. PICK i \in Inbounds : /\ inbound[i].phone = q /\ inbound[i].came > 0
                                  /\ expires[q] = inbound[i].came + Day
        BY <2>5, <3>2 DEF MailsSound, WindowIsEarned
      <4>2. i # m
        BY <1>2, <4>1
      <4>3. QED
        BY <2>4, <2>5, <3>2, <4>1, <4>2
    <3>3. QED
      BY <3>1, <3>2
  <2>9. \A i \in Inbounds : /\ inbound'[i].came <= now
                            /\ inbound'[i].wrote = 0 => inbound'[i].came = 0
                            /\ inbound'[i].wrote > 0 => inbound'[i].phone \in Phones
    BY <2>1, <2>3, <2>4, <2>6 DEF MailsSound
  <2>10. QED
    BY <2>2, <2>4, <2>5, <2>7, <2>8, <2>9 DEF MailsSound, WindowIsEarned
<1>3. QED
  BY <1>1, <1>2

\* A message that was just written is nowhere on record.
LEMMA WritesKeeps ==
  ASSUME MailsSound, NEW m \in Inbounds, NEW p \in Phones, Writes(m, p)
  PROVE  MailsSound'
<1> DEFINE v == [NoMail EXCEPT !.phone = p, !.wrote = now]
<1>1. inbound[m].wrote = 0 /\ inbound[m].came = 0 /\ now \in Ticks /\ now > 0 /\ now \in Nat
  <2>1. inbound[m].wrote = 0 <=> m >= m
    BY DEF Writes
  <2>2. m >= m
    BY WhatsAppAssumption DEF Inbounds
  <2>3. QED
    BY <2>1, <2>2, WhatsAppAssumption DEF MailsSound, Ticks
<1>2. /\ v \in Inbound /\ v.phone = p /\ v.wrote = now /\ v.came = 0
  <2>1. NoMail \in Inbound /\ NoMail.came = 0
    BY WhatsAppAssumption DEF NoMail, Inbound, Ticks
  <2>2. QED
    BY <1>1, <2>1 DEF Inbound
<1>3. inbound' = [inbound EXCEPT ![m] = v] /\ UNCHANGED <<now, expires>>
  BY DEF Writes
<1> HIDE DEF v
<1>4. /\ inbound' \in [Inbounds -> Inbound] /\ inbound'[m] = v
      /\ \A i \in Inbounds \ {m} : inbound'[i] = inbound[i]
  BY <1>2, <1>3 DEF MailsSound
<1>5. \A i \in Inbounds : /\ inbound'[i].came <= now
                          /\ inbound'[i].wrote = 0 => inbound'[i].came = 0
                          /\ inbound'[i].wrote > 0 => inbound'[i].phone \in Phones
  BY <1>1, <1>2, <1>4 DEF MailsSound
<1>6. \A q \in Phones, i \in Inbounds :
        inbound'[i].phone = q /\ inbound'[i].came > 0 => inbound'[i].came + Day <= expires[q]
  BY <1>2, <1>4 DEF MailsSound, WindowIsEarned
<1>7. ASSUME NEW q \in Phones, expires[q] # 0
      PROVE  \E i \in Inbounds : /\ inbound'[i].phone = q /\ inbound'[i].came > 0
                                 /\ expires[q] = inbound'[i].came + Day
  <2>1. PICK i \in Inbounds : /\ inbound[i].phone = q /\ inbound[i].came > 0
                              /\ expires[q] = inbound[i].came + Day
    BY <1>7 DEF MailsSound, WindowIsEarned
  <2>2. i # m
    BY <1>1, <2>1
  <2>3. QED
    BY <1>4, <2>1, <2>2
<1>8. QED
  BY <1>3, <1>4, <1>5, <1>6, <1>7 DEF MailsSound, WindowIsEarned

LEMMA EraseKeeps ==
  ASSUME MailsSound, NEW p \in Phones, EraseContact(p)
  PROVE  MailsSound'
<1>1. /\ expires' \in [Phones -> 0 .. Horizon + Day] /\ expires'[p] = 0
      /\ \A q \in Phones \ {p} : expires'[q] = expires[q]
  <2>1. 0 \in 0 .. Horizon + Day
    BY WhatsAppAssumption
  <2>2. QED
    BY <2>1 DEF EraseContact, MailsSound
<1>2. \A m \in Inbounds : inbound'[m] = IF inbound[m].phone = p THEN [inbound[m] EXCEPT !.came = 0]
                                                               ELSE inbound[m]
  BY DEF EraseContact
<1>3. \A m \in Inbounds : /\ inbound'[m] \in Inbound
                          /\ inbound'[m].phone = inbound[m].phone
                          /\ inbound'[m].wrote = inbound[m].wrote
                          /\ inbound'[m].came = IF inbound[m].phone = p THEN 0 ELSE inbound[m].came
  <2> SUFFICES ASSUME NEW m \in Inbounds
               PROVE  /\ inbound'[m] \in Inbound
                      /\ inbound'[m].phone = inbound[m].phone
                      /\ inbound'[m].wrote = inbound[m].wrote
                      /\ inbound'[m].came = IF inbound[m].phone = p THEN 0 ELSE inbound[m].came
    OBVIOUS
  <2>1. inbound[m] \in Inbound /\ 0 \in Ticks
    BY WhatsAppAssumption DEF MailsSound, Ticks
  <2>2. QED
    BY <1>2, <2>1 DEF Inbound
<1>4. inbound' \in [Inbounds -> Inbound]
  BY <1>3 DEF EraseContact
<1>5. now' = now /\ now \in Nat
  BY WhatsAppAssumption DEF EraseContact, MailsSound, Ticks
<1>6. \A m \in Inbounds : /\ inbound'[m].came <= now
                          /\ inbound'[m].wrote = 0 => inbound'[m].came = 0
                          /\ inbound'[m].wrote > 0 => inbound'[m].phone \in Phones
  BY <1>3, <1>5 DEF MailsSound
<1>7. \A q \in Phones, i \in Inbounds :
        inbound'[i].phone = q /\ inbound'[i].came > 0 => inbound'[i].came + Day <= expires'[q]
  BY <1>1, <1>3 DEF MailsSound, WindowIsEarned
<1>8. ASSUME NEW q \in Phones, expires'[q] # 0
      PROVE  \E i \in Inbounds : /\ inbound'[i].phone = q /\ inbound'[i].came > 0
                                 /\ expires'[q] = inbound'[i].came + Day
  <2>1. q # p /\ expires'[q] = expires[q]
    BY <1>1, <1>8
  <2>2. PICK i \in Inbounds : /\ inbound[i].phone = q /\ inbound[i].came > 0
                              /\ expires[q] = inbound[i].came + Day
    BY <1>8, <2>1 DEF MailsSound, WindowIsEarned
  <2>3. QED
    BY <1>3, <2>1, <2>2
<1>9. QED
  BY <1>1, <1>4, <1>5, <1>6, <1>7, <1>8 DEF MailsSound, WindowIsEarned

LEMMA TickKeeps ==
  ASSUME MailsSound, Tick
  PROVE  MailsSound'
<1>1. now' = now + 1 /\ now' \in Ticks /\ now' > 0 /\ now \in Nat
  BY WhatsAppAssumption DEF Tick, MailsSound, Ticks
<1>2. \A m \in Inbounds : inbound[m].came \in Nat /\ inbound[m].came <= now'
  BY <1>1, WhatsAppAssumption DEF MailsSound, Inbound, Ticks
<1>3. QED
  BY <1>1, <1>2 DEF Tick, MailsSound, WindowIsEarned

LEMMA MailsKeep ==
  ASSUME IInv, [Next]_vars
  PROVE  MailsSound'
<1>0. MailsSound
  BY DEF IInv
<1>1. ASSUME UNCHANGED <<now, expires, inbound>> PROVE MailsSound'
  BY <1>0, <1>1 DEF MailsSound, WindowIsEarned
<1>2. CASE Tick
  BY <1>0, <1>2, TickKeeps
<1>3. ASSUME NEW p \in Phones, EraseContact(p) PROVE MailsSound'
  BY <1>0, <1>3, EraseKeeps
<1>4. ASSUME NEW m \in Inbounds, NEW p \in Phones, Writes(m, p) PROVE MailsSound'
  BY <1>0, <1>4, WritesKeeps
<1>5. ASSUME NEW m \in Inbounds, Arrives(m) PROVE MailsSound'
  BY <1>0, <1>5, ArrivesKeeps
<1>6. CASE Restart \/ \E p \in Phones : GrantOptIn(p) \/ RevokeOptIn(p)
  BY <1>1, <1>6 DEF Restart, GrantOptIn, RevokeOptIn
<1>7. ASSUME NEW s \in Sends, \/ Accepted(s) \/ Unheard(s)
                              \/ \E notice \in Notices, price \in BOOLEAN : Status(s, notice, price)
                              \/ \E p \in Phones, kind \in {"text", "utility", "marketing"},
                                    taken \in BOOLEAN : SendMessage(s, p, kind, taken)
      PROVE  MailsSound'
  BY <1>1, <1>7 DEF Accepted, Unheard, Status, SendMessage
<1>8. CASE UNCHANGED vars
  BY <1>1, <1>8 DEF vars
<1>9. QED
  BY <1>2, <1>3, <1>4, <1>5, <1>6, <1>7, <1>8 DEF Next

-----------------------------------------------------------------------------
(* The tier. *)

\* The phones of some sends are no more than the sends.
LEMMA PhonesFact ==
  ASSUME NEW S \in SUBSET Sends, NEW f
  PROVE  /\ IsFiniteSet(S) /\ Cardinality(S) \in 0 .. Made
         /\ IsFiniteSet({f[s].phone : s \in S})
         /\ Cardinality({f[s].phone : s \in S}) \in Nat
         /\ Cardinality({f[s].phone : s \in S}) <= Cardinality(S)
<1> DEFINE T == {f[s].phone : s \in S}
           g == [s \in S |-> f[s].phone]
<1>1. IsFiniteSet(Sends) /\ Cardinality(Sends) = Made
  BY FS_Interval, WhatsAppAssumption DEF Sends
<1>2. IsFiniteSet(S) /\ Cardinality(S) <= Made /\ Cardinality(S) \in Nat
  BY <1>1, FS_Subset, FS_CardinalityType
<1>3. g \in Surjection(S, T)
  BY DEF Surjection
<1>4. IsFiniteSet(T) /\ Cardinality(T) <= Cardinality(S)
  BY <1>2, <1>3, FS_Surjection
<1>5. QED
  BY <1>2, <1>4, FS_CardinalityType, WhatsAppAssumption

LEMMA AimedFact ==
  /\ IsFiniteSet(Aimed) /\ Cardinality(Aimed) \in Nat
  /\ IsFiniteSet(CountedOutside) /\ Cardinality(CountedOutside) \in Nat
<1>1. IsFiniteSet(CountedOutside) /\ Cardinality(CountedOutside) \in Nat
  <2> DEFINE R == {t \in Sends : Recent(t)}
  <2>1. R \in SUBSET Sends
    OBVIOUS
  <2>2. CountedOutside = {send[s].phone : s \in R}
    BY DEF CountedOutside
  <2> HIDE DEF R
  <2>3. QED
    BY <2>1, <2>2, PhonesFact
<1>2. IsFiniteSet({send[s].phone : s \in FlyingOutside})
  <2>1. FlyingOutside \in SUBSET Sends
    BY DEF FlyingOutside
  <2>2. QED
    BY <2>1, PhonesFact
<1>3. IsFiniteSet(Aimed)
  BY <1>1, <1>2, FS_Union DEF Aimed
<1>4. QED
  BY <1>1, <1>3, FS_CardinalityType

\* Nobody new is aimed at.
LEMMA NobodyNew ==
  ASSUME TierSound, Aimed' \subseteq Aimed, most' = most
  PROVE  TierSound'
<1>1. IsFiniteSet(Aimed) /\ Cardinality(Aimed) \in Nat
  BY AimedFact
<1>2. IsFiniteSet(Aimed') /\ Cardinality(Aimed') <= Cardinality(Aimed) /\ Cardinality(Aimed') \in Nat
  BY <1>1, FS_Subset, FS_CardinalityType
<1>3. QED
  BY <1>1, <1>2, WhatsAppAssumption DEF TierSound

\* A request outside the window: whom it aims at is counted already, or there is room
\* for one more and for everybody on the way.
LEMMA RequestTier ==
  ASSUME SendsSound, TierSound, NEW s \in Sends, NEW p \in Phones, NEW kind, NEW taken,
         SendMessage(s, p, kind, taken)
  PROVE  TierSound'
<1> DEFINE v == [NoSend EXCEPT !.at = "asked", !.phone = p, !.kind = kind,
                              !.outside = ~Open(p), !.billable = Priced(p, kind)]
<1>1. send[s].at = "none"
  <2>1. s >= s
    BY WhatsAppAssumption DEF Sends
  <2>2. QED
    BY <2>1 DEF SendMessage
<1>2. v.at = "asked" /\ v.phone = p /\ v.outside = ~Open(p)
  BY DEF NoSend
<1>3. send' = [send EXCEPT ![s] = v] /\ now' = now
  BY DEF SendMessage
<1> HIDE DEF v
<1>4. send'[s] = v /\ \A t \in Sends \ {s} : send'[t] = send[t]
  BY <1>3 DEF SendsSound
<1>5. \A t \in Sends : Recent(t)' <=> Recent(t)
  BY <1>1, <1>2, <1>3, <1>4 DEF Recent, Rows
<1>6. CountedOutside' = CountedOutside
  <2>1. \A t \in Sends : Recent(t) => send'[t].phone = send[t].phone
    BY <1>1, <1>4 DEF Recent, Rows
  <2>2. QED
    BY <1>5, <2>1 DEF CountedOutside
<1>7. Flying' = Flying \cup {s} /\ s \notin Flying
  BY <1>1, <1>2, <1>4 DEF Flying
<1>8. Cardinality(Flying') = Cardinality(Flying) + 1 /\ Cardinality(Flying) \in 0 .. Made
      /\ Cardinality(Flying') \in 0 .. Made /\ IsFiniteSet(Flying')
  <2>1. Flying \in SUBSET Sends /\ Flying' \in SUBSET Sends
    BY DEF Flying
  <2>2. /\ IsFiniteSet(Flying) /\ Cardinality(Flying) \in 0 .. Made
        /\ IsFiniteSet(Flying') /\ Cardinality(Flying') \in 0 .. Made
    BY <2>1, PhonesFact
  <2>3. QED
    BY <1>7, <2>2, FS_AddElement
<1>9. /\ most' \in 0 .. Made /\ most' >= most /\ most' >= Cardinality(Flying') /\ most \in Nat
  BY <1>8, WhatsAppAssumption DEF SendMessage, TierSound
<1>10. FlyingOutside' = IF Open(p) THEN FlyingOutside ELSE FlyingOutside \cup {s}
  BY <1>1, <1>2, <1>4 DEF FlyingOutside
<1>11. \A t \in FlyingOutside : send'[t].phone = send[t].phone
  BY <1>1, <1>4 DEF FlyingOutside
<1>12. CASE Open(p) \/ p \in CountedOutside
  <2>1. Aimed' \subseteq Aimed
    BY <1>2, <1>4, <1>6, <1>10, <1>11, <1>12 DEF Aimed
  <2>2. /\ IsFiniteSet(Aimed) /\ Cardinality(Aimed) \in Nat
    BY AimedFact
  <2>3. Cardinality(Aimed') <= Cardinality(Aimed) /\ Cardinality(Aimed') \in Nat
    BY <2>1, <2>2, FS_Subset, FS_CardinalityType
  <2>4. QED
    BY <1>9, <2>2, <2>3, WhatsAppAssumption DEF TierSound
<1>13. CASE ~Open(p) /\ p \notin CountedOutside
  <2>1. Cardinality(CountedOutside) < Limit
    BY <1>13 DEF SendMessage, Allowed
  <2> DEFINE T == {send'[t].phone : t \in Flying'}
  <2>2. IsFiniteSet(T) /\ Cardinality(T) <= Cardinality(Flying') /\ Cardinality(T) \in Nat
    <3>1. Flying' \in SUBSET Sends
      BY DEF Flying
    <3>2. QED
      BY <3>1, PhonesFact
  <2>3. Aimed' \subseteq CountedOutside \cup T
    BY <1>6 DEF Aimed, FlyingOutside, Flying
  <2> HIDE DEF T
  <2>4. /\ IsFiniteSet(CountedOutside \cup T)
        /\ Cardinality(CountedOutside \cup T) <= Cardinality(CountedOutside) + Cardinality(T)
        /\ Cardinality(CountedOutside) \in Nat
    <3>1. IsFiniteSet(CountedOutside) /\ Cardinality(CountedOutside) \in Nat
      BY AimedFact
    <3>2. IsFiniteSet(CountedOutside \cap T) /\ Cardinality(CountedOutside \cap T) \in Nat
      BY <3>1, FS_Subset, FS_CardinalityType
    <3>3. /\ IsFiniteSet(CountedOutside \cup T)
          /\ Cardinality(CountedOutside \cup T)
               = Cardinality(CountedOutside) + Cardinality(T) - Cardinality(CountedOutside \cap T)
      BY <2>2, <3>1, FS_Union
    <3>4. QED
      BY <2>2, <3>1, <3>2, <3>3
  <2>5. Cardinality(Aimed') <= Cardinality(CountedOutside \cup T) /\ Cardinality(Aimed') \in Nat
        /\ Cardinality(CountedOutside \cup T) \in Nat
    BY <2>3, <2>4, FS_Subset, FS_CardinalityType
  <2>6. QED
    BY <1>8, <1>9, <2>1, <2>2, <2>4, <2>5, WhatsAppAssumption DEF TierSound
<1>14. QED
  BY <1>12, <1>13

LEMMA TierKeeps ==
  ASSUME IInv, [Next]_vars
  PROVE  TierSound'
<1>0. SendsSound /\ TierSound /\ MailsSound
  BY DEF IInv
<1>1. ASSUME UNCHANGED <<now, send, most>> PROVE TierSound'
  <2>1. Aimed' = Aimed
    BY <1>1 DEF Aimed, CountedOutside, FlyingOutside, Recent
  <2>2. QED
    BY <1>0, <1>1, <2>1, NobodyNew
\* Sends that change as the outcome of a request does, or that vanish.
<1>2. ASSUME UNCHANGED <<now, most>>,
             \A s \in Sends :
               \/ send'[s] = send[s]
               \/ send'[s].at \in {"lost", "erased"}
               \/ ~send'[s].outside /\ send'[s].at # "asked"
               \/ /\ send'[s].phone = send[s].phone /\ send'[s].outside = send[s].outside
                  /\ send'[s].at # "asked"
                  /\ \/ send[s].at = "asked"
                     \/ send[s].at \in Rows /\ send'[s].created = send[s].created
      PROVE  TierSound'
  <2>1. \A s \in Sends :
          (Recent(s)' \/ s \in FlyingOutside') => send'[s].phone \in Aimed
    <3> SUFFICES ASSUME NEW s \in Sends, Recent(s)' \/ s \in FlyingOutside'
                 PROVE  send'[s].phone \in Aimed
      OBVIOUS
    <3>1. send'[s].outside /\ send'[s].at \notin {"lost", "erased"}
      BY DEF Recent, FlyingOutside, Rows
    <3>2. CASE send'[s] = send[s]
      BY <1>2, <3>2 DEF Recent, FlyingOutside, Aimed, CountedOutside
    <3>3. CASE send'[s] # send[s]
      BY <1>2, <3>1, <3>3 DEF Recent, FlyingOutside, Aimed, CountedOutside
    <3>4. QED
      BY <3>2, <3>3
  <2>2. ASSUME NEW q \in Aimed' PROVE q \in Aimed
    <3>1. PICK s \in Sends : (Recent(s)' \/ s \in FlyingOutside') /\ q = send'[s].phone
      BY <2>2 DEF Aimed, CountedOutside, FlyingOutside
    <3>2. QED
      BY <2>1, <3>1
  <2>3. Aimed' \subseteq Aimed
    BY <2>2
  <2>4. QED
    BY <1>0, <1>2, <2>3, NobodyNew
<1>3. CASE Tick
  <2>1. \A s \in Sends : Recent(s)' => Recent(s)
    <3>1. send' = send /\ now' = now + 1 /\ now \in Nat
      BY <1>0, <1>3, WhatsAppAssumption DEF Tick, MailsSound, Ticks
    <3>2. \A s \in Sends : send[s].created \in Nat
      BY <1>0, WhatsAppAssumption DEF SendsSound, Send, Ticks
    <3>3. QED
      BY <3>1, <3>2, WhatsAppAssumption DEF Recent
  <2>2. Aimed' \subseteq Aimed
    BY <1>3, <2>1 DEF Tick, Aimed, CountedOutside, FlyingOutside
  <2>3. QED
    BY <1>0, <1>3, <2>2, NobodyNew DEF Tick
<1>4. ASSUME NEW s \in Sends, NEW p \in Phones, NEW kind \in {"text", "utility", "marketing"},
             NEW taken \in BOOLEAN, SendMessage(s, p, kind, taken)
      PROVE  TierSound'
  BY <1>0, <1>4, RequestTier
<1>5. ASSUME NEW s \in Sends, Accepted(s) \/ Unheard(s) PROVE TierSound'
  <2>1. \A t \in Sends \ {s} : send'[t] = send[t]
    BY <1>0, <1>5 DEF Accepted, Unheard, SendsSound
  <2>2. /\ send[s].at = "asked" /\ send'[s].at # "asked" /\ send'[s].phone = send[s].phone
        /\ ~send'[s].outside \/ send'[s].outside = send[s].outside
    BY <1>0, <1>5 DEF Accepted, Unheard, SendsSound, Send
  <2>3. QED
    BY <1>2, <1>5, <2>1, <2>2 DEF Accepted, Unheard
<1>6. ASSUME NEW s \in Sends, NEW notice \in Notices, NEW price \in BOOLEAN,
             Status(s, notice, price)
      PROVE  TierSound'
  <2>1. \A t \in Sends \ {s} : send'[t] = send[t]
    BY <1>0, <1>6 DEF Status, SendsSound
  <2>2. /\ send[s].at \in Rows /\ send'[s].at # "asked" /\ send'[s].phone = send[s].phone
        /\ send'[s].outside = send[s].outside /\ send'[s].created = send[s].created
    BY <1>0, <1>6, WhatsAppAssumption DEF Status, Known, SendsSound, Send
  <2>3. QED
    BY <1>2, <1>6, <2>1, <2>2 DEF Status
<1>7. CASE Restart
  <2>1. \A s \in Sends : send'[s] = send[s] \/ send'[s].at = "lost"
    BY <1>7 DEF Restart, NoSend
  <2>2. QED
    BY <1>2, <1>7, <2>1 DEF Restart
<1>8. ASSUME NEW p \in Phones, EraseContact(p) PROVE TierSound'
  <2>1. \A s \in Sends : send'[s] = send[s] \/ send'[s].at = "erased"
    BY <1>8 DEF EraseContact, NoSend
  <2>2. QED
    BY <1>2, <1>8, <2>1 DEF EraseContact
<1>9. ASSUME NEW p \in Phones, GrantOptIn(p) \/ RevokeOptIn(p) PROVE TierSound'
  BY <1>1, <1>9 DEF GrantOptIn, RevokeOptIn
<1>10. ASSUME NEW m \in Inbounds, Arrives(m) \/ \E p \in Phones : Writes(m, p) PROVE TierSound'
  BY <1>1, <1>10 DEF Arrives, Writes
<1>11. CASE UNCHANGED vars
  BY <1>1, <1>11 DEF vars
<1>12. QED
  BY <1>3, <1>4, <1>5, <1>6, <1>7, <1>8, <1>9, <1>10, <1>11 DEF Next

-----------------------------------------------------------------------------
(* The theorems. *)

LEMMA InitHolds == Init => IInv
<1> SUFFICES ASSUME Init PROVE IInv
  OBVIOUS
<1>1. SendsSound
  BY WhatsAppAssumption
  DEF Init, SendsSound, SendSound, Known, NoSend, NoMeta, Send, Meta, Rows, Ticks
<1>2. MailsSound
  BY WhatsAppAssumption DEF Init, MailsSound, NoMail, Inbound, Ticks, WindowIsEarned
<1>3. TierSound
  <2>1. Aimed = {}
    BY DEF Init, NoSend, Aimed, CountedOutside, FlyingOutside, Recent, Rows
  <2>2. QED
    BY <2>1, FS_EmptySet, WhatsAppAssumption DEF Init, TierSound
<1>4. RestSound
  BY WhatsAppAssumption DEF Init, RestSound
<1>5. TookSound
  BY DEF Init, TookSound, NoMeta
<1>6. QED
  BY <1>1, <1>2, <1>3, <1>4, <1>5 DEF IInv

LEMMA StepKeeps == IInv /\ [Next]_vars => IInv'
<1> SUFFICES ASSUME IInv, [Next]_vars PROVE IInv'
  OBVIOUS
<1>1. RestSound'
  <2>1. RestSound
    BY DEF IInv
  <2>2. CASE Restart
    BY <2>1, <2>2, WhatsAppAssumption DEF Restart, RestSound
  <2>3. ASSUME NEW p \in Phones, GrantOptIn(p) \/ RevokeOptIn(p) \/ EraseContact(p) PROVE RestSound'
    BY <2>1, <2>3 DEF GrantOptIn, RevokeOptIn, EraseContact, RestSound
  <2>4. CASE UNCHANGED <<restarts, optin>>
    BY <2>1, <2>4 DEF RestSound
  <2>5. QED
    BY <2>2, <2>3, <2>4
    DEF Next, vars, Tick, Writes, Arrives, Accepted, Unheard, Status, SendMessage
<1>2. QED
  BY <1>1, SendsKeep, TookKeeps, MailsKeep, TierKeeps DEF IInv

LEMMA Inductive == Spec => []IInv
  BY InitHolds, StepKeeps, PTL DEF Spec

\* Every variable keeps its type.
THEOREM TypeCorrect == Spec => []TypeOK
<1>1. IInv => TypeOK
  BY DEF IInv, SendsSound, MailsSound, TierSound, RestSound, TypeOK
<1>2. QED
  BY <1>1, Inductive, PTL

\* A window lasts Day from the first arrival of a message, whatever comes again.
THEOREM WindowsEarned == Spec => []WindowIsEarned
<1>1. IInv => WindowIsEarned
  BY DEF IInv, MailsSound
<1>2. QED
  BY <1>1, Inductive, PTL

\* The estimate is what Meta billed and reported to a row that was there, but for the
\* sends whose price never came and whose windows disagreed.
THEOREM SpendBilled == Spec => []SpendIsBilled
<1>1. IInv => SpendIsBilled
  <2> SUFFICES ASSUME IInv, NEW s \in Sends, ~Mispriced(s)
               PROVE  InEstimate(s) <=> s \in told /\ Charged(s)
    BY DEF SpendIsBilled
  <2>1. SendSound(s) /\ send[s] \in Send /\ meta[s] \in Meta
    BY DEF IInv, SendsSound
  <2>2. CASE s \in priced
    BY <2>1, <2>2 DEF SendSound, InEstimate, Known
  <2>3. CASE s \notin priced
    <3>1. Charged(s) <=> Decided(s)
      BY <2>1, <2>3 DEF Mispriced, Charged, Decided, Send, Meta
    <3>2. QED
      BY <2>1, <2>3, <3>1 DEF SendSound, InEstimate, Known
  <2>4. QED
    BY <2>2, <2>3
<1>2. QED
  BY <1>1, Inductive, PTL

\* Whom Meta was asked to reach is aimed at here, too, or was missed.
LEMMA ReachedFact ==
  ASSUME IInv
  PROVE  Reached \subseteq Aimed \cup {meta[s].phone : s \in Missed}
<1> SUFFICES ASSUME NEW s \in TakenOutside, s \notin Missed
             PROVE  meta[s].phone \in Aimed
  BY DEF Reached
<1>1. /\ s \in Sends /\ meta[s].took > 0 /\ meta[s].took > now - Day
      /\ send[s].outside /\ send[s].at \notin {"lost", "erased"}
  BY DEF TakenOutside, Missed
<1>2. /\ meta[s].took \in Nat /\ send[s].created \in Nat /\ now \in Nat /\ Day \in Nat
      /\ send[s].at \in {"none", "asked", "lost", "erased"} \cup Rows
  BY <1>1, WhatsAppAssumption DEF IInv, SendsSound, MailsSound, Ticks, Meta, Send
<1>3. /\ send[s].at \in Rows \cup {"asked"} /\ meta[s].phone = send[s].phone
      /\ send[s].at \in Rows => meta[s].took <= send[s].created
  BY <1>1, <1>2 DEF IInv, TookSound
<1>4. CASE send[s].at = "asked"
  BY <1>1, <1>3, <1>4 DEF Aimed, FlyingOutside
<1>5. CASE send[s].at \in Rows
  <2>1. Recent(s)
    BY <1>1, <1>2, <1>3, <1>5 DEF Recent
  <2>2. QED
    BY <1>1, <1>3, <2>1 DEF Aimed, CountedOutside
<1>6. QED
  BY <1>3, <1>4, <1>5

\* The people of the requests Meta took outside their windows within a day stay below
\* the tier, the most sends that were on their way together, and the people of the
\* sends the ledger missed: lost, erased, unheard, or taken for inside.
THEOREM QuotaKept == Spec => []QuotaHolds
<1>1. IInv => QuotaHolds
  <2> SUFFICES ASSUME IInv PROVE QuotaHolds
    OBVIOUS
  <2> DEFINE M == {meta[s].phone : s \in Missed}
  <2>1. IsFiniteSet(M) /\ Cardinality(M) \in Nat
    <3>1. Missed \in SUBSET Sends
      BY DEF Missed, TakenOutside
    <3>2. QED
      BY <3>1, PhonesFact
  <2>2. IsFiniteSet(Aimed) /\ Cardinality(Aimed) \in Nat
    BY AimedFact
  <2>3. Reached \subseteq Aimed \cup M
    BY ReachedFact
  <2> HIDE DEF M
  <2>4. /\ IsFiniteSet(Aimed \cup M)
        /\ Cardinality(Aimed \cup M)
             = Cardinality(Aimed) + Cardinality(M) - Cardinality(Aimed \cap M)
        /\ Cardinality(Aimed \cap M) \in Nat
    <3>1. IsFiniteSet(Aimed \cap M) /\ Cardinality(Aimed \cap M) \in Nat
      BY <2>2, FS_Subset, FS_CardinalityType
    <3>2. QED
      BY <2>1, <2>2, <3>1, FS_Union
  <2>5. Cardinality(Reached) <= Cardinality(Aimed \cup M) /\ Cardinality(Reached) \in Nat
        /\ Cardinality(Aimed \cup M) \in Nat
    BY <2>3, <2>4, FS_Subset, FS_CardinalityType
  <2>6. Cardinality(Reached) < Limit + most + Cardinality(M)
    BY <2>1, <2>2, <2>4, <2>5, WhatsAppAssumption DEF IInv, TierSound
  <2>7. QED
    BY <2>6 DEF QuotaHolds, M
<1>2. QED
  BY <1>1, Inductive, PTL
=============================================================================

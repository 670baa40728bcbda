-------------------------- MODULE CampaignsProofs --------------------------
(***************************************************************************)
(* What Campaigns.tla keeps for every list, every number of campaigns and  *)
(* every daily cap.                                                        *)
(***************************************************************************)
EXTENDS Campaigns, FiniteSetTheorems, WellFoundedInduction, TLAPS

\* The least number of a set.
LEMMA LeastExists ==
  ASSUME NEW S \in SUBSET Nat, S # {}
  PROVE  \E x \in S : \A y \in S : x <= y
<1> DEFINE R == OpToRel(<, Nat)
<1>1. IsWellFoundedOn(R, Nat)
  BY NatLessThanWellFounded, Zenon
<1>2. \A x, y \in Nat : y < x => <<y, x>> \in R
  BY DEF OpToRel
<1> HIDE DEF R
<1>3. PICK x \in S : \A y \in S : ~ (<<y, x>> \in R)
  <2>1. S \subseteq Nat /\ S # {}
    OBVIOUS
  <2>2. QED
    BY <1>1, <2>1, WFMin, Zenon
<1>4. \A y \in S : ~(y < x)
  BY <1>2, <1>3
<1>5. QED
  BY <1>4

Loop == [at: {"off", "mailing", "gap", "lost"}, left: SUBSET Contacts,
         to: Contacts \cup {0}, arrived: BOOLEAN]

\* A loop mails a person of the list, who is not among those left; a message that
\* arrived is counted.
LoopsSound ==
  /\ loop \in [Campaigns -> Loop]
  /\ \A k \in Campaigns :
       /\ loop[k].at \in {"off", "lost"} => loop[k] \in {Off, Lost}
       /\ loop[k].at \in {"mailing", "gap"} => campaign[k] # "draft"
       /\ loop[k].at = "mailing" =>
            /\ loop[k].to \in Contacts \ loop[k].left
            /\ loop[k].arrived => mails[<<k, loop[k].to>>] > 0

\* Whoever was mailed is behind the loop.
MailsSound ==
  /\ mails \in [Sends -> Nat]
  /\ \A k \in Campaigns, c \in Contacts :
       /\ mails[<<k, c>>] <= 1
       /\ mails[<<k, c>>] > 0 =>
            /\ campaign[k] # "draft" /\ c \notin loop[k].left
            /\ loop[k].at = "mailing" /\ loop[k].to = c => loop[k].arrived

\* A row that waits, waits for a loop that is to come to it, or was lost.
RowsSound ==
  /\ campaign \in [Campaigns -> {"draft", "sending", "sent", "gone"}]
  /\ send \in [Sends -> {"none", "pending", "sent", "failed"}]
  /\ \A k \in Campaigns, c \in Contacts :
       /\ send[<<k, c>>] = "sent" => mails[<<k, c>>] > 0
       /\ send[<<k, c>>] = "pending" =>
            /\ campaign[k] = "sending"
            /\ \/ loop[k] = Lost \/ c \in loop[k].left
               \/ loop[k].at = "mailing" /\ loop[k].to = c

\* The day's count, together with the messages at the mail server.
Mailing == {k \in Campaigns : loop[k].at = "mailing"}

CapSound ==
  /\ used \in Nat /\ other \in 0 .. Others
  /\ used + Cardinality(Mailing) + other <= MaxPerDay - 1 + Cardinality(Campaigns) + Others

ConsentSound == consent \in [Contacts -> {"yes", "no", "gone"}]

IInv == LoopsSound /\ MailsSound /\ RowsSound /\ CapSound /\ ConsentSound

-----------------------------------------------------------------------------
(* The loops that mail, as a set. *)

LEMMA SomeCampaigns ==
  ASSUME CampaignsAssumption, NEW S \in SUBSET Campaigns
  PROVE  /\ IsFiniteSet(S) /\ Cardinality(S) \in Nat
         /\ Cardinality(S) <= Cardinality(Campaigns) /\ Cardinality(Campaigns) \in Nat
BY FS_Subset, FS_CardinalityType DEF CampaignsAssumption

\* As long as no loop begins to mail and the counts stay, the cap's sum stays.
LEMMA CapStays ==
  ASSUME CampaignsAssumption, IInv, Mailing' \subseteq Mailing, UNCHANGED <<used, other>>
  PROVE  CapSound'
<1>1. Mailing \in SUBSET Campaigns /\ Mailing' \in SUBSET Campaigns
  BY DEF Mailing
<1>2. IsFiniteSet(Mailing) /\ Cardinality(Mailing) \in Nat /\ Cardinality(Campaigns) \in Nat
  BY <1>1, SomeCampaigns
<1>3. Cardinality(Mailing') \in Nat /\ Cardinality(Mailing') <= Cardinality(Mailing)
  BY <1>1, <1>2, FS_Subset, SomeCampaigns
<1>4. Cardinality(Mailing)' = Cardinality(Mailing')
  OBVIOUS
<1>5. QED
  BY <1>2, <1>3, <1>4 DEF CapSound, IInv, CampaignsAssumption

\* A loop begins to mail below the cap only.
LEMMA CapChecked ==
  ASSUME CampaignsAssumption, IInv, used < MaxPerDay, UNCHANGED <<used, other>>
  PROVE  CapSound'
<1>1. Mailing' \in SUBSET Campaigns
  BY DEF Mailing
<1>2. /\ Cardinality(Mailing') \in Nat /\ Cardinality(Campaigns) \in Nat
      /\ Cardinality(Mailing') <= Cardinality(Campaigns)
  BY <1>1, SomeCampaigns
<1>3. Cardinality(Mailing)' = Cardinality(Mailing')
  OBVIOUS
<1>4. QED
  BY <1>2, <1>3 DEF CapSound, IInv, CampaignsAssumption

LEMMA OneLoop ==
  ASSUME IInv, NEW k \in Campaigns, NEW l \in Loop, loop' = [loop EXCEPT ![k] = l]
  PROVE  /\ loop' \in [Campaigns -> Loop] /\ loop'[k] = l
         /\ \A j \in Campaigns : j # k => loop'[j] = loop[j]
BY DEF IInv, LoopsSound

LEMMA OneRow ==
  ASSUME NEW rows \in [Sends -> {"none", "pending", "sent", "failed"}], NEW s \in Sends,
         NEW status \in {"sent", "failed"}
  PROVE  /\ Mark(rows, s, status) \in [Sends -> {"none", "pending", "sent", "failed"}]
         /\ Mark(rows, s, status)[s] \in {"none", status}
         /\ \A t \in Sends : t # s => Mark(rows, s, status)[t] = rows[t]
BY DEF Mark

-----------------------------------------------------------------------------
(* A message is handed over. *)

\* What Hand does, in the words of the invariant.
LEMMA HandFact ==
  ASSUME CampaignsAssumption, IInv, NEW k \in Campaigns, NEW left \in SUBSET Contacts, left # {},
         NEW rows \in [Sends -> {"none", "pending", "sent", "failed"}],
         Hand(k, left, rows), UNCHANGED <<used, other>>
  PROVE  /\ loop' \in [Campaigns -> Loop]
         /\ \A j \in Campaigns : j # k => loop'[j] = loop[j]
         /\ loop'[k].at \in {"mailing", "gap"} /\ ~loop'[k].arrived
         /\ loop'[k].to \in left /\ loop'[k].left = left \ {loop'[k].to}
         /\ send' \in [Sends -> {"none", "pending", "sent", "failed"}]
         /\ \A s \in Sends : s # <<k, loop'[k].to>> => send'[s] = rows[s]
         /\ loop'[k].at = "mailing" => send' = rows
         /\ loop'[k].at = "gap" => send'[<<k, loop'[k].to>>] \in {"none", "failed"}
         /\ CapSound'
<1> DEFINE c == Min(left)
           now == [at |-> "mailing", left |-> left \ {c}, to |-> c, arrived |-> FALSE]
<1>1. left \in SUBSET Nat
  BY DEF CampaignsAssumption
<1>2. c \in left
  BY <1>1, LeastExists DEF Min
<1>3. <<k, c>> \in Sends
  BY <1>2 DEF Sends
<1>4. now \in Loop
  BY <1>2 DEF Loop
<1>5. CASE used < MaxPerDay
  <2>1. loop' = [loop EXCEPT ![k] = now] /\ send' = rows
    BY <1>5 DEF Hand
  <2>2. loop'[k] = now
    BY <2>1, <1>4, OneLoop
  <2>3. CapSound'
    BY <1>5, CapChecked
  <2> HIDE DEF c
  <2>4. QED
    BY <2>1, <2>2, <2>3, <1>2, <1>4, OneLoop
<1>6. CASE ~(used < MaxPerDay)
  <2> DEFINE refused == [now EXCEPT !.at = "gap"]
  <2>1. loop' = [loop EXCEPT ![k] = refused] /\ send' = Mark(rows, <<k, c>>, "failed")
    BY <1>6 DEF Hand
  <2> HIDE DEF c
  <2>2. refused \in Loop
    BY <1>2 DEF Loop
  <2>3. /\ loop'[k] = refused /\ loop' \in [Campaigns -> Loop]
        /\ \A j \in Campaigns : j # k => loop'[j] = loop[j]
    BY <2>1, <2>2, OneLoop
  <2>4. /\ send' \in [Sends -> {"none", "pending", "sent", "failed"}]
        /\ send'[<<k, c>>] \in {"none", "failed"}
        /\ \A s \in Sends : s # <<k, c>> => send'[s] = rows[s]
    <3> DEFINE row == <<k, c>>
    <3>1. row \in Sends /\ send' = Mark(rows, row, "failed")
      BY <2>1, <1>3
    <3> HIDE DEF row
    <3>2. /\ send' \in [Sends -> {"none", "pending", "sent", "failed"}]
          /\ send'[row] \in {"none", "failed"}
          /\ \A s \in Sends : s # row => send'[s] = rows[s]
      BY <3>1, OneRow
    <3>3. QED
      BY <3>2 DEF row
  <2>5. Mailing' \subseteq Mailing
    BY <2>3 DEF Mailing
  <2>6. CapSound'
    BY <2>5, CapStays
  <2>7. QED
    BY <2>3, <2>4, <2>6, <1>2
<1>7. QED
  BY <1>5, <1>6

LEMMA StartSendKeeps ==
  ASSUME CampaignsAssumption, IInv, NEW k \in Campaigns, StartSend(k)
  PROVE  IInv'
<1> DEFINE rows == [s \in Sends |-> IF s[1] = k /\ s[2] \in Audience THEN "pending" ELSE send[s]]
<1>1. rows \in [Sends -> {"none", "pending", "sent", "failed"}]
  BY DEF IInv, RowsSound
<1>2. \A j \in Campaigns, c \in Contacts :
        rows[<<j, c>>] = IF j = k /\ c \in Audience THEN "pending" ELSE send[<<j, c>>]
  BY DEF Sends
<1>3. /\ campaign[k] = "draft" /\ campaign' = [campaign EXCEPT ![k] = "sending"]
      /\ Audience \in SUBSET Contacts /\ Audience # {}
      /\ Hand(k, Audience, rows) /\ UNCHANGED <<consent, mails, used, other>>
  BY DEF StartSend, Audience
<1> HIDE DEF rows
<1>4. /\ loop' \in [Campaigns -> Loop]
      /\ \A j \in Campaigns : j # k => loop'[j] = loop[j]
      /\ loop'[k].at \in {"mailing", "gap"} /\ ~loop'[k].arrived
      /\ loop'[k].to \in Audience /\ loop'[k].left = Audience \ {loop'[k].to}
      /\ send' \in [Sends -> {"none", "pending", "sent", "failed"}]
      /\ \A s \in Sends : s # <<k, loop'[k].to>> => send'[s] = rows[s]
      /\ loop'[k].at = "mailing" => send' = rows
      /\ loop'[k].at = "gap" => send'[<<k, loop'[k].to>>] \in {"none", "failed"}
      /\ CapSound'
  BY <1>1, <1>3, HandFact
<1>5. \A j \in Campaigns, c \in Contacts :
        (j # k \/ c # loop'[k].to) => send'[<<j, c>>] = rows[<<j, c>>]
  BY <1>4 DEF Sends
<1>6. campaign' \in [Campaigns -> {"draft", "sending", "sent", "gone"}] /\ campaign'[k] = "sending"
      /\ \A j \in Campaigns : j # k => campaign'[j] = campaign[j]
  BY <1>3 DEF IInv, RowsSound
<1>7. LoopsSound'
  BY <1>3, <1>4, <1>6 DEF IInv, LoopsSound
<1>8. \A c \in Contacts : mails[<<k, c>>] = 0
  <2> SUFFICES ASSUME NEW c \in Contacts
               PROVE  mails[<<k, c>>] = 0
    OBVIOUS
  <2>1. <<k, c>> \in Sends
    BY DEF Sends
  <2>2. mails[<<k, c>>] \in Nat
    BY <2>1 DEF IInv, MailsSound
  <2>3. ~(mails[<<k, c>>] > 0)
    BY <1>3 DEF IInv, MailsSound
  <2>4. QED
    BY <2>2, <2>3
<1>9. MailsSound'
  BY <1>3, <1>4, <1>6, <1>8 DEF IInv, MailsSound
<1>10. RowsSound'
  <2> SUFFICES ASSUME NEW j \in Campaigns, NEW c \in Contacts
               PROVE  /\ send'[<<j, c>>] = "sent" => mails'[<<j, c>>] > 0
                      /\ send'[<<j, c>>] = "pending" =>
                           /\ campaign'[j] = "sending"
                           /\ \/ loop'[j] = Lost \/ c \in loop'[j].left
                              \/ loop'[j].at = "mailing" /\ loop'[j].to = c
    BY <1>4, <1>6 DEF RowsSound
  <2>1. CASE j # k
    BY <2>1, <1>2, <1>3, <1>4, <1>5, <1>6 DEF IInv, RowsSound
  <2>2. CASE j = k
    BY <2>2, <1>2, <1>3, <1>4, <1>5, <1>6 DEF IInv, RowsSound
  <2>3. QED
    BY <2>1, <2>2
<1>11. ConsentSound'
  BY <1>3 DEF IInv, ConsentSound
<1>12. QED
  BY <1>4, <1>7, <1>9, <1>10, <1>11 DEF IInv

LEMMA NextMailKeeps ==
  ASSUME CampaignsAssumption, IInv, NEW k \in Campaigns, NextMail(k)
  PROVE  IInv'
<1>1. loop[k].at = "gap" /\ UNCHANGED <<consent, mails, used, other>>
  BY DEF NextMail
<1>2. ConsentSound'
  BY <1>1 DEF IInv, ConsentSound
<1>3. CASE loop[k].left = {}
  <2>1. /\ loop' = [loop EXCEPT ![k] = Off] /\ send' = send
        /\ campaign' = [campaign EXCEPT ![k] = IF campaign[k] = "gone" THEN "gone" ELSE "sent"]
    BY <1>3 DEF NextMail
  <2>2. Off \in Loop
    BY DEF Off, Loop
  <2>3. /\ loop' \in [Campaigns -> Loop] /\ loop'[k] = Off
        /\ \A j \in Campaigns : j # k => loop'[j] = loop[j]
    BY <2>1, <2>2, OneLoop
  <2>4. /\ campaign' \in [Campaigns -> {"draft", "sending", "sent", "gone"}]
        /\ campaign'[k] \in {"gone", "sent"}
        /\ \A j \in Campaigns : j # k => campaign'[j] = campaign[j]
    BY <2>1 DEF IInv, RowsSound
  <2>5. LoopsSound'
    BY <1>1, <2>3, <2>4 DEF IInv, LoopsSound, Off
  <2>6. MailsSound'
    BY <1>1, <2>3, <2>4 DEF IInv, MailsSound, Off
  <2>7. \A c \in Contacts : send[<<k, c>>] # "pending"
    BY <1>1, <1>3 DEF IInv, RowsSound, Lost, Off
  <2>8. RowsSound'
    BY <1>1, <2>1, <2>3, <2>4, <2>7 DEF IInv, RowsSound
  <2>9. Mailing' \subseteq Mailing
    BY <2>3 DEF Mailing, Off
  <2>10. CapSound'
    BY <1>1, <2>9, CapStays
  <2>11. QED
    BY <1>2, <2>5, <2>6, <2>8, <2>10 DEF IInv
<1>4. CASE loop[k].left # {}
  <2> DEFINE left == loop[k].left
  <2>1. left \in SUBSET Contacts /\ left # {}
    BY <1>4 DEF IInv, LoopsSound, Loop
  <2>2. Hand(k, left, send) /\ campaign' = campaign
    BY <1>4 DEF NextMail
  <2>3. send \in [Sends -> {"none", "pending", "sent", "failed"}]
    BY DEF IInv, RowsSound
  <2>4. \A c \in Contacts : c \in left => mails[<<k, c>>] = 0
    BY DEF IInv, MailsSound, Sends
  <2>5. /\ \A c \in Contacts : mails[<<k, c>>] > 0 => campaign[k] # "draft"
        /\ \A c \in Contacts : send[<<k, c>>] = "pending" => campaign[k] = "sending" /\ c \in left
    BY <1>1 DEF IInv, MailsSound, RowsSound, Lost, Off
  <2> HIDE DEF left
  <2>6. /\ loop' \in [Campaigns -> Loop]
        /\ \A j \in Campaigns : j # k => loop'[j] = loop[j]
        /\ loop'[k].at \in {"mailing", "gap"} /\ ~loop'[k].arrived
        /\ loop'[k].to \in left /\ loop'[k].left = left \ {loop'[k].to}
        /\ send' \in [Sends -> {"none", "pending", "sent", "failed"}]
        /\ \A s \in Sends : s # <<k, loop'[k].to>> => send'[s] = send[s]
        /\ loop'[k].at = "mailing" => send' = send
        /\ loop'[k].at = "gap" => send'[<<k, loop'[k].to>>] \in {"none", "failed"}
        /\ CapSound'
    BY <1>1, <2>1, <2>2, <2>3, HandFact
  <2>7. \A j \in Campaigns, c \in Contacts :
          (j # k \/ c # loop'[k].to) => send'[<<j, c>>] = send[<<j, c>>]
    BY <2>6 DEF Sends
  <2>8. LoopsSound'
    <3>1. campaign' = campaign /\ campaign[k] # "draft"
      BY <1>1, <2>2 DEF IInv, LoopsSound
    <3>2. QED
      BY <3>1, <1>1, <2>1, <2>6 DEF IInv, LoopsSound
  <2>9. \A c \in Contacts : c \notin left => c \notin loop'[k].left /\ c # loop'[k].to
    BY <2>6
  <2>10. \A c \in Contacts : mails[<<k, c>>] > 0 => c \notin left
    BY <2>4
  <2>11. MailsSound'
    BY <1>1, <2>2, <2>5, <2>6, <2>9, <2>10 DEF IInv, MailsSound
  <2>12. RowsSound'
    <3> SUFFICES ASSUME NEW j \in Campaigns, NEW c \in Contacts
                 PROVE  /\ send'[<<j, c>>] = "sent" => mails'[<<j, c>>] > 0
                        /\ send'[<<j, c>>] = "pending" =>
                             /\ campaign'[j] = "sending"
                             /\ \/ loop'[j] = Lost \/ c \in loop'[j].left
                                \/ loop'[j].at = "mailing" /\ loop'[j].to = c
      BY <2>2, <2>6 DEF IInv, RowsSound
    <3>1. CASE j # k
      BY <3>1, <1>1, <2>2, <2>6, <2>7 DEF IInv, RowsSound
    <3>2. CASE j = k
      BY <3>2, <1>1, <2>2, <2>5, <2>6, <2>7 DEF IInv, RowsSound
    <3>3. QED
      BY <3>1, <3>2
  <2>13. QED
    BY <1>2, <2>6, <2>8, <2>11, <2>12 DEF IInv
<1>5. QED
  BY <1>3, <1>4

-----------------------------------------------------------------------------
(* The mail server's answer. *)

LEMMA MailArrivesKeeps ==
  ASSUME CampaignsAssumption, IInv, NEW k \in Campaigns, MailArrives(k)
  PROVE  IInv'
<1> DEFINE c == loop[k].to
           now == [loop[k] EXCEPT !.arrived = TRUE]
<1>1. /\ loop[k].at = "mailing" /\ ~loop[k].arrived
      /\ loop' = [loop EXCEPT ![k] = now] /\ mails' = [mails EXCEPT ![<<k, c>>] = mails[<<k, c>>] + 1]
      /\ UNCHANGED <<consent, campaign, send, used, other>>
  BY DEF MailArrives
<1>2. loop[k] \in Loop /\ c \in Contacts \ loop[k].left
  BY <1>1 DEF IInv, LoopsSound
<1>3. /\ now \in Loop /\ now.at = "mailing" /\ now.arrived
      /\ now.to = c /\ loop[k].to = c /\ now.left = loop[k].left
  BY <1>1, <1>2 DEF Loop
<1> HIDE DEF now
<1>4. campaign[k] # "draft"
  BY <1>1 DEF IInv, LoopsSound
<1>5. /\ loop' \in [Campaigns -> Loop] /\ loop'[k] = now
      /\ \A j \in Campaigns : j # k => loop'[j] = loop[j]
  BY <1>1, <1>3, OneLoop
<1>6. <<k, c>> \in Sends /\ mails[<<k, c>>] \in Nat
  BY <1>2 DEF IInv, MailsSound, Sends
<1>7. ~(mails[<<k, c>>] > 0)
  BY <1>1, <1>2 DEF IInv, MailsSound
<1>8. /\ mails' \in [Sends -> Nat] /\ mails'[<<k, c>>] = 1
      /\ \A j \in Campaigns, d \in Contacts : (j # k \/ d # c) => mails'[<<j, d>>] = mails[<<j, d>>]
  BY <1>1, <1>6, <1>7 DEF IInv, MailsSound, Sends
<1> HIDE DEF c
<1>9. LoopsSound'
  <2> SUFFICES ASSUME NEW j \in Campaigns
               PROVE  /\ loop'[j].at \in {"off", "lost"} => loop'[j] \in {Off, Lost}
                      /\ loop'[j].at \in {"mailing", "gap"} => campaign'[j] # "draft"
                      /\ loop'[j].at = "mailing" =>
                           /\ loop'[j].to \in Contacts \ loop'[j].left
                           /\ loop'[j].arrived => mails'[<<j, loop'[j].to>>] > 0
    BY <1>5 DEF LoopsSound
  <2>1. CASE j = k
    BY <2>1, <1>1, <1>2, <1>3, <1>4, <1>5, <1>8
  <2>2. CASE j # k
    <3>1. loop'[j] = loop[j] /\ campaign'[j] = campaign[j]
      BY <2>2, <1>1, <1>5
    <3>2. /\ loop[j].at \in {"off", "lost"} => loop[j] \in {Off, Lost}
          /\ loop[j].at \in {"mailing", "gap"} => campaign[j] # "draft"
          /\ loop[j].at = "mailing" =>
               /\ loop[j].to \in Contacts \ loop[j].left
               /\ loop[j].arrived => mails[<<j, loop[j].to>>] > 0
      BY DEF IInv, LoopsSound
    <3>3. loop[j].at = "mailing" => mails'[<<j, loop[j].to>>] = mails[<<j, loop[j].to>>]
      BY <2>2, <3>2, <1>8
    <3>4. QED
      BY <3>1, <3>2, <3>3
  <2>3. QED
    BY <2>1, <2>2
<1>10. MailsSound'
  BY <1>1, <1>2, <1>3, <1>4, <1>5, <1>8 DEF IInv, MailsSound
<1>11. RowsSound'
  <2> SUFFICES ASSUME NEW j \in Campaigns, NEW d \in Contacts
               PROVE  /\ send'[<<j, d>>] = "sent" => mails'[<<j, d>>] > 0
                      /\ send'[<<j, d>>] = "pending" =>
                           /\ campaign'[j] = "sending"
                           /\ \/ loop'[j] = Lost \/ d \in loop'[j].left
                              \/ loop'[j].at = "mailing" /\ loop'[j].to = d
    BY <1>1 DEF IInv, RowsSound
  <2>1. mails[<<j, d>>] > 0 => mails'[<<j, d>>] > 0
    BY <1>8
  <2>2. loop[j] = Lost => j # k
    BY <1>1 DEF Lost, Off
  <2>3. CASE j # k
    BY <2>1, <2>3, <1>1, <1>5 DEF IInv, RowsSound
  <2>4. CASE j = k
    BY <2>1, <2>2, <2>4, <1>1, <1>3, <1>5 DEF IInv, RowsSound
  <2>5. QED
    BY <2>3, <2>4
<1>12. Mailing' \subseteq Mailing
  BY <1>1, <1>3, <1>5 DEF Mailing
<1>13. CapSound'
  BY <1>1, <1>12, CapStays
<1>14. ConsentSound'
  BY <1>1 DEF IInv, ConsentSound
<1>15. QED
  BY <1>9, <1>10, <1>11, <1>13, <1>14 DEF IInv

\* The answer, whatever it says, ends the mailing: the row takes its mark, and
\* only a message that arrived is marked sent.
LEMMA AnswerKeeps ==
  ASSUME CampaignsAssumption, IInv, NEW k \in Campaigns, loop[k].at = "mailing",
         NEW status \in {"sent", "failed"}, status = "sent" => loop[k].arrived,
         loop' = [loop EXCEPT ![k].at = "gap"],
         send' = Mark(send, <<k, loop[k].to>>, status),
         UNCHANGED <<consent, campaign, mails, other>>
  PROVE  LoopsSound' /\ MailsSound' /\ RowsSound' /\ ConsentSound' /\ Mailing' = Mailing \ {k}
<1> DEFINE c == loop[k].to
           row == <<k, c>>
           now == [loop[k] EXCEPT !.at = "gap"]
<1>1. loop[k] \in Loop /\ c \in Contacts \ loop[k].left
  BY DEF IInv, LoopsSound
<1>2. loop' = [loop EXCEPT ![k] = now] /\ row \in Sends /\ send' = Mark(send, row, status)
  BY <1>1 DEF Sends
<1>3. /\ now \in Loop /\ now.at = "gap" /\ now.left = loop[k].left
  BY <1>1 DEF Loop
<1>4. status = "sent" => mails[<<k, c>>] > 0
  BY DEF IInv, LoopsSound
<1>5. send \in [Sends -> {"none", "pending", "sent", "failed"}]
  BY DEF IInv, RowsSound
<1> HIDE DEF now, row
<1>6. /\ send' \in [Sends -> {"none", "pending", "sent", "failed"}]
      /\ send'[row] \in {"none", status}
      /\ \A s \in Sends : s # row => send'[s] = send[s]
  <2>1. send' = IF send[row] = "none" THEN send ELSE [send EXCEPT ![row] = status]
    BY <1>2 DEF Mark
  <2>2. row \in Sends
    BY <1>2
  <2>3. QED
    BY ONLY <2>1, <2>2, <1>5, status \in {"sent", "failed"}
<1>7. /\ send'[<<k, c>>] \in {"none", status}
      /\ \A j \in Campaigns, d \in Contacts : (j # k \/ d # c) => send'[<<j, d>>] = send[<<j, d>>]
  BY <1>6 DEF row, Sends
<1>8. /\ loop' \in [Campaigns -> Loop] /\ loop'[k] = now
      /\ \A j \in Campaigns : j # k => loop'[j] = loop[j]
  BY <1>2, <1>3, OneLoop
<1>9. \A d \in Contacts : send[<<k, d>>] = "pending" =>
        campaign[k] = "sending" /\ (d \in loop[k].left \/ d = c)
  BY DEF IInv, RowsSound, Lost, Off
<1> HIDE DEF c
<1>10. LoopsSound'
  BY <1>3, <1>8 DEF IInv, LoopsSound
<1>11. MailsSound'
  BY <1>3, <1>8 DEF IInv, MailsSound
<1>12. RowsSound'
  <2> SUFFICES ASSUME NEW j \in Campaigns, NEW d \in Contacts
               PROVE  /\ send'[<<j, d>>] = "sent" => mails'[<<j, d>>] > 0
                      /\ send'[<<j, d>>] = "pending" =>
                           /\ campaign'[j] = "sending"
                           /\ \/ loop'[j] = Lost \/ d \in loop'[j].left
                              \/ loop'[j].at = "mailing" /\ loop'[j].to = d
    BY <1>6 DEF IInv, RowsSound
  <2>1. CASE j # k
    BY <2>1, <1>7, <1>8 DEF IInv, RowsSound
  <2>2. CASE j = k /\ d # c
    BY <2>2, <1>3, <1>7, <1>8, <1>9 DEF IInv, RowsSound
  <2>3. CASE j = k /\ d = c
    BY <2>3, <1>4, <1>7
  <2>4. QED
    BY <2>1, <2>2, <2>3
<1>13. ConsentSound'
  BY DEF IInv, ConsentSound
<1>14. Mailing' = Mailing \ {k}
  BY <1>3, <1>8 DEF Mailing
<1>15. QED
  BY <1>10, <1>11, <1>12, <1>13, <1>14

LEMMA MailAcceptedKeeps ==
  ASSUME CampaignsAssumption, IInv, NEW k \in Campaigns, MailAccepted(k)
  PROVE  IInv'
<1>1. /\ loop[k].at = "mailing" /\ loop[k].arrived /\ loop' = [loop EXCEPT ![k].at = "gap"]
      /\ send' = Mark(send, <<k, loop[k].to>>, "sent") /\ used' = used + 1
      /\ UNCHANGED <<consent, campaign, mails, other>>
  BY DEF MailAccepted
<1>2. LoopsSound' /\ MailsSound' /\ RowsSound' /\ ConsentSound' /\ Mailing' = Mailing \ {k}
  BY <1>1, AnswerKeeps
<1>3. Mailing \in SUBSET Campaigns /\ k \in Mailing
  BY <1>1 DEF Mailing
<1>4. IsFiniteSet(Mailing) /\ Cardinality(Mailing) \in Nat /\ Cardinality(Campaigns) \in Nat
  BY <1>3, SomeCampaigns
<1>5. Cardinality(Mailing') = Cardinality(Mailing) - 1
  BY <1>2, <1>3, <1>4, FS_RemoveElement
<1>6. CapSound'
  BY <1>1, <1>4, <1>5 DEF IInv, CapSound, CampaignsAssumption
<1>7. QED
  BY <1>2, <1>6 DEF IInv

LEMMA MailFailedKeeps ==
  ASSUME CampaignsAssumption, IInv, NEW k \in Campaigns, MailFailed(k)
  PROVE  IInv'
<1>1. /\ loop[k].at = "mailing" /\ loop' = [loop EXCEPT ![k].at = "gap"]
      /\ send' = Mark(send, <<k, loop[k].to>>, "failed")
      /\ UNCHANGED <<consent, campaign, mails, used, other>>
  BY DEF MailFailed
<1>2. LoopsSound' /\ MailsSound' /\ RowsSound' /\ ConsentSound' /\ Mailing' = Mailing \ {k}
  BY <1>1, AnswerKeeps
<1>3. CapSound'
  BY <1>1, <1>2, CapStays
<1>4. QED
  BY <1>2, <1>3 DEF IInv

-----------------------------------------------------------------------------
(* The people, the owner, the day and the crash. *)

\* A step on consents alone.
LEMMA ConsentKeeps ==
  ASSUME CampaignsAssumption, IInv, NEW c \in Contacts, NEW answer \in {"yes", "no"},
         consent' = [consent EXCEPT ![c] = answer],
         UNCHANGED <<campaign, send, loop, mails, used, other>>
  PROVE  IInv'
<1>1. ConsentSound'
  BY DEF IInv, ConsentSound
<1>2. Mailing' = Mailing
  BY DEF Mailing
<1>3. CapSound'
  BY <1>2, CapStays
<1>4. LoopsSound' /\ MailsSound' /\ RowsSound'
  BY DEF IInv, LoopsSound, MailsSound, RowsSound
<1>5. QED
  BY <1>1, <1>3, <1>4 DEF IInv

LEMMA DeleteCampaignKeeps ==
  ASSUME CampaignsAssumption, IInv, NEW k \in Campaigns, DeleteCampaign(k)
  PROVE  IInv'
<1>1. /\ campaign' = [campaign EXCEPT ![k] = "gone"]
      /\ send' = [s \in Sends |-> IF s[1] = k THEN "none" ELSE send[s]]
      /\ UNCHANGED <<consent, loop, mails, used, other>>
  BY DEF DeleteCampaign
<1>2. send' \in [Sends -> {"none", "pending", "sent", "failed"}]
  BY <1>1 DEF IInv, RowsSound
<1>3. \A j \in Campaigns, c \in Contacts :
        send'[<<j, c>>] = IF j = k THEN "none" ELSE send[<<j, c>>]
  BY <1>1 DEF Sends
<1>4. Mailing' = Mailing
  BY <1>1 DEF Mailing
<1>5. CapSound'
  BY <1>1, <1>4, CapStays
<1>6. LoopsSound' /\ MailsSound' /\ ConsentSound'
  BY <1>1 DEF IInv, LoopsSound, MailsSound, RowsSound, ConsentSound
<1>7. RowsSound'
  <2> SUFFICES ASSUME NEW j \in Campaigns, NEW d \in Contacts
               PROVE  /\ send'[<<j, d>>] = "sent" => mails'[<<j, d>>] > 0
                      /\ send'[<<j, d>>] = "pending" =>
                           /\ campaign'[j] = "sending"
                           /\ \/ loop'[j] = Lost \/ d \in loop'[j].left
                              \/ loop'[j].at = "mailing" /\ loop'[j].to = d
    BY <1>1, <1>2 DEF IInv, RowsSound
  <2>1. send'[<<j, d>>] # "none" => send'[<<j, d>>] = send[<<j, d>>] /\ campaign'[j] = campaign[j]
    BY <1>1, <1>3 DEF IInv, RowsSound
  <2>2. /\ send[<<j, d>>] = "sent" => mails[<<j, d>>] > 0
        /\ send[<<j, d>>] = "pending" =>
             /\ campaign[j] = "sending"
             /\ \/ loop[j] = Lost \/ d \in loop[j].left
                \/ loop[j].at = "mailing" /\ loop[j].to = d
    BY DEF IInv, RowsSound
  <2>3. QED
    BY <1>1, <2>1, <2>2
<1>8. QED
  BY <1>5, <1>6, <1>7 DEF IInv

LEMMA EraseContactKeeps ==
  ASSUME CampaignsAssumption, IInv, NEW c \in Contacts, EraseContact(c)
  PROVE  IInv'
<1>1. /\ consent' = [consent EXCEPT ![c] = "gone"]
      /\ send' = [s \in Sends |-> IF s[2] = c THEN "none" ELSE send[s]]
      /\ UNCHANGED <<campaign, loop, mails, used, other>>
  BY DEF EraseContact
<1>2. send' \in [Sends -> {"none", "pending", "sent", "failed"}]
  BY <1>1 DEF IInv, RowsSound
<1>3. \A k \in Campaigns, d \in Contacts :
        send'[<<k, d>>] = IF d = c THEN "none" ELSE send[<<k, d>>]
  BY <1>1 DEF Sends
<1>4. Mailing' = Mailing
  BY <1>1 DEF Mailing
<1>5. CapSound'
  BY <1>1, <1>4, CapStays
<1>6. LoopsSound' /\ MailsSound' /\ ConsentSound'
  BY <1>1 DEF IInv, LoopsSound, MailsSound, ConsentSound
<1>7. RowsSound'
  <2> SUFFICES ASSUME NEW j \in Campaigns, NEW d \in Contacts
               PROVE  /\ send'[<<j, d>>] = "sent" => mails'[<<j, d>>] > 0
                      /\ send'[<<j, d>>] = "pending" =>
                           /\ campaign'[j] = "sending"
                           /\ \/ loop'[j] = Lost \/ d \in loop'[j].left
                              \/ loop'[j].at = "mailing" /\ loop'[j].to = d
    BY <1>1, <1>2 DEF IInv, RowsSound
  <2>1. send'[<<j, d>>] # "none" => send'[<<j, d>>] = send[<<j, d>>] /\ campaign'[j] = campaign[j]
    BY <1>1, <1>3 DEF IInv, RowsSound
  <2>2. /\ send[<<j, d>>] = "sent" => mails[<<j, d>>] > 0
        /\ send[<<j, d>>] = "pending" =>
             /\ campaign[j] = "sending"
             /\ \/ loop[j] = Lost \/ d \in loop[j].left
                \/ loop[j].at = "mailing" /\ loop[j].to = d
    BY DEF IInv, RowsSound
  <2>3. QED
    BY <1>1, <2>1, <2>2
<1>8. QED
  BY <1>5, <1>6, <1>7 DEF IInv

LEMMA CrashKeeps ==
  ASSUME CampaignsAssumption, IInv, Crash
  PROVE  IInv'
<1>1. /\ loop' = [k \in Campaigns |-> IF loop[k] = Off THEN Off ELSE Lost] /\ other' = 0
      /\ UNCHANGED <<consent, campaign, send, mails, used>>
  BY DEF Crash
<1>2. /\ Off \in Loop /\ Lost \in Loop /\ Off.at = "off" /\ Lost.at = "lost"
      /\ Off.left = {} /\ Lost.left = {} /\ Off # Lost
  BY DEF Off, Lost, Loop
<1> HIDE DEF Off, Lost
<1>3. LoopsSound'
  BY <1>1, <1>2 DEF IInv, LoopsSound
<1>4. MailsSound'
  BY <1>1, <1>2 DEF IInv, MailsSound
<1>5. RowsSound'
  BY <1>1, <1>2 DEF IInv, RowsSound
<1>6. Mailing' = {}
  BY <1>1, <1>2 DEF Mailing
<1>7. Cardinality(Mailing') = 0 /\ Cardinality(Campaigns) \in Nat
  BY <1>6, FS_EmptySet, FS_CardinalityType DEF CampaignsAssumption
<1>8. Mailing \in SUBSET Campaigns
  BY DEF Mailing
<1>9. Cardinality(Mailing) \in Nat
  BY <1>8, SomeCampaigns
<1>10. CapSound'
  BY <1>1, <1>7, <1>9 DEF IInv, CapSound, CampaignsAssumption
<1>11. ConsentSound'
  BY <1>1 DEF IInv, ConsentSound
<1>12. QED
  BY <1>3, <1>4, <1>5, <1>10, <1>11 DEF IInv

\* The steps that touch nothing but the counts.
LEMMA CountsKeep ==
  ASSUME CampaignsAssumption, IInv, OtherMail \/ OtherAnswered \/ NewDay
  PROVE  IInv'
<1>1. UNCHANGED <<consent, campaign, send, loop, mails>>
  BY DEF OtherMail, OtherAnswered, NewDay
<1>2. LoopsSound' /\ MailsSound' /\ RowsSound' /\ ConsentSound'
  BY <1>1 DEF IInv, LoopsSound, MailsSound, RowsSound, ConsentSound
<1>3. Mailing' = Mailing /\ Mailing \in SUBSET Campaigns
  BY <1>1 DEF Mailing
<1>4. /\ Cardinality(Mailing') = Cardinality(Mailing) /\ Cardinality(Mailing) \in Nat
      /\ Cardinality(Campaigns) \in Nat /\ Cardinality(Mailing) <= Cardinality(Campaigns)
  BY <1>3, SomeCampaigns
<1>5. OtherMail => CapSound'
  BY <1>4 DEF IInv, CapSound, CampaignsAssumption, OtherMail
<1>6. OtherAnswered => CapSound'
  BY <1>4 DEF IInv, CapSound, CampaignsAssumption, OtherAnswered
<1>7. NewDay => CapSound'
  BY <1>4 DEF IInv, CapSound, CampaignsAssumption, NewDay
<1>8. CapSound'
  BY <1>5, <1>6, <1>7
<1>9. QED
  BY <1>2, <1>8 DEF IInv

-----------------------------------------------------------------------------
(* The invariant, and what follows from it. *)

LEMMA InitHolds ==
  ASSUME CampaignsAssumption, Init
  PROVE  IInv
<1>1. Off \in Loop /\ Off.at = "off"
  BY DEF Off, Loop
<1>2. LoopsSound
  BY <1>1 DEF Init, LoopsSound
<1>3. MailsSound
  BY <1>1 DEF Init, MailsSound, Sends
<1>4. RowsSound
  BY <1>1 DEF Init, RowsSound, Sends
<1>5. Mailing = {}
  BY <1>1 DEF Init, Mailing
<1>6. Cardinality(Mailing) = 0 /\ Cardinality(Campaigns) \in Nat
  BY <1>5, FS_EmptySet, FS_CardinalityType DEF CampaignsAssumption
<1>7. CapSound
  BY <1>6 DEF Init, CapSound, CampaignsAssumption
<1>8. ConsentSound
  BY DEF Init, ConsentSound
<1>9. QED
  BY <1>2, <1>3, <1>4, <1>7, <1>8 DEF IInv

LEMMA StutterKeeps ==
  ASSUME IInv, UNCHANGED vars
  PROVE  IInv'
<1>1. LoopsSound' /\ MailsSound' /\ RowsSound' /\ ConsentSound'
  BY DEF IInv, LoopsSound, MailsSound, RowsSound, ConsentSound, vars
<1>2. Mailing' = Mailing
  BY DEF Mailing, vars
<1>3. CapSound'
  BY <1>2 DEF IInv, CapSound, vars
<1>4. QED
  BY <1>1, <1>3 DEF IInv

LEMMA Inductive ==
  ASSUME CampaignsAssumption, IInv, [Next]_vars
  PROVE  IInv'
<1>1. ASSUME NEW k \in Campaigns, StartSend(k)
      PROVE  IInv'
  BY <1>1, StartSendKeeps
<1>2. ASSUME NEW k \in Campaigns, MailArrives(k)
      PROVE  IInv'
  BY <1>2, MailArrivesKeeps
<1>3. ASSUME NEW k \in Campaigns, MailAccepted(k)
      PROVE  IInv'
  BY <1>3, MailAcceptedKeeps
<1>4. ASSUME NEW k \in Campaigns, MailFailed(k)
      PROVE  IInv'
  BY <1>4, MailFailedKeeps
<1>5. ASSUME NEW k \in Campaigns, NextMail(k)
      PROVE  IInv'
  BY <1>5, NextMailKeeps
<1>6. ASSUME NEW k \in Campaigns, DeleteCampaign(k)
      PROVE  IInv'
  BY <1>6, DeleteCampaignKeeps
<1>7. ASSUME NEW k \in Campaigns, NEW c \in Contacts, Unsubscribe(k, c)
      PROVE  IInv'
  <2>1. /\ consent' = [consent EXCEPT ![c] = "no"]
        /\ UNCHANGED <<campaign, send, loop, mails, used, other>>
    BY <1>7 DEF Unsubscribe
  <2>2. QED
    BY <2>1, ConsentKeeps
<1>8. ASSUME NEW c \in Contacts, NEW answer \in {"yes", "no"}, SetConsent(c, answer)
      PROVE  IInv'
  <2>1. /\ consent' = [consent EXCEPT ![c] = answer]
        /\ UNCHANGED <<campaign, send, loop, mails, used, other>>
    BY <1>8 DEF SetConsent
  <2>2. QED
    BY <2>1, ConsentKeeps
<1>9. ASSUME NEW c \in Contacts, EraseContact(c)
      PROVE  IInv'
  BY <1>9, EraseContactKeeps
<1>10. CASE OtherMail \/ OtherAnswered \/ NewDay
  BY <1>10, CountsKeep
<1>11. CASE Crash
  BY <1>11, CrashKeeps
<1>12. CASE UNCHANGED vars
  BY <1>12, StutterKeeps
<1>13. QED
  BY <1>1, <1>2, <1>3, <1>4, <1>5, <1>6, <1>7, <1>8, <1>9, <1>10, <1>11, <1>12 DEF Next

LEMMA InvariantHolds == Spec => []IInv
<1>1. Init => IInv
  BY CampaignsAssumption, InitHolds
<1>2. IInv /\ [Next]_vars => IInv'
  BY CampaignsAssumption, Inductive
<1>3. QED
  BY <1>1, <1>2, PTL DEF Spec

\* Consents, statuses, rows and loops keep to their values, and the day's count is
\* a number.
THEOREM TypeCorrect == Spec => []TypeOK
<1>1. IInv => TypeOK
  BY DEF IInv, LoopsSound, MailsSound, RowsSound, CapSound, ConsentSound, Loop, TypeOK
<1>2. QED
  BY <1>1, InvariantHolds, PTL

\* A campaign mails nobody twice, however long the list and whatever fails: whoever
\* has been mailed is behind the loop, and no campaign is started again.
THEOREM MailedOnce == Spec => []NobodyTwice
<1>1. IInv => NobodyTwice
  BY DEF IInv, MailsSound, NobodyTwice, Sends
<1>2. QED
  BY <1>1, InvariantHolds, PTL

\* A campaign shown as sent has no row that waits, and a row shown as sent was
\* delivered.
THEOREM ScreenIsTrue == Spec => []ScreenTellsTruth
<1>1. IInv => ScreenTellsTruth
  BY DEF IInv, RowsSound, ScreenTellsTruth, Sends
<1>2. QED
  BY <1>1, InvariantHolds, PTL

\* The day's count stays below the cap, but for the messages that were at the mail
\* server together: their number, added to the count, is what the steps keep.
THEOREM CapKept == Spec => []CapHolds
<1>1. IInv => CapHolds
  <2> SUFFICES ASSUME IInv
               PROVE  CapHolds
    OBVIOUS
  <2>1. Mailing \in SUBSET Campaigns
    BY DEF Mailing
  <2>2. Cardinality(Mailing) \in Nat /\ Cardinality(Campaigns) \in Nat
    BY <2>1, CampaignsAssumption, SomeCampaigns
  <2>3. QED
    BY <2>2, CampaignsAssumption DEF IInv, CapSound, CapHolds, CampaignsAssumption
<1>2. QED
  BY <1>1, InvariantHolds, PTL
=============================================================================

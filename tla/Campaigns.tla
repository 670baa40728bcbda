----------------------------- MODULE Campaigns -----------------------------
(***************************************************************************)
(* Mail campaigns (src/crm/campaigns.js over src/notify.js): the audience  *)
(* frozen into rows, the loop that mails them one by one, the daily cap,   *)
(* the one-click unsubscribe, and the owner who deletes a campaign or a    *)
(* person meanwhile.                                                       *)
(*                                                                         *)
(* startSend answers when the rows exist; the loop then awaits the mail    *)
(* server and a gap after each message, and holds the rows it was given in *)
(* memory: it never looks at the tables again.                             *)
(***************************************************************************)
EXTENDS Integers, FiniteSets, FiniteSetsExt

CONSTANTS
  Campaigns,  \* each over the same list
  Contacts,   \* the list: 1 .. n, mailed in this order
  MaxPerDay,  \* the daily cap
  Others,     \* bound: the other messages that are at the mail server at once
  Crashes     \* may the process end?

ASSUME CampaignsAssumption ==
  /\ Contacts \subseteq Nat /\ IsFiniteSet(Contacts) /\ IsFiniteSet(Campaigns)
  /\ MaxPerDay \in Nat \ {0} /\ Others \in Nat /\ Crashes \in BOOLEAN

VARIABLES
  consent,   \* contact -> "yes", "no", or "gone" with the contact
  campaign,  \* campaign -> its status, "gone" once deleted
  send,      \* <<campaign, contact>> -> its row of crm_campaign_sends
  loop,      \* campaign -> its delivery loop: where it is, who is left, who it mails
  mails,     \* <<campaign, contact>> -> messages the server delivered
  used,      \* the messages counted today
  other      \* the other messages at the mail server

vars == <<consent, campaign, send, loop, mails, used, other>>

Sends == Campaigns \X Contacts
Off   == [at |-> "off", left |-> {}, to |-> 0, arrived |-> FALSE]
Lost  == [Off EXCEPT !.at = "lost"]  \* ended with the process

Init ==
  /\ consent \in [Contacts -> {"yes", "no"}]
  /\ campaign = [k \in Campaigns |-> "draft"]
  /\ send = [s \in Sends |-> "none"]
  /\ loop = [k \in Campaigns |-> Off]
  /\ mails = [s \in Sends |-> 0]
  /\ used \in {0, MaxPerDay - 1} /\ other = 0

-----------------------------------------------------------------------------
(* One message handed to the mail server.  sendMail looks at the cap before *)
(* it awaits the server, and counts the message after.                      *)

Mark(rows, s, status) == IF rows[s] = "none" THEN rows ELSE [rows EXCEPT ![s] = status]

\* Mutant: only startSend looks at the cap.
HandUncapped(k, left, rows) ==
  LET c == Min(left)
      now == [at |-> "mailing", left |-> left \ {c}, to |-> c, arrived |-> FALSE]
  IN loop' = [loop EXCEPT ![k] = now] /\ send' = rows

\* The next of `left` is mailed, or refused at once and marked so.
Hand(k, left, rows) ==
  LET c == Min(left)
      now == [at |-> "mailing", left |-> left \ {c}, to |-> c, arrived |-> FALSE]
  IN IF used < MaxPerDay
     THEN loop' = [loop EXCEPT ![k] = now] /\ send' = rows
     ELSE /\ loop' = [loop EXCEPT ![k] = [now EXCEPT !.at = "gap"]]
          /\ send' = Mark(rows, <<k, c>>, "failed")

-----------------------------------------------------------------------------
(* Starting, and the loop. *)

Audience == {c \in Contacts : consent[c] = "yes"}

\* Mutant: a campaign may be started again.
StartSendAgain(k) ==
  /\ campaign[k] \notin {"gone"} /\ Audience # {}
  /\ Cardinality(Audience) <= MaxPerDay - used
  /\ campaign' = [campaign EXCEPT ![k] = "sending"]
  /\ Hand(k, Audience, [s \in Sends |-> IF s[1] = k /\ s[2] \in Audience THEN "pending" ELSE send[s]])
  /\ UNCHANGED <<consent, mails, used, other>>

\* Everything up to the first await of the loop is one step.
StartSend(k) ==
  /\ campaign[k] = "draft" /\ Audience # {}
  /\ Cardinality(Audience) <= MaxPerDay - used
  /\ campaign' = [campaign EXCEPT ![k] = "sending"]
  /\ Hand(k, Audience, [s \in Sends |-> IF s[1] = k /\ s[2] \in Audience THEN "pending" ELSE send[s]])
  /\ UNCHANGED <<consent, mails, used, other>>

\* The server takes the message; whether we hear of it is another step.
MailArrives(k) ==
  /\ loop[k].at = "mailing" /\ ~loop[k].arrived
  /\ loop' = [loop EXCEPT ![k].arrived = TRUE]
  /\ mails' = [mails EXCEPT ![<<k, loop[k].to>>] = @ + 1]
  /\ UNCHANGED <<consent, campaign, send, used, other>>

MailAccepted(k) ==
  /\ loop[k].at = "mailing" /\ loop[k].arrived
  /\ loop' = [loop EXCEPT ![k].at = "gap"]
  /\ send' = Mark(send, <<k, loop[k].to>>, "sent")
  /\ used' = used + 1
  /\ UNCHANGED <<consent, campaign, mails, other>>

\* Mutant: the error leaves the loop.
MailFailedThrows(k) ==
  /\ loop[k].at = "mailing"
  /\ loop' = [loop EXCEPT ![k] = Off]
  /\ send' = Mark(send, <<k, loop[k].to>>, "failed")
  /\ UNCHANGED <<consent, campaign, mails, used, other>>

\* Refused, or taken and the answer lost.
MailFailed(k) ==
  /\ loop[k].at = "mailing"
  /\ loop' = [loop EXCEPT ![k].at = "gap"]
  /\ send' = Mark(send, <<k, loop[k].to>>, "failed")
  /\ UNCHANGED <<consent, campaign, mails, used, other>>

\* Mutant: the campaign is closed one message early.
NextMailEarly(k) ==
  /\ loop[k].at = "gap"
  /\ IF Cardinality(loop[k].left) <= 1
     THEN /\ loop' = [loop EXCEPT ![k] = Off]
          /\ campaign' = [campaign EXCEPT ![k] = IF @ = "gone" THEN @ ELSE "sent"]
          /\ UNCHANGED send
     ELSE Hand(k, loop[k].left, send) /\ UNCHANGED campaign
  /\ UNCHANGED <<consent, mails, used, other>>

\* The gap is over: the next row, or the end.
NextMail(k) ==
  /\ loop[k].at = "gap"
  /\ IF loop[k].left = {}
     THEN /\ loop' = [loop EXCEPT ![k] = Off]
          /\ campaign' = [campaign EXCEPT ![k] = IF @ = "gone" THEN @ ELSE "sent"]
          /\ UNCHANGED send
     ELSE Hand(k, loop[k].left, send) /\ UNCHANGED campaign
  /\ UNCHANGED <<consent, mails, used, other>>

-----------------------------------------------------------------------------
(* The recipient, the owner, the day, the crash. *)

\* The token in the message must still find its row.
Unsubscribe(k, c) ==
  /\ mails[<<k, c>>] > 0 /\ send[<<k, c>>] # "none"
  /\ consent' = [consent EXCEPT ![c] = "no"]
  /\ UNCHANGED <<campaign, send, loop, mails, used, other>>

\* A form submission gives it; the owner's edit of the card gives or clears it.
SetConsent(c, answer) ==
  /\ consent[c] \notin {"gone", answer}
  /\ consent' = [consent EXCEPT ![c] = answer]
  /\ UNCHANGED <<campaign, send, loop, mails, used, other>>

\* The rows go with the campaign, and with the contact.
DeleteCampaign(k) ==
  /\ campaign[k] # "gone"
  /\ campaign' = [campaign EXCEPT ![k] = "gone"]
  /\ send' = [s \in Sends |-> IF s[1] = k THEN "none" ELSE send[s]]
  /\ UNCHANGED <<consent, loop, mails, used, other>>

EraseContact(c) ==
  /\ consent[c] # "gone"
  /\ consent' = [consent EXCEPT ![c] = "gone"]
  /\ send' = [s \in Sends |-> IF s[2] = c THEN "none" ELSE send[s]]
  /\ UNCHANGED <<campaign, loop, mails, used, other>>

\* Lead notifications, order mails and sequences go through sendMail too: the
\* cap before the server is asked, the count when it has answered.
OtherMail ==
  /\ used < MaxPerDay /\ other < Others
  /\ other' = other + 1
  /\ UNCHANGED <<consent, campaign, send, loop, mails, used>>

OtherAnswered ==
  /\ other > 0
  /\ other' = other - 1
  /\ used' \in {used, used + 1}
  /\ UNCHANGED <<consent, campaign, send, loop, mails>>

\* Mutant: a new day takes the cap off the count.
NewDaySubtracts ==
  /\ used > 0
  /\ used' = used - MaxPerDay
  /\ UNCHANGED <<consent, campaign, send, loop, mails, other>>

NewDay ==
  /\ used > 0
  /\ used' = 0
  /\ UNCHANGED <<consent, campaign, send, loop, mails, other>>

\* The loops are gone, and nothing takes a campaign up again.
Crash ==
  /\ Crashes /\ (other > 0 \/ \E k \in Campaigns : loop[k] \notin {Off, Lost})
  /\ loop' = [k \in Campaigns |-> IF loop[k] = Off THEN Off ELSE Lost] /\ other' = 0
  /\ UNCHANGED <<consent, campaign, send, mails, used>>

Next ==
  \/ \E k \in Campaigns : \/ StartSend(k) \/ MailArrives(k) \/ MailAccepted(k)
                          \/ MailFailed(k) \/ NextMail(k) \/ DeleteCampaign(k)
                          \/ \E c \in Contacts : Unsubscribe(k, c)
  \/ \E c \in Contacts : SetConsent(c, "yes") \/ SetConsent(c, "no") \/ EraseContact(c)
  \/ OtherMail \/ OtherAnswered \/ NewDay \/ Crash

Spec == Init /\ [][Next]_vars

\* The mail server answers or the socket times out; the gap's timer fires.
FairSpec ==
  /\ Spec
  /\ \A k \in Campaigns : WF_vars(MailAccepted(k) \/ MailFailed(k)) /\ WF_vars(NextMail(k))

-----------------------------------------------------------------------------
(* Properties. *)

TypeOK ==
  /\ consent \in [Contacts -> {"yes", "no", "gone"}]
  /\ campaign \in [Campaigns -> {"draft", "sending", "sent", "gone"}]
  /\ send \in [Sends -> {"none", "pending", "sent", "failed"}]
  /\ loop \in [Campaigns -> [at: {"off", "mailing", "gap", "lost"}, left: SUBSET Contacts,
                             to: Contacts \cup {0}, arrived: BOOLEAN]]
  /\ mails \in [Sends -> Nat]
  /\ used \in Nat /\ other \in 0 .. Others

\* A campaign never mails one person twice, whatever is pressed again, lost,
\* crashed or given consent to again in between (startSend, deliverQueued).
NobodyTwice == \A s \in Sends : mails[s] <= 1

\* What the campaign's screen says is true: "sent" means that no row still waits,
\* and a row that is marked sent was delivered (deliverQueued).
ScreenTellsTruth ==
  \A s \in Sends :
    /\ campaign[s[1]] = "sent" => send[s] # "pending"
    /\ send[s] = "sent" => mails[s] > 0

\* The cap is soft, by this much: each sender checks it before its await and
\* counts after, so a day may end over it by one message for each but the first of
\* those that are at the mail server at once, and by no more (sendMail,
\* remainingToday, recordSendSuccess).
CapHolds == used <= MaxPerDay - 1 + Cardinality(Campaigns) + Others

\* Every loop comes to its end, failures, deletions and cap refusals included,
\* as long as the process lives (deliverQueued).
CampaignEnds == \A k \in Campaigns : 
  campaign[k] = "sending" ~> campaign[k] # "sending" \/ loop[k] = Lost

-----------------------------------------------------------------------------
(* What the comments say, and the code does not keep. *)

\* "CONSENT IS THE RECIPIENT LIST. Only contacts with consent = 1 (...) are ever
\* sent to" (campaigns.js:9): nobody is mailed who has not consented then.
OnlyConsenting ==
  [][\A k \in Campaigns :
       loop'[k].at = "mailing" /\ loop'[k].to # loop[k].to => consent[loop'[k].to] = "yes"]_vars

\* "EVERY MESSAGE CARRIES AN UNSUBSCRIBE (...) Unsubscribing clears consent"
\* (campaigns.js:14): the token of a delivered message finds the contact.
UnsubscribeWorks ==
  \A k \in Campaigns, c \in Contacts :
    mails[<<k, c>>] > 0 /\ consent[c] # "gone" => send[<<k, c>>] # "none"

=============================================================================

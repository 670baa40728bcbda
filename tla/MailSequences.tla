--------------------------- MODULE MailSequences ---------------------------
(***************************************************************************)
(* The mail drip of one sequence (src/crm/sequences.js over src/notify.js):*)
(* enrolment, the batch that mails what is due, and the owner's edits of   *)
(* the steps, the enrolments and the consents while a batch runs.          *)
(*                                                                         *)
(* A batch is started on boot, once a day and by the owner's button, and   *)
(* nothing keeps one from running beside another.  It reads the due rows   *)
(* once and works from that copy: between two messages it awaits the mail  *)
(* server and a gap, and everything else of it runs without a break.       *)
(***************************************************************************)
EXTENDS Integers, SequencesExt

CONSTANTS
  Contacts, Nobody,
  Enrolls,   \* bound: the enrolments that may be made, 1 .. n
  StepIds,   \* bound: the steps that may exist, 1 .. n
  FirstIds,  \* the steps the sequence begins with: the lowest of them
  Batches,   \* bound: the batches that may run at once
  MaxMails,  \* bound: how often the server takes one message of one enrolment
  Edits,     \* what the owner edits: "add", "delete", "blank", "drop"
  Faults     \* what goes wrong: "crash", "lost" (an answer of the mail server)

ASSUME SequencesAssumption ==
  /\ Enrolls \subseteq Nat \ {0} /\ StepIds \subseteq Nat /\ FirstIds \subseteq StepIds
  /\ IsFiniteSet(Enrolls) /\ IsFiniteSet(StepIds)
  /\ MaxMails \in Nat /\ Nobody \notin Contacts
  /\ \A e \in Enrolls : 1 .. e \subseteq Enrolls
  /\ Edits \subseteq {"add", "delete", "blank", "drop"} /\ Faults \subseteq {"crash", "lost"}

VARIABLES
  sequence,  \* "on", "off", or "gone" once deleted
  steps,     \* its steps in order, by id
  made,      \* the ids given to a step so far: none is given twice (AUTOINCREMENT)
  blank,     \* the steps without a subject or a body
  consent,   \* the contacts that may be mailed
  enr,       \* enrolment -> contact, status, step_index, when it runs next
  batch,     \* the batches: the copies still to do, and the one being mailed
  mails,     \* history: <<enrolment, step>> -> messages the server took
  owed,      \* history: enrolment -> the steps there were when it was made
  torn       \* history: the enrolments two batches held at once, or lost an answer of

vars == <<sequence, steps, made, blank, consent, enr, batch, mails, owed, torn>>

NoEnr  == [contact |-> Nobody, status |-> "none", index |-> 0, next |-> "none"]
\* A copy of an enrolment's row, and of the sequence as it was when it was mailed.
NoCopy == [enr |-> 0, index |-> 0, steps |-> <<>>]
Idle   == [at |-> "off", todo |-> <<>>, copy |-> NoCopy, arrived |-> FALSE]

\* Positions are given in the order of the ids, and packed in that order.
InOrder(seq) == \A i, j \in DOMAIN seq : i < j => seq[i] < seq[j]

Init ==
  /\ sequence = "on"
  /\ steps \in SetToSeqs(FirstIds) /\ InOrder(steps)
  /\ made = FirstIds /\ blank \in SUBSET FirstIds
  /\ consent = Contacts
  /\ enr = [e \in Enrolls |-> NoEnr]
  /\ batch = [b \in Batches |-> Idle]
  /\ mails = [p \in Enrolls \X StepIds |-> 0]
  /\ owed = [e \in Enrolls |-> {}] /\ torn = {}

-----------------------------------------------------------------------------
(* Enrolling, and ending an enrolment. *)

\* Mutant: consent is a matter of enrolling only.
MailableOnce(c) == TRUE
Mailable(c) == c \in consent

Active == {e \in Enrolls : enr[e].status = "active"}

\* Cancelled, or completed: only an active enrolment, whatever else is asked.
Ended(rows, e, status) ==
  IF rows[e].status = "active" THEN [rows EXCEPT ![e].status = status] ELSE rows

\* "later" is the day of the first step, which DayComes makes due: at once, when
\* its delay is 0.
Enroll(c) ==
  /\ sequence = "on" /\ steps # <<>> /\ c \in consent
  /\ \A e \in Active : enr[e].contact # c
  /\ \E e \in Enrolls :
       /\ enr[e].status = "none" /\ \A f \in 1 .. e - 1 : enr[f].status # "none"
       /\ enr' = [enr EXCEPT ![e] = [contact |-> c, status |-> "active", index |-> 0, next |-> "later"]]
       /\ owed' = [owed EXCEPT ![e] = ToSet(steps)]
  /\ UNCHANGED <<sequence, steps, made, blank, consent, batch, mails, torn>>

Cancel(e) ==
  /\ e \in Active
  /\ enr' = Ended(enr, e, "cancelled")
  /\ UNCHANGED <<sequence, steps, made, blank, consent, batch, mails, owed, torn>>

-----------------------------------------------------------------------------
(* The batch. *)

\* Mutant: the last step has another behind it.
StepSetOver(row, i, n) ==
  IF row.status = "gone" THEN row
  ELSE IF i > n THEN [row EXCEPT !.status = "completed", !.index = i, !.next = "none"]
  ELSE [row EXCEPT !.index = i, !.next = "later"]

\* The row's step_index becomes i, in a sequence of n steps.
StepSet(row, i, n) ==
  IF row.status = "gone" THEN row
  ELSE IF i >= n THEN [row EXCEPT !.status = "completed", !.index = i, !.next = "none"]
  ELSE [row EXCEPT !.index = i, !.next = "later"]

\* Mutant: the step after the row's own, not after the copy's.
AdvancedFromRow(rows, copy) ==
  [rows EXCEPT ![copy.enr] = StepSet(@, @.index + 1, Len(copy.steps))]

\* Mutant: the row is made active again, to be sure of it.
AdvancedActive(rows, copy) ==
  [rows EXCEPT ![copy.enr] =
     IF @.status = "gone" THEN @
     ELSE StepSet([@ EXCEPT !.status = "active"], copy.index + 1, Len(copy.steps))]

\* Mutant: the day of the next step is set, the step is not.
AdvancedInPlace(rows, copy) ==
  [rows EXCEPT ![copy.enr] = StepSet(@, copy.index, Len(copy.steps))]

\* The step after the copy's, in the sequence as the copy has it.  The row is
\* written by its id alone, whatever its status has become.
Advanced(rows, copy) ==
  [rows EXCEPT ![copy.enr] = StepSet(@, copy.index + 1, Len(copy.steps))]

\* One enrolment of the batch: cancelled when the sequence is off or the contact
\* may not be mailed, completed when its step is not there, advanced past a blank
\* one, left with all that follow when the day's mail is used up, or mailed.
Visit(acc, c, open) ==
  IF acc.full \/ acc.copy # NoCopy THEN [acc EXCEPT !.todo = Append(@, c)]
  ELSE IF sequence # "on" \/ steps = <<>> \/ ~Mailable(acc.enr[c.enr].contact)
  THEN [acc EXCEPT !.enr = Ended(@, c.enr, "cancelled")]
  ELSE IF c.index >= Len(steps) THEN [acc EXCEPT !.enr = Ended(@, c.enr, "completed")]
  ELSE IF steps[c.index + 1] \in blank THEN [acc EXCEPT !.enr = Advanced(@, [c EXCEPT !.steps = steps])]
  ELSE IF ~open THEN [acc EXCEPT !.full = TRUE]
  ELSE [acc EXCEPT !.copy = [c EXCEPT !.steps = steps]]

\* The loop from here to its next await, or to its end.
Runs(b, todo, open) ==
  LET end == FoldLeft(LAMBDA acc, c : Visit(acc, c, open),
                      [enr |-> enr, copy |-> NoCopy, todo |-> <<>>, full |-> FALSE], todo)
  IN /\ enr' = end.enr
     /\ batch' = [batch EXCEPT ![b] =
          IF end.copy = NoCopy THEN Idle
          ELSE [at |-> "mailing", todo |-> end.todo, copy |-> end.copy, arrived |-> FALSE]]

Due == {e \in Active : enr[e].next = "due"}
CopyOf(e) == [enr |-> e, index |-> enr[e].index, steps |-> <<>>]

\* The batch has the enrolment among its copies.
Holds(b, e) == \/ batch[b].at = "mailing" /\ batch[b].copy.enr = e
               \/ \E i \in DOMAIN batch[b].todo : batch[b].todo[i].enr = e

\* open: the day's mail is not used up.
BatchStarts(b, open) ==
  /\ batch[b].at = "off" /\ Due # {}
  /\ \E order \in SetToSeqs(Due) : Runs(b, [i \in DOMAIN order |-> CopyOf(order[i])], open)
  /\ torn' = torn \cup {e \in Due : \E c \in Batches \ {b} : Holds(c, e)}
  /\ UNCHANGED <<sequence, steps, made, blank, consent, mails, owed>>

BatchGoesOn(b, open) ==
  /\ batch[b].at = "gap"
  /\ Runs(b, batch[b].todo, open)
  /\ UNCHANGED <<sequence, steps, made, blank, consent, mails, owed, torn>>

\* The mail server takes the message.
MailArrives(b) ==
  LET copy == batch[b].copy IN
  /\ batch[b].at = "mailing" /\ ~batch[b].arrived
  /\ mails[<<copy.enr, copy.steps[copy.index + 1]>>] < MaxMails
  /\ batch' = [batch EXCEPT ![b].arrived = TRUE]
  /\ mails' = [mails EXCEPT ![<<copy.enr, copy.steps[copy.index + 1]>>] = @ + 1]
  /\ UNCHANGED <<sequence, steps, made, blank, consent, enr, owed, torn>>

\* What the batch's message did, nobody will know.
Torn(b) == IF batch[b].at = "mailing" /\ batch[b].arrived THEN {batch[b].copy.enr} ELSE {}

Answered(b) == batch' = [batch EXCEPT ![b] = [@ EXCEPT !.at = "gap", !.copy = NoCopy, !.arrived = FALSE]]

MailAccepted(b) ==
  /\ batch[b].at = "mailing" /\ batch[b].arrived
  /\ enr' = Advanced(enr, batch[b].copy)
  /\ Answered(b)
  /\ UNCHANGED <<sequence, steps, made, blank, consent, mails, owed, torn>>

\* Mutant: a failed step has no day to be tried again.
MailFailedForGood(b) ==
  /\ batch[b].at = "mailing" /\ (batch[b].arrived => "lost" \in Faults)
  /\ enr' = [enr EXCEPT ![batch[b].copy.enr].next = "none"]
  /\ Answered(b)
  /\ torn' = torn \cup Torn(b)
  /\ UNCHANGED <<sequence, steps, made, blank, consent, mails, owed>>

\* Refused, or taken and the answer lost: the day it is tried again is written
\* by the row's id alone, too.
MailFailed(b) ==
  /\ batch[b].at = "mailing" /\ (batch[b].arrived => "lost" \in Faults)
  /\ enr' = [enr EXCEPT ![batch[b].copy.enr].next = IF @ = "gone" THEN @ ELSE "later"]
  /\ Answered(b)
  /\ torn' = torn \cup Torn(b)
  /\ UNCHANGED <<sequence, steps, made, blank, consent, mails, owed>>

\* The day an enrolment waits for has come.
DayComes(e) ==
  /\ e \in Active /\ enr[e].next = "later"
  /\ enr' = [enr EXCEPT ![e].next = "due"]
  /\ UNCHANGED <<sequence, steps, made, blank, consent, batch, mails, owed, torn>>

Crash ==
  /\ "crash" \in Faults /\ \E b \in Batches : batch[b] # Idle
  /\ batch' = [b \in Batches |-> Idle]
  /\ torn' = torn \cup UNION {Torn(b) : b \in Batches}
  /\ UNCHANGED <<sequence, steps, made, blank, consent, enr, mails, owed>>

-----------------------------------------------------------------------------
(* The contact and the owner. *)

\* The token of a message finds its contact; every drip of that contact stops.
Unsubscribe(c) ==
  /\ \E e \in Enrolls : enr[e].contact = c /\ \E s \in StepIds : mails[<<e, s>>] > 0
  /\ consent' = consent \ {c}
  /\ enr' = [e \in Enrolls |-> IF enr[e].contact = c THEN Ended(enr, e, "cancelled")[e] ELSE enr[e]]
  /\ UNCHANGED <<sequence, steps, made, blank, batch, mails, owed, torn>>

\* A form, or the owner's edit of the card, which stops no drip by itself.
SetConsent(c) ==
  /\ consent' = IF c \in consent THEN consent \ {c} ELSE consent \cup {c}
  /\ UNCHANGED <<sequence, steps, made, blank, enr, batch, mails, owed, torn>>

AddStep ==
  /\ "add" \in Edits /\ sequence # "gone"
  /\ \E s \in StepIds :
       /\ \A r \in made : r < s
       /\ steps' = Append(steps, s) /\ made' = made \cup {s}
  /\ UNCHANGED <<sequence, blank, consent, enr, batch, mails, owed, torn>>

\* The steps behind it move up; the enrolments' step_index does not.
DeleteStep(s) ==
  /\ "delete" \in Edits
  /\ \E i \in DOMAIN steps : steps[i] = s /\ steps' = RemoveAt(steps, i)
  /\ UNCHANGED <<sequence, made, blank, consent, enr, batch, mails, owed, torn>>

UpdateStep(s) ==
  /\ "blank" \in Edits /\ s \in ToSet(steps)
  /\ blank' = IF s \in blank THEN blank \ {s} ELSE blank \cup {s}
  /\ UNCHANGED <<sequence, steps, made, consent, enr, batch, mails, owed, torn>>

Switch ==
  /\ sequence # "gone"
  /\ sequence' = IF sequence = "on" THEN "off" ELSE "on"
  /\ UNCHANGED <<steps, made, blank, consent, enr, batch, mails, owed, torn>>

\* Its steps and its enrolments go with the sequence.
DeleteSequence ==
  /\ "drop" \in Edits /\ sequence # "gone"
  /\ sequence' = "gone" /\ steps' = <<>>
  /\ enr' = [e \in Enrolls |-> IF enr[e].status = "none" THEN enr[e]
                               ELSE [enr[e] EXCEPT !.status = "gone", !.next = "gone"]]
  /\ UNCHANGED <<made, blank, consent, batch, mails, owed, torn>>

Next ==
  \/ \E c \in Contacts : Enroll(c) \/ Unsubscribe(c) \/ SetConsent(c)
  \/ \E e \in Enrolls : Cancel(e) \/ DayComes(e)
  \/ \E b \in Batches : \/ \E open \in BOOLEAN : BatchStarts(b, open) \/ BatchGoesOn(b, open)
                        \/ MailArrives(b) \/ MailAccepted(b) \/ MailFailed(b)
  \/ AddStep \/ \E s \in StepIds : DeleteStep(s) \/ UpdateStep(s)
  \/ Switch \/ DeleteSequence \/ Crash

Spec == Init /\ [][Next]_vars

\* The day comes and so does the day's batch, at a time when mail is left to send;
\* it goes on to its end, and each try is answered.  And of the mail server: it
\* takes in the end what it is given again and again.
FairSpec ==
  /\ Spec
  /\ \A e \in Enrolls : WF_vars(DayComes(e))
  /\ \A b \in Batches :
       /\ WF_vars(BatchStarts(b, TRUE)) /\ WF_vars(\E open \in BOOLEAN : BatchGoesOn(b, open))
       /\ WF_vars(MailAccepted(b) \/ MailFailed(b))
       /\ \A e \in Enrolls : SF_vars(MailArrives(b) /\ batch[b].copy.enr = e)

-----------------------------------------------------------------------------
(* Properties. *)

Copies == [enr: Enrolls \cup {0}, index: Nat, steps: Seq(StepIds)]
Rows   == [contact: Contacts \cup {Nobody}, index: 0 .. Cardinality(StepIds),
           status: {"none", "active", "completed", "cancelled", "gone"},
           next: {"none", "later", "due", "gone"}]

TypeOK ==
  /\ sequence \in {"on", "off", "gone"}
  /\ steps \in Seq(StepIds) /\ made \subseteq StepIds
  /\ blank \subseteq StepIds /\ consent \subseteq Contacts
  /\ enr \in [Enrolls -> Rows] /\ \A e \in Active : enr[e].index < Cardinality(StepIds)
  /\ batch \in [Batches -> [at: {"off", "mailing", "gap"}, todo: Seq(Copies),
                            copy: Copies, arrived: BOOLEAN]]
  /\ \A b \in Batches :
       batch[b].at = "mailing" => batch[b].copy.index < Len(batch[b].copy.steps)
  /\ mails \in [Enrolls \X StepIds -> Nat] /\ owed \in [Enrolls -> SUBSET StepIds]
  /\ torn \subseteq Enrolls

\* A contact runs through the sequence once at a time: a batch that comes back
\* late to an enrolment that ended meanwhile does not bring it back to life
\* beside a newer one (enroll, advanceEnrollment).
OneActive == \A e, f \in Active : enr[e].contact = enr[f].contact => e = f

\* Consent is looked at for each message when its turn comes, so one withdrawn
\* during the batch is kept, unlike in a campaign (processDue, canMailContact).
Mails(b) == batch[b].at # "mailing" /\ batch'[b].at = "mailing"
ConsentHolds ==
  [][\A b \in Batches : Mails(b) => enr[batch'[b].copy.enr].contact \in consent]_vars

\* A finished drip has mailed every step it had when the contact enrolled, save
\* the blank ones: batches that overlap, failures, crashes and steps added behind
\* repeat a step at worst, they never jump over one (processDue, advanceEnrollment).
NothingSkipped ==
  \A e \in Enrolls : enr[e].status = "completed" =>
    \A s \in owed[e] \ blank : mails[<<e, s>>] > 0

\* A second message of a step has one of two reasons: two batches held the enrolment
\* together, or the answer to a message that arrived was lost, in a crash or on the way.
\* Other enrolments' overlaps and losses, retries of what failed, and whatever is
\* edited, cancelled or switched, repeat nothing (processDue, advanceEnrollment).
StepMailedOnce == \A e \in Enrolls \ torn, s \in StepIds : mails[<<e, s>>] <= 1

\* No enrolment is stranded: one that is active is mailed to its end, or ended
\* otherwise, however often a message fails on the way (processDue).
EnrollmentEnds == \A e \in Enrolls : enr[e].status = "active" ~> enr[e].status # "active"

-----------------------------------------------------------------------------
(* What the comments say, and the code does not keep. *)

\* "Process due enrollments. Safe to call often" (sequences.js:263), of the mails: the
\* due query claims nothing, and two batches that overlap mail a step twice.
SafeToCallOften == \A p \in Enrolls \X StepIds : mails[p] <= 1

\* "Consent-gated, SMTP-backed, stoppable" (db.js:457): a drip that was stopped
\* mails no more.
StoppedIsStopped ==
  [][\A b \in Batches : Mails(b) => batch'[b].copy.enr \in Active]_vars

=============================================================================

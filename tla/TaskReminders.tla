--------------------------- MODULE TaskReminders ---------------------------
(***************************************************************************)
(* Mail about the sales tasks (src/crm/task-reminders.js over tasks.js and *)
(* notify.js): the pass that reminds each customer of a due task, and the  *)
(* owner's digest of what is due.                                          *)
(*                                                                         *)
(* Both run on boot, once a day, on every save of the privacy settings and *)
(* on the owner's button, and nothing keeps one from running beside        *)
(* another.  A pass lists its tasks once and writes the day it began on;   *)
(* between two messages it awaits the mail server and a gap.               *)
(***************************************************************************)
EXTENDS Integers, FiniteSets, FiniteSetsExt

CONSTANTS
  Tasks,     \* 1 .. n, in the order of the list: by due date, then by id
  Limit,     \* how many tasks one pass lists
  Passes,    \* bound: the passes that may run at once
  Digests,   \* bound: the digests that may be at the mail server at once
  Refused,   \* the tasks whose customer's mailbox takes no mail
  Cards,     \* what becomes of a contact's card: "noaddress", "provisional", "garbage"
  Crashes    \* may the process end?

ASSUME TaskRemindersAssumption ==
  /\ IsFiniteSet(Tasks) /\ Tasks = 1 .. Cardinality(Tasks)
  /\ Limit \in Nat \ {0} /\ Refused \subseteq Tasks /\ Crashes \in BOOLEAN
  /\ Cards \subseteq {"noaddress", "provisional", "garbage"}

VARIABLES
  task,     \* task -> its row and its contact's card
  reached,  \* the tasks up to this one have their due date behind them
  pass,     \* the customer passes
  digest,   \* the digests at the mail server
  stamp,    \* lastSentDay of the digest
  mailed,   \* history: task -> the reminders of today, as the server told us
  excused,  \* history: task -> those of them from a pass of yesterday, or beside another
  told,     \* history: the digests of today, but for the button's
  spare,    \* history: those of them begun yesterday, or beside another
  reminded  \* history: the tasks there has been a reminder of at all

history == <<mailed, excused, told, spare, reminded>>
vars == <<task, reached, pass, digest, stamp, history>>

\* A day that is written down is today or an older one; none is as good as older.
Day == {"today", "old"}

Task   == [status: {"none", "open", "closed", "gone"}, mark: Day,
           card: {"reachable", "noaddress", "provisional", "garbage"}]
\* beside, for the history: the tasks of the list that another pass was still to mail
\* when this one listed them, or whether the digest began beside another.
Pass   == [at: {"off", "mailing", "gap"}, day: Day, todo: SUBSET Tasks, to: Tasks \cup {0},
           beside: SUBSET Tasks]
Digest == [at: {"off", "mailing"}, day: Day, forced: BOOLEAN, beside: BOOLEAN]

NoPass   == [at |-> "off", day |-> "old", todo |-> {}, to |-> 0, beside |-> {}]
NoDigest == [at |-> "off", day |-> "old", forced |-> FALSE, beside |-> FALSE]

Init ==
  /\ task = [t \in Tasks |-> [status |-> "none", mark |-> "old", card |-> "reachable"]]
  /\ reached = 0
  /\ pass = [p \in Passes |-> NoPass] /\ digest = [d \in Digests |-> NoDigest]
  /\ stamp = "old"
  /\ mailed = [t \in Tasks |-> 0] /\ excused = mailed
  /\ told = 0 /\ spare = 0 /\ reminded = {}

-----------------------------------------------------------------------------
(* The customers. *)

IsDue(t) == task[t].status = "open" /\ t <= reached

\* Mutant: what was reminded today is listed again.
CandidatesUnmarked == {t \in Tasks : IsDue(t) /\ task[t].card = "reachable"}

Candidates == {t \in Tasks : IsDue(t) /\ task[t].card = "reachable" /\ task[t].mark # "today"}

\* Mutant: one too few.
FirstShort(n, S) == {t \in S : Cardinality({u \in S : u <= t}) < n}
First(n, S) == {t \in S : Cardinality({u \in S : u < t}) < n}

\* The loop from here to its next await, or to its end.  It looks at the day's
\* allowance (open: some is left) and at the contact's address of now, or of the list
\* when the contact is erased: the task's status, and the rest of the card, it does
\* not look at again.
Runs(p, day, list, beside, open) ==
  LET writable == {t \in list : task[t].card # "noaddress" \/ task[t].status = "gone"}
  IN pass' = [pass EXCEPT ![p] =
       IF ~open \/ writable = {} THEN NoPass
       ELSE [at |-> "mailing", day |-> day, to |-> Min(writable),
             todo |-> {t \in list : t > Min(writable)}, beside |-> beside]]

\* The pass has yet to mail of the task, or is at it.
Pending(p, t) == \/ pass[p].at = "mailing" /\ pass[p].to = t
                 \/ pass[p].at # "off" /\ t \in pass[p].todo

PassStarts(p, open) ==
  LET list == First(Limit, Candidates)
  IN /\ pass[p].at = "off" /\ Candidates # {}
     /\ Runs(p, "today", list, {t \in list : \E q \in Passes \ {p} : Pending(q, t)}, open)
     /\ UNCHANGED <<task, reached, digest, stamp, history>>

PassGoesOn(p, open) ==
  /\ pass[p].at = "gap"
  /\ Runs(p, pass[p].day, pass[p].todo, pass[p].todo \cap pass[p].beside, open)
  /\ UNCHANGED <<task, reached, digest, stamp, history>>

Answered(p) == pass' = [pass EXCEPT ![p] = [@ EXCEPT !.at = "gap", !.to = 0]]

\* The day the pass began on is written, over whatever the row holds by now.
Marked(t, day) == IF task[t].status = "gone" THEN task ELSE [task EXCEPT ![t].mark = day]

MailAccepted(p) ==
  /\ pass[p].at = "mailing" /\ pass[p].to \notin Refused
  /\ task' = Marked(pass[p].to, pass[p].day)
  /\ mailed' = [mailed EXCEPT ![pass[p].to] = @ + 1]
  /\ excused' = IF pass[p].day = "old" \/ pass[p].to \in pass[p].beside
                THEN [excused EXCEPT ![pass[p].to] = @ + 1] ELSE excused
  /\ reminded' = reminded \cup {pass[p].to}
  /\ Answered(p)
  /\ UNCHANGED <<reached, digest, stamp, told, spare>>

\* Refused, or taken and the answer lost.
MailFailed(p) ==
  /\ pass[p].at = "mailing"
  /\ Answered(p)
  /\ UNCHANGED <<task, reached, digest, stamp, history>>

-----------------------------------------------------------------------------
(* The owner's digest. *)

Board == {t \in Tasks : IsDue(t) /\ task[t].card # "garbage"}

\* A digest that is still to be stamped, or that will stamp a day gone by.
Beside(d) == \E e \in Digests \ {d} :
  digest[e].at = "mailing" /\ (digest[e].day = "old" \/ ~digest[e].forced)

\* forced: the owner's button, which does not look at the stamp.  An empty board
\* is stamped too, but not for the button.
DigestStarts(d, forced) ==
  /\ digest[d].at = "off" /\ (forced \/ stamp # "today")
  /\ IF Board = {}
     THEN ~forced /\ stamp' = "today" /\ UNCHANGED digest
     ELSE /\ digest' = [digest EXCEPT ![d] = [at |-> "mailing", day |-> "today",
                                               forced |-> forced, beside |-> Beside(d)]]
          /\ UNCHANGED stamp
  /\ UNCHANGED <<task, reached, pass, history>>

DigestAccepted(d) ==
  /\ digest[d].at = "mailing"
  /\ digest' = [digest EXCEPT ![d] = NoDigest]
  /\ stamp' = digest[d].day
  /\ told' = IF digest[d].forced THEN told ELSE told + 1
  /\ spare' = IF ~digest[d].forced /\ (digest[d].day = "old" \/ digest[d].beside)
              THEN spare + 1 ELSE spare
  /\ UNCHANGED <<task, reached, pass, mailed, excused, reminded>>

DigestFailed(d) ==
  /\ digest[d].at = "mailing"
  /\ digest' = [digest EXCEPT ![d] = NoDigest]
  /\ UNCHANGED <<task, reached, pass, stamp, history>>

-----------------------------------------------------------------------------
(* The owner, the day and the crash. *)

Create(t) ==
  /\ task[t].status = "none"
  /\ task' = [task EXCEPT ![t].status = "open"]
  /\ UNCHANGED <<reached, pass, digest, stamp, history>>

\* Done, or cancelled.
Close(t) ==
  /\ task[t].status = "open"
  /\ task' = [task EXCEPT ![t].status = "closed"]
  /\ UNCHANGED <<reached, pass, digest, stamp, history>>

Reopen(t) ==
  /\ task[t].status = "closed"
  /\ task' = [task EXCEPT ![t].status = "open"]
  /\ UNCHANGED <<reached, pass, digest, stamp, history>>

\* A task goes with its contact.
EraseContact(t) ==
  /\ task[t].status \in {"open", "closed"}
  /\ task' = [task EXCEPT ![t].status = "gone"]
  /\ UNCHANGED <<reached, pass, digest, stamp, history>>

SetCard(t, card) ==
  /\ task[t].status # "gone" /\ task[t].card # card
  /\ task' = [task EXCEPT ![t].card = card]
  /\ UNCHANGED <<reached, pass, digest, stamp, history>>

\* What was written today is of an older day now, in memory too.
NewDay ==
  /\ reached' \in reached .. Cardinality(Tasks)
  /\ task' = [t \in Tasks |-> [task[t] EXCEPT !.mark = "old"]]
  /\ pass' = [p \in Passes |-> [pass[p] EXCEPT !.day = "old", !.beside = {}]]
  /\ digest' = [d \in Digests |-> [digest[d] EXCEPT !.day = "old", !.beside = FALSE]]
  /\ stamp' = "old"
  /\ mailed' = [t \in Tasks |-> 0] /\ excused' = mailed' /\ told' = 0 /\ spare' = 0
  /\ UNCHANGED reminded

Crash ==
  /\ Crashes
  /\ \/ \E p \in Passes : pass[p] # NoPass
     \/ \E d \in Digests : digest[d] # NoDigest
  /\ pass' = [p \in Passes |-> NoPass] /\ digest' = [d \in Digests |-> NoDigest]
  /\ UNCHANGED <<task, reached, stamp, history>>

Next ==
  \/ \E p \in Passes : \/ \E open \in BOOLEAN : PassStarts(p, open) \/ PassGoesOn(p, open)
                       \/ MailAccepted(p) \/ MailFailed(p)
  \/ \E d \in Digests : \/ \E forced \in BOOLEAN : DigestStarts(d, forced)
                        \/ DigestAccepted(d) \/ DigestFailed(d)
  \/ \E t \in Tasks : \/ Create(t) \/ Close(t) \/ Reopen(t) \/ EraseContact(t)
                      \/ \E card \in Cards \cup {"reachable"} : SetCard(t, card)
  \/ NewDay \/ Crash

Spec == Init /\ [][Next]_vars

\* The daily pass comes, with mail left to send, goes on to its end, and each try is
\* answered.  Of the allowance: a pass that has tasks left is given some again and
\* again.  Of the mail server: it takes in the end what it is given again and again.
FairSpec ==
  /\ Spec
  /\ \A p \in Passes :
       /\ WF_vars(PassStarts(p, TRUE)) /\ WF_vars(\E open \in BOOLEAN : PassGoesOn(p, open))
       /\ SF_vars(PassGoesOn(p, TRUE) /\ pass[p].todo # {})
       /\ SF_vars(MailAccepted(p) \/ MailFailed(p))
       /\ \A t \in Tasks : SF_vars(MailAccepted(p) /\ pass[p].to = t)

-----------------------------------------------------------------------------
(* Properties. *)

TypeOK ==
  /\ task \in [Tasks -> Task] /\ reached \in 0 .. Cardinality(Tasks)
  /\ pass \in [Passes -> Pass] /\ digest \in [Digests -> Digest]
  /\ \A p \in Passes : pass[p].at = "mailing" =>
       pass[p].to \in Tasks /\ \A t \in pass[p].todo : pass[p].to < t
  /\ stamp \in Day /\ reminded \subseteq Tasks
  /\ mailed \in [Tasks -> Nat] /\ excused \in [Tasks -> Nat] /\ told \in Nat /\ spare \in Nat

\* A mail counts on the day it is sent, whatever day its pass began on.  A second
\* reminder of a task within a day has one of two reasons: a pass ran over midnight, or
\* two passes had the task on their lists together; likewise the digest.  No failure,
\* crash, or task done, reopened or erased during a pass adds one, and a mark of
\* yesterday that such a pass writes over today's costs no more than what it mailed.
OncePerDay ==
  /\ \A t \in Tasks : mailed[t] <= 1 + excused[t]
  /\ told <= 1 + spare

\* A task that stays due is brought before its customer, or closed, in the end: the
\* failures of others, and those mailed every day, do not keep it off the list, as
\* long as a list holds all that is due (sendCustomerTaskReminders, LIMIT 40).
DueReachesCustomer ==
  \A t \in Tasks \ Refused :
    IsDue(t) /\ task[t].card = "reachable" ~>
      t \in reminded \/ ~IsDue(t) \/ task[t].card # "reachable"

-----------------------------------------------------------------------------
(* What the documents say, and the code does not keep. *)

\* "Deduped per task per calendar day" (task-reminders.js:8), without the exceptions:
\* refuted by one pass over midnight, and by two side by side.
DedupedPerDay == \A t \in Tasks : mailed[t] <= 1

\* "customer_reminded_on holds it to once per due day, so a task left open does not
\* become a daily nag" (docs/ROADMAP.md:166): who was reminded of a task after it
\* fell due is not mailed about it again.
NotADailyNag ==
  [][\A p \in Passes : pass[p].at # "mailing" /\ pass'[p].at = "mailing" =>
       pass'[p].to \notin reminded]_vars
=============================================================================

------------------------ MODULE TaskRemindersProofs ------------------------
(***************************************************************************)
(* How often a customer is reminded of a task within a day, for every      *)
(* number of tasks, of passes and digests side by side, every limit of the *)
(* list and every crash.                                                   *)
(***************************************************************************)
EXTENDS TaskReminders, FiniteSetTheorems, WellFoundedInduction, TLAPS

\* The least number of a set.
LEMMA LeastExists ==
  ASSUME NEW S \in SUBSET Nat, S # {}
  PROVE  \E x \in S : \A y \in S : x <= y
<1> DEFINE R == OpToRel(<, Nat)
<1>1. IsWellFoundedOn(R, Nat)
  BY NatLessThanWellFounded, Zenon
<1>2. \A x, y \in Nat : y < x => <<y, x>> \in R
  BY DEF OpToRel
<1> HIDE DEF R
<1>3. PICK x \in S : \A y \in S : ~ (<<y, x>> \in R)
  <2>1. S \subseteq Nat /\ S # {}
    OBVIOUS
  <2>2. QED
    BY <1>1, <2>1, WFMin, Zenon
<1>4. \A y \in S : ~(y < x)
  BY <1>2, <1>3
<1>5. QED
  BY <1>4

\* The pass will mail of the task, and nothing will excuse it.
Counts(p, t) == Pending(p, t) /\ pass[p].day = "today" /\ t \notin pass[p].beside
Late(p, t)   == Pending(p, t) /\ pass[p].day = "old"

\* Where a mail that nothing excuses is still to come, none has been sent, and no other
\* such mail, nor one of a pass over midnight, is to come; and where one of a pass over
\* midnight is, none was sent since.
PassSound(t) ==
  \A p \in Passes :
    /\ Counts(p, t) \/ Late(p, t) => mailed[t] = excused[t]
    /\ Counts(p, t) => \A q \in Passes \ {p} : ~Counts(q, t) /\ ~Late(q, t)

\* The row of a task with a mail that nothing excuses says so.
MarkSound(t) ==
  /\ excused[t] <= mailed[t] /\ mailed[t] <= 1 + excused[t]
  /\ mailed[t] # excused[t] /\ task[t].status # "gone" => task[t].mark = "today"

TasksSound == \A t \in Tasks : PassSound(t) /\ MarkSound(t)

\* The same of the digests and their stamp.
DCounts(d) == /\ digest[d].at = "mailing" /\ digest[d].day = "today"
              /\ ~digest[d].forced /\ ~digest[d].beside
DLate(d)   == digest[d].at = "mailing" /\ digest[d].day = "old"

DigestsSound ==
  /\ \A d \in Digests :
       /\ DCounts(d) \/ DLate(d) => told = spare
       /\ DCounts(d) => \A e \in Digests \ {d} : ~DCounts(e) /\ ~DLate(e)
  /\ spare <= told /\ told <= 1 + spare
  /\ told # spare => stamp = "today"

IInv == TypeOK /\ TasksSound /\ DigestsSound

-----------------------------------------------------------------------------

LEMMA TasksAreNumbers ==
  ASSUME TaskRemindersAssumption
  PROVE  Tasks \in SUBSET Nat /\ Cardinality(Tasks) \in Nat /\ 0 \notin Tasks
<1>1. Cardinality(Tasks) \in Nat
  BY FS_CardinalityType DEF TaskRemindersAssumption
<1>2. Tasks = 1 .. Cardinality(Tasks)
  BY DEF TaskRemindersAssumption
<1> QED
  BY <1>1, <1>2

\* The loop runs to a task of its list, in front of all that stay on it, or ends.
RunsTo(day, list, beside, now) ==
  \/ now = NoPass
  \/ /\ now.at = "mailing" /\ now.day = day /\ now.beside = beside
     /\ now.to \in list /\ now.todo \subseteq list
     /\ \A t \in now.todo : now.to < t

LEMMA RunsFact ==
  ASSUME TaskRemindersAssumption, TypeOK, NEW p \in Passes, NEW day \in Day,
         NEW list \in SUBSET Tasks, NEW beside \in SUBSET Tasks, NEW open \in BOOLEAN,
         Runs(p, day, list, beside, open)
  PROVE  \E now \in Pass :
           pass' = [pass EXCEPT ![p] = now] /\ RunsTo(day, list, beside, now)
<1> DEFINE writable == {t \in list : task[t].card # "noaddress" \/ task[t].status = "gone"}
           first == Min(writable)
           now == [at |-> "mailing", day |-> day, to |-> first, todo |-> {t \in list : t > first},
                  beside |-> beside]
<1>1. CASE ~open \/ writable = {}
  <2>1. pass' = [pass EXCEPT ![p] = NoPass]
    BY <1>1 DEF Runs
  <2>2. NoPass \in Pass
    BY DEF NoPass, Pass, Day
  <2> QED
    BY <2>1, <2>2 DEF RunsTo
<1>2. CASE ~(~open \/ writable = {})
  <2>1. pass' = [pass EXCEPT ![p] = now]
    BY <1>2 DEF Runs
  <2>2. list \in SUBSET Nat /\ writable \in SUBSET Nat
    BY TasksAreNumbers
  <2>3. first \in writable
    BY <1>2, <2>2, LeastExists DEF Min
  <2>4. first \in list /\ first \in Nat
    BY <2>2, <2>3
  <2> HIDE DEF first
  <2>5. now \in Pass
    BY <2>4 DEF Pass
  <2>6. \A t \in now.todo : now.to < t
    BY <2>2, <2>4
  <2> QED
    BY <2>1, <2>4, <2>5, <2>6 DEF RunsTo
<1> QED
  BY <1>1, <1>2

LEMMA RunsTyped ==
  ASSUME TaskRemindersAssumption, TypeOK, NEW p \in Passes, NEW day \in Day,
         NEW list \in SUBSET Tasks, NEW beside \in SUBSET Tasks, NEW open \in BOOLEAN,
         Runs(p, day, list, beside, open),
         UNCHANGED <<task, reached, digest, stamp, history>>
  PROVE  TypeOK'
<1>1. PICK now \in Pass :
        pass' = [pass EXCEPT ![p] = now] /\ RunsTo(day, list, beside, now)
  BY RunsFact
<1> QED
  BY <1>1 DEF TypeOK, NoPass, RunsTo, history

\* What was answered, waits in the gap.
LEMMA AnsweredFact ==
  ASSUME TypeOK, NEW p \in Passes, pass[p].at = "mailing", Answered(p)
  PROVE  /\ pass' \in [Passes -> Pass]
         /\ pass'[p].at = "gap" /\ pass'[p].day = pass[p].day /\ pass'[p].todo = pass[p].todo
         /\ pass'[p].beside = pass[p].beside
         /\ \A q \in Passes \ {p} : pass'[q] = pass[q]
<1>1. pass \in [Passes -> Pass] /\ pass[p] \in Pass
  BY DEF TypeOK
<1>2. [pass[p] EXCEPT !.at = "gap", !.to = 0] \in Pass
  BY <1>1 DEF Pass
<1> QED
  BY <1>1, <1>2 DEF Answered, Pass

\* The row with another status, mark or card is a row.
LEMMA TaskFact ==
  ASSUME TypeOK, NEW t \in Tasks
  PROVE  /\ \A s \in {"none", "open", "closed", "gone"} :
              [task EXCEPT ![t].status = s] \in [Tasks -> Task]
         /\ \A d \in Day : [task EXCEPT ![t].mark = d] \in [Tasks -> Task]
         /\ \A c \in {"reachable", "noaddress", "provisional", "garbage"} :
              [task EXCEPT ![t].card = c] \in [Tasks -> Task]
  BY DEF TypeOK, Task

\* What midnight does to a pass and a digest in memory.
LEMMA MidnightFact ==
  /\ \A x \in Pass : [x EXCEPT !.day = "old", !.beside = {}] \in Pass
  /\ \A x \in Digest : [x EXCEPT !.day = "old", !.beside = FALSE] \in Digest
<1>1. ASSUME NEW x \in Pass PROVE [x EXCEPT !.day = "old", !.beside = {}] \in Pass
  BY DEF Pass, Day
<1>2. ASSUME NEW x \in Digest PROVE [x EXCEPT !.day = "old", !.beside = FALSE] \in Digest
  BY DEF Digest, Day
<1> QED
  BY <1>1, <1>2

LEMMA TypeStep ==
  ASSUME TaskRemindersAssumption, TypeOK, [Next]_vars
  PROVE  TypeOK'
<1>1. ASSUME NEW p \in Passes, NEW open \in BOOLEAN, PassStarts(p, open) PROVE TypeOK'
  <2> DEFINE list == First(Limit, Candidates)
             with == {t \in list : \E q \in Passes \ {p} : Pending(q, t)}
  <2>1. list \in SUBSET Tasks /\ "today" \in Day
    BY DEF First, Candidates, Day
  <2>2. with \in SUBSET Tasks
    BY <2>1
  <2>3. Runs(p, "today", list, with, open) /\ UNCHANGED <<task, reached, digest, stamp, history>>
    BY <1>1 DEF PassStarts
  <2> HIDE DEF list, with
  <2> QED
    BY <2>1, <2>2, <2>3, RunsTyped
<1>2. ASSUME NEW p \in Passes, NEW open \in BOOLEAN, PassGoesOn(p, open) PROVE TypeOK'
  <2>1. pass[p] \in Pass
    BY DEF TypeOK
  <2>2. pass[p].day \in Day /\ pass[p].todo \in SUBSET Tasks
        /\ pass[p].todo \cap pass[p].beside \in SUBSET Tasks
    BY <2>1 DEF Pass
  <2> QED
    BY <1>2, <2>2, RunsTyped DEF PassGoesOn
<1>3. ASSUME NEW p \in Passes, MailAccepted(p) PROVE TypeOK'
  <2>1. pass[p] \in Pass /\ pass[p].at = "mailing" /\ pass[p].to \in Tasks
    BY <1>3 DEF TypeOK, MailAccepted
  <2>2. pass' \in [Passes -> Pass]
        /\ pass'[p].at = "gap" /\ \A q \in Passes \ {p} : pass'[q] = pass[q]
    BY <1>3, <2>1, AnsweredFact DEF MailAccepted
  <2>3. task' \in [Tasks -> Task]
    BY <1>3, <2>1, TaskFact DEF MailAccepted, Marked, TypeOK, Pass
  <2>4. mailed' \in [Tasks -> Nat] /\ excused' \in [Tasks -> Nat] /\ reminded' \subseteq Tasks
    BY <1>3, <2>1 DEF MailAccepted, TypeOK
  <2>5. \A q \in Passes : pass'[q].at = "mailing" =>
          pass'[q].to \in Tasks /\ \A t \in pass'[q].todo : pass'[q].to < t
    BY <2>2 DEF TypeOK
  <2> QED
    BY <1>3, <2>2, <2>3, <2>4, <2>5 DEF MailAccepted, TypeOK
<1>4. ASSUME NEW p \in Passes, MailFailed(p) PROVE TypeOK'
  <2>1. pass' \in [Passes -> Pass]
        /\ pass'[p].at = "gap" /\ \A q \in Passes \ {p} : pass'[q] = pass[q]
    BY <1>4, AnsweredFact DEF MailFailed
  <2>2. \A q \in Passes : pass'[q].at = "mailing" =>
          pass'[q].to \in Tasks /\ \A t \in pass'[q].todo : pass'[q].to < t
    BY <2>1 DEF TypeOK
  <2> QED
    BY <1>4, <2>1, <2>2 DEF MailFailed, TypeOK, history
<1>5. ASSUME NEW d \in Digests, NEW forced \in BOOLEAN, DigestStarts(d, forced) PROVE TypeOK'
  <2>1. [at |-> "mailing", day |-> "today", forced |-> forced, beside |-> Beside(d)] \in Digest
    BY DEF Digest, Day, Beside
  <2>2. digest' \in [Digests -> Digest]
    BY <1>5, <2>1 DEF DigestStarts, TypeOK
  <2> QED
    BY <1>5, <2>2 DEF DigestStarts, TypeOK, Day, history
<1>6. ASSUME NEW d \in Digests, DigestAccepted(d) \/ DigestFailed(d) PROVE TypeOK'
  <2>1. NoDigest \in Digest
    BY DEF Digest, NoDigest, Day
  <2>2. digest[d].day \in Day
    BY DEF TypeOK, Digest
  <2>3. digest' \in [Digests -> Digest]
    BY <1>6, <2>1 DEF DigestAccepted, DigestFailed, TypeOK
  <2>4. stamp' \in Day /\ told' \in Nat
    BY <1>6, <2>2 DEF DigestAccepted, DigestFailed, TypeOK, history
  <2>5. spare' \in Nat
    BY <1>6 DEF DigestAccepted, DigestFailed, TypeOK, history
  <2> QED
    BY <1>6, <2>3, <2>4, <2>5 DEF DigestAccepted, DigestFailed, TypeOK, history
<1>7. ASSUME NEW t \in Tasks, Create(t) \/ Close(t) \/ Reopen(t) \/ EraseContact(t) PROVE TypeOK'
  <2>1. PICK s \in {"none", "open", "closed", "gone"} : task' = [task EXCEPT ![t].status = s]
    BY <1>7 DEF Create, Close, Reopen, EraseContact
  <2>2. task' \in [Tasks -> Task]
    BY <2>1, TaskFact, Zenon
  <2> QED
    BY <1>7, <2>2 DEF Create, Close, Reopen, EraseContact, TypeOK, history
<1>8. ASSUME NEW t \in Tasks, NEW card \in Cards \cup {"reachable"}, SetCard(t, card) PROVE TypeOK'
  <2>1. task' \in [Tasks -> Task]
    BY <1>8, TaskFact DEF SetCard, TaskRemindersAssumption
  <2> QED
    BY <1>8, <2>1 DEF SetCard, TypeOK, history
<1>9. CASE NewDay
  <2>1. task' \in [Tasks -> Task]
    <3>0. task \in [Tasks -> Task]
      BY DEF TypeOK
    <3>1. \A t \in Tasks : [task[t] EXCEPT !.mark = "old"] \in Task
      BY <3>0 DEF Task, Day
    <3> QED
      BY <1>9, <3>1 DEF NewDay
  <2>2. pass' \in [Passes -> Pass]
    <3>1. \A p \in Passes : [pass[p] EXCEPT !.day = "old", !.beside = {}] \in Pass
      <4>1. \A p \in Passes : pass[p] \in Pass
        BY DEF TypeOK
      <4> QED
        BY <4>1, MidnightFact, Zenon
    <3> QED
      BY <1>9, <3>1 DEF NewDay
  <2>3. digest' \in [Digests -> Digest]
    <3>1. \A d \in Digests : [digest[d] EXCEPT !.day = "old", !.beside = FALSE] \in Digest
      <4>1. \A d \in Digests : digest[d] \in Digest
        BY DEF TypeOK
      <4> QED
        BY <4>1, MidnightFact, Zenon
    <3> QED
      BY <1>9, <3>1 DEF NewDay
  <2>4. \A q \in Passes : /\ pass'[q].at = pass[q].at /\ pass'[q].to = pass[q].to
                          /\ pass'[q].todo = pass[q].todo
    BY <1>9 DEF NewDay, TypeOK, Pass
  <2>5. reached' \in 0 .. Cardinality(Tasks)
    <3>1. reached \in 0 .. Cardinality(Tasks) /\ reached' \in reached .. Cardinality(Tasks)
      BY <1>9 DEF NewDay, TypeOK
    <3> QED
      BY <3>1, TasksAreNumbers
  <2> QED
    BY <1>9, <2>1, <2>2, <2>3, <2>4, <2>5 DEF NewDay, TypeOK, Day
<1>10. CASE Crash
  BY <1>10 DEF Crash, TypeOK, NoPass, NoDigest, Pass, Digest, Day, history
<1>11. CASE UNCHANGED vars
  BY <1>11 DEF vars, TypeOK, history
<1> QED
  BY <1>1, <1>2, <1>3, <1>4, <1>5, <1>6, <1>7, <1>8, <1>9, <1>10, <1>11 DEF Next

\* A pass, a row, a digest and a crash are what they should be, whoever runs beside.
THEOREM TypeCorrect == Spec => []TypeOK
<1>1. Init => TypeOK
  BY TasksAreNumbers, TaskRemindersAssumption DEF Init, TypeOK, Task, Pass, Digest, NoPass, NoDigest, Day
<1>2. TypeOK /\ [Next]_vars => TypeOK'
  BY TypeStep, TaskRemindersAssumption
<1> QED
  BY <1>1, <1>2, PTL DEF Spec

-----------------------------------------------------------------------------
(* The steps of a pass. *)

\* What is pending for a task only goes away, and the mails that count stay level.
LEMMA PassStays ==
  ASSUME NEW t \in Tasks, PassSound(t), mailed[t] = excused[t] => mailed'[t] = excused'[t],
         \A q \in Passes : Pending(q, t)' =>
           /\ Pending(q, t) /\ pass'[q].day = pass[q].day
           /\ t \in pass'[q].beside <=> t \in pass[q].beside
  PROVE  PassSound(t)'
<1>1. \A q \in Passes : /\ Counts(q, t)' => Counts(q, t)
                        /\ Late(q, t)' => Late(q, t)
  BY DEF Counts, Late
<1> QED
  BY <1>1 DEF PassSound

LEMMA PassStartsStep ==
  ASSUME TaskRemindersAssumption, IInv, NEW p \in Passes, NEW open \in BOOLEAN,
         PassStarts(p, open)
  PROVE  TasksSound' /\ DigestsSound'
<1> DEFINE list == First(Limit, Candidates)
           with == {t \in list : \E q \in Passes \ {p} : Pending(q, t)}
<1>1. list \in SUBSET Tasks /\ list \subseteq Candidates /\ with \in SUBSET Tasks /\ "today" \in Day
  BY DEF First, Candidates, Day
<1>2. Runs(p, "today", list, with, open) /\ pass[p].at = "off"
      /\ UNCHANGED <<task, reached, digest, stamp, history>>
  BY DEF PassStarts
<1>3. \A t \in with : t \in list /\ \E q \in Passes \ {p} : Pending(q, t)
  OBVIOUS
<1>4. \A t \in list \ with : \A q \in Passes \ {p} : ~Pending(q, t)
  OBVIOUS
<1> HIDE DEF list, with
<1>5. TypeOK
  BY DEF IInv
<1>6. PICK now \in Pass : pass' = [pass EXCEPT ![p] = now] /\ RunsTo("today", list, with, now)
  BY <1>1, <1>2, <1>5, RunsFact
<1>7. pass'[p] = now /\ \A q \in Passes \ {p} : pass'[q] = pass[q]
  BY <1>5, <1>6 DEF TypeOK
<1>8. ASSUME NEW t \in Tasks PROVE PassSound(t)'
  <2>1. PassSound(t) /\ MarkSound(t)
    BY DEF IInv, TasksSound
  <2>2. \A q \in Passes \ {p} : /\ Counts(q, t)' <=> Counts(q, t)
                                /\ Late(q, t)' <=> Late(q, t)
    BY <1>7 DEF Counts, Late, Pending
  <2>3. ~Late(p, t)'
    BY <1>6, <1>7 DEF Late, Pending, RunsTo, NoPass
  <2>4. mailed'[t] = mailed[t] /\ excused'[t] = excused[t]
    BY <1>2 DEF history
  <2>5. CASE Counts(p, t)'
    <3>1. t \in list \ with
      BY <1>6, <1>7, <2>5 DEF Counts, Pending, RunsTo, NoPass
    <3>2. \A q \in Passes \ {p} : ~Counts(q, t)' /\ ~Late(q, t)'
      BY <1>4, <2>2, <3>1 DEF Counts, Late
    <3>3. task[t].status = "open" /\ task[t].mark # "today"
      BY <1>1, <3>1 DEF Candidates, IsDue
    <3>4. mailed[t] = excused[t]
      BY <2>1, <3>3 DEF MarkSound
    <3> QED
      BY <2>3, <2>4, <3>2, <3>4 DEF PassSound
  <2>6. CASE ~Counts(p, t)'
    BY <2>1, <2>2, <2>3, <2>4, <2>6 DEF PassSound
  <2> QED
    BY <2>5, <2>6
<1>9. \A t \in Tasks : MarkSound(t)'
  BY <1>2 DEF IInv, TasksSound, MarkSound, history
<1>10. DigestsSound'
  BY <1>2 DEF IInv, DigestsSound, DCounts, DLate, history
<1> QED
  BY <1>8, <1>9, <1>10 DEF TasksSound

LEMMA PassGoesOnStep ==
  ASSUME TaskRemindersAssumption, IInv, NEW p \in Passes, NEW open \in BOOLEAN,
         PassGoesOn(p, open)
  PROVE  TasksSound' /\ DigestsSound'
<1> DEFINE with == pass[p].todo \cap pass[p].beside
<1>1. TypeOK /\ pass[p] \in Pass
  BY DEF IInv, TypeOK
<1>2. pass[p].day \in Day /\ pass[p].todo \in SUBSET Tasks /\ with \in SUBSET Tasks
  BY <1>1 DEF Pass
<1>3. Runs(p, pass[p].day, pass[p].todo, with, open) /\ pass[p].at = "gap"
      /\ UNCHANGED <<task, reached, digest, stamp, history>>
  BY DEF PassGoesOn
<1>4. PICK now \in Pass :
        pass' = [pass EXCEPT ![p] = now] /\ RunsTo(pass[p].day, pass[p].todo, with, now)
  BY <1>1, <1>2, <1>3, RunsFact
<1>5. pass'[p] = now /\ \A q \in Passes \ {p} : pass'[q] = pass[q]
  BY <1>1, <1>4 DEF TypeOK
<1>6. ASSUME NEW t \in Tasks PROVE PassSound(t)'
  <2>1. Pending(p, t)' => /\ Pending(p, t) /\ pass'[p].day = pass[p].day
                          /\ t \in pass'[p].beside <=> t \in pass[p].beside
    BY <1>3, <1>4, <1>5 DEF Pending, RunsTo, NoPass
  <2>2. \A q \in Passes \ {p} : Pending(q, t)' <=> Pending(q, t)
    BY <1>5 DEF Pending
  <2>3. PassSound(t) /\ mailed'[t] = mailed[t] /\ excused'[t] = excused[t]
    BY <1>3 DEF IInv, TasksSound, history
  <2> QED
    BY <1>5, <2>1, <2>2, <2>3, PassStays
<1>7. \A t \in Tasks : MarkSound(t)'
  BY <1>3 DEF IInv, TasksSound, MarkSound, history
<1>8. DigestsSound'
  BY <1>3 DEF IInv, DigestsSound, DCounts, DLate, history
<1> QED
  BY <1>6, <1>7, <1>8 DEF TasksSound

\* An answer takes the task mailed off what is pending, and leaves the rest.
LEMMA AnsweredPending ==
  ASSUME TaskRemindersAssumption, TypeOK, NEW p \in Passes, pass[p].at = "mailing", Answered(p)
  PROVE  /\ \A t \in Tasks, q \in Passes : Pending(q, t)' =>
              /\ Pending(q, t) /\ pass'[q].day = pass[q].day
              /\ t \in pass'[q].beside <=> t \in pass[q].beside
         /\ \A t \in Tasks : t = pass[p].to => ~Pending(p, t)'
<1>1. /\ pass'[p].at = "gap" /\ pass'[p].day = pass[p].day /\ pass'[p].todo = pass[p].todo
      /\ pass'[p].beside = pass[p].beside
      /\ \A q \in Passes \ {p} : pass'[q] = pass[q]
  BY AnsweredFact
<1>2. pass[p].to \in Tasks /\ \A t \in pass[p].todo : pass[p].to < t
  BY DEF TypeOK
<1>3. pass[p].to \notin pass[p].todo
  BY <1>2, TasksAreNumbers
<1>4. ASSUME NEW t \in Tasks, NEW q \in Passes, Pending(q, t)'
      PROVE  /\ Pending(q, t) /\ pass'[q].day = pass[q].day
             /\ t \in pass'[q].beside <=> t \in pass[q].beside
  <2>1. CASE q = p
    BY <1>1, <1>4, <2>1 DEF Pending
  <2>2. CASE q # p
    BY <1>1, <1>4, <2>2 DEF Pending
  <2> QED
    BY <2>1, <2>2
<1>5. \A t \in Tasks : t = pass[p].to => ~Pending(p, t)'
  BY <1>1, <1>3 DEF Pending
<1> QED
  BY <1>4, <1>5

LEMMA MailAcceptedStep ==
  ASSUME TaskRemindersAssumption, IInv, NEW p \in Passes, MailAccepted(p)
  PROVE  TasksSound' /\ DigestsSound'
<1>1. TypeOK /\ pass[p].at = "mailing" /\ Answered(p)
  BY DEF IInv, MailAccepted
<1>a. PICK c \in Tasks : c = pass[p].to
  BY <1>1 DEF TypeOK
<1> DEFINE free == pass[p].day = "old" \/ c \in pass[p].beside
<1>2. pass[p].day \in Day /\ Pending(p, c)
  BY <1>1, <1>a DEF TypeOK, Pass, Pending
<1>3. /\ \A t \in Tasks, q \in Passes : Pending(q, t)' =>
           /\ Pending(q, t) /\ pass'[q].day = pass[q].day
           /\ t \in pass'[q].beside <=> t \in pass[q].beside
      /\ ~Pending(p, c)'
  BY <1>1, <1>a, AnsweredPending
<1>4. mailed \in [Tasks -> Nat] /\ excused \in [Tasks -> Nat] /\ task \in [Tasks -> Task]
  BY <1>1 DEF TypeOK
<1>5. /\ mailed' = [mailed EXCEPT ![c] = @ + 1]
      /\ task' = Marked(c, pass[p].day)
      /\ excused' = IF free THEN [excused EXCEPT ![c] = @ + 1] ELSE excused
  BY <1>a, Zenon DEF MailAccepted
<1>0. TasksSound /\ DigestsSound'
  BY DEF IInv, MailAccepted, DigestsSound, DCounts, DLate
<1>b. free => pass[p].day = "old" \/ pass[p].day = "today"
  BY <1>2 DEF Day
<1>c. /\ ~free => pass[p].day = "today" /\ c \notin pass[p].beside
      /\ free /\ pass[p].day # "old" => c \in pass[p].beside
  BY <1>2 DEF Day
<1> HIDE DEF free
<1>6. \A t \in Tasks : PassSound(t) /\ MarkSound(t)
  BY <1>0 DEF TasksSound
<1>d. /\ mailed[c] \in Nat /\ excused[c] \in Nat
      /\ excused[c] <= mailed[c] /\ mailed[c] <= 1 + excused[c]
      /\ mailed[c] # excused[c] /\ task[c].status # "gone" => task[c].mark = "today"
  BY <1>2, <1>4, <1>6 DEF MarkSound
<1>7. ASSUME NEW t \in Tasks, t # c PROVE PassSound(t)' /\ MarkSound(t)'
  <2>1. mailed'[t] = mailed[t] /\ excused'[t] = excused[t] /\ task'[t] = task[t]
    BY <1>2, <1>4, <1>5, <1>7 DEF Marked
  <2>2. PassSound(t)'
    BY <1>3, <1>6, <2>1, PassStays
  <2> QED
    BY <1>6, <2>1, <2>2 DEF MarkSound
<1>8. task'[c].status = task[c].status
      /\ (task[c].status # "gone" => task'[c].mark = pass[p].day)
  BY <1>2, <1>4, <1>5 DEF Marked, Task
<1>9. CASE free
  <2>1. mailed'[c] = mailed[c] + 1 /\ excused'[c] = excused[c] + 1
    BY <1>2, <1>4, <1>5, <1>9
  <2>2. PassSound(c)'
    BY <1>2, <1>3, <1>6, <2>1, PassStays
  <2>3. pass[p].day = "old" => mailed[c] = excused[c]
    BY <1>2, <1>6 DEF PassSound, Late
  <2>4. MarkSound(c)'
    BY <1>8, <1>9, <1>b, <1>d, <2>1, <2>3 DEF MarkSound
  <2> QED
    BY <1>0, <1>7, <2>2, <2>4 DEF TasksSound
<1>10. CASE ~free
  <2>1. Counts(p, c) /\ pass[p].day = "today"
    BY <1>2, <1>10, <1>c DEF Counts
  <2>2. mailed[c] = excused[c] /\ \A q \in Passes \ {p} : ~Counts(q, c) /\ ~Late(q, c)
    BY <1>2, <1>6, <2>1 DEF PassSound
  <2>3. mailed'[c] = mailed[c] + 1 /\ excused'[c] = excused[c]
    BY <1>2, <1>4, <1>5, <1>10
  <2>4. \A q \in Passes : ~Counts(q, c)' /\ ~Late(q, c)'
    <3>1. ASSUME NEW q \in Passes, Pending(q, c)' PROVE ~Counts(q, c)' /\ ~Late(q, c)'
      <4>1. /\ Pending(q, c) /\ q # p /\ pass'[q].day = pass[q].day
            /\ c \in pass'[q].beside <=> c \in pass[q].beside
        BY <1>2, <1>3, <3>1
      <4> QED
        BY <2>2, <4>1 DEF Counts, Late
    <3> QED
      BY <3>1 DEF Counts, Late
  <2>5. PassSound(c)'
    BY <2>4 DEF PassSound
  <2>6. MarkSound(c)'
    BY <1>8, <1>d, <2>1, <2>2, <2>3 DEF MarkSound
  <2> QED
    BY <1>0, <1>7, <2>5, <2>6 DEF TasksSound
<1> QED
  BY <1>9, <1>10

LEMMA MailFailedStep ==
  ASSUME TaskRemindersAssumption, IInv, NEW p \in Passes, MailFailed(p)
  PROVE  TasksSound' /\ DigestsSound'
<1>1. TypeOK /\ pass[p].at = "mailing" /\ Answered(p)
      /\ UNCHANGED <<task, reached, digest, stamp, history>>
  BY DEF IInv, MailFailed
<1>2. ASSUME NEW t \in Tasks PROVE PassSound(t)'
  BY <1>1, AnsweredPending, PassStays DEF IInv, TasksSound, history
<1>3. (\A t \in Tasks : MarkSound(t)') /\ DigestsSound'
  BY <1>1 DEF IInv, TasksSound, MarkSound, DigestsSound, DCounts, DLate, history
<1> QED
  BY <1>2, <1>3 DEF TasksSound

-----------------------------------------------------------------------------
(* The steps of a digest, of the owner and of the day. *)

\* Where passes, rows and mails stay as they are.
LEMMA TasksStay ==
  ASSUME TasksSound, UNCHANGED <<task, pass, mailed, excused>>
  PROVE  TasksSound'
BY DEF TasksSound, PassSound, MarkSound, Counts, Late, Pending

LEMMA DigestStartsStep ==
  ASSUME IInv, NEW d \in Digests, NEW forced \in BOOLEAN, DigestStarts(d, forced)
  PROVE  TasksSound' /\ DigestsSound'
<1>1. digest \in [Digests -> Digest] /\ told \in Nat /\ spare \in Nat /\ DigestsSound
  BY DEF IInv, TypeOK
<1>2. TasksSound' /\ told' = told /\ spare' = spare
  BY TasksStay DEF DigestStarts, IInv, history
<1>3. forced \/ told = spare
  BY <1>1 DEF DigestStarts, DigestsSound
<1>4. CASE Board = {}
  <2>1. digest' = digest /\ stamp' = "today"
    BY <1>4 DEF DigestStarts
  <2> QED
    BY <1>1, <1>2, <2>1 DEF DigestsSound, DCounts, DLate
<1>5. CASE Board # {}
  <2>1. /\ digest'[d] = [at |-> "mailing", day |-> "today", forced |-> forced, beside |-> Beside(d)]
        /\ stamp' = stamp /\ \A e \in Digests \ {d} : digest'[e] = digest[e]
    BY <1>1, <1>5 DEF DigestStarts
  <2>2. ~DLate(d)' /\ (DCounts(d)' => ~forced /\ ~Beside(d))
    BY <2>1 DEF DLate, DCounts
  <2>3. \A e \in Digests \ {d} : /\ DCounts(e)' <=> DCounts(e)
                                 /\ DLate(e)' <=> DLate(e)
    BY <2>1 DEF DLate, DCounts
  <2>4. ~Beside(d) => \A e \in Digests \ {d} : ~DCounts(e) /\ ~DLate(e)
    BY DEF Beside, DCounts, DLate
  <2> QED
    BY <1>1, <1>2, <1>3, <2>1, <2>2, <2>3, <2>4 DEF DigestsSound
<1> QED
  BY <1>4, <1>5

LEMMA DigestAcceptedStep ==
  ASSUME IInv, NEW d \in Digests, DigestAccepted(d)
  PROVE  TasksSound' /\ DigestsSound'
<1> DEFINE free == digest[d].day = "old" \/ digest[d].beside
<1>1. digest \in [Digests -> Digest] /\ told \in Nat /\ spare \in Nat /\ DigestsSound
  BY DEF IInv, TypeOK
<1>2. TasksSound'
  BY TasksStay DEF DigestAccepted, IInv
<1>3. digest[d].day \in Day /\ digest[d].forced \in BOOLEAN /\ digest[d].beside \in BOOLEAN
  BY <1>1 DEF Digest
<1>4. /\ digest[d].at = "mailing" /\ stamp' = digest[d].day
      /\ told' = IF digest[d].forced THEN told ELSE told + 1
      /\ spare' = IF ~digest[d].forced /\ free THEN spare + 1 ELSE spare
  BY DEF DigestAccepted
<1>5. digest'[d].at = "off" /\ \A e \in Digests \ {d} : digest'[e] = digest[e]
  BY <1>1 DEF DigestAccepted, NoDigest
<1>6. \A e \in Digests : /\ DCounts(e)' => e # d /\ DCounts(e)
                         /\ DLate(e)' => e # d /\ DLate(e)
  BY <1>5 DEF DCounts, DLate
<1>7. CASE DCounts(d)
  <2>1. told = spare /\ \A e \in Digests \ {d} : ~DCounts(e) /\ ~DLate(e)
    BY <1>1, <1>7 DEF DigestsSound
  <2>2. told' = spare' + 1 /\ stamp' = "today"
    BY <1>1, <1>3, <1>4, <1>7, <2>1 DEF DCounts
  <2>3. \A e \in Digests : ~DCounts(e)' /\ ~DLate(e)'
    BY <1>6, <2>1
  <2>4. spare' = spare
    BY <1>4, <1>7 DEF DCounts
  <2>5. spare' <= told' /\ told' <= 1 + spare'
    BY <1>1, <2>2, <2>4
  <2> QED
    BY <1>2, <2>2, <2>3, <2>5 DEF DigestsSound
<1>8. CASE ~DCounts(d)
  <2>1. digest[d].forced \/ free
    BY <1>3, <1>4, <1>8 DEF DCounts, Day
  <2>2. \/ told' = told /\ spare' = spare
        \/ told' = told + 1 /\ spare' = spare + 1
    BY <1>4, <2>1
  <2>3. digest[d].day = "old" => told = spare
    BY <1>1, <1>4 DEF DigestsSound, DLate
  <2>4. told' # spare' => stamp' = "today"
    BY <1>1, <1>3, <1>4, <2>2, <2>3 DEF Day
  <2> QED
    BY <1>1, <1>2, <1>6, <2>2, <2>4 DEF DigestsSound
<1> QED
  BY <1>7, <1>8

LEMMA DigestFailedStep ==
  ASSUME IInv, NEW d \in Digests, DigestFailed(d)
  PROVE  TasksSound' /\ DigestsSound'
<1>1. TasksSound'
  BY TasksStay DEF DigestFailed, IInv, history
<1>2. digest'[d].at = "off" /\ \A e \in Digests \ {d} : digest'[e] = digest[e]
  BY DEF DigestFailed, IInv, TypeOK, NoDigest
<1>3. \A e \in Digests : /\ DCounts(e)' => DCounts(e)
                         /\ DLate(e)' => DLate(e)
  BY <1>2 DEF DCounts, DLate
<1> QED
  BY <1>1, <1>3 DEF DigestFailed, IInv, DigestsSound, history

LEMMA OwnerStep ==
  ASSUME IInv, NEW t \in Tasks,
         \/ Create(t) \/ Close(t) \/ Reopen(t) \/ EraseContact(t)
         \/ \E card \in Cards \cup {"reachable"} : SetCard(t, card)
  PROVE  TasksSound' /\ DigestsSound'
<1>1. UNCHANGED <<pass, digest, stamp, history>>
  BY DEF Create, Close, Reopen, EraseContact, SetCard
<1>2. task \in [Tasks -> Task]
  BY DEF IInv, TypeOK
<1>3. \A u \in Tasks : /\ task'[u].mark = task[u].mark
                       /\ task'[u].status # "gone" => task[u].status # "gone"
  BY <1>2 DEF Create, Close, Reopen, EraseContact, SetCard, Task
<1>4. \A u \in Tasks : MarkSound(u)'
  BY <1>1, <1>3 DEF IInv, TasksSound, MarkSound, history
<1>5. (\A u \in Tasks : PassSound(u)') /\ DigestsSound'
  BY <1>1 DEF IInv, TasksSound, PassSound, Counts, Late, Pending, DigestsSound, DCounts, DLate, history
<1> QED
  BY <1>4, <1>5 DEF TasksSound

LEMMA NewDayStep ==
  ASSUME IInv, NewDay
  PROVE  TasksSound' /\ DigestsSound'
<1>1. told' = 0 /\ spare' = 0 /\ \A t \in Tasks : mailed'[t] = 0 /\ excused'[t] = 0
  BY DEF NewDay
<1>2. \A p \in Passes : pass'[p].day = "old"
  BY DEF NewDay, IInv, TypeOK, Pass
<1>3. \A d \in Digests : digest'[d].day = "old"
  BY DEF NewDay, IInv, TypeOK, Digest
<1>4. \A t \in Tasks : PassSound(t)' /\ MarkSound(t)'
  BY <1>1, <1>2 DEF PassSound, MarkSound, Counts
<1>5. DigestsSound'
  BY <1>1, <1>3 DEF DigestsSound, DCounts
<1> QED
  BY <1>4, <1>5 DEF TasksSound

LEMMA CrashStep ==
  ASSUME IInv, Crash
  PROVE  TasksSound' /\ DigestsSound'
<1>1. /\ \A p \in Passes : pass'[p].at = "off"
      /\ \A d \in Digests : digest'[d].at = "off"
      /\ UNCHANGED <<task, stamp, history>>
  BY DEF Crash, NoPass, NoDigest
<1>2. \A t \in Tasks : PassSound(t)' /\ MarkSound(t)'
  BY <1>1 DEF IInv, TasksSound, PassSound, MarkSound, Counts, Late, Pending, history
<1> QED
  BY <1>1, <1>2 DEF IInv, TasksSound, DigestsSound, DCounts, DLate, history

LEMMA InvStep ==
  ASSUME TaskRemindersAssumption, IInv, [Next]_vars
  PROVE  IInv'
<1>1. TypeOK'
  BY TypeStep DEF IInv
<1>2. ASSUME Next PROVE TasksSound' /\ DigestsSound'
  BY <1>2, PassStartsStep, PassGoesOnStep, MailAcceptedStep, MailFailedStep, DigestStartsStep,
     DigestAcceptedStep, DigestFailedStep, OwnerStep, NewDayStep, CrashStep DEF Next
<1>3. ASSUME UNCHANGED vars PROVE TasksSound' /\ DigestsSound'
  BY <1>3, TasksStay DEF vars, IInv, history, DigestsSound, DCounts, DLate
<1> QED
  BY <1>1, <1>2, <1>3 DEF IInv

\* A day has a second reminder of a task, or a second digest, only from a pass that ran
\* over midnight or from passes that had it on their lists together, for any number of
\* passes and digests at once, whatever fails, ends or is done by the owner.
THEOREM RemindedOnce == Spec => []OncePerDay
<1>1. Init => IInv
  BY TasksAreNumbers, TaskRemindersAssumption
  DEF Init, IInv, TypeOK, Task, Pass, Digest, NoPass, NoDigest, Day, TasksSound, PassSound,
      MarkSound, Counts, Late, Pending, DigestsSound, DCounts, DLate
<1>2. IInv /\ [Next]_vars => IInv'
  BY InvStep, TaskRemindersAssumption
<1>3. IInv => OncePerDay
  BY DEF IInv, TasksSound, MarkSound, DigestsSound, OncePerDay
<1> QED
  BY <1>1, <1>2, <1>3, PTL DEF Spec
=============================================================================

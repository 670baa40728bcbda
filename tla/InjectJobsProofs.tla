-------------------------- MODULE InjectJobsProofs --------------------------
(***************************************************************************)
(* What InjectJobs.tla keeps for every number of jobs, every cap of the    *)
(* list and every set of workers: types, the prompt a job starts over      *)
(* with, and the promise of JobLedger.tla.                                 *)
(***************************************************************************)
EXTENDS InjectJobs, TLAPS

\* A job, whoever works on it: the pack is put aside exactly while the repair
\* instructions stand in its place, the repair round has them, and a reply is shown
\* with a verdict only.
Sound(x) ==
  /\ x \in Job
  /\ x.kept # "repair"
  /\ x.prompt = "repair" <=> x.kept = "pack"
  /\ x.round = 2 => x.prompt = "repair"
  /\ x.reply # "none" => x.status \in {"done", "failed"}

JobsSound ==
  /\ made \in 0 .. Made
  /\ job \in [Jobs -> Job]
  /\ given \subseteq Jobs
  /\ \A j \in Jobs : Sound(job[j]) /\ (job[j].status = "none" <=> j > made)
  /\ StartsFromPack

\* A worker that turns, posts or gives back does so for a job.
WorkersSound ==
  /\ worker \in [Workers -> Worker]
  /\ \A w \in Workers :
       /\ worker[w].at \in {"turn", "post", "release"} => worker[w].job \in Jobs
       /\ worker[w].at = "post" => worker[w].left > 0

IInv == JobsSound /\ WorkersSound

LEMMA InitHolds == Init => IInv
  BY InjectJobsAssumption
  DEF Init, IInv, JobsSound, WorkersSound, Sound, StartsFromPack, Open, NoJob, Idle, Job, Worker,
      Jobs, Texts, Replies

-----------------------------------------------------------------------------
(* The jobs. *)

\* One job changes, into a sound one.
LEMMA OneJob ==
  ASSUME JobsSound, NEW j \in Jobs, NEW v, Sound(v),
         v.status # "none", job[j].status # "none",
         made' = made, job' = [job EXCEPT ![j] = v],
         given \subseteq given', given' \subseteq Jobs,
         v.status \in {"pending", "running"} /\ v.round = 1 /\ v.prompt = "repair" => j \in given'
  PROVE  JobsSound'
<1>1. job' \in [Jobs -> Job]
  BY DEF JobsSound, Sound
<1>2. job'[j] = v /\ \A i \in Jobs \ {j} : job'[i] = job[i]
  BY DEF JobsSound
<1>3. \A i \in Jobs : Sound(job'[i]) /\ (job'[i].status = "none" <=> i > made')
  BY <1>2 DEF JobsSound
<1>4. \A i \in Jobs : job'[i].status \in {"pending", "running"} /\ job'[i].round = 1
                        /\ job'[i].prompt = "repair" => i \in given'
  BY <1>2 DEF JobsSound, StartsFromPack, Open
<1>5. QED
  BY <1>1, <1>3, <1>4 DEF JobsSound, StartsFromPack, Open, Sound

LEMMA CreateKeeps ==
  ASSUME JobsSound, CreateJob
  PROVE  JobsSound'
<1>1. /\ made' = made + 1 /\ made' \in Jobs /\ made' \in 0 .. Made /\ given' = given
  BY InjectJobsAssumption DEF CreateJob, JobsSound, Jobs
<1> DEFINE New(s) == [NoJob EXCEPT !.status = s]
<1>2. /\ Sound(New("pending")) /\ New("pending").status = "pending" /\ New("pending").prompt = "pack"
      /\ Sound(New("gone")) /\ New("gone").status = "gone"
  <2>1. NoJob \in Job
    BY DEF NoJob, Job, Texts, Replies
  <2>2. New("pending") \in Job /\ New("gone") \in Job
    BY <2>1 DEF Job
  <2>3. \A s : /\ New(s).status = s /\ New(s).prompt = "pack" /\ New(s).kept = "none"
              /\ New(s).round = 1 /\ New(s).reply = "none"
    BY DEF NoJob
  <2>4. QED
    BY <2>2, <2>3 DEF Sound
<1>3. \A i \in Jobs :
        \/ i = made' /\ job'[i] = New("pending")
        \/ i # made' /\ i <= made' - Keep /\ job'[i] = New("gone")
        \/ i # made' /\ job'[i] = job[i]
  BY <1>1, InjectJobsAssumption DEF CreateJob, Jobs
<1> HIDE DEF New
<1>4. \A i \in Jobs : Sound(job'[i]) /\ (job'[i].status = "none" <=> i > made')
  <2> SUFFICES ASSUME NEW i \in Jobs
               PROVE  Sound(job'[i]) /\ (job'[i].status = "none" <=> i > made')
    OBVIOUS
  <2>1. made \in Nat /\ made' = made + 1 /\ i \in Nat /\ Keep \in Nat \ {0}
    BY <1>1, InjectJobsAssumption DEF JobsSound, Jobs
  <2>2. QED
    BY <1>2, <1>3, <2>1 DEF JobsSound
<1>5. job' \in [Jobs -> Job]
  <2>1. DOMAIN job' = Jobs /\ job' = [i \in DOMAIN job' |-> job'[i]]
    BY DEF CreateJob
  <2>2. QED
    BY <1>4, <2>1 DEF Sound
<1>6. \A i \in Jobs : job'[i].status \in {"pending", "running"} /\ job'[i].round = 1
                        /\ job'[i].prompt = "repair" => i \in given'
  BY <1>1, <1>2, <1>3 DEF JobsSound, StartsFromPack, Open
<1>7. QED
  BY <1>1, <1>4, <1>5, <1>6 DEF JobsSound, StartsFromPack, Open

\* A stale job goes back sound, and with its pack if it was in its repair round.
LEMMA StartOverFact ==
  ASSUME NEW x, Sound(x)
  PROVE  /\ Sound(StartOver(x)) \/ x.reply # "none"
         /\ StartOver(x).status = "pending" /\ StartOver(x).round = 1
         /\ StartOver(x).reply = x.reply
         /\ x.round = 2 => StartOver(x).prompt = "pack"
         /\ x.round = 1 => StartOver(x).prompt = x.prompt
<1> DEFINE again == [x EXCEPT !.status = "pending", !.round = 1, !.late = FALSE]
           anew  == [again EXCEPT !.prompt = x.kept, !.kept = "none"]
<1>1. /\ x \in Job /\ x.kept \in {"none", "pack"} /\ x.round \in {1, 2}
      /\ x.round = 2 => x.kept = "pack"
  BY DEF Sound, Job, Texts, Replies
<1>2. again \in Job
  BY <1>1 DEF Job
<1>3. /\ again.status = "pending" /\ again.round = 1 /\ again.reply = x.reply
      /\ again.prompt = x.prompt /\ again.kept = x.kept
  BY <1>1 DEF Job
<1>4. x.round = 2 => anew \in Job
  BY <1>1, <1>2 DEF Job, Texts, Replies
<1>5. x.round = 2 => /\ anew.status = "pending" /\ anew.round = 1 /\ anew.reply = x.reply
                     /\ anew.prompt = "pack" /\ anew.kept = "none"
  BY <1>1, <1>2, <1>3 DEF Job
<1>6. StartOver(x) = IF x.round = 1 THEN again ELSE anew
  BY DEF StartOver
<1>7. QED
  BY <1>1, <1>2, <1>3, <1>4, <1>5, <1>6 DEF Sound

\* What the claim finds: stale jobs wait again, the others are as they were.
LEMMA RevivedFact ==
  ASSUME JobsSound, NEW i \in Jobs
  PROVE  /\ Sound(Revived[i])
         /\ Revived[i].reply = job[i].reply
         /\ \/ Revived[i].status = job[i].status
            \/ job[i].status = "running" /\ Revived[i].status = "pending"
         /\ Revived[i].status \in {"pending", "running"} /\ Revived[i].round = 1
              /\ Revived[i].prompt = "repair" => i \in given /\ ~(Stale(i) /\ job[i].round = 2)
<1>1. Sound(job[i]) /\ job[i].round \in {1, 2}
  BY DEF JobsSound, Job
<1>2. CASE Stale(i)
  <2>1. Revived[i] = StartOver(job[i]) /\ job[i].status = "running"
    BY <1>2 DEF Revived, Stale
  <2>2. job[i].reply = "none"
    BY <1>1, <2>1 DEF Sound
  <2>3. job[i].round = 1 /\ job[i].prompt = "repair" => i \in given
    BY <2>1 DEF JobsSound, StartsFromPack, Open
  <2>4. QED
    BY <1>1, <2>1, <2>2, <2>3, StartOverFact
<1>3. CASE ~Stale(i)
  BY <1>1, <1>3 DEF Revived, JobsSound, StartsFromPack, Open
<1>4. QED
  BY <1>2, <1>3

LEMMA TakenKeeps ==
  ASSUME JobsSound, NEW j \in Jobs, Taken(j), made' = made
  PROVE  JobsSound'
<1> DEFINE v == [Revived[j] EXCEPT !.status = "running"]
<1>1. \A i \in Jobs :
        /\ Sound(Revived[i])
        /\ Revived[i].status = "none" <=> job[i].status = "none"
        /\ Revived[i].status \in {"pending", "running"} /\ Revived[i].round = 1
             /\ Revived[i].prompt = "repair" => i \in given /\ ~(Stale(i) /\ job[i].round = 2)
  BY RevivedFact
<1>2. Revived[j].status = "pending" /\ DOMAIN Revived = Jobs
  BY DEF Taken, Revived
<1>3. Sound(v) /\ v.status = "running" /\ v.round = Revived[j].round /\ v.prompt = Revived[j].prompt
  BY <1>1, <1>2 DEF Sound, Job
<1>4. job'[j] = v /\ \A i \in Jobs \ {j} : job'[i] = Revived[i]
  BY <1>2 DEF Taken
<1> HIDE DEF v
<1>5. DOMAIN job' = Jobs /\ job' = [i \in DOMAIN job' |-> job'[i]]
  BY <1>2 DEF Taken
<1>6. \A i \in Jobs : Sound(job'[i]) /\ (job'[i].status = "none" <=> i > made')
  BY <1>1, <1>2, <1>3, <1>4 DEF JobsSound
<1>7. job' \in [Jobs -> Job]
  BY <1>5, <1>6 DEF Sound
<1>8. given' \subseteq Jobs
  BY DEF Taken, JobsSound
<1>9. \A i \in Jobs : job'[i].status \in {"pending", "running"} /\ job'[i].round = 1
                        /\ job'[i].prompt = "repair" => i \in given'
  BY <1>1, <1>2, <1>3, <1>4 DEF Taken
<1>10. QED
  BY <1>6, <1>7, <1>8, <1>9 DEF JobsSound, StartsFromPack, Open

\* Whatever is posted, by whomever and however late.
LEMMA PostedKeeps ==
  ASSUME JobsSound, NEW j \in Jobs, NEW text \in Texts \cup {"failure"}, NEW answer,
         Posted(j, text, answer), UNCHANGED <<made, given>>
  PROVE  JobsSound'
<1>1. CASE UNCHANGED job
  BY <1>1 DEF JobsSound, StartsFromPack, Open
<1>2. CASE ~UNCHANGED job
  <2>1. job[j].status = "running" /\ Sound(job[j])
    BY <1>2 DEF Posted, JobsSound
  <2>2. CASE Fail(j)
    <3> DEFINE v == [job[j] EXCEPT !.status = "failed"]
    <3>1. Sound(v) /\ v.status = "failed"
      BY <2>1 DEF Sound, Job
    <3>2. job' = [job EXCEPT ![j] = v]
      BY <2>2 DEF Fail
    <3>3. QED
      BY <2>1, <3>1, <3>2, OneJob DEF JobsSound
  <2>3. CASE job[j].round = 1 /\ AskRepair(j)
    <3> DEFINE v == [job[j] EXCEPT !.round = 2, !.prompt = "repair", !.kept = "pack", !.late = FALSE]
    <3>1. (IF job[j].kept = "none" THEN job[j].prompt ELSE job[j].kept) = "pack"
      BY <2>1 DEF Sound, Job, Texts, Replies
    <3>2. v \in Job
      BY <2>1 DEF Sound, Job, Texts, Replies
    <3>3. Sound(v) /\ v.status = "running" /\ v.round = 2
      BY <2>1, <3>2 DEF Sound, Job
    <3>4. job' = [job EXCEPT ![j] = v]
      BY <2>3, <3>1 DEF AskRepair
    <3>5. made' = made /\ given \subseteq given' /\ given' \subseteq Jobs
      BY DEF JobsSound
    <3>6. ~(v.status \in {"pending", "running"} /\ v.round = 1 /\ v.prompt = "repair")
      BY <3>3
    <3> HIDE DEF v
    <3>7. v.status # "none" /\ job[j].status # "none"
      BY <2>1, <3>3
    <3>8. QED
      BY <3>3, <3>4, <3>5, <3>6, <3>7, OneJob
  <2>4. CASE text # "failure" /\ Finish(j, text)
    <3>1. PICK reply \in Texts, status \in {"done", "failed"} :
            job' = [job EXCEPT ![j].status = status, ![j].reply = reply]
      BY <2>4 DEF Finish
    <3> DEFINE v == [job[j] EXCEPT !.status = status, !.reply = reply]
    <3>2. Sound(v) /\ v.status = status
      BY <2>1 DEF Sound, Job, Replies
    <3>3. job' = [job EXCEPT ![j] = v]
      BY <3>1 DEF JobsSound
    <3>4. QED
      BY <2>1, <3>2, <3>3, OneJob DEF JobsSound
  <2>5. QED
    BY <1>2, <2>1, <2>2, <2>3, <2>4 DEF Posted
<1>3. QED
  BY <1>1, <1>2

LEMMA CancelKeeps ==
  ASSUME JobsSound, NEW j \in Jobs, CancelJob(j)
  PROVE  JobsSound'
<1> DEFINE v == [job[j] EXCEPT !.status = "cancelled"]
<1>1. Sound(job[j]) /\ job[j].status \in {"pending", "running"}
  BY DEF JobsSound, CancelJob, Open
<1>2. v \in Job
  BY <1>1 DEF Sound, Job
<1>3. /\ v.status = "cancelled" /\ v.round = job[j].round /\ v.prompt = job[j].prompt
      /\ v.kept = job[j].kept /\ v.reply = job[j].reply
  BY <1>1 DEF Sound, Job
<1>4. job' = [job EXCEPT ![j] = v] /\ made' = made /\ given' = given
  BY DEF CancelJob
<1> HIDE DEF v
<1>5. Sound(v)
  BY <1>1, <1>2, <1>3 DEF Sound
<1>6. QED
  BY <1>1, <1>3, <1>4, <1>5, OneJob DEF JobsSound

LEMMA AgesKeeps ==
  ASSUME JobsSound, NEW j \in Jobs, ClaimAges(j)
  PROVE  JobsSound'
<1> DEFINE v == [job[j] EXCEPT !.late = TRUE]
<1>1. Sound(job[j]) /\ job[j].status = "running"
  BY DEF JobsSound, ClaimAges
<1>2. v \in Job
  BY <1>1 DEF Sound, Job
<1>3. /\ v.status = job[j].status /\ v.round = job[j].round /\ v.prompt = job[j].prompt
      /\ v.kept = job[j].kept /\ v.reply = job[j].reply
  BY <1>1 DEF Sound, Job
<1>4. job' = [job EXCEPT ![j] = v] /\ made' = made /\ given' = given
  BY DEF ClaimAges
<1> HIDE DEF v
<1>5. Sound(v)
  BY <1>1, <1>2, <1>3 DEF Sound
<1>6. v.status \in {"pending", "running"} /\ v.round = 1 /\ v.prompt = "repair" => j \in given
  BY <1>1, <1>3 DEF JobsSound, StartsFromPack, Open
<1>7. QED
  BY <1>1, <1>3, <1>4, <1>5, <1>6, OneJob DEF JobsSound

\* A repair that is handed back is written down as such.
LEMMA ReleaseKeeps ==
  ASSUME JobsSound, NEW w \in Workers, worker[w].job \in Jobs, Release(w)
  PROVE  JobsSound'
<1> DEFINE j == worker[w].job
           v == [job[j] EXCEPT !.status = "pending", !.round = 1, !.late = FALSE]
<1>1. CASE job[j].status # "running"
  BY <1>1 DEF Release, JobsSound, StartsFromPack, Open
<1>2. CASE job[j].status = "running"
  <2>1. Sound(job[j]) /\ job[j].round \in {1, 2}
    BY DEF JobsSound, Job
  <2>2. v \in Job
    BY <2>1 DEF Sound, Job
  <2>3. /\ v.status = "pending" /\ v.round = 1 /\ v.prompt = job[j].prompt
        /\ v.kept = job[j].kept /\ v.reply = job[j].reply
    BY <2>1 DEF Sound, Job
  <2>4. /\ job' = [job EXCEPT ![j] = v] /\ made' = made
        /\ given' = IF job[j].round = 2 THEN given \cup {j} ELSE given
    BY <1>2 DEF Release
  <2> HIDE DEF v
  <2>5. Sound(v)
    BY <1>2, <2>1, <2>2, <2>3 DEF Sound
  <2>6. v.prompt = "repair" => j \in given'
    BY <1>2, <2>1, <2>3, <2>4 DEF JobsSound, StartsFromPack, Open
  <2>7. given \subseteq given' /\ given' \subseteq Jobs
    BY <2>4 DEF JobsSound
  <2>8. QED
    BY <1>2, <2>3, <2>4, <2>5, <2>6, <2>7, OneJob
<1>3. QED
  BY <1>1, <1>2

-----------------------------------------------------------------------------
(* The workers. *)

LEMMA OneWorker ==
  ASSUME WorkersSound, NEW w \in Workers, NEW v \in Worker,
         v.at \in {"turn", "post", "release"} => v.job \in Jobs,
         v.at = "post" => v.left > 0,
         worker' = [worker EXCEPT ![w] = v]
  PROVE  WorkersSound'
  BY DEF WorkersSound

LEMMA IdleFact == Idle \in Worker /\ Idle.at = "idle"
  BY InjectJobsAssumption DEF Idle, Worker, Texts

LEMMA SpendKeeps ==
  ASSUME WorkersSound, NEW w \in Workers, worker[w].at = "post", Spend(w)
  PROVE  WorkersSound'
<1>1. worker[w] \in Worker /\ worker[w].job \in Jobs
  BY DEF WorkersSound
<1>2. CASE worker[w].left > 1
  <2> DEFINE v == [worker[w] EXCEPT !.left = worker[w].left - 1]
  <2>1. /\ v \in Worker /\ v.at = "post" /\ v.job = worker[w].job
        /\ v.left = worker[w].left - 1 /\ v.left > 0
    BY <1>1, <1>2, InjectJobsAssumption DEF Worker
  <2>2. worker' = [worker EXCEPT ![w] = v]
    BY <1>2 DEF Spend
  <2> HIDE DEF v
  <2>3. QED
    BY <1>1, <2>1, <2>2, OneWorker
<1>3. CASE ~(worker[w].left > 1)
  BY <1>3, IdleFact, OneWorker DEF Spend
<1>4. QED
  BY <1>2, <1>3

LEMMA HeardKeeps ==
  ASSUME WorkersSound, NEW w \in Workers, worker[w].at = "post", NEW answer, Heard(w, answer)
  PROVE  WorkersSound'
<1>1. worker[w] \in Worker /\ worker[w].job \in Jobs
  BY DEF WorkersSound
<1>2. CASE Spend(w)
  BY <1>2, SpendKeeps
<1>3. CASE worker' = [worker EXCEPT ![w] = [@ EXCEPT !.at = "turn", !.turn = 2, !.text = "repair",
                                                    !.left = 0]]
  <2> DEFINE v == [worker[w] EXCEPT !.at = "turn", !.turn = 2, !.text = "repair", !.left = 0]
  <2>0. 0 \in 0 .. Attempts + Reports
    BY InjectJobsAssumption
  <2>1. v \in Worker /\ v.at = "turn" /\ v.job = worker[w].job
    BY <1>1, <2>0 DEF Worker, Texts
  <2>2. worker' = [worker EXCEPT ![w] = v]
    BY <1>3
  <2> HIDE DEF v
  <2>3. QED
    BY <1>1, <2>1, <2>2, OneWorker
<1>4. CASE worker' = [worker EXCEPT ![w] = Idle]
  BY <1>4, IdleFact, OneWorker
<1>5. QED
  BY <1>2, <1>3, <1>4 DEF Heard

LEMMA ClaimWorks ==
  ASSUME WorkersSound, JobsSound, NEW w \in Workers, NEW j \in Jobs, ClaimNext(w, j)
  PROVE  WorkersSound'
<1> DEFINE v == [Idle EXCEPT !.at = "turn", !.job = j, !.text = Revived[j].prompt]
<1>1. Revived[j].prompt \in Texts
  BY DEF JobsSound, Sound, Job, Revived, StartOver, Texts, Replies
<1>0. j \in 0 .. Made
  BY InjectJobsAssumption DEF Jobs
<1>2. v \in Worker /\ v.at = "turn" /\ v.job = j
  BY <1>0, <1>1, IdleFact DEF Worker
<1>3. worker' = [worker EXCEPT ![w] = v]
  BY DEF ClaimNext
<1> HIDE DEF v
<1>4. QED
  BY <1>2, <1>3, OneWorker

LEMMA TurnWorks ==
  ASSUME WorkersSound, NEW w \in Workers, TurnAnswers(w) \/ TurnFails(w)
  PROVE  WorkersSound'
<1>1. worker[w] \in Worker /\ worker[w].job \in Jobs
  BY DEF WorkersSound, TurnAnswers, TurnFails
<1>2. CASE TurnAnswers(w)
  <2> DEFINE at   == IF w \in Dry THEN "release" ELSE "post"
             left == IF w \in Dry THEN 0 ELSE Attempts
             v    == [worker[w] EXCEPT !.at = at, !.left = left]
  <2>1. left \in 0 .. Attempts + Reports /\ (at = "post" => left > 0)
    BY InjectJobsAssumption
  <2>2. v \in Worker /\ v.at = at /\ v.left = left /\ v.job = worker[w].job
    BY <1>1, <2>1 DEF Worker
  <2>3. worker' = [worker EXCEPT ![w] = v]
    BY <1>2 DEF TurnAnswers, WorkersSound
  <2> HIDE DEF v
  <2>4. QED
    BY <1>1, <2>1, <2>2, <2>3, OneWorker
<1>3. CASE TurnFails(w) /\ w \in Dry
  BY <1>3, IdleFact, OneWorker DEF TurnFails
<1>4. CASE TurnFails(w) /\ w \notin Dry
  <2> DEFINE v == [worker[w] EXCEPT !.at = "post", !.text = "failure", !.left = Reports]
  <2>0. Reports \in 0 .. Attempts + Reports /\ Reports > 0
    BY InjectJobsAssumption
  <2>1. v \in Worker /\ v.at = "post" /\ v.left = Reports /\ v.job = worker[w].job
    BY <1>1, <2>0 DEF Worker
  <2>2. worker' = [worker EXCEPT ![w] = v]
    BY <1>4 DEF TurnFails
  <2> HIDE DEF v
  <2>3. QED
    BY <1>1, <2>0, <2>1, <2>2, OneWorker
<1>5. QED
  BY <1>2, <1>3, <1>4

LEMMA DeathWorks ==
  ASSUME WorkersSound, NEW w \in Workers, Dies(w) \/ Starts(w)
  PROVE  WorkersSound'
<1> DEFINE v == [Idle EXCEPT !.at = "dead"]
<1>1. v \in Worker /\ v.at = "dead"
  BY IdleFact DEF Worker
<1>2. worker' = [worker EXCEPT ![w] = v] \/ worker' = [worker EXCEPT ![w] = Idle]
  BY DEF Dies, Starts
<1> HIDE DEF v
<1>3. QED
  BY <1>1, <1>2, IdleFact, OneWorker

-----------------------------------------------------------------------------
(* The invariant. *)

LEMMA StepKeeps == IInv /\ [Next]_vars => IInv'
<1> SUFFICES ASSUME IInv, [Next]_vars PROVE IInv'
  OBVIOUS
<1>0. JobsSound /\ WorkersSound
  BY DEF IInv
<1>1. ASSUME UNCHANGED <<made, job, given>> PROVE JobsSound'
  BY <1>0, <1>1 DEF JobsSound, StartsFromPack, Open
<1>2. ASSUME UNCHANGED worker PROVE WorkersSound'
  BY <1>0, <1>2 DEF WorkersSound
<1>3. CASE CreateJob
  BY <1>0, <1>2, <1>3, CreateKeeps DEF CreateJob, IInv
<1>4. ASSUME NEW j \in Jobs, CancelJob(j) \/ ClaimAges(j) PROVE IInv'
  BY <1>0, <1>2, <1>4, CancelKeeps, AgesKeeps DEF CancelJob, ClaimAges, IInv
<1>5. ASSUME NEW w \in Workers, NEW j \in Jobs, ClaimNext(w, j) \/ ClaimLost(w, j) PROVE IInv'
  BY <1>0, <1>2, <1>5, TakenKeeps, ClaimWorks DEF ClaimNext, ClaimLost, IInv
<1>6. ASSUME NEW w \in Workers, TurnAnswers(w) \/ TurnFails(w) PROVE IInv'
  BY <1>0, <1>1, <1>6, TurnWorks DEF TurnAnswers, TurnFails, IInv
<1>7. ASSUME NEW w \in Workers, Post(w) \/ PostUnanswered(w) PROVE IInv'
  <2>1. /\ worker[w].job \in Jobs /\ worker[w].text \in Texts \cup {"failure"}
        /\ worker[w].at = "post" /\ UNCHANGED <<made, given>>
    BY <1>0, <1>7 DEF WorkersSound, Worker, Post, PostUnanswered
  <2>2. PICK answer : /\ Posted(worker[w].job, worker[w].text, answer)
                      /\ Heard(w, answer) \/ Spend(w)
    BY <1>7 DEF Post, PostUnanswered
  <2>3. QED
    BY <1>0, <2>1, <2>2, PostedKeeps, HeardKeeps, SpendKeeps DEF IInv
<1>8. ASSUME NEW w \in Workers, PostLost(w) PROVE IInv'
  BY <1>0, <1>1, <1>8, SpendKeeps DEF PostLost, IInv
<1>9. ASSUME NEW w \in Workers, Release(w) \/ ReleaseLost(w) PROVE IInv'
  <2>1. worker[w].job \in Jobs /\ worker' = [worker EXCEPT ![w] = Idle]
    BY <1>0, <1>9 DEF WorkersSound, Release, ReleaseLost
  <2>2. JobsSound'
    BY <1>0, <1>1, <1>9, <2>1, ReleaseKeeps DEF ReleaseLost
  <2>3. QED
    BY <1>0, <2>1, <2>2, IdleFact, OneWorker DEF IInv
<1>10. ASSUME NEW w \in Workers, Dies(w) \/ Starts(w) PROVE IInv'
  BY <1>0, <1>1, <1>10, DeathWorks DEF Dies, Starts, IInv
<1>11. CASE UNCHANGED vars
  BY <1>1, <1>2, <1>11 DEF vars, IInv
<1>12. QED
  BY <1>3, <1>4, <1>5, <1>6, <1>7, <1>8, <1>9, <1>10, <1>11 DEF Next

LEMMA Inductive == Spec => []IInv
  BY InitHolds, StepKeeps, PTL DEF Spec

\* Every variable keeps its type, whatever is lost and whoever dies.
THEOREM TypeCorrect == Spec => []TypeOK
<1>1. IInv => TypeOK
  BY DEF IInv, JobsSound, WorkersSound, TypeOK
<1>2. QED
  BY <1>1, Inductive, PTL

\* A job that begins anew begins with its pack, except for one that was handed back
\* in the middle of its repair round.
THEOREM PackComesFirst == Spec => []StartsFromPack
<1>1. IInv => StartsFromPack
  BY DEF IInv, JobsSound
<1>2. QED
  BY <1>1, Inductive, PTL

-----------------------------------------------------------------------------
(* The ledger. *)

\* Steps that close no job and change no reply say nothing in the ledger.
LEMMA Quiet ==
  ASSUME \A j \in Jobs : /\ job'[j].reply = job[j].reply
                         /\ job'[j].status = job[j].status \/ (Open(j) /\ Open(j)')
  PROVE  List' = List
<1>1. \A j \in Jobs : Open(j)' <=> Open(j)
  BY DEF Open
<1>2. \A j \in Jobs : List'[j] = List[j]
  BY <1>1 DEF List
<1>3. QED
  BY <1>2 DEF List

\* A job that is open gets its verdict, and the others stay as they are.
LEMMA Decides ==
  ASSUME JobsSound, NEW j \in Jobs, Open(j),
         \A i \in Jobs \ {j} : job'[i] = job[i],
         job'[j].status \in {"done", "failed", "cancelled"}, job'[j].reply \in Replies
  PROVE  Ledger!Next
<1> DEFINE verdict == [state |-> job'[j].status, reply |-> job'[j].reply]
<1>1. verdict \in Ledger!Verdicts
  BY DEF Ledger!Verdicts
<1>2. List[j].state = "open"
  BY DEF List
<1>3. List'[j] = verdict
  BY DEF List, Open
<1>4. \A i \in Jobs \ {j} : List'[i] = List[i]
  BY DEF List, Open
<1>5. List' = [List EXCEPT ![j] = verdict]
  BY <1>3, <1>4 DEF List
<1>6. Ledger!Decide(j, verdict)
  BY <1>2, <1>5 DEF Ledger!Decide
<1>7. QED
  BY <1>1, <1>6 DEF Ledger!Next

LEMMA LedgerInit == Init => Ledger!Init
<1> SUFFICES ASSUME Init PROVE Ledger!Init
  OBVIOUS
<1>1. \A j \in Jobs : List[j] = [state |-> "none", reply |-> "none"]
  BY DEF Init, NoJob, List, Open
<1>2. QED
  BY <1>1 DEF Ledger!Init, Ledger!Shown, List

LEMMA CreateQueues ==
  ASSUME JobsSound, CreateJob
  PROVE  Ledger!Next
<1> DEFINE j == made'
<1>1. made' = made + 1 /\ j \in Jobs /\ Keep \in Nat \ {0} /\ made \in Nat
  BY InjectJobsAssumption DEF CreateJob, JobsSound, Jobs
<1>2. \A i \in Jobs : List[i].state = "none" <=> i >= j
  BY <1>1 DEF List, Open, JobsSound, Jobs
<1>3. \A i \in Jobs :
        job'[i] = CASE i = j         -> [NoJob EXCEPT !.status = "pending"]
                    [] i <= j - Keep -> [NoJob EXCEPT !.status = "gone"]
                    [] OTHER         -> job[i]
  BY DEF CreateJob
<1>4. \A i \in Jobs : List'[i] = [state |-> IF Open(i)' THEN "open" ELSE job'[i].status,
                                  reply |-> job'[i].reply]
  BY DEF List
<1>5. \A i \in Jobs :
        List'[i] = CASE i = j         -> [state |-> "open", reply |-> "none"]
                     [] i <= j - Keep -> [state |-> "gone", reply |-> "none"]
                     [] OTHER         -> List[i]
  <2> SUFFICES ASSUME NEW i \in Jobs
               PROVE  List'[i] = CASE i = j         -> [state |-> "open", reply |-> "none"]
                                   [] i <= j - Keep -> [state |-> "gone", reply |-> "none"]
                                   [] OTHER         -> List[i]
    OBVIOUS
  <2>0. i \in Nat /\ j \in Nat
    BY <1>1 DEF Jobs
  <2>1. CASE i = j
    BY <1>1, <1>3, <1>4, <2>0, <2>1 DEF NoJob, Open
  <2>2. CASE i # j /\ i <= j - Keep
    BY <1>1, <1>3, <1>4, <2>0, <2>2 DEF NoJob, Open
  <2>3. CASE i # j /\ ~(i <= j - Keep)
    <3>1. job'[i] = job[i]
      BY <1>1, <1>3, <2>0, <2>3
    <3>2. QED
      BY <1>1, <1>4, <2>0, <2>3, <3>1 DEF List, Open
  <2>4. QED
    BY <2>1, <2>2, <2>3
<1>6. Ledger!Queue(j)
  BY <1>2, <1>5 DEF Ledger!Queue, Ledger!Shown, List
<1>7. QED
  BY <1>1, <1>6 DEF Ledger!Next

LEMMA TakenQuiet ==
  ASSUME JobsSound, NEW j \in Jobs, Taken(j)
  PROVE  List' = List
<1>1. \A i \in Jobs : /\ Revived[i].reply = job[i].reply
                      /\ Revived[i].status = job[i].status
                           \/ (job[i].status = "running" /\ Revived[i].status = "pending")
  <2>1. \A i \in Jobs : Revived[i].reply = job[i].reply
    BY RevivedFact
  <2>2. \A i \in Jobs : Revived[i].status = job[i].status
                         \/ (job[i].status = "running" /\ Revived[i].status = "pending")
    BY RevivedFact
  <2>3. QED
    BY <2>1, <2>2
<1>2. Revived[j].status = "pending" /\ DOMAIN Revived = Jobs
  BY DEF Taken, Revived
<1>3. Revived[j] \in Job
  BY RevivedFact DEF Sound
<1>4. job'[j].status = "running" /\ job'[j].reply = Revived[j].reply
  BY <1>2, <1>3 DEF Taken, Job
<1>5. \A i \in Jobs \ {j} : job'[i] = Revived[i]
  BY <1>2 DEF Taken
<1>6. \A i \in Jobs : /\ job'[i].reply = job[i].reply
                      /\ job'[i].status = job[i].status \/ (Open(i) /\ Open(i)')
  <2>1. job'[j].reply = job[j].reply /\ Open(j) /\ Open(j)'
    BY <1>1, <1>2, <1>4 DEF Open
  <2>2. \A i \in Jobs \ {j} : /\ job'[i].reply = job[i].reply
                              /\ job'[i].status = job[i].status \/ (Open(i) /\ Open(i)')
    BY <1>1, <1>5 DEF Open
  <2>3. QED
    BY <2>1, <2>2
<1>7. QED
  BY <1>6, Quiet

\* What is posted to a running job asks for a repair or decides it.
LEMMA PostedLedger ==
  ASSUME JobsSound, JobsSound', NEW j \in Jobs, NEW text, NEW answer, Posted(j, text, answer)
  PROVE  [Ledger!Next]_List
<1>1. CASE UNCHANGED job
  BY <1>1, Quiet
<1>2. CASE ~UNCHANGED job
  <2>1. job[j].status = "running" /\ job[j] \in Job /\ job'[j] \in Job /\ Open(j)
    BY <1>2 DEF Posted, JobsSound, Open
  <2>2. CASE Fail(j)
    <3>1. job'[j].status = "failed" /\ \A i \in Jobs \ {j} : job'[i] = job[i]
      BY <2>1, <2>2 DEF Fail, JobsSound, Job
    <3>2. QED
      BY <2>1, <3>1, Decides DEF Job
  <2>3. CASE AskRepair(j)
    <3>1. /\ \A i \in Jobs \ {j} : job'[i] = job[i]
          /\ job'[j].status = "running" /\ job'[j].reply = job[j].reply
      BY <2>1, <2>3 DEF AskRepair, JobsSound, Job
    <3>2. QED
      BY <2>1, <3>1, Quiet
  <2>4. CASE Finish(j, text)
    <3>1. /\ \A i \in Jobs \ {j} : job'[i] = job[i]
          /\ job'[j].status \in {"done", "failed"}
      BY <2>1, <2>4 DEF Finish, JobsSound, Job
    <3>2. QED
      BY <2>1, <3>1, Decides DEF Job
  <2>5. QED
    BY <1>2, <2>1, <2>2, <2>3, <2>4 DEF Posted
<1>3. QED
  BY <1>1, <1>2

LEMMA LedgerStep == IInv /\ IInv' /\ [Next]_vars => [Ledger!Next]_List
<1> SUFFICES ASSUME IInv, IInv', [Next]_vars PROVE [Ledger!Next]_List
  OBVIOUS
<1>0. JobsSound /\ JobsSound' /\ WorkersSound
  BY DEF IInv
<1>1. ASSUME UNCHANGED job PROVE List' = List
  BY <1>1, Quiet
<1>2. CASE CreateJob
  BY <1>0, <1>2, CreateQueues
<1>3. ASSUME NEW j \in Jobs, CancelJob(j) PROVE Ledger!Next
  <2>1. Open(j) /\ job[j] \in Job /\ job'[j] \in Job
    BY <1>0, <1>3 DEF CancelJob, JobsSound
  <2>2. job'[j].status = "cancelled" /\ \A i \in Jobs \ {j} : job'[i] = job[i]
    BY <1>0, <1>3 DEF CancelJob, JobsSound, Job
  <2>3. QED
    BY <1>0, <2>1, <2>2, Decides DEF Job
<1>4. ASSUME NEW j \in Jobs, ClaimAges(j) PROVE List' = List
  <2>1. /\ \A i \in Jobs \ {j} : job'[i] = job[i]
        /\ job'[j].status = job[j].status /\ job'[j].reply = job[j].reply
    BY <1>0, <1>4 DEF ClaimAges, JobsSound, Job
  <2>2. QED
    BY <2>1, Quiet
<1>5. ASSUME NEW w \in Workers, NEW j \in Jobs, ClaimNext(w, j) \/ ClaimLost(w, j) PROVE List' = List
  BY <1>0, <1>5, TakenQuiet DEF ClaimNext, ClaimLost
<1>6. ASSUME NEW w \in Workers,
             TurnAnswers(w) \/ TurnFails(w) \/ PostLost(w) \/ ReleaseLost(w) \/ Dies(w) \/ Starts(w)
      PROVE  List' = List
  BY <1>1, <1>6 DEF TurnAnswers, TurnFails, PostLost, ReleaseLost, Dies, Starts
<1>7. ASSUME NEW w \in Workers, Post(w) \/ PostUnanswered(w) PROVE [Ledger!Next]_List
  <2>1. worker[w].job \in Jobs
    BY <1>0, <1>7 DEF WorkersSound, Post, PostUnanswered
  <2>2. PICK answer : Posted(worker[w].job, worker[w].text, answer)
    BY <1>7 DEF Post, PostUnanswered
  <2>3. QED
    BY <1>0, <2>1, <2>2, PostedLedger
<1>8. ASSUME NEW w \in Workers, Release(w) PROVE List' = List
  <2>1. CASE UNCHANGED job
    BY <2>1, <1>1
  <2>2. CASE ~UNCHANGED job
    <3> DEFINE j == worker[w].job
    <3>1. j \in Jobs /\ job[j].status = "running" /\ job[j] \in Job
      BY <1>0, <1>8, <2>2 DEF Release, WorkersSound, JobsSound
    <3>2. job' = [job EXCEPT ![j] = [job[j] EXCEPT !.status = "pending", !.round = 1, !.late = FALSE]]
      BY <1>8, <3>1 DEF Release
    <3>3. \A i \in Jobs \ {j} : job'[i] = job[i]
      BY <1>0, <3>1, <3>2 DEF JobsSound
    <3>4. job'[j].status = "pending" /\ job'[j].reply = job[j].reply
      BY <1>0, <3>1, <3>2 DEF JobsSound, Job
    <3>5. QED
      BY <3>1, <3>3, <3>4, Quiet DEF Open
  <2>3. QED
    BY <2>1, <2>2
<1>9. CASE UNCHANGED vars
  BY <1>1, <1>9 DEF vars
<1>10. QED
  BY <1>2, <1>3, <1>4, <1>5, <1>6, <1>7, <1>8, <1>9 DEF Next

\* The queue keeps the owner's list: a job is open until its one verdict, which stays,
\* and leaves the list by its age only.
THEOREM ImplementsLedger == Spec => LedgerSpec
<1>1. IInv /\ IInv' /\ [Next]_vars => [Ledger!Next]_List
  BY LedgerStep
<1>2. QED
  BY <1>1, LedgerInit, Inductive, PTL DEF Spec, LedgerSpec, Ledger!Spec
=============================================================================

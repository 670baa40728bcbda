----------------------------- MODULE InjectJobs -----------------------------
(***************************************************************************)
(* Injection jobs (src/inject-jobs.js, routes/agent-bridge.js, the end of  *)
(* routes/inject.js, scripts/tapuz-worker.js): the owner queues a pack, a  *)
(* worker on some other machine claims it, runs it on a model, and posts   *)
(* the reply; the door takes the reply or asks, once, for a repair.        *)
(*                                                                         *)
(* Every handler of the server is synchronous over one file, so a request  *)
(* is one action.  What lies between two of them is the network, which     *)
(* loses requests and answers, a model that may take longer than a claim   *)
(* lasts, and a worker that dies.  A claim carries no token: whoever posts *)
(* to a running job is heard.                                              *)
(***************************************************************************)
EXTENDS Integers, FiniteSets

CONSTANTS
  Made,       \* bound: the jobs the owner queues
  Keep,       \* MAX_JOBS
  Workers,    \* worker processes
  Dry,        \* those started with --dry
  Steady,     \* those of the others that keep polling
  Attempts,   \* POST_ATTEMPTS, for a reply
  Reports     \* the attempts at reporting a failure

ASSUME InjectJobsAssumption ==
  /\ Made \in Nat /\ Keep \in Nat \ {0} /\ Dry \subseteq Workers
  /\ Steady \subseteq Workers \ Dry
  /\ Attempts \in Nat \ {0} /\ Reports \in Nat \ {0}

Jobs    == 1 .. Made
Texts   == {"pack", "repair"}      \* what a prompt asks for
Replies == {"none"} \cup Texts     \* a reply, by the prompt it answers

VARIABLES
  made,     \* how many jobs were queued so far
  job,      \* the stored jobs
  worker,   \* what each worker is at
  given     \* history: jobs handed back in the middle of their repair round, and not
            \* started over since

vars == <<made, job, worker, given>>

Job == [status: {"none", "pending", "running", "done", "failed", "cancelled", "gone"},
        round: {1, 2}, prompt: Texts, kept: Replies, reply: Replies,
        late: BOOLEAN]   \* claimed longer ago than CLAIM_STALE_MS

\* kept is packPrompt.
NoJob == [status |-> "none", round |-> 1, prompt |-> "pack", kept |-> "none",
          reply |-> "none", late |-> FALSE]

Worker == [at: {"idle", "turn", "post", "release", "dead"}, job: 0 .. Made, turn: {1, 2},
           text: Texts \cup {"failure"}, left: 0 .. Attempts + Reports]

Idle == [at |-> "idle", job |-> 0, turn |-> 1, text |-> "pack", left |-> 0]

Init ==
  /\ made = 0 /\ job = [j \in Jobs |-> NoJob]
  /\ worker = [w \in Workers |-> Idle] /\ given = {}

-----------------------------------------------------------------------------
(* The owner's card: queue and cancel. *)

\* The newest Keep jobs are kept, whatever became of the older ones (save).
CreateJob ==
  /\ made < Made
  /\ made' = made + 1
  /\ job' = [j \in Jobs |-> CASE j = made'         -> [NoJob EXCEPT !.status = "pending"]
                              [] j <= made' - Keep -> [NoJob EXCEPT !.status = "gone"]
                              [] OTHER             -> job[j]]
  /\ UNCHANGED <<worker, given>>

Open(j) == job[j].status \in {"pending", "running"}

\* Mutant: a verdict that is already there may still be cancelled.
CancelAny(j) ==
  /\ job[j].status \notin {"none", "gone"}
  /\ job' = [job EXCEPT ![j].status = "cancelled"]
  /\ UNCHANGED <<made, worker, given>>

CancelJob(j) ==
  /\ Open(j)
  /\ job' = [job EXCEPT ![j].status = "cancelled"]
  /\ UNCHANGED <<made, worker, given>>

-----------------------------------------------------------------------------
(* The claim. *)

\* Mutant: a stale repair goes back as it is.
StartOverAsIs(j) == [j EXCEPT !.status = "pending", !.round = 1, !.late = FALSE]

\* Mutant: a stale first round, too, is given the pack it never put aside.
StartOverAlways(j) ==
  [j EXCEPT !.status = "pending", !.round = 1, !.late = FALSE, !.prompt = j.kept, !.kept = "none"]

\* A stale repair starts over from the pack, which was kept for it.
StartOver(j) ==
  LET again == [j EXCEPT !.status = "pending", !.round = 1, !.late = FALSE]
  IN IF j.round = 1 THEN again ELSE [again EXCEPT !.prompt = j.kept, !.kept = "none"]

Stale(j) == job[j].status = "running" /\ job[j].late

\* Mutant: nobody looks for claims that went stale.
RevivedNever == job

Revived == [j \in Jobs |-> IF Stale(j) THEN StartOver(job[j]) ELSE job[j]]

\* The oldest pending job, once the stale ones are back among them.
Taken(j) ==
  /\ Revived[j].status = "pending"
  /\ \A i \in Jobs : Revived[i].status = "pending" => j <= i
  /\ job' = [Revived EXCEPT ![j].status = "running"]
  /\ given' = {i \in given : ~(Stale(i) /\ job[i].round = 2)}

ClaimNext(w, j) ==
  /\ worker[w].at = "idle"
  /\ Taken(j)
  /\ worker' = [worker EXCEPT ![w] = [Idle EXCEPT !.at = "turn", !.job = j,
                                                   !.text = Revived[j].prompt]]
  /\ UNCHANGED made

\* The answer never arrives: the job runs, and nobody runs it.
ClaimLost(w, j) ==
  /\ worker[w].at = "idle"
  /\ Taken(j)
  /\ UNCHANGED <<made, worker>>

-----------------------------------------------------------------------------
(* The model. *)

\* A dry run shows the reply and gives the job back; the others post it.
TurnAnswers(w) ==
  /\ worker[w].at = "turn"
  /\ worker' = [worker EXCEPT ![w].at = IF w \in Dry THEN "release" ELSE "post",
                              ![w].left = IF w \in Dry THEN 0 ELSE Attempts]
  /\ UNCHANGED <<made, job, given>>

\* The model fails, or the worker refuses a prompt without its briefing: that is
\* reported, except by a dry run, which leaves the job to go stale.
TurnFails(w) ==
  /\ worker[w].at = "turn"
  /\ worker' = [worker EXCEPT ![w] =
       IF w \in Dry THEN Idle ELSE [@ EXCEPT !.at = "post", !.text = "failure", !.left = Reports]]
  /\ UNCHANGED <<made, job, given>>

-----------------------------------------------------------------------------
(* The door (judgeJobReply).  It judges against the site of today. *)

AskRepair(j) ==
  job' = [job EXCEPT ![j] = [@ EXCEPT !.round = 2, !.prompt = "repair",
                             !.kept = IF job[j].kept = "none" THEN job[j].prompt ELSE job[j].kept,
                             !.late = FALSE]]

\* The better of the two replies, either of which may answer either prompt; a refused
\* one only after the repair round.
Finish(j, text) ==
  \E reply \in (IF job[j].round = 2 THEN Texts ELSE {text}),
     status \in (IF job[j].round = 2 THEN {"done", "failed"} ELSE {"done"}) :
       job' = [job EXCEPT ![j].status = status, ![j].reply = reply]

\* A failure the worker reports, or a door that throws.
Fail(j) == job' = [job EXCEPT ![j].status = "failed"]

\* POST /agent/v1/inject/:jobId, from any worker: unknown jobs are 404, ended or
\* waiting ones 409, and a cancelled one is nobody's error.
Posted(j, text, answer) ==
  CASE job[j].status = "cancelled" -> answer = "done" /\ UNCHANGED job
    [] job[j].status \notin {"running", "cancelled"} -> answer = "error" /\ UNCHANGED job
    [] OTHER ->
         \/ text = "failure" /\ answer = "done" /\ Fail(j)
         \/ text # "failure" /\ answer = "repair" /\ job[j].round = 1 /\ AskRepair(j)
         \/ text # "failure" /\ answer = "done" /\ Finish(j, text)
         \/ text # "failure" /\ answer = "error" /\ Fail(j)

\* The attempt failed: another one, or the reply is undelivered.
Spend(w) ==
  worker' = [worker EXCEPT ![w] =
               IF worker[w].left > 1 THEN [worker[w] EXCEPT !.left = @ - 1] ELSE Idle]

\* At most one repair turn; a second request is ignored.
Heard(w, answer) ==
  CASE answer = "error" -> Spend(w)
    [] answer = "repair" /\ worker[w].turn = 1 ->
         worker' = [worker EXCEPT ![w] = [@ EXCEPT !.at = "turn", !.turn = 2, !.text = "repair", !.left = 0]]
    [] OTHER -> worker' = [worker EXCEPT ![w] = Idle]

Answers == {"done", "repair", "error"}

Post(w) ==
  /\ worker[w].at = "post"
  /\ \E answer \in Answers : Posted(worker[w].job, worker[w].text, answer) /\ Heard(w, answer)
  /\ UNCHANGED <<made, given>>

\* Handled, and the answer lost on its way: the worker sends the same again.
PostUnanswered(w) ==
  /\ worker[w].at = "post"
  /\ \E answer \in Answers : Posted(worker[w].job, worker[w].text, answer)
  /\ Spend(w)
  /\ UNCHANGED <<made, given>>

PostLost(w) ==
  /\ worker[w].at = "post"
  /\ Spend(w)
  /\ UNCHANGED <<made, job, given>>

-----------------------------------------------------------------------------
(* Handing a job back, and the ends a worker may come to. *)

\* The round is reset; the prompt is left as it is.
Release(w) ==
  LET j == worker[w].job IN
  /\ worker[w].at = "release"
  /\ IF job[j].status = "running"
     THEN /\ job' = [job EXCEPT ![j] = [@ EXCEPT !.status = "pending", !.round = 1,
                                                 !.late = FALSE]]
          /\ given' = IF job[j].round = 2 THEN given \cup {j} ELSE given
     ELSE UNCHANGED <<job, given>>
  /\ worker' = [worker EXCEPT ![w] = Idle]
  /\ UNCHANGED made

\* Best effort: it is sent once.
ReleaseLost(w) ==
  /\ worker[w].at = "release"
  /\ worker' = [worker EXCEPT ![w] = Idle]
  /\ UNCHANGED <<made, job, given>>

\* What it was at is forgotten, and its job runs on without it.
Dies(w) ==
  /\ worker[w].at # "dead"
  /\ worker' = [worker EXCEPT ![w] = [Idle EXCEPT !.at = "dead"]]
  /\ UNCHANGED <<made, job, given>>

Starts(w) ==
  /\ worker[w].at = "dead"
  /\ worker' = [worker EXCEPT ![w] = Idle]
  /\ UNCHANGED <<made, job, given>>

\* CLAIM_STALE_MS pass since the claim, or since the repair was asked for.
ClaimAges(j) ==
  /\ job[j].status = "running" /\ ~job[j].late
  /\ job' = [job EXCEPT ![j].late = TRUE]
  /\ UNCHANGED <<made, worker, given>>

Next ==
  \/ CreateJob
  \/ \E j \in Jobs : CancelJob(j) \/ ClaimAges(j)
  \/ \E w \in Workers :
       \/ \E j \in Jobs : ClaimNext(w, j) \/ ClaimLost(w, j)
       \/ TurnAnswers(w) \/ TurnFails(w)
       \/ Post(w) \/ PostUnanswered(w) \/ PostLost(w)
       \/ Release(w) \/ ReleaseLost(w)
       \/ Dies(w) \/ Starts(w)

Spec == Init /\ [][Next]_vars

\* A turn ends, by the worker's own time limit at the latest; a claim grows old;
\* a steady worker that polls and posts again and again gets through in the end.
FairSpec ==
  /\ Spec
  /\ \A j \in Jobs : WF_vars(ClaimAges(j))
  /\ \A w \in Workers :
       /\ WF_vars(TurnAnswers(w) \/ TurnFails(w))
       /\ WF_vars(Release(w) \/ ReleaseLost(w))
       /\ WF_vars(Post(w) \/ PostLost(w))
  /\ \A w \in Steady :
       /\ SF_vars(\E j \in Jobs : ClaimNext(w, j))
       /\ \A n \in {1, 2} : SF_vars(worker[w].turn = n /\ Post(w))

-----------------------------------------------------------------------------
(* Properties. *)

TypeOK ==
  /\ made \in 0 .. Made
  /\ job \in [Jobs -> Job]
  /\ worker \in [Workers -> Worker]
  /\ given \subseteq Jobs

\* A job that begins anew begins with its pack, and not with the repair instructions
\* of the round before, whatever workers went silent, came back late or answered
\* twice (reviveStale, askRepair); save for a job that was handed back in the middle
\* of its repair round, until a stale repair of it starts over.
StartsFromPack ==
  \A j \in Jobs : Open(j) /\ job[j].round = 1 /\ job[j].prompt = "repair" => j \in given

\* The owner's list: one verdict for a job, and it stays (finishJob, cancelJob).
List == [j \in Jobs |-> [state |-> IF Open(j) THEN "open" ELSE job[j].status,
                         reply |-> job[j].reply]]

Ledger == INSTANCE JobLedger WITH ledger <- List
LedgerSpec == Ledger!Spec

AtWork(j) == \E w \in Workers : worker[w].job = j

\* No worker is at its job for longer than the claim lasts.
InTime == \A j \in Jobs : AtWork(j) => ~ClaimAges(j)

\* "a machine that went to sleep mid-pack must not strand it as 'running'"
\* (inject-jobs.js:41): a job that is queued ends, though claims, replies and
\* answers are lost and workers die, as long as a steady worker stays alive in the
\* end and models answer within the life of a claim.
JobEnds ==
  /\ \E w \in Steady : <>[](worker[w].at # "dead")
  /\ <>[][InTime]_vars
  => \A j \in Jobs : Open(j) ~> ~Open(j)

-----------------------------------------------------------------------------
(* What the comments and the documents say, and the code does not keep. *)

\* "... hands a claimed job back, which is how a dry run leaves the queue as it
\* found it" (INJECTIONS.md:94): a job that waits for a worker waits with its pack.
WaitsWithPack == \A j \in Jobs : job[j].status = "pending" => job[j].prompt = "pack"

=============================================================================

----------------------------- MODULE JobLedger -----------------------------
(***************************************************************************)
(* What the queue of injection jobs promises the owner, said without any   *)
(* worker (src/inject-jobs.js): a job is open from the moment it is queued *)
(* until it gets its one verdict, the verdict and its text stay as they    *)
(* were first shown, and a job leaves the list only by its age, when       *)
(* another is queued.                                                      *)
(***************************************************************************)
EXTENDS Integers

CONSTANTS
  Jobs,     \* the jobs, numbered as they are queued
  Keep,     \* MAX_JOBS
  Replies   \* the texts a verdict may carry

VARIABLE ledger   \* job -> what the owner is shown of it

Verdicts == [state: {"done", "failed", "cancelled"}, reply: Replies]

Shown(s) == [state |-> s, reply |-> "none"]

Init == ledger = [j \in Jobs |-> Shown("none")]

\* The newest Keep jobs are kept, the new one among them.
Queue(j) ==
  /\ \A i \in Jobs : ledger[i].state = "none" <=> i >= j
  /\ ledger' = [i \in Jobs |-> CASE i = j        -> Shown("open")
                                 [] i <= j - Keep -> Shown("gone")
                                 [] OTHER         -> ledger[i]]

Decide(j, verdict) ==
  /\ ledger[j].state = "open"
  /\ ledger' = [ledger EXCEPT ![j] = verdict]

Next == \E j \in Jobs : Queue(j) \/ \E verdict \in Verdicts : Decide(j, verdict)

Spec == Init /\ [][Next]_ledger
=============================================================================

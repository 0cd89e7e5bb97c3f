---------------------------- MODULE FinalWorker ----------------------------
(***************************************************************************)
(* The final-solve half of the engine facade (engine_impl.cpp): FinalStart *)
(* spawns a worker thread that publishes its progress through the atomics  *)
(* and the metrics mutex of a FinalState; FinalPoll reads them one by one, *)
(* without the engine's mutex; FinalCancel raises a flag that the pipeline *)
(* reads at its cancel points.  The polling client is bs_replay's RunFinal *)
(* (tools/replay/main.cpp), which turns what it polls into a verdict.      *)
(***************************************************************************)
EXTENDS Integers

CONSTANTS
  WorkStages,    \* BS_STAGE_EXPORT: stages 1..WorkStages do the work
  CancelStages,  \* the stages whose loops contain a cancel point
  MaxSolves,     \* bound: solves started
  Cancels,       \* the host calls FinalCancel
  Concurrent     \* a thread may call FinalStart while another one polls

ASSUME WorkerAssumption ==
  /\ WorkStages \in Nat \ {0}
  /\ CancelStages \subseteq 1..WorkStages
  /\ MaxSolves \in Nat
  /\ Cancels \in BOOLEAN /\ Concurrent \in BOOLEAN

Idle     == 0               \* BS_STAGE_IDLE
Features == 1               \* BS_STAGE_FEATURES
Done     == WorkStages + 1  \* BS_STAGE_DONE
Failed   == WorkStages + 2  \* BS_STAGE_FAILED

VARIABLES
  solves,     \* FinalState objects made so far: final_ is null iff 0
  cancel, running, stage, outcome,  \* the members of the current FinalState
  worker,     \* where its thread is
  result,     \* what RunFinalSolve returned, the thread's local outcome
  poll,       \* the polling thread: where it is in FinalPoll, what it read
  verdict,    \* RunFinal's verdict on the current solve
  lastError,  \* last_error_
  asked,      \* observation: FinalCancel was called for the current solve
  torn        \* observation: a FinalState was destroyed inside a FinalPoll

stateVars  == <<cancel, running, stage, outcome>>
clientVars == <<poll, verdict>>
jobVars == <<solves, stateVars, worker, result, clientVars, lastError, asked, torn>>

NotPolling == [at |-> "out", stage |-> Idle, running |-> FALSE]

JobInit ==
  /\ solves = 0
  /\ cancel = FALSE /\ running = FALSE /\ stage = Idle /\ outcome = "none"
  /\ worker = "none" /\ result = "none"
  /\ poll = NotPolling /\ verdict = "none"
  /\ lastError = "" /\ asked = FALSE /\ torn = FALSE

-----------------------------------------------------------------------------
(* The engine's calls.                                                     *)

FlagKept == cancel

\* A new FinalState starts with its own cancel flag.
FreshCancel == FALSE

\* Whoever starts a solve is the thread that polls, unless Concurrent.
MayStart == Concurrent \/ poll.at = "out"

\* FinalStart while a solve runs.
StartBusy ==
  /\ MayStart /\ solves > 0 /\ running
  /\ lastError' = "busy"
  /\ UNCHANGED <<solves, stateVars, worker, result, clientVars, asked, torn>>

\* FinalStart: joins the last worker, replaces final_, spawns the next one.
Start ==
  /\ MayStart /\ solves < MaxSolves
  /\ ~running /\ worker \in {"none", "exited"}
  /\ solves' = solves + 1
  /\ cancel' = FreshCancel /\ running' = TRUE
  /\ stage' = Features /\ outcome' = "none"
  /\ worker' = "solving" /\ result' = "none"
  /\ verdict' = "none" /\ asked' = FALSE
  /\ torn' = (torn \/ (solves > 0 /\ poll.at # "out"))
  /\ UNCHANGED <<poll, lastError>>

Cancel ==
  /\ Cancels /\ solves > 0
  /\ cancel' = TRUE /\ asked' = TRUE
  /\ UNCHANGED <<solves, running, stage, outcome, worker, result, clientVars,
                 lastError, torn>>

-----------------------------------------------------------------------------
(* The worker thread.                                                      *)

workerUnchanged == UNCHANGED <<solves, cancel, clientVars, lastError, asked, torn>>

\* RunFinalSolve reports the next stage of its work.
Advance ==
  /\ worker = "solving" /\ stage < WorkStages
  /\ stage' = stage + 1
  /\ UNCHANGED <<running, outcome, worker, result>> /\ workerUnchanged

\* RunFinalSolve returns: at a cancel point, with an error, or with a model,
\* whose last report is BS_STAGE_DONE before anything of the outcome is stored.
Return ==
  /\ worker = "solving"
  /\ \/ cancel /\ stage \in CancelStages /\ result' = "cancelled" /\ UNCHANGED stage
     \/ result' = "failed" /\ UNCHANGED stage
     \/ stage = WorkStages /\ result' = "ok" /\ stage' = Done
  /\ worker' = "returned"
  /\ UNCHANGED <<running, outcome>> /\ workerUnchanged

\* The stage that publishes an outcome.
FinalStage ==
  CASE result = "ok" -> Done
    [] result = "cancelled" -> Idle
    [] OTHER -> Failed

\* The outcome is stored, under the metrics mutex, before the stage says so.
StoreOutcome ==
  /\ worker = "returned"
  /\ outcome' = result
  /\ worker' = "stored"
  /\ UNCHANGED <<running, stage, result>> /\ workerUnchanged

StoreStage ==
  /\ worker = "stored"
  /\ stage' = FinalStage
  /\ worker' = "staged"
  /\ UNCHANGED <<running, outcome, result>> /\ workerUnchanged

StoredIsEnough == worker \in {"stored", "staged"}

ClearedUnlessCancelled == worker = "staged" /\ result # "cancelled"

\* running is cleared when everything else is published.
PublishedBeforeIdle == worker = "staged"

ClearRunning ==
  /\ running /\ PublishedBeforeIdle
  /\ running' = FALSE
  /\ worker' = "exiting"
  /\ UNCHANGED <<stage, outcome, result>> /\ workerUnchanged

Exit ==
  /\ worker = "exiting"
  /\ worker' = "exited"
  /\ UNCHANGED <<running, stage, outcome, result>> /\ workerUnchanged

Work == Advance \/ Return \/ StoreOutcome \/ StoreStage \/ ClearRunning \/ Exit

-----------------------------------------------------------------------------
(* FinalPoll: each atomic is loaded by itself.                             *)

PollStage ==
  /\ solves > 0 /\ verdict = "none" /\ poll.at = "out"
  /\ poll' = [poll EXCEPT !.at = "running", !.stage = stage]
  /\ UNCHANGED <<solves, stateVars, worker, result, verdict, lastError, asked, torn>>

PollRunning ==
  /\ poll.at = "running"
  /\ poll' = [poll EXCEPT !.at = "metrics", !.running = running]
  /\ UNCHANGED <<solves, stateVars, worker, result, verdict, lastError, asked, torn>>

ErrorOfSeenStage ==
  IF poll.stage = Failed /\ outcome = "failed" THEN "solve" ELSE lastError

\* Under the metrics mutex: the stage is loaded again.
ErrorAfterPoll ==
  IF stage = Failed /\ outcome = "failed" THEN "solve" ELSE lastError

VerdictDoneOnly == IF poll.stage = Done THEN "DONE" ELSE "none"

\* RunFinal: done, failed, or no longer running in a stage that is not idle.
Verdict ==
  CASE poll.stage = Done -> "DONE"
    [] poll.stage = Failed -> "FAILED"
    [] ~poll.running /\ poll.stage # Idle -> "FAILED"
    [] OTHER -> "none"

PollMetrics ==
  /\ poll.at = "metrics"
  /\ lastError' = ErrorAfterPoll
  /\ verdict' = Verdict
  /\ poll' = NotPolling
  /\ UNCHANGED <<solves, stateVars, worker, result, asked, torn>>

FinalPoll == PollStage \/ PollRunning \/ PollMetrics

-----------------------------------------------------------------------------
JobNext == StartBusy \/ Start \/ Cancel \/ Work \/ FinalPoll

JobSpec == JobInit /\ [][JobNext]_jobVars

\* The worker thread runs, and the client polls until it has its verdict.
FairJobSpec == JobSpec /\ WF_jobVars(Work) /\ WF_jobVars(FinalPoll)

-----------------------------------------------------------------------------
(* Properties.                                                             *)

SolveType ==
  /\ solves \in 0..MaxSolves
  /\ stage \in 0..Failed
  /\ outcome \in {"none", "ok", "cancelled", "failed"}
  /\ result \in {"none", "ok", "cancelled", "failed"}
  /\ worker \in {"none", "solving", "returned", "stored", "staged", "exiting", "exited"}

FlagType ==
  /\ cancel \in BOOLEAN /\ running \in BOOLEAN
  /\ asked \in BOOLEAN /\ torn \in BOOLEAN

ClientType ==
  /\ poll \in [at : {"out", "running", "metrics"}, stage : 0..Failed, running : BOOLEAN]
  /\ verdict \in {"none", "DONE", "FAILED"}
  /\ lastError \in {"", "busy", "solve"}

\* The stage stays one of bs_stage, and every other field in its range.
JobType == SolveType /\ FlagType /\ ClientType

\* Whoever sees that the worker no longer runs sees its outcome and the stage
\* that belongs to it.
IdleMeansPublished ==
  solves > 0 /\ ~running =>
    /\ outcome # "none" /\ outcome = result
    /\ stage = FinalStage

\* A stage FAILED is never visible without the outcome FinalPoll reads then.
FailureHasOutcome == stage = Failed => outcome = "failed"

\* What a poll can see is published in an order in which it never misleads.
PublishedInOrder == JobType /\ IdleMeansPublished /\ FailureHasOutcome

\* A solve is cancelled only if this solve was asked to stop, whatever was
\* asked of an earlier one.
CancelledOnlyIfAsked == result = "cancelled" => asked

(***************************************************************************)
(* The inductive invariant behind the two properties above.                *)
(***************************************************************************)

RunningInv ==
  /\ running <=> worker \in {"solving", "returned", "stored", "staged"}
  /\ worker = "none" <=> solves = 0

PublishInv ==
  /\ worker \in {"none", "solving"} => result = "none" /\ stage # Failed
  /\ worker = "returned" => result # "none"
  /\ worker \in {"none", "solving", "returned"} => outcome = "none" /\ stage # Failed
  /\ worker \in {"stored", "staged", "exiting", "exited"} =>
       outcome = result /\ result # "none"
  /\ worker = "stored" => stage # Failed
  /\ worker \in {"staged", "exiting", "exited"} => stage = FinalStage

CancelInv == (cancel \/ result = "cancelled") => asked

\* How far the worker's fields are published, at each point of its thread.
WorkerInv == RunningInv /\ PublishInv /\ CancelInv

\* What the polling thread read still holds when nobody starts a solve under
\* its feet: a stage that is final stays so, a worker that stopped stays stopped.
PollInv ==
  /\ stage = Done => result = "ok"
  /\ poll.at # "out" /\ poll.stage \in {Done, Failed} => stage = poll.stage
  /\ poll.at = "metrics" /\ ~poll.running => ~running
  /\ poll.at # "out" => solves > 0

\* A client that concludes DONE or FAILED from one poll can read the reason of
\* a failure from that poll on, and a verdict DONE has a model.
VerdictExplained ==
  [][verdict = "none" /\ verdict' # "none" =>
       /\ verdict' = "DONE" => result = "ok"
       /\ verdict' = "FAILED" /\ result = "failed" => lastError' = "solve"]_jobVars

\* A cancelled solve stops running.
CancelStops == (asked /\ running) ~> ~running

\* A client that polls a solve reaches a verdict, unless somebody cancels it: the
\* stage of a cancelled solve is IDLE, on which RunFinal's loop does not end.
ClientLearns == (solves > 0 /\ verdict = "none") ~> (verdict # "none" \/ asked)

-----------------------------------------------------------------------------
(* What the code says of itself and does not do.                           *)

\* RunFinal reports "DONE" when the solve is done: a finished model is never
\* reported as a failure.
ModelNotReportedFailed == verdict = "FAILED" => result # "ok"

\* engine_impl.h: "All public methods are thread-safe": no call destroys the
\* FinalState another call is reading.
ReadersSafe == ~torn
=============================================================================

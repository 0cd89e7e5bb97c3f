---------------------------- MODULE EngineFeeder ----------------------------
(***************************************************************************)
(* EngineFeeder.swift: the single-slot mailbox between the capture queue   *)
(* and the live tracker, with the serial dispatch queue that drains it,    *)
(* the caller that waits for it to settle (finish) and then ends the live  *)
(* session (bs_live_end).                                                  *)
(*                                                                         *)
(* A frame is the number of its offer; the counters are kept modulo        *)
(* CountModulus.  The lock makes each locked section one step; what runs   *)
(* between two locked sections (queue.async, the feed itself) interleaves. *)
(***************************************************************************)
EXTENDS Integers, Sequences, FiniteSets

CONSTANTS
  CountModulus,  \* bound: frames and counters are numbered modulo this
  CameraFirst    \* the caller stops the camera before finish(): TRUE for
                 \* CaptureViewModel.stop, FALSE for its finishScout

ASSUME FeederAssumption ==
  /\ CountModulus \in Nat /\ CountModulus >= 2
  /\ CameraFirst \in BOOLEAN

VARIABLES
  pending, running, delivered, fed, dropped,  \* the members of EngineFeeder
  queue,      \* blocks waiting in the serial queue bs.engine.feed
  worker,     \* that queue's thread: idle, draining (before its next locked
              \* section) or feeding
  feeding,    \* the frame being fed
  callback,   \* the capture callback: out of offer, or still to dispatch
  camera,     \* frames are being delivered
  finish,     \* finish(): not called, waiting, returned
  session,    \* the live session is open, or ended
  rejected    \* observation: the engine refused a frame the feeder accepted

feederVars == <<pending, running, delivered, fed, dropped>>
callerVars == <<camera, finish, session>>
systemVars == <<feederVars, queue, worker, feeding, callback, callerVars, rejected>>

NoFrame == -1
Frames == 0..(CountModulus - 1)

\* The counters are wrapped.
Succ(n) == (n + 1) % CountModulus

FeederInit ==
  /\ pending = NoFrame /\ running = FALSE
  /\ delivered = 0 /\ fed = 0 /\ dropped = 0
  /\ queue = <<>> /\ worker = "idle" /\ feeding = NoFrame
  /\ callback = "out" /\ camera = TRUE
  /\ finish = "no" /\ session = "open" /\ rejected = FALSE

-----------------------------------------------------------------------------
(* The capture queue.                                                      *)

\* Only the offer that found the queue idle dispatches a drain.
AfterOffer == IF running THEN "out" ELSE "dispatch"

RunningKept == running

RunningAfterOffer == TRUE

DropUncounted == dropped

\* A frame the worker did not take in time is replaced.
DroppedAfterOffer == IF pending # NoFrame THEN Succ(dropped) ELSE dropped

\* offer: the locked section.
Offer ==
  /\ camera /\ callback = "out"
  /\ delivered' = Succ(delivered)
  /\ dropped' = DroppedAfterOffer
  /\ pending' = delivered'
  /\ running' = RunningAfterOffer
  /\ callback' = AfterOffer
  /\ UNCHANGED <<fed, queue, worker, feeding, callerVars, rejected>>

\* offer: queue.async after the unlock.
Dispatch ==
  /\ callback = "dispatch"
  /\ queue' = Append(queue, "drain")
  /\ callback' = "out"
  /\ UNCHANGED <<feederVars, worker, feeding, callerVars, rejected>>

-----------------------------------------------------------------------------
(* The feed queue.                                                         *)

\* running is cleared in the same locked section that found the slot empty.
RunningAfterEmpty == FALSE

\* The next block starts: a drain, or the continuation of finish().
Dequeue ==
  /\ worker = "idle" /\ queue # <<>>
  /\ queue' = Tail(queue)
  /\ IF Head(queue) = "drain"
     THEN worker' = "draining" /\ UNCHANGED finish
     ELSE finish' = "returned" /\ UNCHANGED worker
  /\ UNCHANGED <<feederVars, feeding, callback, camera, session, rejected>>

\* drain: the locked section that takes the pending frame.
Take ==
  /\ worker = "draining" /\ pending # NoFrame
  /\ feeding' = pending /\ pending' = NoFrame
  /\ fed' = Succ(fed)
  /\ worker' = "feeding"
  /\ UNCHANGED <<running, delivered, dropped, queue, callback, callerVars, rejected>>

\* drain: the locked section that finds the slot empty.
DrainEmpty ==
  /\ worker = "draining" /\ pending = NoFrame
  /\ running' = RunningAfterEmpty
  /\ worker' = "idle"
  /\ UNCHANGED <<pending, delivered, fed, dropped, queue, feeding, callback,
                 callerVars, rejected>>

\* feed returns: bs_live_feed refuses a frame once the session has ended.
Feed ==
  /\ worker = "feeding"
  /\ worker' = "draining" /\ feeding' = NoFrame
  /\ rejected' = (rejected \/ session = "ended")
  /\ UNCHANGED <<feederVars, queue, callback, callerVars>>

-----------------------------------------------------------------------------
(* The view model.                                                         *)

\* stop: manager.onFrame = nil and manager.stop().
StopCamera ==
  /\ camera /\ camera' = FALSE
  /\ UNCHANGED <<feederVars, queue, worker, feeding, callback, finish, session,
                 rejected>>

FinishReady == TRUE

\* stop waits 600 ms after the camera stopped, long enough for a callback that
\* had begun to return from offer.
ReadyToFinish == CameraFirst => ~camera /\ callback = "out"

Finish ==
  /\ finish = "no" /\ ReadyToFinish
  /\ finish' = "waiting"
  /\ queue' = Append(queue, "finish")
  /\ UNCHANGED <<feederVars, worker, feeding, callback, camera, session, rejected>>

EndSession ==
  /\ finish = "returned" /\ session = "open"
  /\ session' = "ended"
  /\ UNCHANGED <<feederVars, queue, worker, feeding, callback, camera, finish,
                 rejected>>

-----------------------------------------------------------------------------
Capture == Offer \/ Dispatch
Worker  == Dequeue \/ Take \/ DrainEmpty \/ Feed
Caller  == StopCamera \/ Finish \/ EndSession

FeederNext == Capture \/ Worker \/ Caller

\* The dispatch queue runs its blocks and a callback that entered offer
\* returns; nothing obliges the camera to deliver or the user to stop.
FeederSpec ==
  /\ FeederInit /\ [][FeederNext]_systemVars
  /\ WF_systemVars(Worker) /\ WF_systemVars(Dispatch)

-----------------------------------------------------------------------------
(* Properties.                                                             *)

\* Every member in its range, the counters wrapped.
FeederType ==
  /\ pending \in Frames \cup {NoFrame} /\ feeding \in Frames \cup {NoFrame}
  /\ running \in BOOLEAN /\ camera \in BOOLEAN /\ rejected \in BOOLEAN
  /\ delivered \in Frames /\ fed \in Frames /\ dropped \in Frames
  /\ queue \in Seq({"drain", "finish"})
  /\ worker \in {"idle", "draining", "feeding"}
  /\ callback \in {"out", "dispatch"}
  /\ finish \in {"no", "waiting", "returned"}
  /\ session \in {"open", "ended"}

Drains ==
  Cardinality({i \in DOMAIN queue : queue[i] = "drain"})
    + (IF worker = "idle" THEN 0 ELSE 1)
    + (IF callback = "dispatch" THEN 1 ELSE 0)

\* Exactly one drain is dispatched, queued or active while running_ is set and
\* none otherwise: two would feed the tracker out of order, none would leave
\* the last frame of the capture in the slot for ever.
OneDrain == Drains = (IF running THEN 1 ELSE 0)

\* An accepted frame always has a drain on its way, and never two.
NoLostWakeup == FeederType /\ OneDrain /\ (pending # NoFrame => running)

(***************************************************************************)
(* The inductive invariant behind the refinement.                          *)
(***************************************************************************)

DrainQueued == queue \in {<<"drain">>, <<"drain", "finish">>, <<"finish", "drain">>}

\* At most one drain and one continuation of finish() are ever queued; while a
\* drain is dispatched or active there is no other; when the camera stops
\* first, nothing is behind the continuation and nothing starts after it.
FeederInv ==
  /\ queue \in {<<>>, <<"drain">>, <<"finish">>, <<"drain", "finish">>,
                <<"finish", "drain">>}
  /\ worker = "feeding" <=> feeding # NoFrame
  /\ running <=> \/ callback = "dispatch"
                 \/ worker # "idle"
                 \/ DrainQueued
  /\ callback = "dispatch" => worker = "idle" /\ ~DrainQueued
  /\ worker # "idle" => ~DrainQueued
  /\ pending # NoFrame => running
  /\ finish = "waiting" <=>
       queue \in {<<"finish">>, <<"drain", "finish">>, <<"finish", "drain">>}
  /\ CameraFirst /\ finish # "no" =>
       ~camera /\ callback = "out" /\ queue # <<"finish", "drain">>
  /\ CameraFirst /\ finish = "returned" => ~running
  /\ session = "ended" => finish = "returned"
  /\ CameraFirst => ~rejected

\* Once finish() has returned and the session is ended, no frame the feeder
\* accepted is refused by the engine ("it silently discards the last frames of
\* the capture, which are the ones covering wherever the user finished").
NothingDiscarded == ~rejected

\* finish() returns ("or new frames keep arriving and this never settles").
FinishSettles == finish = "waiting" ~> finish = "returned"

\* The feeder is the mailbox its clients rely on.
Mailbox == INSTANCE LatestMailbox WITH
  slot <- pending, busy <- feeding, offered <- delivered, taken <- fed,
  replaced <- dropped, settled <- (finish = "returned")

IsMailbox == Mailbox!Spec
=============================================================================

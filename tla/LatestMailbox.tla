--------------------------- MODULE LatestMailbox ---------------------------
(***************************************************************************)
(* What the feed queue promises the capture queue and the tracker: a slot  *)
(* that holds the newest frame offered and never makes the producer wait.  *)
(* Every offered frame is consumed or replaced by a newer one, the counts  *)
(* say which, the last frame offered is always consumed, and the mailbox   *)
(* reports that it has settled only when nothing it accepted is left.      *)
(***************************************************************************)
EXTENDS Integers

CONSTANT CountModulus   \* bound: frames and counters are numbered modulo this

None == -1

VARIABLES
  slot,       \* the frame that waits, or None
  busy,       \* the frame the consumer works on, or None
  offered, taken, replaced,
  settled

vars == <<slot, busy, offered, taken, replaced, settled>>

Succ(n) == (n + 1) % CountModulus

Init ==
  /\ slot = None /\ busy = None
  /\ offered = 0 /\ taken = 0 /\ replaced = 0
  /\ settled = FALSE

Offer ==
  /\ ~settled
  /\ offered' = Succ(offered)
  /\ slot' = offered'
  /\ replaced' = IF slot # None THEN Succ(replaced) ELSE replaced
  /\ UNCHANGED <<busy, taken, settled>>

Take ==
  /\ slot # None /\ busy = None
  /\ busy' = slot /\ slot' = None
  /\ taken' = Succ(taken)
  /\ UNCHANGED <<offered, replaced, settled>>

Finish ==
  /\ busy # None
  /\ busy' = None
  /\ UNCHANGED <<slot, offered, taken, replaced, settled>>

Settle ==
  /\ ~settled
  /\ slot = None /\ busy = None
  /\ settled' = TRUE
  /\ UNCHANGED <<slot, busy, offered, taken, replaced>>

Next == Offer \/ Take \/ Finish \/ Settle

Spec == Init /\ [][Next]_vars /\ WF_vars(Take) /\ WF_vars(Finish)
=============================================================================

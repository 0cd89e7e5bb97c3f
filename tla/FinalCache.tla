---------------------------- MODULE FinalCache ----------------------------
(***************************************************************************)
(* The resume cache of the final solve (final_solve.cpp, stages S1 to S4). *)
(* A solve computes a key from its configuration and the masks it will     *)
(* apply, keeps final/cache if its manifest holds that key and wipes it    *)
(* otherwise; the features of each frame are stored as they are computed,  *)
(* the verified matches once at the end.  A solve may be cancelled or      *)
(* killed at any point and run again, with the same configuration or       *)
(* another one, while an external program regenerates masks.               *)
(*                                                                         *)
(* What a cached file contains is abstracted to what it was computed from. *)
(***************************************************************************)
EXTENDS Integers, FiniteSets

CONSTANTS
  N,             \* the solve runs over frames 1..N, in the order of their ids
  Configs,       \* hash-relevant configurations (CacheConfigHash)
  Sift, Masked,  \* those that use SIFT; those with final_use_masks
  MinFrames,     \* fewer readable frames end the solve
  MaxRuns,       \* bound: solves
  MaxMask,       \* bound: times a frame's mask is regenerated
  None, Torn     \* no such file; a file cut short

ASSUME CacheAssumption ==
  /\ N \in Nat /\ MinFrames \in Nat /\ MaxRuns \in Nat /\ MaxMask \in Nat
  /\ Sift \subseteq Configs /\ Masked \subseteq Configs

Frames == 1..N

Key   == [cfg : Configs, masks : [Frames -> Nat]]
Entry == [cfg : Configs, mask : Nat, lens : Nat]

\* "no such file" and "cut short" are no file contents.
ASSUME MarkAssumption ==
  /\ None # Torn
  /\ \A x \in {None, Torn} : x \notin Key /\ x \notin Entry
                          /\ x \notin [Frames -> Entry \cup {None}]

VARIABLES
  masks,      \* the session: how often each frame's mask was regenerated,
  lens,       \*   which calibration.json it has,
  readable,   \*   whose photos decode
  manifest, feat, matches,  \* final/cache: manifest.txt, feat_*.bin, matches.bin
  phase, runs,
  since,      \* observation: the masks when this solve started
  clean,      \* observation: every remove_all so far removed everything
  key, k,     \* the solve: its key, its distortion model,
  cacheValid, at, used, verified  \*   next frame, its features and matches

session == <<masks, lens, readable>>
disk    == <<manifest, feat, matches>>
memory  == <<key, k, cacheValid, at, used, verified>>
seen    == <<since, clean>>
vars    == <<session, disk, phase, runs, seen, memory>>

Nothing == [f \in Frames |-> None]

Init ==
  /\ masks = [f \in Frames |-> 0] /\ lens = 0 /\ readable \in SUBSET Frames
  /\ manifest = None /\ feat = Nothing /\ matches = None
  /\ phase = "off" /\ runs = 0 /\ clean = TRUE /\ since = [f \in Frames |-> 0]
  /\ key = None /\ k = 0 /\ cacheValid = FALSE /\ at = 1
  /\ used = Nothing /\ verified = None

-----------------------------------------------------------------------------
(* The session changes under the solve.                                    *)

Regenerate(f) ==
  /\ masks[f] < MaxMask
  /\ masks' = [masks EXCEPT ![f] = @ + 1]
  /\ UNCHANGED <<lens, readable, disk, phase, runs, seen, memory>>

Recalibrate ==
  /\ lens = 0 /\ lens' = 1
  /\ UNCHANGED <<masks, readable, disk, phase, runs, seen, memory>>

-----------------------------------------------------------------------------
(* Cache setup.                                                            *)

\* The masks of the session as a solve with configuration c applies them.
MasksFor(c) == IF c \in Masked THEN masks ELSE [f \in Frames |-> 0]

HashWithoutMasks(c) == [cfg |-> c, masks |-> [f \in Frames |-> 0]]

\* What the hash tells apart: not the lens model, nor which photos decode.
CacheConfigHash(c) == [cfg |-> c, masks |-> MasksFor(c)]

Open(c) ==
  /\ phase = "off" /\ runs < MaxRuns
  /\ runs' = runs + 1 /\ phase' = "setup"
  /\ key' = CacheConfigHash(c) /\ k' = lens
  /\ cacheValid' = FALSE /\ at' = 1 /\ used' = Nothing /\ verified' = None
  /\ since' = MasksFor(c)
  /\ UNCHANGED <<session, disk, clean>>

Reuse ==
  /\ phase = "setup" /\ manifest = key
  /\ cacheValid' = TRUE /\ phase' = "features"
  /\ UNCHANGED <<session, disk, runs, seen, key, k, at, used, verified>>

MatchesKept == matches

\* remove_all removes the matches with the rest.
MatchesAfterWipe == None

\* What a remove_all that failed or was interrupted leaves behind, its error ignored.
Leaves(gone) ==
  /\ feat' = [f \in Frames |-> IF f \in gone THEN None ELSE feat[f]]
  /\ matches' \in {None, matches}
  /\ manifest' \in {None, manifest}

Wipe ==
  /\ phase = "setup" /\ manifest # key
  /\ \/ feat' = Nothing /\ matches' = MatchesAfterWipe /\ manifest' = None
        /\ UNCHANGED clean
     \/ (\E gone \in SUBSET Frames : Leaves(gone)) /\ clean' = FALSE
  /\ phase' = "manifest"
  /\ UNCHANGED <<session, runs, since, memory>>

\* The manifest is written before anything it describes; the write may fail.
WriteManifest ==
  /\ phase = "manifest"
  /\ manifest' \in {key, Torn, manifest}
  /\ phase' = "features"
  /\ UNCHANGED <<session, feat, matches, runs, seen, memory>>

-----------------------------------------------------------------------------
(* S1: features, one frame after the other.                                *)

\* ReadFeatureCache: complete, and of the feature type expected.
Served(f) ==
  /\ cacheValid /\ feat[f] \notin {None, Torn}
  /\ (feat[f].cfg \in Sift) = (key.cfg \in Sift)

Extracted(f) == [cfg |-> key.cfg, mask |-> MasksFor(key.cfg)[f], lens |-> k]

NextFrame == at' = at + 1

FromCache ==
  /\ phase = "features" /\ at <= N /\ Served(at)
  /\ used' = [used EXCEPT ![at] = feat[at]] /\ NextFrame
  /\ UNCHANGED <<session, disk, phase, runs, seen, key, k, cacheValid, verified>>

Unreadable ==
  /\ phase = "features" /\ at <= N /\ ~Served(at) /\ at \notin readable
  /\ NextFrame
  /\ UNCHANGED <<session, disk, phase, runs, seen, key, k, cacheValid, used, verified>>

\* The result of WriteFeatureCache is not looked at.
Extract ==
  /\ phase = "features" /\ at <= N /\ ~Served(at) /\ at \in readable
  /\ used' = [used EXCEPT ![at] = Extracted(at)] /\ NextFrame
  /\ \E written \in {Extracted(at), Torn, feat[at]} :
       feat' = [feat EXCEPT ![at] = written]
  /\ UNCHANGED <<session, manifest, matches, phase, runs, seen, key, k, cacheValid, verified>>

EndFeatures ==
  /\ phase = "features" /\ at > N
  /\ phase' = IF Cardinality({f \in Frames : used[f] # None}) < MinFrames
              THEN "failed" ELSE "matching"
  /\ UNCHANGED <<session, disk, runs, seen, memory>>

-----------------------------------------------------------------------------
(* S3 and S4: pairs and verified matches.  A set of matches is abstracted  *)
(* to the features its indices refer to.                                   *)

MatchesServed == cacheValid /\ matches \notin {None, Torn}

\* Pairs of frames this solve does not have are dropped.
MatchesFromCache ==
  /\ phase = "matching" /\ MatchesServed
  /\ verified' = [f \in Frames |-> IF used[f] = None THEN None ELSE matches[f]]
  /\ phase' = "matched"
  /\ UNCHANGED <<session, disk, runs, seen, key, k, cacheValid, at, used>>

MatchPairs ==
  /\ phase = "matching" /\ ~MatchesServed
  /\ verified' = used /\ phase' = "matched"
  /\ matches' \in {used, Torn, matches}
  /\ UNCHANGED <<session, manifest, feat, runs, seen, key, k, cacheValid, at, used>>

-----------------------------------------------------------------------------
(* Ends of a solve.                                                        *)

Cancel ==
  /\ \/ phase = "features" /\ at <= N
     \/ phase = "matching" /\ ~MatchesServed
  /\ phase' = "off"
  /\ UNCHANGED <<session, disk, runs, seen, memory>>

Close ==
  /\ phase \in {"matched", "failed"} /\ phase' = "off"
  /\ UNCHANGED <<session, disk, runs, seen, memory>>

\* The process dies, possibly in the middle of removing or writing a file.
Killed ==
  /\ phase \notin {"off", "matched", "failed"} /\ phase' = "off"
  /\ \/ UNCHANGED disk
     \/ phase = "setup" /\ manifest # key
        /\ \E gone \in SUBSET Frames : Leaves(gone)
     \/ phase = "manifest" /\ manifest' = Torn /\ UNCHANGED <<feat, matches>>
     \/ phase = "features" /\ at \in readable /\ ~Served(at)
        /\ feat' = [feat EXCEPT ![at] = Torn] /\ UNCHANGED <<manifest, matches>>
     \/ phase = "matching" /\ ~MatchesServed
        /\ matches' = Torn /\ UNCHANGED <<manifest, feat>>
  /\ UNCHANGED <<session, runs, seen, memory>>

Solve ==
  \/ Reuse \/ Wipe \/ WriteManifest \/ FromCache \/ Unreadable \/ Extract
  \/ EndFeatures \/ MatchesFromCache \/ MatchPairs \/ Cancel \/ Close \/ Killed

Next ==
  \/ \E f \in Frames : Regenerate(f)
  \/ Recalibrate
  \/ \E c \in Configs : Open(c)
  \/ Solve

Spec == Init /\ [][Next]_vars

-----------------------------------------------------------------------------
(* Properties.                                                             *)

\* Every file and every variable of a solve holds what it may hold.
TypeOK ==
  /\ masks \in [Frames -> Nat] /\ lens \in Nat /\ readable \subseteq Frames
  /\ manifest \in Key \cup {None, Torn}
  /\ feat \in [Frames -> Entry \cup {None, Torn}]
  /\ matches \in [Frames -> Entry \cup {None}] \cup {None, Torn}
  /\ phase \in {"off", "setup", "manifest", "features", "matching", "matched", "failed"}
  /\ runs \in Nat /\ clean \in BOOLEAN /\ since \in [Frames -> Nat]
  /\ key \in Key \cup {None} /\ k \in Nat
  /\ cacheValid \in BOOLEAN /\ at \in 1..(N + 1)
  /\ used \in [Frames -> Entry \cup {None}]
  /\ verified \in [Frames -> Entry \cup {None}] \cup {None}

Working == phase \in {"features", "matching", "matched"}

\* A solve never works on features extracted under another configuration, or
\* with masks older than those it started with: across cancellations, kills in
\* the middle of a write and changes of configuration, what ReadFeatureCache
\* returns is what DetectSift or DetectOrb would return now.  (Unless remove_all
\* failed, whose error the code ignores.)
NoStaleFeatures ==
  (Working /\ clean) => \A f \in Frames : used[f] # None =>
    /\ used[f].cfg = key.cfg
    /\ used[f].mask >= since[f]

\* Whatever was cancelled, killed or changed, a solve works on current features.
CacheInv == TypeOK /\ NoStaleFeatures

\* The lens model was never replaced, and no mask was regenerated since this
\* solve took its fingerprint.
Settled == lens = 0 /\ key.masks = MasksFor(key.cfg)

\* The feature indices of the matches a solve ends up with are indices into
\* the features it has, for every frame: matches.bin is never served next to
\* features of another extraction, and leaves out no frame that was solved.
\* Only in a session that is settled: after a failed feature write, a mask that is
\* regenerated between MaskFingerprint and S1 gives new features old matches.
MatchesFitFeatures ==
  (phase = "matched" /\ clean /\ Settled) => verified = used

-----------------------------------------------------------------------------
(* The strengthening behind both: what lies in the cache under a manifest.  *)

\* Content computed for frame f under key K: no older than the masks the key
\* speaks of, no newer than the session.
Under(K, f, e) ==
  /\ e.cfg = K.cfg
  /\ K.masks[f] <= e.mask /\ e.mask <= MasksFor(K.cfg)[f]
  /\ e.lens <= lens

\* g has content for exactly the photos that decode.
CoversReadable(K, g) ==
  \A f \in Frames : IF f \in readable THEN g[f] # None /\ Under(K, f, g[f])
                    ELSE g[f] = None

\* A solve's key is that of the session it started from.
KeyInv ==
  phase # "off" =>
    /\ key \in Key /\ key.masks = since /\ k <= lens
    /\ \A f \in Frames : key.masks[f] <= MasksFor(key.cfg)[f]

\* Whatever the manifest names was computed under it; files that a failed or
\* interrupted manifest leaves unnamed are not looked at.
DiskInv ==
  clean /\ manifest \in Key =>
    /\ \A f \in Frames : feat[f] \notin {None, Torn} =>
         f \in readable /\ Under(manifest, f, feat[f])
    /\ matches \notin {None, Torn} => CoversReadable(manifest, matches)

\* What a solve has computed or been served so far.
SolveInv ==
  /\ phase \in {"setup", "manifest"} => used = Nothing /\ at = 1 /\ ~cacheValid
  /\ clean /\ phase = "manifest" => manifest = None /\ feat = Nothing /\ matches = None
  /\ clean /\ Working =>
       /\ manifest \in {key, Torn, None} /\ (cacheValid => manifest = key)
       /\ \A f \in Frames : used[f] # None => f \in readable /\ Under(key, f, used[f])
       /\ \A f \in readable : f < at => used[f] # None
  /\ phase \in {"matching", "matched"} => at = N + 1
  /\ clean /\ phase = "matched" =>
       verified \in [Frames -> Entry \cup {None}] /\ CoversReadable(key, verified)

ResumeInv == KeyInv /\ DiskInv /\ SolveInv

-----------------------------------------------------------------------------
\* "any config or session change invalidates the cache wholesale"
\* (final_solve.cpp:122): no solve works on features that were undistorted
\* with another lens model than the session's.
NoStaleLens ==
  Working => \A f \in Frames : used[f] # None => used[f].lens = k
===========================================================================

------------------------- MODULE FinalCache_proofs -------------------------
(***************************************************************************)
(* The resume cache of the final solve is sound, for every number of       *)
(* frames, configurations, solves and mask changes: however solves are     *)
(* cancelled or killed, the next one works on what it would compute itself.*)
(***************************************************************************)
EXTENDS FinalCache, TLAPS

\* The part of the state only a solve's features depend on.
LEMMA HashIsKey ==
  ASSUME TypeOK, NEW c \in Configs
  PROVE  /\ CacheConfigHash(c) \in Key /\ MasksFor(c) \in [Frames -> Nat]
         /\ CacheConfigHash(c).cfg = c /\ CacheConfigHash(c).masks = MasksFor(c)
  BY DEF TypeOK, CacheConfigHash, MasksFor, Key

\* The marks for a missing and a torn file are no keys, entries or lists of them.
LEMMA MarksDiffer ==
  /\ None # Torn /\ None \notin Key /\ Torn \notin Key
  /\ None \notin Entry /\ Torn \notin Entry
  /\ None \notin [Frames -> Entry \cup {None}] /\ Torn \notin [Frames -> Entry \cup {None}]
  BY MarkAssumption

\* What extraction stores for a frame.
LEMMA ExtractedEntry ==
  ASSUME TypeOK, key \in Key, NEW f \in Frames
  PROVE  /\ Extracted(f) \in Entry
         /\ Extracted(f).cfg = key.cfg /\ Extracted(f).lens = k
         /\ Extracted(f).mask = MasksFor(key.cfg)[f]
<1>1. key.cfg \in Configs
  BY DEF Key
<1>2. QED
  BY <1>1, HashIsKey DEF Extracted, Entry, TypeOK

-----------------------------------------------------------------------------
(* Types.                                                                  *)

LEMMA NothingType ==
  /\ Nothing \in [Frames -> Entry \cup {None}]
  /\ Nothing \in [Frames -> Entry \cup {None, Torn}]
  /\ \A f \in Frames : Nothing[f] = None
  BY DEF Nothing

\* The type invariant.
LEMMA TypeInit == Init => TypeOK
<1> SUFFICES ASSUME Init PROVE TypeOK
  OBVIOUS
<1> USE CacheAssumption DEF Init
<1>1. masks \in [Frames -> Nat] /\ since \in [Frames -> Nat]
  OBVIOUS
<1>2. used \in [Frames -> Entry \cup {None}] /\ feat \in [Frames -> Entry \cup {None, Torn}]
  BY NothingType
<1>3. at \in 1..(N + 1)
  OBVIOUS
<1>4. QED
  BY <1>1, <1>2, <1>3 DEF TypeOK

LEMMA TypeNext == TypeOK /\ KeyInv /\ [Next]_vars => TypeOK'
<1> SUFFICES ASSUME TypeOK, KeyInv, [Next]_vars PROVE TypeOK'
  OBVIOUS
<1> USE CacheAssumption DEF TypeOK, session, disk, memory, seen
<1>1. CASE \E f \in Frames : Regenerate(f)
  BY <1>1 DEF Regenerate
<1>2. CASE Recalibrate
  BY <1>2 DEF Recalibrate
<1>3. CASE \E c \in Configs : Open(c)
  <2>1. PICK c \in Configs : Open(c)
    BY <1>3
  <2>2. key' \in Key /\ since' \in [Frames -> Nat]
    BY <2>1, HashIsKey DEF Open
  <2>3. used' \in [Frames -> Entry \cup {None}] /\ at' \in 1..(N + 1)
    BY <2>1, NothingType DEF Open
  <2>4. /\ phase' = "setup" /\ verified' = None /\ cacheValid' = FALSE
        /\ runs' \in Nat /\ k' \in Nat /\ clean' = clean
        /\ UNCHANGED <<masks, lens, readable, manifest, feat, matches>>
    BY <2>1 DEF Open
  <2>5. QED
    BY <2>2, <2>3, <2>4
<1>4. CASE Reuse
  BY <1>4 DEF Reuse
<1>5. CASE Wipe
  <2>1. CASE feat' = Nothing /\ matches' = MatchesAfterWipe /\ manifest' = None /\ UNCHANGED clean
    BY <1>5, <2>1 DEF Wipe, Nothing, MatchesAfterWipe
  <2>2. CASE (\E gone \in SUBSET Frames : Leaves(gone)) /\ clean' = FALSE
    BY <1>5, <2>2 DEF Wipe, Leaves
  <2>3. QED
    BY <1>5, <2>1, <2>2 DEF Wipe
<1>6. CASE WriteManifest
  BY <1>6 DEF WriteManifest, KeyInv
<1>7. CASE FromCache
  BY <1>7 DEF FromCache, Served, NextFrame, Frames
<1>8. CASE Unreadable
  BY <1>8 DEF Unreadable, NextFrame
<1>9. CASE Extract
  <2>1. Extracted(at) \in Entry /\ at \in Frames
    BY <1>9, ExtractedEntry DEF Extract, KeyInv, Frames
  <2>2. used' \in [Frames -> Entry \cup {None}]
    BY <1>9, <2>1 DEF Extract
  <2>3. feat' \in [Frames -> Entry \cup {None, Torn}]
    BY <1>9, <2>1 DEF Extract
  <2>4. at' \in 1..(N + 1)
    BY <1>9 DEF Extract, NextFrame
  <2>5. QED
    BY <1>9, <2>2, <2>3, <2>4 DEF Extract
<1>10. CASE EndFeatures
  BY <1>10 DEF EndFeatures
<1>11. CASE MatchesFromCache
  <2>1. matches \in [Frames -> Entry \cup {None}]
    BY <1>11 DEF MatchesFromCache, MatchesServed
  <2>2. verified' \in [Frames -> Entry \cup {None}]
    BY <1>11, <2>1 DEF MatchesFromCache
  <2>3. QED
    BY <1>11, <2>2 DEF MatchesFromCache
<1>12. CASE MatchPairs
  BY <1>12 DEF MatchPairs
<1>13. CASE Cancel \/ Close
  BY <1>13 DEF Cancel, Close
<1>14. CASE Killed
  <2>1. feat' \in [Frames -> Entry \cup {None, Torn}]
    BY <1>14 DEF Killed, Leaves, Frames
  <2>2. matches' \in [Frames -> Entry \cup {None}] \cup {None, Torn}
    BY <1>14 DEF Killed, Leaves
  <2>3. manifest' \in Key \cup {None, Torn}
    BY <1>14 DEF Killed, Leaves
  <2>4. QED
    BY <1>14, <2>1, <2>2, <2>3 DEF Killed
<1>15. CASE UNCHANGED vars
  BY <1>15 DEF vars
<1>16. QED
  BY <1>1, <1>2, <1>3, <1>4, <1>5, <1>6, <1>7, <1>8, <1>9, <1>10, <1>11, <1>12, <1>13, <1>14,
     <1>15 DEF Next, Solve

-----------------------------------------------------------------------------
(* The session only grows, so what lies under a key stays under it.        *)

LEMMA SessionGrows ==
  ASSUME TypeOK, [Next]_vars
  PROVE  /\ \A f \in Frames : masks[f] <= masks'[f]
         /\ lens <= lens' /\ readable' = readable
<1> USE DEF TypeOK, session
<1>1. CASE \E g \in Frames : Regenerate(g)
  BY <1>1 DEF Regenerate
<1>2. CASE Recalibrate
  BY <1>2 DEF Recalibrate
<1>3. CASE \E d \in Configs : Open(d)
  BY <1>3 DEF Open
<1>4. CASE Solve
  BY <1>4 DEF Solve, Reuse, Wipe, WriteManifest, FromCache, Unreadable, Extract, EndFeatures,
     MatchesFromCache, MatchPairs, Cancel, Close, Killed
<1>5. CASE UNCHANGED vars
  BY <1>5 DEF vars
<1>6. QED
  BY <1>1, <1>2, <1>3, <1>4, <1>5 DEF Next

\* The session on disk changes in one direction: masks are regenerated, never undone.
LEMMA MasksGrow ==
  ASSUME TypeOK, [Next]_vars, NEW c \in Configs, NEW f \in Frames
  PROVE  MasksFor(c)[f] <= MasksFor(c)'[f]
  BY SessionGrows DEF MasksFor, TypeOK

\* So an entry made under a key stays one made under it,
LEMMA StaysUnder ==
  ASSUME TypeOK, TypeOK', [Next]_vars, NEW K \in Key, NEW f \in Frames, NEW e \in Entry,
         Under(K, f, e)
  PROVE  Under(K, f, e)'
<1>1. K.cfg \in Configs /\ K.masks[f] \in Nat /\ e.mask \in Nat /\ e.lens \in Nat
  BY DEF Key, Entry
<1>2. MasksFor(K.cfg)[f] \in Nat /\ MasksFor(K.cfg)'[f] \in Nat
  BY <1>1 DEF TypeOK, MasksFor
<1>3. MasksFor(K.cfg)[f] <= MasksFor(K.cfg)'[f] /\ lens <= lens'
  BY <1>1, MasksGrow, SessionGrows
<1>4. e.cfg = K.cfg /\ K.masks[f] <= e.mask /\ e.mask <= MasksFor(K.cfg)[f] /\ e.lens <= lens
  BY DEF Under
<1>5. e.mask <= MasksFor(K.cfg)'[f] /\ e.lens <= lens'
  BY <1>1, <1>2, <1>3, <1>4 DEF TypeOK
<1>6. QED
  BY <1>4, <1>5 DEF Under

\* and a list of them keeps covering the photos that decode.
LEMMA StaysCovering ==
  ASSUME TypeOK, TypeOK', [Next]_vars, NEW K \in Key, NEW g \in [Frames -> Entry \cup {None}],
         CoversReadable(K, g)
  PROVE  CoversReadable(K, g)'
<1>1. readable' = readable
  BY SessionGrows
<1>2. SUFFICES ASSUME NEW f \in Frames
               PROVE  IF f \in readable THEN g[f] # None /\ Under(K, f, g[f])'
                      ELSE g[f] = None
  BY <1>1 DEF CoversReadable
<1>3. CASE f \in readable
  BY <1>3, StaysUnder DEF CoversReadable
<1>4. CASE f \notin readable
  BY <1>4 DEF CoversReadable
<1>5. QED
  BY <1>3, <1>4

-----------------------------------------------------------------------------
(* The key, the files and the solve.                                       *)

LEMMA KeyNext ==
  ASSUME TypeOK, TypeOK', KeyInv, [Next]_vars
  PROVE  KeyInv'
<1> SUFFICES ASSUME phase' # "off" PROVE KeyInv'
  BY DEF KeyInv
<1>1. CASE \E c \in Configs : Open(c)
  <2>1. PICK c \in Configs : Open(c)
    BY <1>1
  <2>2. key' = CacheConfigHash(c) /\ since' = MasksFor(c) /\ k' = lens /\ UNCHANGED <<masks, lens>>
    BY <2>1 DEF Open, session
  <2>3. key'.masks = IF c \in Masked THEN masks' ELSE [f \in Frames |-> 0]
    BY <2>2 DEF MasksFor, CacheConfigHash
  <2>4. key' \in Key /\ key'.masks = since' /\ key'.cfg = c
    BY <2>2, HashIsKey
  <2>5. k' <= lens' /\ MasksFor(c) \in [Frames -> Nat]
    BY <2>2, HashIsKey DEF TypeOK
  <2>6. (\A f \in Frames : key.masks[f] <= MasksFor(key.cfg)[f])'
    BY <2>3, <2>4 DEF MasksFor, TypeOK
  <2>7. QED
    BY <2>4, <2>5, <2>6 DEF KeyInv
<1>2. CASE ~\E c \in Configs : Open(c)
  <2>1. phase # "off" /\ UNCHANGED <<key, since, k>>
    <3> USE DEF memory, seen
    <3>1. CASE \E f \in Frames : Regenerate(f)
      BY <3>1 DEF Regenerate
    <3>2. CASE Recalibrate
      BY <3>2 DEF Recalibrate
    <3>3. CASE Solve
      BY <3>3 DEF Solve, Reuse, Wipe, WriteManifest, FromCache, Unreadable, Extract,
         EndFeatures, MatchesFromCache, MatchPairs, Cancel, Close, Killed
    <3>4. CASE UNCHANGED vars
      BY <3>4 DEF vars
    <3>5. QED
      BY <1>2, <3>1, <3>2, <3>3, <3>4 DEF Next
  <2>2. key.cfg \in Configs /\ key.masks \in [Frames -> Nat]
    BY <2>1 DEF KeyInv, Key
  <2>3. \A f \in Frames : MasksFor(key.cfg)[f] \in Nat /\ MasksFor(key.cfg)'[f] \in Nat
    BY <2>2 DEF TypeOK, MasksFor
  <2>4. \A f \in Frames : key.masks[f] <= MasksFor(key.cfg)'[f]
    BY <2>1, <2>2, <2>3, MasksGrow DEF KeyInv
  <2>5. k <= lens'
    BY <2>1, SessionGrows DEF KeyInv, TypeOK
  <2>6. (\A f \in Frames : key.masks[f] <= MasksFor(key.cfg)[f])'
    BY <2>1, <2>4 DEF MasksFor
  <2>7. QED
    BY <2>1, <2>5, <2>6 DEF KeyInv
<1>3. QED
  BY <1>1, <1>2

\* How a step changes the cache while removals are clean.
LEMMA FileSteps ==
  ASSUME TypeOK, [Next]_vars, clean', manifest' \in Key
  PROVE  /\ clean
         /\ \/ manifest' = manifest
            \/ phase = "manifest" /\ UNCHANGED <<feat, matches>>
         /\ \A f \in Frames : \/ feat'[f] \in {feat[f], None, Torn}
                              \/ Extract /\ f = at /\ feat'[f] = Extracted(f)
         /\ matches' \in {matches, None, Torn} \/ (MatchPairs /\ matches' = used)
<1> USE MarksDiffer DEF TypeOK, disk, seen
<1>1. CASE (\E f \in Frames : Regenerate(f)) \/ Recalibrate
  BY <1>1 DEF Regenerate, Recalibrate
<1>2. CASE \E c \in Configs : Open(c)
  BY <1>2 DEF Open
<1>3. CASE Reuse \/ FromCache \/ Unreadable \/ EndFeatures \/ MatchesFromCache \/ Cancel \/ Close
  BY <1>3 DEF Reuse, FromCache, Unreadable, EndFeatures, MatchesFromCache, Cancel, Close
<1>4. CASE Wipe
  BY <1>4 DEF Wipe
<1>5. CASE WriteManifest
  BY <1>5 DEF WriteManifest
<1>6. CASE Extract
  <2>1. clean /\ manifest' = manifest /\ matches' = matches
    BY <1>6 DEF Extract
  <2>2. \A f \in Frames : f # at => feat'[f] = feat[f]
    BY <1>6 DEF Extract
  <2>3. feat'[at] \in {Extracted(at), Torn, feat[at]} \/ at \notin Frames
    BY <1>6 DEF Extract
  <2>4. QED
    BY <1>6, <2>1, <2>2, <2>3
<1>7. CASE MatchPairs
  BY <1>7 DEF MatchPairs
<1>8. CASE Killed
  <2>1. clean /\ manifest' = manifest
    BY <1>8 DEF Killed, Leaves
  <2>2. \A f \in Frames : feat'[f] \in {feat[f], None, Torn}
    BY <1>8 DEF Killed, Leaves
  <2>3. matches' \in {matches, None, Torn}
    BY <1>8 DEF Killed, Leaves
  <2>4. QED
    BY <2>1, <2>2, <2>3
<1>9. CASE UNCHANGED vars
  BY <1>9 DEF vars
<1>10. QED
  BY <1>1, <1>2, <1>3, <1>4, <1>5, <1>6, <1>7, <1>8, <1>9 DEF Next, Solve

\* What a solve extracts is under its own key.
LEMMA FreshUnder ==
  ASSUME TypeOK, KeyInv, phase # "off", NEW f \in Frames
  PROVE  Under(key, f, Extracted(f))
<1>1. key \in Key /\ key.masks[f] <= MasksFor(key.cfg)[f] /\ k <= lens
  BY DEF KeyInv
<1>2. QED
  BY <1>1, ExtractedEntry, HashIsKey DEF Under, Key, TypeOK

\* The files of the cache agree with its manifest, across every step and kill.
LEMMA DiskNext ==
  ASSUME TypeOK, TypeOK', KeyInv, DiskInv, SolveInv, [Next]_vars
  PROVE  DiskInv'
<1> SUFFICES ASSUME clean', manifest' \in Key PROVE DiskInv'
  BY DEF DiskInv
<1> USE MarksDiffer
<1>1. clean
  BY FileSteps
<1>2. ASSUME NEW f \in Frames, feat'[f] \notin {None, Torn}
      PROVE  f \in readable' /\ Under(manifest, f, feat[f])'
  <2>1. CASE manifest' = manifest /\ feat'[f] = feat[f]
    <3>1. f \in readable /\ Under(manifest, f, feat[f]) /\ feat[f] \in Entry
      BY <1>1, <1>2, <2>1 DEF DiskInv, TypeOK
    <3>2. \A K \in Key, e \in Entry : Under(K, f, e) => Under(K, f, e)'
      BY StaysUnder
    <3>3. QED
      BY <1>2, <2>1, <3>1, <3>2, SessionGrows DEF Under
  <2>2. CASE Extract /\ f = at /\ feat'[f] = Extracted(f) /\ manifest' = manifest
    <3>1. manifest = key /\ phase # "off" /\ f \in readable
      BY <1>1, <2>2 DEF Extract, SolveInv, Working
    <3>2. Under(manifest, f, Extracted(f)) /\ Extracted(f) \in Entry
      BY <3>1, FreshUnder, ExtractedEntry DEF KeyInv
    <3>3. \A K \in Key, e \in Entry : Under(K, f, e) => Under(K, f, e)'
      BY StaysUnder
    <3>4. QED
      BY <2>2, <3>1, <3>2, <3>3, SessionGrows DEF Under
  <2>3. CASE phase = "manifest" /\ UNCHANGED <<feat, matches>>
    BY <1>1, <1>2, <2>3, NothingType DEF SolveInv
  <2>4. CASE Extract /\ phase = "manifest"
    BY <2>4 DEF Extract
  <2>5. QED
    BY <1>2, <2>1, <2>2, <2>3, <2>4, FileSteps
<1>3. ASSUME matches' \notin {None, Torn} PROVE CoversReadable(manifest, matches)'
  <2>1. CASE manifest' = manifest /\ matches' = matches
    <3>1. CoversReadable(manifest, matches) /\ matches \in [Frames -> Entry \cup {None}]
      BY <1>1, <1>3, <2>1 DEF DiskInv, TypeOK
    <3>2. \A K \in Key, g \in [Frames -> Entry \cup {None}] :
            CoversReadable(K, g) => CoversReadable(K, g)'
      BY StaysCovering
    <3>3. QED
      BY <2>1, <3>1, <3>2 DEF CoversReadable, Under
  <2>2. CASE MatchPairs /\ matches' = used /\ manifest' = manifest
    <3>1. manifest = key /\ at = N + 1
      BY <1>1, <2>2 DEF MatchPairs, SolveInv, Working
    <3>2. CoversReadable(manifest, used)
      <4>1. /\ \A f \in Frames : used[f] # None => f \in readable /\ Under(key, f, used[f])
            /\ \A f \in readable : f < at => used[f] # None
        BY <1>1, <2>2 DEF MatchPairs, SolveInv, Working
      <4>2. \A f \in Frames : f < at
        BY <3>1, CacheAssumption DEF Frames
      <4>3. QED
        BY <3>1, <4>1, <4>2 DEF CoversReadable, TypeOK
    <3>3. \A K \in Key, g \in [Frames -> Entry \cup {None}] :
            CoversReadable(K, g) => CoversReadable(K, g)'
      BY StaysCovering
    <3>4. QED
      BY <2>2, <3>1, <3>2, <3>3 DEF CoversReadable, Under, TypeOK
  <2>3. CASE phase = "manifest" /\ UNCHANGED <<feat, matches>>
    BY <1>1, <1>3, <2>3 DEF SolveInv
  <2>4. CASE MatchPairs /\ phase = "manifest"
    BY <2>4 DEF MatchPairs
  <2>5. QED
    BY <1>3, <2>1, <2>2, <2>3, <2>4, FileSteps
<1>4. QED
  BY <1>2, <1>3 DEF DiskInv

\* Before S1 a solve holds nothing, and a clean wipe has left nothing.
LEMMA StartNext ==
  ASSUME TypeOK, KeyInv, SolveInv, [Next]_vars
  PROVE  /\ (phase \in {"setup", "manifest"} => used = Nothing /\ at = 1 /\ ~cacheValid)'
         /\ (clean /\ phase = "manifest" => manifest = None /\ feat = Nothing /\ matches = None)'
         /\ (phase \in {"matching", "matched"} => at = N + 1)'
<1> USE CacheAssumption DEF SolveInv, TypeOK, session, disk, memory, seen
<1>1. CASE (\E f \in Frames : Regenerate(f)) \/ Recalibrate
  BY <1>1 DEF Regenerate, Recalibrate, Nothing
<1>2. CASE \E c \in Configs : Open(c)
  BY <1>2 DEF Open, Nothing
<1>3. CASE Reuse
  BY <1>3 DEF Reuse
<1>4. CASE Wipe
  BY <1>4 DEF Wipe, Nothing, MatchesAfterWipe
<1>5. CASE WriteManifest
  BY <1>5 DEF WriteManifest
<1>6. CASE FromCache \/ Unreadable \/ Extract
  BY <1>6 DEF FromCache, Unreadable, Extract
<1>7. CASE EndFeatures
  BY <1>7 DEF EndFeatures
<1>8. CASE MatchesFromCache \/ MatchPairs
  BY <1>8 DEF MatchesFromCache, MatchPairs
<1>9. CASE Cancel \/ Close \/ Killed
  BY <1>9 DEF Cancel, Close, Killed
<1>10. CASE UNCHANGED vars
  BY <1>10 DEF vars, Nothing
<1>11. QED
  BY <1>1, <1>2, <1>3, <1>4, <1>5, <1>6, <1>7, <1>8, <1>9, <1>10 DEF Next, Solve

\* The features a solve holds were computed under its key, by it or by the
\* solve whose cache it reuses.
WorkInv ==
  clean /\ Working =>
    /\ manifest \in {key, Torn, None} /\ (cacheValid => manifest = key)
    /\ \A f \in Frames : used[f] # None => f \in readable /\ Under(key, f, used[f])
    /\ \A f \in readable : f < at => used[f] # None

\* What a step of an undisturbed solve does to its features.
LEMMA WorkSteps ==
  ASSUME TypeOK, SolveInv, [Next]_vars, clean', Working'
  PROVE  /\ clean
         /\ \/ /\ used' = Nothing /\ at' = 1
               /\ manifest' \in {key', Torn, None} /\ (cacheValid' => manifest' = key')
            \/ /\ Working /\ UNCHANGED <<key, cacheValid, manifest>>
               /\ \/ UNCHANGED <<used, at>>
                  \/ /\ at \in Frames /\ at' = at + 1
                     /\ \/ Served(at) /\ used' = [used EXCEPT ![at] = feat[at]]
                        \/ at \notin readable /\ used' = used
                        \/ at \in readable /\ used' = [used EXCEPT ![at] = Extracted(at)]
<1> USE CacheAssumption DEF TypeOK, Working, session, disk, memory, seen
<1>1. CASE (\E f \in Frames : Regenerate(f)) \/ Recalibrate
  BY <1>1 DEF Regenerate, Recalibrate
<1>2. CASE (\E c \in Configs : Open(c)) \/ Wipe \/ Cancel \/ Close \/ Killed
  BY <1>2 DEF Open, Wipe, Cancel, Close, Killed
<1>3. CASE Reuse
  BY <1>3 DEF Reuse, SolveInv
<1>4. CASE WriteManifest
  BY <1>4 DEF WriteManifest, SolveInv
<1>5. CASE FromCache
  BY <1>5 DEF FromCache, NextFrame, Frames
<1>6. CASE Unreadable
  BY <1>6 DEF Unreadable, NextFrame, Frames
<1>7. CASE Extract
  BY <1>7 DEF Extract, NextFrame, Frames
<1>8. CASE EndFeatures \/ MatchesFromCache \/ MatchPairs
  BY <1>8 DEF EndFeatures, MatchesFromCache, MatchPairs
<1>9. CASE UNCHANGED vars
  BY <1>9 DEF vars
<1>10. QED
  BY <1>1, <1>2, <1>3, <1>4, <1>5, <1>6, <1>7, <1>8, <1>9 DEF Next, Solve

\* Every step of a solve keeps what it holds under its own key.
LEMMA WorkNext ==
  ASSUME TypeOK, TypeOK', KeyInv, DiskInv, SolveInv, [Next]_vars
  PROVE  WorkInv'
<1> SUFFICES ASSUME clean', Working' PROVE WorkInv'
  BY DEF WorkInv
<1> USE CacheAssumption, MarksDiffer
<1>1. readable' = readable /\ clean
  BY SessionGrows, WorkSteps
<1>2. CASE /\ used' = Nothing /\ at' = 1
           /\ manifest' \in {key', Torn, None} /\ (cacheValid' => manifest' = key')
  <2>1. \A f \in readable' : ~(f < at')
    BY <1>1, <1>2 DEF TypeOK, Frames
  <2>2. QED
    BY <1>2, <2>1, NothingType DEF WorkInv, Working
<1>3. CASE Working /\ UNCHANGED <<key, cacheValid, manifest>>
  <2>1. /\ manifest' \in {key', Torn, None} /\ (cacheValid' => manifest' = key')
        /\ key \in Key /\ phase # "off"
    BY <1>1, <1>3 DEF SolveInv, KeyInv, Working
  <2>2. ASSUME NEW f \in Frames, used'[f] # None
        PROVE  f \in readable' /\ Under(key, f, used[f])'
    <3>1. f \in readable /\ used'[f] \in Entry /\ Under(key, f, used'[f])
      <4>1. CASE used'[f] = used[f]
        BY <1>1, <1>3, <2>2, <4>1 DEF SolveInv, TypeOK
      <4>2. CASE f = at /\ Served(at) /\ used' = [used EXCEPT ![at] = feat[at]]
        <5>1. used'[f] = feat[f] /\ feat[f] \notin {None, Torn} /\ manifest = key
          BY <1>1, <1>3, <2>2, <4>2 DEF TypeOK, Served, SolveInv
        <5>2. f \in readable /\ Under(key, f, feat[f]) /\ feat[f] \in Entry
          BY <1>1, <2>1, <5>1 DEF DiskInv, TypeOK
        <5>3. QED
          BY <5>1, <5>2 DEF Under
      <4>3. CASE f = at /\ at \in readable /\ used' = [used EXCEPT ![at] = Extracted(at)]
        <5>1. used'[f] = Extracted(f)
          BY <2>2, <4>3 DEF TypeOK
        <5>2. Under(key, f, Extracted(f)) /\ Extracted(f) \in Entry
          BY <2>1, FreshUnder, ExtractedEntry
        <5>3. QED
          BY <4>3, <5>1, <5>2 DEF Under
      <4>4. QED
        BY <1>2, <1>3, <2>2, <4>1, <4>2, <4>3, WorkSteps, NothingType DEF TypeOK
    <3>2. \A K \in Key, e \in Entry : Under(K, f, e) => Under(K, f, e)'
      BY StaysUnder
    <3>3. QED
      BY <1>1, <1>3, <2>1, <3>1, <3>2 DEF Under
  <2>3. ASSUME NEW f \in readable', f < at' PROVE used'[f] # None
    <3>1. f \in readable /\ f \in Frames
      BY <1>1 DEF TypeOK
    <3>2. CASE UNCHANGED <<used, at>>
      BY <1>1, <1>3, <2>3, <3>1, <3>2 DEF SolveInv
    <3>3. CASE f = at /\ at \in readable /\ used' = [used EXCEPT ![at] = Extracted(at)]
      BY <2>1, <3>1, <3>3, ExtractedEntry DEF TypeOK
    <3>4. CASE f = at /\ Served(at) /\ used' = [used EXCEPT ![at] = feat[at]]
      BY <3>1, <3>4 DEF TypeOK, Served
    <3>5. CASE /\ f # at /\ at \in Frames /\ at' = at + 1
               /\ \/ used' = used \/ used' = [used EXCEPT ![at] = feat[at]]
                  \/ used' = [used EXCEPT ![at] = Extracted(at)]
      <4>1. f < at
        BY <2>3, <3>1, <3>5 DEF Frames
      <4>2. used'[f] = used[f]
        BY <3>1, <3>5 DEF TypeOK
      <4>3. QED
        BY <1>1, <1>3, <3>1, <4>1, <4>2 DEF SolveInv
    <3>6. QED
      BY <1>2, <1>3, <3>1, <3>2, <3>3, <3>4, <3>5, <2>3, WorkSteps DEF Frames
  <2>4. QED
    BY <2>1, <2>2, <2>3 DEF WorkInv
<1>4. QED
  BY <1>2, <1>3, WorkSteps

\* The matches a solve ends up with cover the photos that decode, too.
MatchedInv ==
  clean /\ phase = "matched" =>
    verified \in [Frames -> Entry \cup {None}] /\ CoversReadable(key, verified)

LEMMA MatchedNext ==
  ASSUME TypeOK, TypeOK', KeyInv, DiskInv, SolveInv, [Next]_vars
  PROVE  MatchedInv'
<1> SUFFICES ASSUME clean', phase' = "matched" PROVE MatchedInv'
  BY DEF MatchedInv
<1> USE CacheAssumption, MarksDiffer DEF session, disk, memory, seen
<1>1. \A K \in Key, g \in [Frames -> Entry \cup {None}] :
        CoversReadable(K, g) => CoversReadable(K, g)'
  BY StaysCovering
<1>2. ASSUME clean, phase = "matching"
      PROVE  /\ \A f \in Frames : used[f] # None => f \in readable /\ Under(key, f, used[f])
             /\ \A f \in readable : used[f] # None
             /\ key \in Key
  <2>1. at = N + 1 /\ Working
    BY <1>2 DEF SolveInv, Working
  <2>2. \A f \in readable : f < at
    BY <2>1 DEF TypeOK, Frames
  <2>3. QED
    BY <1>2, <2>1, <2>2 DEF SolveInv, KeyInv
<1>3. ASSUME clean, key \in Key, key' = key, verified' \in [Frames -> Entry \cup {None}],
             CoversReadable(key, verified')
      PROVE  MatchedInv'
  BY <1>1, <1>3 DEF MatchedInv, CoversReadable, Under
<1>4. CASE MatchPairs
  <2>1. CoversReadable(key, used)
    BY <1>2, <1>4 DEF MatchPairs, CoversReadable, TypeOK
  <2>2. verified' = used /\ clean /\ phase = "matching" /\ key' = key
    BY <1>4 DEF MatchPairs
  <2>3. CoversReadable(key, verified')
    BY <2>1, <2>2 DEF CoversReadable, Under
  <2>4. QED
    BY <1>2, <1>3, <2>2, <2>3 DEF TypeOK
<1>5. CASE MatchesFromCache
  <2>1. /\ cacheValid /\ matches \notin {None, Torn} /\ clean /\ phase = "matching" /\ key' = key
        /\ verified' = [f \in Frames |-> IF used[f] = None THEN None ELSE matches[f]]
    BY <1>5 DEF MatchesFromCache, MatchesServed
  <2>2. manifest = key /\ key \in Key
    BY <1>2, <2>1 DEF SolveInv, Working
  <2>3. CoversReadable(key, matches) /\ matches \in [Frames -> Entry \cup {None}]
    BY <2>1, <2>2 DEF DiskInv, TypeOK
  <2>4. verified' \in [Frames -> Entry \cup {None}]
    BY <2>1, <2>3
  <2>5. CoversReadable(key, verified')
    BY <1>2, <2>1, <2>3 DEF CoversReadable, Under
  <2>6. QED
    BY <1>3, <2>1, <2>2, <2>4, <2>5
<1>6. CASE ~(MatchPairs \/ MatchesFromCache)
  <2>1. clean /\ phase = "matched" /\ UNCHANGED <<key, verified>>
    <3>1. CASE (\E f \in Frames : Regenerate(f)) \/ Recalibrate
      BY <3>1 DEF Regenerate, Recalibrate
    <3>2. CASE \E c \in Configs : Open(c)
      BY <3>2 DEF Open
    <3>3. CASE Solve
      BY <1>6, <3>3 DEF Solve, Reuse, Wipe, WriteManifest, FromCache, Unreadable, Extract,
         EndFeatures, Cancel, Close, Killed
    <3>4. CASE UNCHANGED vars
      BY <3>4 DEF vars
    <3>5. QED
      BY <3>1, <3>2, <3>3, <3>4 DEF Next
  <2>2. verified \in [Frames -> Entry \cup {None}] /\ CoversReadable(key, verified)
    BY <2>1 DEF SolveInv
  <2>3. key \in Key
    BY <2>1 DEF KeyInv
  <2>4. CoversReadable(key, verified')
    BY <2>1, <2>2 DEF CoversReadable, Under
  <2>5. QED
    BY <1>3, <2>1, <2>2, <2>3, <2>4
<1>7. QED
  BY <1>4, <1>5, <1>6

-----------------------------------------------------------------------------
(* The cache is sound.                                                     *)

\* Whatever lies in the cache under a manifest was computed under its key, and
\* whatever a solve holds was computed under the solve's.
THEOREM ResumeCorrect == Spec => [](TypeOK /\ ResumeInv)
<1>1. Init => TypeOK /\ ResumeInv
  <2> SUFFICES ASSUME Init PROVE ResumeInv
    BY TypeInit
  <2>1. QED
    BY MarksDiffer DEF Init, ResumeInv, KeyInv, DiskInv, SolveInv, Working
<1>2. TypeOK /\ ResumeInv /\ [Next]_vars => TypeOK' /\ ResumeInv'
  <2> SUFFICES ASSUME TypeOK, ResumeInv, [Next]_vars PROVE TypeOK' /\ ResumeInv'
    OBVIOUS
  <2> USE DEF ResumeInv
  <2>1. TypeOK'
    BY TypeNext
  <2>2. KeyInv' /\ DiskInv'
    BY <2>1, KeyNext, DiskNext
  <2>3. SolveInv'
    BY <2>1, StartNext, WorkNext, MatchedNext DEF SolveInv, WorkInv, MatchedInv
  <2>4. QED
    BY <2>1, <2>2, <2>3
<1>3. QED
  BY <1>1, <1>2, PTL DEF Spec

\* A solve never works on features of another configuration or of masks older
\* than those it started with.
THEOREM CacheCorrect == Spec => []CacheInv
<1>1. TypeOK /\ ResumeInv => CacheInv
  <2> SUFFICES ASSUME TypeOK, ResumeInv, Working, clean, NEW f \in Frames, used[f] # None
               PROVE  used[f].cfg = key.cfg /\ used[f].mask >= since[f]
    BY DEF CacheInv, NoStaleFeatures
  <2>1. Under(key, f, used[f]) /\ key.masks = since /\ key \in Key /\ used[f] \in Entry
    BY DEF ResumeInv, SolveInv, KeyInv, Working, TypeOK
  <2>2. QED
    BY <2>1 DEF Under, TypeOK, Entry
<1>2. QED
  BY <1>1, ResumeCorrect, PTL

\* In a settled session the matches a solve ends up with are between the very
\* features it has, for every frame.
THEOREM MatchesFit == Spec => []MatchesFitFeatures
<1>1. TypeOK /\ ResumeInv => MatchesFitFeatures
  <2> SUFFICES ASSUME TypeOK, ResumeInv, phase = "matched", clean, Settled
               PROVE  verified = used
    BY DEF MatchesFitFeatures
  <2> USE DEF ResumeInv
  <2>1. /\ key \in Key /\ at = N + 1
        /\ verified \in [Frames -> Entry \cup {None}] /\ CoversReadable(key, verified)
    BY DEF KeyInv, SolveInv
  <2>2. \A f \in Frames : f < at
    BY <2>1, CacheAssumption DEF Frames
  <2>3. SUFFICES ASSUME NEW f \in Frames PROVE verified[f] = used[f]
    BY <2>1 DEF TypeOK
  <2>4. CASE f \in readable
    <3>1. used[f] # None /\ Under(key, f, used[f]) /\ used[f] \in Entry
      BY <2>2, <2>4 DEF SolveInv, Working, TypeOK
    <3>2. Under(key, f, verified[f]) /\ verified[f] \in Entry
      BY <2>1, <2>4 DEF CoversReadable
    <3>3. key.masks[f] = MasksFor(key.cfg)[f] /\ lens = 0 /\ key.masks[f] \in Nat
      BY <2>1 DEF Settled, Key
    <3>4. \A e \in Entry : Under(key, f, e) =>
            e.cfg = key.cfg /\ e.mask = key.masks[f] /\ e.lens = 0
      BY <3>3 DEF Under, Entry
    <3>5. \A d, e \in Entry : d.cfg = e.cfg /\ d.mask = e.mask /\ d.lens = e.lens => d = e
      BY DEF Entry
    <3>6. QED
      BY <3>1, <3>2, <3>4, <3>5
  <2>5. CASE f \notin readable
    BY <2>1, <2>5 DEF CoversReadable, SolveInv, Working
  <2>6. QED
    BY <2>4, <2>5
<1>2. QED
  BY <1>1, ResumeCorrect, PTL
=============================================================================

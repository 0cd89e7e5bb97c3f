----------------------------- MODULE ModelSplit -----------------------------
(* SplitModelByCovisibility (final/model_split.cpp): operators only.        *)
(* A model is [images |-> numbers, track |-> [points -> sets of images]].   *)
(* A partition is a set of sets of images.  Two things the code takes from  *)
(* floating point or from internal roots are left open, so a model has a    *)
(* set of splits: which of several equally weak parts is absorbed first,    *)
(* and which part lies nearest to one that shares no point with any other.  *)
EXTENDS Integers, FiniteSets, SequencesExt

CONSTANTS
  MaxImages,    \* max_images; 0 means no split is made
  MinImages,    \* min_images
  MinPerImage,  \* min_points_per_image
  MinShared,    \* overlap_min_shared
  MaxAbsorb     \* rounds of absorption, 64 in the code

ASSUME SplitAssumption ==
  /\ MaxImages \in Nat /\ MinShared \in Nat /\ MaxAbsorb \in Nat
  /\ MinImages \in Nat \ {0} /\ MinPerImage \in Nat \ {0}

-----------------------------------------------------------------------------
(* Covisibility, strongest first; ties by image number. *)
Sharing(m, a, b) ==
  Cardinality({p \in DOMAIN m.track : {a, b} \subseteq m.track[p]})

Links(m) == {e \in m.images \X m.images : e[1] < e[2] /\ Sharing(m, e[1], e[2]) > 0}

Ranked(m) ==
  LET before(e, f) ==
        \/ Sharing(m, e[1], e[2]) > Sharing(m, f[1], f[2])
        \/ /\ Sharing(m, e[1], e[2]) = Sharing(m, f[1], f[2])
           /\ e[1] < f[1] \/ (e[1] = f[1] /\ e[2] < f[2])
      place(e) == 1 + Cardinality({f \in Links(m) : before(f, e)})
  IN  [i \in 1..Cardinality(Links(m)) |-> CHOOSE e \in Links(m) : place(e) = i]

PartOf(parts, i) == CHOOSE part \in parts : i \in part

Join(parts, a, b) == (parts \ {a, b}) \cup {a \cup b}

\* Images join along the strongest links while the two parts fit together.
Agglomerated(m) ==
  LET Unite(parts, e) ==
        LET a == PartOf(parts, e[1])
            b == PartOf(parts, e[2])
        IN  IF Cardinality(a) + Cardinality(b) > MaxImages THEN parts
            ELSE Join(parts, a, b)
  IN  FoldLeft(Unite, {{i} : i \in m.images}, Ranked(m))

-----------------------------------------------------------------------------
(* Parts with too few images, or too few points that two of them see, are  *)
(* absorbed, the weakest first, into the part of their strongest link.     *)
Inside(m, part) ==
  {p \in DOMAIN m.track : Cardinality(m.track[p] \cap part) >= 2}

\* min(images / MinImages, points / (images * MinPerImage)), as a fraction
\* whose denominator is MinImages * MinPerImage * images.
Strength(m, part) ==
  Min({Cardinality(part) * Cardinality(part) * MinPerImage,
       Cardinality(Inside(m, part)) * MinImages})

Undersized(m, part) ==
  Strength(m, part) < MinImages * MinPerImage * Cardinality(part)

Weaker(m, a, b) ==
  Strength(m, a) * Cardinality(b) < Strength(m, b) * Cardinality(a)

Victims(m, parts) ==
  {a \in parts : Undersized(m, a) /\ \A b \in parts : ~Weaker(m, b, a)}

Neighbours(m, parts, victim) ==
  LET crosses(e) == (e[1] \in victim) # (e[2] \in victim)
      out == {i \in DOMAIN Ranked(m) : crosses(Ranked(m)[i])}
  IN  IF out = {} THEN parts \ {victim}
      ELSE LET e == Ranked(m)[Min(out)]
           IN  {PartOf(parts, IF e[1] \in victim THEN e[2] ELSE e[1])}

Absorbed(m, parts) ==
  IF Cardinality(parts) < 2 \/ Victims(m, parts) = {} THEN {parts}
  ELSE UNION {{Join(parts, v, o) : o \in Neighbours(m, parts, v)} :
                v \in Victims(m, parts)}

\* A plausible slip: one round of absorption is taken to be enough.
AbsorbedOnce(m) == Absorbed(m, Agglomerated(m))

Partitions(m) ==
  LET after[n \in Nat] ==
        IF n = 0 THEN {Agglomerated(m)}
        ELSE UNION {Absorbed(m, parts) : parts \in after[n - 1]}
  IN  after[MaxAbsorb]

-----------------------------------------------------------------------------
(* What is written for a part: its own images, the outside images that see *)
(* enough of its points, and the points that two of all these see.         *)
Context(m, part) ==
  LET votes(i) == Cardinality({p \in DOMAIN m.track :
                                 i \in m.track[p] /\ m.track[p] \cap part # {}})
  IN  {i \in m.images \ part : votes(i) >= MinShared}

Own(m, part) == part

PartModel(m, parts, part) ==
  LET members == part \cup Context(m, part)
  IN  [index  |-> Cardinality({q \in parts : Min(q) <= Min(part)}),
       own    |-> Own(m, part),
       images |-> members,
       points |-> Inside(m, members)]

SplitsOf(m) ==
  IF Cardinality(m.images) <= MaxImages
  THEN {{[index |-> 1, own |-> m.images, images |-> m.images,
          points |-> DOMAIN m.track]}}
  ELSE {{PartModel(m, parts, part) : part \in parts} : parts \in Partitions(m)}
=============================================================================

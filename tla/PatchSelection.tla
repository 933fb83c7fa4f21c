--------------------------- MODULE PatchSelection ---------------------------
(***************************************************************************)
(* scripts/resolve-patch-sources.py and its base: which of the patches an  *)
(* upstream repository publishes a build takes for one component, and      *)
(* whether finalize-bore-stable-port.py then accepts it.  Every build      *)
(* chooses anew from what upstream has by then, for the kernel of the day. *)
(*                                                                         *)
(* A path is abstract: a candidate is a record of what its path says, and  *)
(* id is its place in the order of paths.  Kernel versions are Python's    *)
(* tuples: 7.3 is <<7,3>>, 7.3.1 is <<7,3,1>>, 7.3-rc5 is <<7,3,0,5>>.      *)
(***************************************************************************)
EXTENDS Integers, Sequences, FiniteSets

CONSTANTS
  Kernels,      \* kernels that are built
  Pool,         \* candidates upstream may publish
  BridgeKernel, \* the kernel and the candidate of the reviewed one-off port
  BridgeSource, \* (_reviewed_linux74_bore)
  Nothing,      \* no candidate was chosen
  MaxPublished  \* bound on what upstream has at once

Stages == {"rc", "final", "r"}

ASSUME PoolShape ==
  /\ Pool \subseteq [id : Nat, base : Seq(Nat), stage : Stages, rev : Nat,
                     target : Seq(Nat), channel : 0..2]
  /\ \A c, d \in Pool : c.id = d.id => c = d
  /\ \A c \in Pool : c.target # <<>> => Len(c.target) \in 2..4
  /\ Kernels # {} /\ \A k \in Kernels : k \in Seq(Nat) /\ Len(k) \in 2..4
  /\ Nothing \notin Pool /\ MaxPublished \in Nat

VARIABLES
  versioned, \* the component has a project_version_regex
  kernel,    \* KERNEL_VERSION of the last build
  published, \* what upstream had then
  chosen     \* what the build took

vars == <<versioned, kernel, published, chosen>>

-----------------------------------------------------------------------------
(* Order.                                                                  *)

(* Python's < on tuples of integers.                                       *)
TupleLess(a, b) ==
  \E i \in 1..Len(b) :
    /\ \A j \in 1..(i - 1) : j <= Len(a) /\ a[j] = b[j]
    /\ i = Len(a) + 1 \/ (i <= Len(a) /\ a[i] < b[i])

(* Python's < on tuples of tuples of the same length.                      *)
ScoreLess(a, b) ==
  \E i \in 1..Len(a) : (\A j \in 1..(i - 1) : a[j] = b[j]) /\ TupleLess(a[i], b[i])

Series(version) == <<version[1], version[2]>>

StageRank(stage) == CASE stage = "rc" -> 1 [] stage = "final" -> 2 [] stage = "r" -> 3

Numbers(c) == [i \in 1..8 |-> IF i <= Len(c.base) THEN c.base[i] ELSE 0]

ReleaseKey(c) == Numbers(c) \o <<StageRank(c.stage), c.rev>>

Padded(version) == [i \in 1..3 |-> IF i <= Len(version) THEN version[i] ELSE 0]

Abs(n) == IF n < 0 THEN -n ELSE n

(* Slip: the differences of the components, each weighed by itself.        *)
DistanceByComponent(target, k) ==
  Abs(Padded(target)[1] - Padded(k)[1]) * 1000000
    + Abs(Padded(target)[2] - Padded(k)[2]) * 1000 + Abs(Padded(target)[3] - Padded(k)[3])

Ordinal(version) == Padded(version)[1] * 1000000 + Padded(version)[2] * 1000 + Padded(version)[3]

KernelDistance(target, k) == Abs(Ordinal(target) - Ordinal(k))

Native(c, k) == c.target # <<>> /\ Series(c.target) = Series(k)

(* compatibility_score(): exact, same series, no target, foreign.          *)
Compatibility(c, k) ==
  CASE c.target = <<>> -> <<4, 0>>
    [] c.target = k -> <<6, 0>>
    [] c.target # <<>> /\ c.target # k ->
         <<IF Native(c, k) THEN 5 ELSE 3, -KernelDistance(c.target, k)>>

Flag(condition) == <<IF condition THEN 1 ELSE 0>>

(* What every component compares, the path last.                           *)
Fit(c, k) == <<Compatibility(c, k), c.target, <<c.channel>>, <<c.id>>>>

(* Slip: the kernel's own variant first, whatever its release.             *)
NativeFirst(c, k) == <<Flag(Native(c, k)), ReleaseKey(c)>> \o Fit(c, k)

(* latest_first_candidate_score().                                         *)
LatestFirst(c, k) == <<ReleaseKey(c), Flag(Native(c, k))>> \o Fit(c, k)

Score(c, k) == IF versioned THEN LatestFirst(c, k) ELSE Fit(c, k)

(* A path whose release cannot be read makes the whole resolution fail,    *)
(* which score it would have had or not.                                   *)
Unreadable(candidates) == versioned /\ \E c \in candidates : c.base = <<>>

(* The max() of resolve().                                                 *)
Best(candidates, k) ==
  IF candidates = {} \/ Unreadable(candidates)
  THEN Nothing
  ELSE CHOOSE c \in candidates : \A d \in candidates \ {c} : ScoreLess(Score(d, k), Score(c, k))

-----------------------------------------------------------------------------
(* The finalizer (BORE).                                                   *)

(* linux{series}* also matches a minor number that begins with the same    *)
(* digits.  A path that is also a fallback stays "exact": max() keeps the  *)
(* first of equals.                                                        *)
GlobMatches(c, k) ==
  /\ c.target # <<>> /\ c.target[1] = k[1]
  /\ c.target[2] = k[2] \/ c.target[2] \div 10 = k[2]

Selection(c, k) == IF GlobMatches(c, k) THEN "exact" ELSE "fallback"

(* _version_tuple_with_rc(): a release candidate comes before the release. *)
FinalizerKey(version) ==
  IF Len(version) = 4 THEN <<version[1], version[2], 0, version[4]>>
  ELSE <<version[1], version[2], 1, Padded(version)[3]>>

Reviewed(c, k) == k = BridgeKernel /\ c = BridgeSource /\ Selection(c, k) = "fallback"

Accepts(c, k) ==
  \/ Reviewed(c, k)
  \/ /\ Selection(c, k) = "exact"
     /\ Native(c, k)
     /\ ~TupleLess(FinalizerKey(k), FinalizerKey(c.target))

-----------------------------------------------------------------------------
Init ==
  /\ versioned \in BOOLEAN
  /\ kernel \in Kernels
  /\ published \in {{c} : c \in Pool}
  /\ chosen = Best(published, kernel)

(* A build after upstream published one more patch.                        *)
BuildAfterRelease ==
  /\ Cardinality(published) < MaxPublished
  /\ \E c \in Pool \ published : published' = published \cup {c}
  /\ chosen' = Best(published', kernel)
  /\ UNCHANGED <<versioned, kernel>>

(* Slip: what the last build resolved is used again.                       *)
BuildFromCache ==
  /\ \E c \in published : published' = published \ {c}
  /\ UNCHANGED <<versioned, kernel, chosen>>

(* A build after upstream dropped one.                                     *)
BuildAfterRemoval ==
  /\ \E c \in published : published' = published \ {c}
  /\ chosen' = Best(published', kernel)
  /\ UNCHANGED <<versioned, kernel>>

(* A build of another kernel.                                              *)
BuildOther ==
  /\ kernel' \in Kernels \ {kernel}
  /\ chosen' = Best(published, kernel')
  /\ UNCHANGED <<versioned, published>>

Next == BuildAfterRelease \/ BuildAfterRemoval \/ BuildOther

Spec == Init /\ [][Next]_vars

-----------------------------------------------------------------------------
TypeOK ==
  /\ versioned \in BOOLEAN /\ kernel \in Kernels
  /\ published \in SUBSET Pool /\ chosen \in published \cup {Nothing}

(* What a release number means: missing components are zero, a release     *)
(* candidate comes before its release and -rN after it.                    *)
NewerRelease(c, d) ==
  \/ \E i \in 1..8 :
       /\ Numbers(c)[i] > Numbers(d)[i]
       /\ \A j \in 1..(i - 1) : Numbers(c)[j] = Numbers(d)[j]
  \/ /\ Numbers(c) = Numbers(d)
     /\ \/ c.stage # d.stage /\ (c.stage = "r" \/ d.stage = "rc")
        \/ c.stage = d.stage /\ c.rev > d.rev

SameRelease(c, d) == ~NewerRelease(c, d) /\ ~NewerRelease(d, c)

Chosen == chosen # Nothing

(* Nothing upstream has is of a newer release than what the build takes    *)
(* (docs/validation-lru-cast.md: "An older native release cannot displace  *)
(* newer upstream code").                                                  *)
LatestRelease ==
  Chosen /\ versioned => \A c \in published : ~NewerRelease(c, chosen)

(* Of the patches of that release, one for this kernel's series is taken   *)
(* if there is one, and no other series lies between the one that is taken *)
(* and the kernel's ("incorrectly rank 6.18 closer to 7.1 than 6.19").     *)
NearestSeries ==
  Chosen =>
    \A c \in published :
      (versioned => SameRelease(c, chosen)) /\ c.target # <<>> /\ chosen.target # <<>>
        => /\ Native(c, kernel) => Native(chosen, kernel)
           /\ ~ \/ TupleLess(Series(chosen.target), Series(c.target))
                   /\ TupleLess(Series(c.target), Series(kernel))
                \/ TupleLess(Series(kernel), Series(c.target))
                   /\ TupleLess(Series(c.target), Series(chosen.target))

(* The newest compatible source (resolve-patch-sources-base.py: "Resolve   *)
(* the newest compatible patch sources"): when the newest release has a    *)
(* patch the finalizer accepts, the one that is chosen is accepted.        *)
AcceptableIsChosen ==
  Chosen /\ versioned /\ (\E c \in published : Accepts(c, kernel) /\ SameRelease(c, chosen))
    => Accepts(chosen, kernel)
=============================================================================

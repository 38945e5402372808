------------------------ MODULE Applicability_proofs ------------------------
(***************************************************************************)
(* Compare is a total order on versions, and with it the intervals and the *)
(* gate of module Applicability hold for every registry, every set of      *)
(* version strings and every spelling of the operating systems.            *)
(***************************************************************************)
EXTENDS Applicability, TLAPS

(* The order of pre-releases.                                              *)
LEMMA PreTransitive ==
    ASSUME NEW p \in Nat, NEW q \in Nat, NEW r \in Nat,
           ComparePre(p, q) <= 0, ComparePre(q, r) <= 0
    PROVE  ComparePre(p, r) <= 0
BY DEF ComparePre, Sign

(* Compare answers the same question from both sides: a version is at      *)
(* least another one exactly when the other is at most the first.          *)
THEOREM CompareAntisymmetric ==
    ASSUME NEW s \in SemVer, NEW o \in SemVer
    PROVE  Compare(o, s) = -Compare(s, o)
BY DEF Compare, ComparePre, Sign, SemVer

(* Only one version is neither before nor after a given one.               *)
THEOREM CompareEqual ==
    ASSUME NEW s \in SemVer, NEW o \in SemVer
    PROVE  Compare(s, o) = 0 <=> s = o
BY DEF Compare, ComparePre, Sign, SemVer

(* At most is transitive, through every mixture of releases and            *)
(* pre-releases, so that bounds can be chained.                            *)
THEOREM CompareTransitive ==
    ASSUME NEW s \in SemVer, NEW o \in SemVer, NEW t \in SemVer,
           Compare(s, o) <= 0, Compare(o, t) <= 0
    PROVE  Compare(s, t) <= 0
<1>1. CASE s.major # o.major \/ o.major # t.major
  BY <1>1 DEF Compare, ComparePre, Sign, SemVer
<1>2. CASE s.major = o.major /\ o.major = t.major
           /\ (s.minor # o.minor \/ o.minor # t.minor)
  BY <1>2 DEF Compare, ComparePre, Sign, SemVer
<1>3. CASE s.major = o.major /\ o.major = t.major /\ s.minor = o.minor
           /\ o.minor = t.minor /\ (s.patch # o.patch \/ o.patch # t.patch)
  BY <1>3 DEF Compare, ComparePre, Sign, SemVer
<1>4. CASE s.major = o.major /\ o.major = t.major /\ s.minor = o.minor
           /\ o.minor = t.minor /\ s.patch = o.patch /\ o.patch = t.patch
  <2>1. s.pre \in Nat /\ o.pre \in Nat /\ t.pre \in Nat
    BY DEF SemVer
  <2>2. ComparePre(s.pre, o.pre) <= 0 /\ ComparePre(o.pre, t.pre) <= 0
    BY <1>4 DEF Compare
  <2>3. ComparePre(s.pre, t.pre) <= 0
    BY <2>1, <2>2, PreTransitive
  <2> QED BY <1>4, <2>3 DEF Compare
<1> QED BY <1>1, <1>2, <1>3, <1>4

-----------------------------------------------------------------------------
(* A string that parses is a version, whatever parts of it are missing.    *)
LEMMA SemVerType ==
    ASSUME NEW t \in Texts
    PROVE  SemVerOf(t) \in SemVer
<1>1. t \in [nums : Seq(Nat), pre : Nat]
  BY ApplicabilityAssumption DEF Text
<1>2. \A i \in {1, 2, 3} : Number(t, i) \in Nat
  <2>1. t.nums \in Seq(Nat) BY <1>1
  <2>2. \A i \in 1..Len(t.nums) : t.nums[i] \in Nat BY <2>1
  <2> QED BY <2>1, <2>2 DEF Number
<1> QED BY <1>1, <1>2 DEF SemVerOf, SemVer

(* The part of the invariant that says what the filter has computed.       *)
ActiveExact ==
    phase = "filtered" =>
        /\ active = {c \in Checks : IsApplicable(Constraints[c], osID, version)}
        /\ Supported(version)

Accepted ==
    /\ phase = "detect" => Supported(version)
    /\ phase # "filtered" => active = {}

IInv == TypeOK /\ Accepted /\ ActiveExact

(* The phase, the version and the active checks always fit together.       *)
LEMMA Inductive == Spec => []IInv
<1>1. Init => IInv
  BY DEF Init, IInv, TypeOK, Accepted, ActiveExact, SemVer
<1>2. IInv /\ [Next]_vars => IInv'
  <2> SUFFICES ASSUME IInv, [Next]_vars PROVE IInv' OBVIOUS
  <2> USE DEF IInv
  <2>1. CASE ParseFlag
    <3>1. SemVerOf(flag) \in SemVer BY SemVerType DEF TypeOK
    <3> QED BY <2>1, <3>1 DEF ParseFlag, TypeOK, Accepted, ActiveExact
  <2>2. CASE FilterChecks
    BY <2>2 DEF FilterChecks, TypeOK, Accepted, ActiveExact, IsApplicable
  <2>3. CASE Finished
    BY <2>3 DEF Finished, vars, TypeOK, Accepted, ActiveExact
  <2>4. CASE UNCHANGED vars
    BY <2>4 DEF vars, TypeOK, Accepted, ActiveExact
  <2> QED BY <2>1, <2>2, <2>3, <2>4 DEF Next
<1> QED BY <1>1, <1>2, PTL DEF Spec

(* Between a version that is at least a minimum and any later one nothing  *)
(* falls below that minimum, and likewise for a maximum.                   *)
LEMMA RangeConvex ==
    ASSUME NEW c \in Checks, NEW u \in SemVer, NEW v \in SemVer, NEW w \in SemVer,
           InRange(u, Constraints[c]), InRange(w, Constraints[c]),
           Compare(u, v) <= 0, Compare(v, w) <= 0
    PROVE  InRange(v, Constraints[c])
<1> DEFINE r == Constraints[c]
<1>1. r.min \in Texts /\ r.max \in Texts
  BY ApplicabilityAssumption DEF Constraint
<1>2. ASSUME Parses(r.min) PROVE Compare(v, SemVerOf(r.min)) >= 0
  <2>1. SemVerOf(r.min) \in SemVer BY <1>1, SemVerType
  <2>2. Compare(u, SemVerOf(r.min)) >= 0 BY <1>2 DEF InRange, AtLeast
  <2>3. Compare(SemVerOf(r.min), u) = -Compare(u, SemVerOf(r.min))
    BY <2>1, CompareAntisymmetric
  <2>4. Compare(u, SemVerOf(r.min)) \in Int /\ Compare(v, SemVerOf(r.min)) \in Int
    BY DEF Compare, ComparePre, Sign
  <2>5. Compare(SemVerOf(r.min), u) <= 0 BY <2>2, <2>3, <2>4
  <2>6. Compare(SemVerOf(r.min), v) <= 0 BY <2>1, <2>5, CompareTransitive
  <2>7. Compare(SemVerOf(r.min), v) = -Compare(v, SemVerOf(r.min))
    BY <2>1, CompareAntisymmetric
  <2> QED BY <2>4, <2>6, <2>7
<1>3. ASSUME Parses(r.max) PROVE Compare(v, SemVerOf(r.max)) <= 0
  <2>1. SemVerOf(r.max) \in SemVer BY <1>1, SemVerType
  <2>2. Compare(w, SemVerOf(r.max)) <= 0 BY <1>3 DEF InRange, AtMost
  <2> QED BY <2>1, <2>2, CompareTransitive
<1> QED BY <1>2, <1>3 DEF InRange, AtLeast, AtMost

(* TypeOK, for every registry and every flag.                              *)
THEOREM TypeCorrect == Spec => []TypeOK
BY Inductive, PTL DEF IInv

(* A check without matrix rules is never skipped between two versions on   *)
(* which it applies.                                                       *)
THEOREM Intervals == Spec => []NoGap
<1>1. IInv => NoGap
  <2> SUFFICES ASSUME IInv, phase = "filtered", NEW c \in Checks \ active,
                      Constraints[c].matrix = {},
                      NEW u \in Versions, NEW w \in Versions,
                      IsApplicable(Constraints[c], osID, u),
                      IsApplicable(Constraints[c], osID, w),
                      Compare(u, version) <= 0, Compare(version, w) <= 0
               PROVE  FALSE
    BY DEF NoGap
  <2>1. u \in SemVer /\ w \in SemVer /\ version \in SemVer
    BY SemVerType DEF Versions, IInv, TypeOK
  <2>2. InRange(u, Constraints[c]) /\ InRange(w, Constraints[c])
    BY DEF IsApplicable
  <2>3. InRange(version, Constraints[c])
    BY <2>1, <2>2, RangeConvex
  <2>4. IsApplicable(Constraints[c], osID, version)
    BY <2>3 DEF IsApplicable
  <2> QED BY <2>4 DEF IInv, ActiveExact
<1> QED BY <1>1, Inductive, PTL

(* The gate of the flag makes every minimum below 1.34 vacuous, although   *)
(* the gate looks at two numbers and Compare at the whole version.         *)
THEOREM GateSubsumesOldMinimums == Spec => []OldMinimumsNeverSkip
<1>1. IInv => OldMinimumsNeverSkip
  <2> SUFFICES ASSUME IInv, phase = "filtered", NEW c \in Checks,
                      Parses(Constraints[c].min),
                      Before134(SemVerOf(Constraints[c].min))
               PROVE  Compare(version, SemVerOf(Constraints[c].min)) >= 0
    BY DEF OldMinimumsNeverSkip, AtLeast
  <2>1. SemVerOf(Constraints[c].min) \in SemVer
    BY ApplicabilityAssumption, SemVerType DEF Constraint
  <2>2. version \in SemVer /\ Supported(version)
    BY DEF IInv, TypeOK, ActiveExact
  <2> QED BY <2>1, <2>2 DEF SemVer, Supported, Before134, Compare, ComparePre, Sign
<1> QED BY <1>1, Inductive, PTL

(* A rule that excludes the operating system does so in every spelling.    *)
THEOREM ExclusionHolds == Spec => []RuledOutIsSkipped
<1>1. IInv => RuledOutIsSkipped
  <2> SUFFICES ASSUME IInv, NEW c \in active PROVE
        /\ \A o \in Constraints[c].skipOS : Lower[o] # Lower[Trim[osID]]
        /\ \A m \in Constraints[c].matrix :
              m.skip /\ ~Parses(m.min) /\ ~Parses(m.max) => Lower[m.osID] # Lower[Trim[osID]]
    BY DEF RuledOutIsSkipped
  <2>1. phase = "filtered" BY DEF IInv, Accepted
  <2>2. IsApplicable(Constraints[c], osID, version) BY <2>1 DEF IInv, ActiveExact
  <2>3. Lower[Lower[Trim[osID]]] = Lower[Trim[osID]]
    BY ApplicabilityAssumption DEF IInv, TypeOK
  <2>4. \A m \in Constraints[c].matrix : ~Parses(m.min) /\ ~Parses(m.max) => InRange(version, m)
    BY DEF InRange, AtLeast, AtMost
  <2> QED BY <2>2, <2>3, <2>4 DEF IsApplicable, OSAllowed, EqualFold
<1> QED BY <1>1, Inductive, PTL
=============================================================================

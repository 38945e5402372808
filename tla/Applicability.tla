--------------------------- MODULE Applicability ---------------------------
(***************************************************************************)
(* Which of the registered checks an execution makes active: the version   *)
(* flag and its gate in run (src/main.go), SemVer (src/pkg/utils), the     *)
(* constraints of a check and IsApplicable (src/pkg/validation).           *)
(*                                                                         *)
(* A version string is the sequence of numbers the regular expression of   *)
(* ParseSemVer finds in it, of length 1 to 3, and its pre-release; the     *)
(* empty sequence stands for a string, empty or not, that does not parse.  *)
(* Pre-releases are numbered in the order of Go's < on strings, where      *)
(* "gke.1000" is less than "gke.900"; 0 is the empty one.                  *)
(***************************************************************************)
EXTENDS Integers, Sequences

CONSTANTS
    Texts,       \* version strings
    OSNames,     \* strings that name operating systems
    Lower, Trim, \* strings.ToLower and strings.TrimSpace on them
    Checks,      \* validation.RegisteredChecks()
    Constraints  \* of each check; the zero Constraint if it declares none

Text == {t \in [nums : Seq(Nat), pre : Nat] : Len(t.nums) <= 3}
SemVer == [major : Nat, minor : Nat, patch : Nat, pre : Nat]
MatrixRule == [osID : OSNames, min : Texts, max : Texts, skip : BOOLEAN]
Constraint == [onlyOS : SUBSET OSNames, skipOS : SUBSET OSNames,
               min : Texts, max : Texts, matrix : SUBSET MatrixRule]

ASSUME ApplicabilityAssumption ==
    /\ Texts \subseteq Text
    /\ Lower \in [OSNames -> OSNames] /\ Trim \in [OSNames -> OSNames]
    /\ \A o \in OSNames : Lower[Lower[o]] = Lower[o]
    /\ Constraints \in [Checks -> Constraint]

VARIABLES
    phase,    \* how far run has come
    flag,     \* *gkeVersionFlag
    version,  \* targetEnv.GKEVersion; targetEnv.HasVersion is always true
    osID,     \* targetEnv.OSID
    active    \* activeChecks

vars == <<phase, flag, version, osID, active>>

-----------------------------------------------------------------------------
(* utils.ParseSemVer and SemVer.Compare.                                   *)

Parses(t) == t.nums # <<>>
BadNumber(t, i) == IF i <= Len(t.nums) THEN t.nums[i] ELSE -1   \* a missing part
Number(t, i) == IF i <= Len(t.nums) THEN t.nums[i] ELSE 0
SemVerOf(t) == [major |-> Number(t, 1), minor |-> Number(t, 2),
                patch |-> Number(t, 3), pre |-> t.pre]

Versions == {SemVerOf(t) : t \in {u \in Texts : Parses(u)}}

Sign(a, b) == IF a < b THEN -1 ELSE IF b < a THEN 1 ELSE 0

(* A pre-release comes before the release it leads to.                     *)
ComparePre(p, q) ==
    IF p = 0 /\ q # 0 THEN 1 ELSE IF p # 0 /\ q = 0 THEN -1 ELSE Sign(p, q)

BadCompare(s, o) ==                \* falls through when the greater part differs
    IF s.major < o.major THEN -1
    ELSE IF s.minor < o.minor THEN -1
    ELSE IF s.patch < o.patch THEN -1
    ELSE IF <<s.major, s.minor, s.patch>> # <<o.major, o.minor, o.patch>> THEN 1
    ELSE ComparePre(s.pre, o.pre)

Compare(s, o) ==
    IF s.major # o.major THEN Sign(s.major, o.major)
    ELSE IF s.minor # o.minor THEN Sign(s.minor, o.minor)
    ELSE IF s.patch # o.patch THEN Sign(s.patch, o.patch)
    ELSE ComparePre(s.pre, o.pre)

-----------------------------------------------------------------------------
(* IsApplicable. A bound that does not parse is no bound. The names in a   *)
(* constraint are compared without regard to case but are not trimmed.     *)

AtLeast(v, t) == Parses(t) => Compare(v, SemVerOf(t)) >= 0
AtMost(v, t)  == Parses(t) => Compare(v, SemVerOf(t)) <= 0
InRange(v, r) == AtLeast(v, r.min) /\ AtMost(v, r.max)

EqualFold(a, b) == Lower[a] = Lower[b]

OSAllowed(r, os) ==
    /\ r.onlyOS # {} => \E o \in r.onlyOS : EqualFold(o, os)
    /\ \A o \in r.skipOS : ~EqualFold(o, os)

BadIsApplicable(r, os, v) ==       \* compares the matrix with the name as it is
    /\ OSAllowed(r, Lower[Trim[os]])
    /\ InRange(v, r)
    /\ \A m \in r.matrix : (m.osID = os /\ InRange(v, m)) => ~m.skip

IsApplicable(r, os, v) ==
    /\ OSAllowed(r, Lower[Trim[os]])
    /\ InRange(v, r)
    /\ \A m \in r.matrix :
          (EqualFold(m.osID, Lower[Trim[os]]) /\ InRange(v, m)) => ~m.skip

-----------------------------------------------------------------------------
TypeOK ==
    /\ phase \in {"flag", "detect", "filtered", "refused"}
    /\ flag \in Texts
    /\ version \in SemVer
    /\ osID \in OSNames
    /\ active \in SUBSET Checks

Init ==
    /\ phase = "flag"
    /\ flag \in Texts
    /\ version = [major |-> 0, minor |-> 0, patch |-> 0, pre |-> 0]
    /\ osID \in OSNames
    /\ active = {}

(* The oldest release of GKE the suite supports is 1.34.                   *)
BadSupported(v) ==                 \* off by two minor versions
    ~(v.major < 1 \/ (v.major = 1 /\ v.minor < 32))

Supported(v) == ~(v.major < 1 \/ (v.major = 1 /\ v.minor < 34))

ParseFlag ==
    /\ phase = "flag"
    /\ IF Parses(flag) /\ Supported(SemVerOf(flag))
       THEN phase' = "detect" /\ version' = SemVerOf(flag)
       ELSE phase' = "refused" /\ UNCHANGED version
    /\ UNCHANGED <<flag, osID, active>>

(* /etc/os-release is read and the rules of the registry are satisfied;    *)
(* module Suite has the failures. Then the loop over the registry.         *)
FilterChecks ==
    /\ phase = "detect"
    /\ phase' = "filtered"
    /\ active' = {c \in Checks : IsApplicable(Constraints[c], osID, version)}
    /\ UNCHANGED <<flag, version, osID>>

Finished == phase \in {"filtered", "refused"} /\ UNCHANGED vars

Next == ParseFlag \/ FilterChecks \/ Finished

Spec == Init /\ [][Next]_vars

-----------------------------------------------------------------------------
(* A check without matrix rules applies to an interval of versions: it is  *)
(* never skipped between two versions on which it applies, with the        *)
(* releases and pre-releases in the order of Compare.                      *)
NoGap ==
    phase = "filtered" =>
        \A c \in Checks \ active : Constraints[c].matrix = {} =>
            \A u, w \in Versions :
                /\ IsApplicable(Constraints[c], osID, u)
                /\ IsApplicable(Constraints[c], osID, w)
                => ~(Compare(u, version) <= 0 /\ Compare(version, w) <= 0)

Before134(v) == v.major = 0 \/ (v.major = 1 /\ v.minor \in 0..33)

(* The gate on the flag and the order of Compare agree: a check whose      *)
(* minimum is of a release before 1.34 is not skipped for its version, not *)
(* even on a pre-release of 1.34.0, which comes before 1.34.0.             *)
OldMinimumsNeverSkip ==
    phase = "filtered" =>
        \A c \in Checks :
            (Parses(Constraints[c].min) /\ Before134(SemVerOf(Constraints[c].min)))
                => AtLeast(version, Constraints[c].min)

(* However the names are spelt in the constraint and on the VM, the check  *)
(* does not run on an operating system that a rule of its own rules out.   *)
RuledOutIsSkipped ==
    \A c \in active :
        LET r == Constraints[c] IN
        /\ \A o \in r.skipOS : Lower[o] # Lower[Trim[osID]]
        /\ \A m \in r.matrix :
              m.skip /\ ~Parses(m.min) /\ ~Parses(m.max) => Lower[m.osID] # Lower[Trim[osID]]
=============================================================================

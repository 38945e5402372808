------------------------- MODULE HostChecks_proofs -------------------------
(***************************************************************************)
(* What a verdict of a non-destructive check is worth, for every host: any *)
(* version, any value of a sysctl, any mode, and whichever answers are     *)
(* lost.                                                                   *)
(*                                                                         *)
(* A program is a tree, but nothing here is an induction over trees: that  *)
(* no verdict below a node is wrong is stated by a set that contains the   *)
(* node and with each node what may follow it (Safe, Sure).  There is one  *)
(* lemma for each way in which the checks use an error, and from these one *)
(* for each check.                                                         *)
(***************************************************************************)
EXTENDS HostChecks, TLAPS

----------------------------------------------------------------------------
(* IsPermissiveSuperset, for every mode. *)

\* A mode satisfies the requirement that is the mode itself.
THEOREM SupersetReflexive ==
  ASSUME NEW m \in Mode
  PROVE  IsPermissiveSuperset(m, m)
BY DEF IsPermissiveSuperset

\* A host that satisfies a requirement satisfies every requirement that one
\* satisfies, so that a path may be checked twice with different requirements.
THEOREM SupersetTransitive ==
  ASSUME NEW a \in Mode, NEW b \in Mode, NEW c \in Mode,
         IsPermissiveSuperset(a, b), IsPermissiveSuperset(b, c)
  PROVE  IsPermissiveSuperset(a, c)
BY DEF IsPermissiveSuperset

\* Modes that satisfy each other have the same bits: they differ at most in
\* the type of the file and in how an execute right is spelt.
THEOREM SupersetAntisymmetric ==
  ASSUME NEW a \in Mode, NEW b \in Mode,
         IsPermissiveSuperset(a, b), IsPermissiveSuperset(b, a)
  PROVE  ParsePermissions(a) = ParsePermissions(b)
BY DEF IsPermissiveSuperset

\* Equality, which the networking checks ask for, implies what the node checks
\* ask for: no path passes the one and fails the other.
THEOREM ExactImpliesSuperset ==
  ASSUME NEW actual \in Mode, NEW expected \in Mode, actual = expected
  PROVE  IsPermissiveSuperset(actual, expected) /\ Grants(actual, expected)
BY DEF IsPermissiveSuperset, Grants

\* A mode without S and T that satisfies a requirement grants every right the
\* requirement names.
THEOREM SupersetGrants ==
  ASSUME NEW actual \in Mode, NEW expected \in Mode,
         Plain(actual), IsPermissiveSuperset(actual, expected)
  PROVE  Grants(actual, expected)
<1>1. CASE actual = expected
  BY <1>1 DEF Grants
<1>2. CASE ParsePermissions(expected) \subseteq ParsePermissions(actual)
  <2>1. expected.rights \subseteq ParsePermissions(expected)
    BY DEF ParsePermissions
  <2>2. ParsePermissions(actual) = actual.rights
    BY DEF ParsePermissions, Plain
  <2> QED
    BY <1>2, <2>1, <2>2 DEF Grants
<1> QED
  BY <1>1, <1>2 DEF IsPermissiveSuperset

\* Conversely a mode that grants what a requirement without S and T names
\* satisfies it: the check fails no path that has the rights.
THEOREM GrantsSatisfies ==
  ASSUME NEW actual \in Mode, NEW expected \in Mode,
         Plain(expected), Grants(actual, expected)
  PROVE  IsPermissiveSuperset(actual, expected)
<1>1. ParsePermissions(expected) = expected.rights
  BY DEF ParsePermissions, Plain
<1>2. actual.rights \subseteq ParsePermissions(actual)
  BY DEF ParsePermissions
<1> QED
  BY <1>1, <1>2 DEF IsPermissiveSuperset, Grants

----------------------------------------------------------------------------
(* What can follow a node. *)

\* What a pass of check c on host h has to be worth at least, and the verdict
\* that is due with every command answered.
Earned(c, h) == Described(c, h) \/ Overlooks(c, h)
Due(c, h) == Overlooks(c, h) \/ (Described(c, h) /\ ~Rejects(c, h))

\* Where the answer of the host leads.
Answer(n) == IF n.truth THEN n.yes ELSE n.no

\* Once an answer has been lost only a pass has to be earned, and not by the
\* checks that fail open.
SafeSet(S, c, h) ==
  \A n \in S : \/ n = Fail
               \/ n = Pass /\ (Earned(c, h) \/ c \in FailsOpen)
               \/ n \notin {Pass, Fail} /\ Answer(n) \in S /\ n.lost \in S

Safe(n, c, h) == \E S : SafeSet(S, c, h) /\ n \in S

\* While every answer has come, the verdict has to be the one that is due.
SureSet(S, c, h) ==
  \A n \in S : \/ n = Fail /\ ~Due(c, h)
               \/ n = Pass /\ Due(c, h)
               \/ n \notin {Pass, Fail} /\ Answer(n) \in S /\ Safe(n.lost, c, h)

Sure(n, c, h) == \E S : SureSet(S, c, h) /\ n \in S

\* A pass that is due is earned.
LEMMA DueEarned ==
  ASSUME NEW c, NEW h
  PROVE  Due(c, h) => Earned(c, h)
BY DEF Due, Earned

\* The two verdicts differ.
LEMMA Verdicts == Pass # Fail
BY DEF Pass, Fail

\* The parts of a node, which is never a verdict.
LEMMA AskParts ==
  ASSUME NEW q, NEW y, NEW n, NEW l
  PROVE  /\ Ask(q, y, n, l).truth = q /\ Ask(q, y, n, l).yes = y
         /\ Ask(q, y, n, l).no = n /\ Ask(q, y, n, l).lost = l
         /\ Ask(q, y, n, l) \notin {Pass, Fail}
<1>1. DOMAIN Ask(q, y, n, l) = {"truth", "yes", "no", "lost"}
  BY DEF Ask
<1>2. DOMAIN Pass = {"verdict"} /\ DOMAIN Fail = {"verdict"}
  BY DEF Pass, Fail
<1>3. Ask(q, y, n, l) \notin {Pass, Fail}
  BY <1>1, <1>2
<1> QED
  BY <1>3 DEF Ask

----------------------------------------------------------------------------
(* The leaves, a node, and the four ways to use an error: Require may follow *)
(* an error by nothing but a failure, so that what it asks is never taken as *)
(* said; after Suffices and Forbid the rest must be safe by itself; OnlyIf   *)
(* turns a lost answer into a pass, which only a check that fails open may.  *)

\* A failure is safe: nothing is claimed of one that follows a lost answer.
LEMMA SafeFail ==
  ASSUME NEW c, NEW h
  PROVE  Safe(Fail, c, h)
<1>1. SafeSet({Fail}, c, h)
  BY DEF SafeSet
<1> QED
  BY <1>1 DEF Safe

\* A pass is safe if the host has earned it or the check fails open.
LEMMA SafePass ==
  ASSUME NEW c, NEW h, Earned(c, h) \/ c \in FailsOpen
  PROVE  Safe(Pass, c, h)
<1>1. SafeSet({Pass}, c, h)
  BY DEF SafeSet
<1> QED
  BY <1>1 DEF Safe

\* A node is safe if what follows the answer of this host is, and what
\* follows a lost one.
LEMMA SafeAsk ==
  ASSUME NEW c, NEW h, NEW q \in BOOLEAN, NEW y, NEW n, NEW l,
         q => Safe(y, c, h), ~q => Safe(n, c, h), Safe(l, c, h)
  PROVE  Safe(Ask(q, y, n, l), c, h)
<1> DEFINE a == Ask(q, y, n, l)
<1>1. a.lost = l /\ a \notin {Pass, Fail} /\ Answer(a) = IF q THEN y ELSE n
  BY AskParts DEF Answer
<1>2. PICK S : SafeSet(S, c, h) /\ Answer(a) \in S
  BY <1>1 DEF Safe
<1>3. PICK T : SafeSet(T, c, h) /\ l \in T
  BY DEF Safe
<1> DEFINE U == S \cup T \cup {a}
<1>4. SafeSet(U, c, h)
  BY <1>1, <1>2, <1>3 DEF SafeSet
<1>5. a \in U
  OBVIOUS
<1> QED
  BY <1>4, <1>5 DEF Safe

\* A pass is sure if it is due.
LEMMA SurePass ==
  ASSUME NEW c, NEW h, Due(c, h)
  PROVE  Sure(Pass, c, h)
<1>1. SureSet({Pass}, c, h)
  BY DEF SureSet
<1> QED
  BY <1>1 DEF Sure

\* A failure is sure if no pass is due.
LEMMA SureFail ==
  ASSUME NEW c, NEW h, ~Due(c, h)
  PROVE  Sure(Fail, c, h)
<1>1. SureSet({Fail}, c, h)
  BY DEF SureSet
<1> QED
  BY <1>1 DEF Sure

\* A node is sure if what follows the answer of this host is, and what
\* follows a lost one is safe.
LEMMA SureAsk ==
  ASSUME NEW c, NEW h, NEW q \in BOOLEAN, NEW y, NEW n, NEW l,
         q => Sure(y, c, h), ~q => Sure(n, c, h), Safe(l, c, h)
  PROVE  Sure(Ask(q, y, n, l), c, h)
<1> DEFINE a == Ask(q, y, n, l)
<1>1. a.lost = l /\ a \notin {Pass, Fail} /\ Answer(a) = IF q THEN y ELSE n
  BY AskParts DEF Answer
<1>2. PICK S : SureSet(S, c, h) /\ Answer(a) \in S
  BY <1>1 DEF Sure
<1> DEFINE U == S \cup {a}
<1>4. SureSet(U, c, h)
  BY <1>1, <1>2 DEF SureSet
<1>5. a \in U
  OBVIOUS
<1> QED
  BY <1>4, <1>5 DEF Sure

\* if err != nil { return err }: safe if the rest is where the command
\* succeeds.
LEMMA RequireSafe ==
  ASSUME NEW c, NEW h, NEW q \in BOOLEAN, NEW rest, q => Safe(rest, c, h)
  PROVE  Safe(Require(q, rest), c, h)
BY SafeAsk, SafeFail DEF Require

\* The same with every answer: on a host on which the command fails no pass
\* may be due.
LEMMA RequireSure ==
  ASSUME NEW c, NEW h, NEW q \in BOOLEAN, NEW rest,
         q => Sure(rest, c, h), ~q => ~Due(c, h)
  PROVE  Sure(Require(q, rest), c, h)
BY SureAsk, SureFail, SafeFail DEF Require

\* A check that is one such command is right if the command succeeds where a
\* pass is due.
LEMMA RequirePass ==
  ASSUME NEW c, NEW h, NEW q \in BOOLEAN, q <=> Due(c, h)
  PROVE  Sure(Require(q, Pass), c, h)
BY RequireSure, SurePass

\* Two commands that must succeed, as the last ones.
LEMMA RequireTwo ==
  ASSUME NEW c, NEW h, NEW p \in BOOLEAN, NEW q \in BOOLEAN, p /\ q <=> Due(c, h)
  PROVE  Sure(Require(p, Require(q, Pass)), c, h)
<1>1. p => Sure(Require(q, Pass), c, h)
  BY RequirePass
<1> QED
  BY <1>1, RequireSure

\* Three.
LEMMA RequireThree ==
  ASSUME NEW c, NEW h, NEW p \in BOOLEAN, NEW q \in BOOLEAN, NEW r \in BOOLEAN,
         p /\ q /\ r <=> Due(c, h)
  PROVE  Sure(Require(p, Require(q, Require(r, Pass))), c, h)
<1>1. p => Sure(Require(q, Require(r, Pass)), c, h)
  BY RequireTwo
<1> QED
  BY <1>1, RequireSure

\* if err == nil { return nil }: a lost answer goes on, so the rest must be
\* safe by itself.
LEMMA SufficesSafe ==
  ASSUME NEW c, NEW h, NEW q \in BOOLEAN, NEW rest,
         q => Earned(c, h), Safe(rest, c, h)
  PROVE  Safe(Suffices(q, rest), c, h)
BY SafeAsk, SafePass DEF Suffices

\* The same with every answer: on a host on which the command succeeds a pass
\* must be due.
LEMMA SufficesSure ==
  ASSUME NEW c, NEW h, NEW q \in BOOLEAN, NEW rest,
         q => Due(c, h), ~q => Sure(rest, c, h), Safe(rest, c, h)
  PROVE  Sure(Suffices(q, rest), c, h)
BY SureAsk, SurePass DEF Suffices

\* if err == nil { return an error }: a lost answer counts as the absence
\* that is wanted.
LEMMA ForbidSafe ==
  ASSUME NEW c, NEW h, NEW q \in BOOLEAN, NEW rest, Safe(rest, c, h)
  PROVE  Safe(Forbid(q, rest), c, h)
BY SafeAsk, SafeFail DEF Forbid

\* The same with every answer: on a host on which the command succeeds no
\* pass may be due.
LEMMA ForbidSure ==
  ASSUME NEW c, NEW h, NEW q \in BOOLEAN, NEW rest,
         q => ~Due(c, h), ~q => Sure(rest, c, h), Safe(rest, c, h)
  PROVE  Sure(Forbid(q, rest), c, h)
BY SureAsk, SureFail DEF Forbid

\* A command that excuses the host: if it is lost the check passes, which
\* only one that fails open may.
LEMMA OnlyIfSure ==
  ASSUME NEW c, NEW h, NEW q \in BOOLEAN, NEW rest, c \in FailsOpen,
         q => Sure(rest, c, h), ~q => Due(c, h)
  PROVE  Sure(OnlyIf(q, rest), c, h)
BY SureAsk, SurePass, SafePass DEF OnlyIf

----------------------------------------------------------------------------
(* Every check, package by package. *)

USE DEF Hosts, Run, Described, Overlooks, Rejects, Due, Facts, Kernel, Permission, TPU

(* checklib and gke-metadata-server; checks that are one question. *)

\* The checks that are one question, whose answer is what is described.
LEMMA HoldsSure ==
  ASSUME NEW c \in Holds, NEW h \in Hosts(c)
  PROVE  Sure(Run(c, h), c, h)
<1> USE DEF Holds
<1>1. h \in [{"holds"} -> BOOLEAN]
  OBVIOUS
<1>2. Run(c, h) = Require(h.holds, Pass)
  BY DEF NetworkStackCheck, CgroupV2Check, NpdPathCheck, NpdServiceCheck, SocketExistsCheck,
         JournaldActive
<1>3. ~Overlooks(c, h) /\ ~Rejects(c, h)
  OBVIOUS
<1>4. Described(c, h) <=> h.holds
  BY <1>1, Zenon DEF AllOf
<1>5. h.holds \in BOOLEAN /\ (h.holds <=> Due(c, h))
  <2> HIDE DEF Described, Overlooks, Rejects
  <2> QED
    BY <1>1, <1>3, <1>4
<1> HIDE DEF Run, Hosts, Holds, Due
<1> QED
  BY <1>2, <1>5, RequirePass

\* Paths: found by a listing, which wants them to be listable.
LEMMA PathSure ==
  ASSUME NEW h \in Hosts("path")
  PROVE  Sure(Run("path", h), "path", h)
<1> DEFINE q == h.exists /\ h.listable
<1>1. Run("path", h) = Require(q, Pass)
  BY DEF PathExistenceCheck
<1>2. q \in BOOLEAN /\ (q <=> Due("path", h))
  OBVIOUS
<1> HIDE DEF q, Run, Due
<1> QED
  BY <1>1, <1>2, RequirePass

\* /var/run: two commands that must both succeed, the second with findmnt.
LEMMA VarRunSure ==
  ASSUME NEW h \in Hosts("varRun")
  PROVE  Sure(Run("varRun", h), "varRun", h)
<1>1. Run("varRun", h) = Require(h.dir, Require((h.findmnt /\ h.rw), Pass))
  BY DEF VerifyVarRun
<1>2. h.dir \in BOOLEAN /\ (h.findmnt /\ h.rw) \in BOOLEAN
  OBVIOUS
<1>3. h.dir /\ (h.findmnt /\ h.rw) <=> Due("varRun", h)
  OBVIOUS
<1> HIDE DEF Run, Due
<1> QED
  BY <1>1, <1>2, <1>3, RequireTwo

\* The TPM of the metadata server: excused where the feature is off, and
\* where that answer is lost.
LEMMA MdsTpmSure ==
  ASSUME NEW h \in Hosts("mdsTpm")
  PROVE  Sure(Run("mdsTpm", h), "mdsTpm", h)
<1>1. h.enabled \in BOOLEAN /\ h.device \in BOOLEAN /\ h.ownerRW \in BOOLEAN
  OBVIOUS
<1>2. ASSUME h.enabled
      PROVE  Sure(Require(h.device, Require(h.ownerRW, Pass)), "mdsTpm", h)
  <2>1. h.device /\ h.ownerRW <=> Due("mdsTpm", h)
    BY <1>2
  <2> HIDE DEF Due
  <2> QED
    BY <1>1, <2>1, RequireTwo
<1>3. ~h.enabled => Due("mdsTpm", h)
  OBVIOUS
<1>4. "mdsTpm" \in FailsOpen
  BY DEF FailsOpen
<1> HIDE DEF Due
<1> QED
  BY <1>1, <1>2, <1>3, <1>4, OnlyIfSure DEF VerifyTPMDevice

\* The EFI variables: excused on a host without UEFI, and where that answer
\* is lost; the type of the file system is asked for beyond the description.
LEMMA MdsEfiSure ==
  ASSUME NEW h \in Hosts("mdsEfi")
  PROVE  Sure(Run("mdsEfi", h), "mdsEfi", h)
<1>1. /\ h.uefi \in BOOLEAN /\ h.dir \in BOOLEAN
      /\ h.readable \in BOOLEAN /\ h.efivarfs \in BOOLEAN
  OBVIOUS
<1>2. ASSUME h.uefi
      PROVE  Sure(Require(h.dir, Require(h.readable, Require(h.efivarfs, Pass))), "mdsEfi", h)
  <2>1. h.dir /\ h.readable /\ h.efivarfs <=> Due("mdsEfi", h)
    BY <1>2
  <2> HIDE DEF Due
  <2> QED
    BY <1>1, <2>1, RequireThree
<1>3. ~h.uefi => Due("mdsEfi", h)
  OBVIOUS
<1>4. "mdsEfi" \in FailsOpen
  BY DEF FailsOpen
<1> HIDE DEF Due
<1> QED
  BY <1>1, <1>2, <1>3, <1>4, OnlyIfSure DEF VerifyEFIVars

(* networking *)

\* A kernel feature with a module name: modinfo, the configuration, what is
\* loaded and what may be loaded agree with the description on every kernel,
\* but where the configuration or modules_disabled cannot be read. A lost
\* answer of modinfo leads to the configuration, which is safe whatever
\* modinfo would have said.
LEMMA KernelNamedSure ==
  ASSUME NEW h \in Hosts("kernelNamed")
  PROVE  Sure(Run("kernelNamed", h), "kernelNamed", h)
<1> DEFINE c == "kernelNamed"
           q == h.inRAM \/ (h.sysctl /\ ~h.disabled)
           ram == Require(q, Pass)
           found == h.audit /\ h.kconfig # "n"
           audit == Require(found, IF h.kconfig = "y" THEN Pass ELSE ram)
           listed == h.modinfo # "none"
           first == IF h.modinfo = "builtin" THEN Pass ELSE ram
<1>1. /\ h.modinfo \in {"builtin", "ko", "none"} /\ h.kconfig \in {"y", "m", "n"}
      /\ h.audit \in BOOLEAN
      /\ h.inRAM \in BOOLEAN /\ h.disabled \in BOOLEAN /\ h.sysctl \in BOOLEAN
      /\ ~(h.modinfo = "builtin" /\ h.kconfig = "m") /\ ~(h.modinfo = "ko" /\ h.kconfig = "y")
  OBVIOUS
<1>2. Run(c, h) = Ask(listed, first, audit, audit)
  BY DEF ModinfoFastPath, KconfigAudit, RAMAndDynamicLoad
<1>3. ~Overlooks(c, h)
  OBVIOUS
<1>4. Described(c, h) <=> BuiltIn(h) \/ (Loadable(h) /\ (h.inRAM \/ ~h.disabled))
  OBVIOUS
<1>5. Rejects(c, h) <=> /\ Described(c, h)
                        /\ \/ h.modinfo = "none" /\ ~h.audit
                           \/ Loadable(h) /\ ~h.inRAM /\ ~h.sysctl
  OBVIOUS
<1>6. Due(c, h) <=> Described(c, h) /\ ~Rejects(c, h)
  BY <1>3
<1>7. BuiltIn(h) \/ (Loadable(h) /\ q) => Earned(c, h)
  BY <1>4 DEF Earned
<1> HIDE DEF Run, Described, Rejects, Due
<1>8. h.modinfo = "builtin" => Due(c, h)
  BY <1>1, <1>4, <1>5, <1>6 DEF BuiltIn, Loadable
<1>9. h.modinfo = "ko" => (q <=> Due(c, h))
  BY <1>1, <1>4, <1>5, <1>6 DEF BuiltIn, Loadable
<1>10. h.modinfo = "none" => /\ ~found => ~Due(c, h)
                             /\ found /\ h.kconfig = "y" => Due(c, h)
                             /\ found /\ h.kconfig = "m" => (q <=> Due(c, h))
  BY <1>1, <1>4, <1>5, <1>6 DEF BuiltIn, Loadable
<1>11. q \in BOOLEAN /\ found \in BOOLEAN /\ listed \in BOOLEAN
  BY <1>1
<1>12. /\ h.kconfig = "y" => BuiltIn(h)
       /\ h.modinfo = "ko" \/ h.kconfig = "m" => Loadable(h)
  BY <1>1 DEF BuiltIn, Loadable
<1> HIDE DEF q
<1>13. h.modinfo = "ko" => Sure(ram, c, h)
  BY <1>9, <1>11, RequirePass
<1>14. h.kconfig = "m" => Safe(ram, c, h)
  BY <1>7, <1>11, <1>12, RequireSafe, SafePass
<1>15. Safe(audit, c, h)
  BY <1>1, <1>7, <1>11, <1>12, <1>14, RequireSafe, SafePass
<1>16. h.modinfo = "none" => Sure(audit, c, h)
  BY <1>1, <1>10, <1>11, RequireSure, RequirePass, SurePass
<1>17. (listed => Sure(first, c, h)) /\ (~listed => Sure(audit, c, h))
  BY <1>1, <1>8, <1>13, <1>16, SurePass
<1> HIDE DEF listed, first, audit
<1> QED
  BY <1>2, <1>11, <1>15, <1>17, SureAsk

\* A feature without one: a lost answer on loading counts as permission, and
\* so does a modules_disabled that cannot be read.
LEMMA KernelUnnamedSure ==
  ASSUME NEW h \in Hosts("kernelUnnamed")
  PROVE  Sure(Run("kernelUnnamed", h), "kernelUnnamed", h)
<1> DEFINE c == "kernelUnnamed"
           found == h.audit /\ h.kconfig # "n"
           locked == h.sysctl /\ h.disabled
           ram == Forbid(locked, Pass)
<1>1. /\ h.kconfig \in {"y", "m", "n"} /\ h.audit \in BOOLEAN
      /\ h.disabled \in BOOLEAN /\ h.sysctl \in BOOLEAN
  OBVIOUS
<1>2. Run(c, h) = Require(found, IF h.kconfig = "y" THEN Pass ELSE ram)
  BY DEF ModinfoFastPath, KconfigAudit, RAMAndDynamicLoad
<1>3. /\ ~found => ~Due(c, h)
      /\ found /\ h.kconfig = "y" => Due(c, h)
      /\ found /\ h.kconfig # "y" => (locked <=> ~Due(c, h))
  BY <1>1
<1>4. c \in FailsOpen
  BY DEF FailsOpen
<1>5. found \in BOOLEAN /\ locked \in BOOLEAN
  BY <1>1
<1> HIDE DEF Run, Due, found, locked
<1>6. found /\ h.kconfig # "y" => Sure(ram, c, h)
  BY <1>3, <1>4, <1>5, ForbidSure, SurePass, SafePass
<1>7. found => Sure(IF h.kconfig = "y" THEN Pass ELSE ram, c, h)
  BY <1>3, <1>6, SurePass
<1> QED
  BY <1>2, <1>3, <1>5, <1>7, RequireSure

\* The probe of networkd: it sees the setting only of one that is active, and
\* where networkctl shows it.
LEMMA ForeignRulesSure ==
  ASSUME NEW h \in Hosts("foreignRules")
  PROVE  Sure(Run("foreignRules", h), "foreignRules", h)
<1> DEFINE q == ~h.active \/ ~(h.shows /\ h.manages)
<1>1. Run("foreignRules", h) = Require(q, Pass)
  BY DEF NetworkStackCheck, ForeignRules
<1>2. q \in BOOLEAN /\ (q <=> Due("foreignRules", h))
  OBVIOUS
<1> HIDE DEF q, Run, Due
<1> QED
  BY <1>1, <1>2, RequirePass

\* A virtual mount: three commands that must all succeed.
LEMMA MountSure ==
  ASSUME NEW h \in Hosts("mount")
  PROVE  Sure(Run("mount", h), "mount", h)
<1>1. Run("mount", h) = Require(h.dir, Require(h.type, Require(h.writable, Pass)))
  BY DEF VirtualMountCheck
<1>2. /\ h.dir \in BOOLEAN /\ h.type \in BOOLEAN
      /\ h.writable \in BOOLEAN
  OBVIOUS
<1>3. h.dir /\ h.type /\ h.writable <=> Due("mount", h)
  BY DEF AllOf
<1> HIDE DEF Run, Due
<1> QED
  BY <1>1, <1>2, <1>3, RequireThree

\* A path of networking: its mode, and that of the target of a link, are
\* equal to the table.
LEMMA NetPermissionSure ==
  ASSUME NEW h \in Hosts("netPermission")
  PROVE  Sure(Run("netPermission", h), "netPermission", h)
<1> DEFINE c == "netPermission"
           own == h.mode = h.expected
           far == h.target = Dir755
           rest == IF h.linked THEN Require(far, Pass) ELSE Pass
<1>1. Run(c, h) = Require(own, rest)
  BY DEF NetPathPermissionCheck
<1>2. h.linked \in BOOLEAN
  OBVIOUS
<1>3. own /\ (h.linked => far) <=> Due(c, h)
  OBVIOUS
<1>4. own \in BOOLEAN /\ far \in BOOLEAN
  OBVIOUS
<1> HIDE DEF Run, Due, own, far
<1>5. own => Sure(rest, c, h)
  BY <1>2, <1>3, <1>4, RequirePass, SurePass
<1> QED
  BY <1>1, <1>3, <1>4, <1>5, RequireSure

\* A free port: no listener in the output of ss, or of netstat; no output
\* counts as none.
LEMMA PortSure ==
  ASSUME NEW h \in Hosts("port")
  PROVE  Sure(Run("port", h), "port", h)
<1> DEFINE q == h.use = "listening" /\ (h.ss \/ h.netstat)
<1>1. Run("port", h) = Forbid(q, Pass)
  BY DEF PortCollisionCheck
<1>2. q \in BOOLEAN /\ (q <=> ~Due("port", h))
  OBVIOUS
<1>3. "port" \in FailsOpen
  BY DEF FailsOpen
<1> HIDE DEF q, Run, Due
<1> QED
  BY <1>1, <1>2, <1>3, ForbidSure, SurePass, SafePass

(* node *)

\* containerd: in the path, at its place and active, which is more than to
\* exist.
LEMMA ContainerdSure ==
  ASSUME NEW h \in Hosts("containerd")
  PROVE  Sure(Run("containerd", h), "containerd", h)
<1>1. Run("containerd", h) = Require(h.inPath, Require(h.executable, Require(h.active, Pass)))
  BY DEF ContainerdExistsCheck
<1>2. /\ h.inPath \in BOOLEAN /\ h.executable \in BOOLEAN
      /\ h.active \in BOOLEAN
  OBVIOUS
<1>3. h.inPath /\ h.executable /\ h.active <=> Due("containerd", h)
  OBVIOUS
<1> HIDE DEF Run, Due
<1> QED
  BY <1>1, <1>2, <1>3, RequireThree

\* The version of glibc, for every pair of numbers: two comparisons of parts
\* are the order of versions.
LEMMA GlibcSure ==
  ASSUME NEW h \in Hosts("glibc")
  PROVE  Sure(Run("glibc", h), "glibc", h)
<1>0. h.parses \in BOOLEAN /\ h.major \in Nat /\ h.minor \in Nat
  BY HostsAssumption
<1> DEFINE q == h.parses /\ ~(h.major < 2 \/ (h.major = 2 /\ h.minor < 35))
<1>1. Run("glibc", h) = Require(q, Pass)
  BY DEF GlibcCheck
<1>2. q \in BOOLEAN /\ (q <=> Due("glibc", h))
  BY <1>0 DEF Reaches
<1> HIDE DEF q, Run, Due
<1> QED
  BY <1>1, <1>2, RequirePass

\* The version of the kernel, for every pair of numbers; a release candidate
\* counts as the release.
LEMMA KernelVersionSure ==
  ASSUME NEW h \in Hosts("kernelVersion")
  PROVE  Sure(Run("kernelVersion", h), "kernelVersion", h)
<1>0. /\ h.parses \in BOOLEAN /\ h.rc \in BOOLEAN /\ h.major \in Nat /\ h.minor \in Nat
  BY HostsAssumption
<1> DEFINE q == h.parses /\ ~(h.major < 6 \/ (h.major = 6 /\ h.minor < 8))
<1>1. Run("kernelVersion", h) = Require(q, Pass)
  BY DEF KernelVersionCheck
<1>2. q \in BOOLEAN /\ (q <=> Due("kernelVersion", h))
  BY <1>0 DEF Reaches
<1> HIDE DEF q, Run, Due
<1> QED
  BY <1>1, <1>2, RequirePass

\* A guest agent that must be active has both commands.
LEMMA AgentActiveSure ==
  ASSUME NEW h \in Hosts("agentActive")
  PROVE  Sure(Run("agentActive", h), "agentActive", h)
<1>1. Run("agentActive", h) = Require(h.loaded, Require(h.active, Pass))
  BY DEF GuestAgentServiceCheck
<1>2. h.loaded \in BOOLEAN /\ h.active \in BOOLEAN
  OBVIOUS
<1>3. h.loaded /\ h.active <=> Due("agentActive", h)
  BY DEF AllOf
<1> HIDE DEF Run, Due
<1> QED
  BY <1>1, <1>2, <1>3, RequireTwo

\* One that need only be loaded has the first.
LEMMA AgentLoadedSure ==
  ASSUME NEW h \in Hosts("agentLoaded")
  PROVE  Sure(Run("agentLoaded", h), "agentLoaded", h)
<1> DEFINE q == h.loaded
<1>1. Run("agentLoaded", h) = Require(q, Pass)
  BY DEF GuestAgentServiceCheck
<1>2. q \in BOOLEAN /\ (q <=> Due("agentLoaded", h))
  OBVIOUS
<1> HIDE DEF q, Run, Due
<1> QED
  BY <1>1, <1>2, RequirePass

\* UEFI: supported, as far as the VM booted with it shows.
LEMMA UefiFeatureSure ==
  ASSUME NEW h \in Hosts("uefiFeature")
  PROVE  Sure(Run("uefiFeature", h), "uefiFeature", h)
<1> DEFINE q == h.booted
<1>1. Run("uefiFeature", h) = Require(q, Pass)
  BY DEF GuestOSFeatureCheck
<1>2. q \in BOOLEAN /\ (q <=> Due("uefiFeature", h))
  OBVIOUS
<1> HIDE DEF q, Run, Due
<1> QED
  BY <1>1, <1>2, RequirePass

\* A driver of the guest OS: found by modinfo, or configured, whether its file
\* is there or not.
LEMMA OsFeatureSure ==
  ASSUME NEW h \in Hosts("osFeature")
  PROVE  Sure(Run("osFeature", h), "osFeature", h)
<1> DEFINE q == DriverFound(h)
<1>1. Run("osFeature", h) = Require(q, Pass)
  BY DEF GuestOSFeatureCheck
<1>2. q \in BOOLEAN /\ (q <=> Due("osFeature", h))
  BY  DEF DriverFound
<1> HIDE DEF q, Run, Due
<1> QED
  BY <1>1, <1>2, RequirePass

\* A kernel module that must be there.
LEMMA ModuleSure ==
  ASSUME NEW h \in Hosts("module")
  PROVE  Sure(Run("module", h), "module", h)
<1> DEFINE q == h.modinfo /\ h.module
<1>1. Run("module", h) = Require(q, Pass)
  BY DEF KernelModuleCheck
<1>2. q \in BOOLEAN /\ (q <=> Due("module", h))
  OBVIOUS
<1> HIDE DEF q, Run, Due
<1> QED
  BY <1>1, <1>2, RequirePass

\* One that must not: no answer, and no modinfo, count as absence.
LEMMA ModuleAbsentSure ==
  ASSUME NEW h \in Hosts("moduleAbsent")
  PROVE  Sure(Run("moduleAbsent", h), "moduleAbsent", h)
<1> DEFINE q == h.modinfo /\ h.module
<1>1. Run("moduleAbsent", h) = Forbid(q, Pass)
  BY DEF KernelModuleCheck
<1>2. q \in BOOLEAN /\ (q <=> ~Due("moduleAbsent", h))
  OBVIOUS
<1>3. "moduleAbsent" \in FailsOpen
  BY DEF FailsOpen
<1> HIDE DEF q, Run, Due
<1> QED
  BY <1>1, <1>2, <1>3, ForbidSure, SurePass, SafePass

\* A utility: installed, as far as the path of the login shows.
LEMMA UtilitySure ==
  ASSUME NEW h \in Hosts("utility")
  PROVE  Sure(Run("utility", h), "utility", h)
<1> DEFINE q == h.inPath
<1>1. Run("utility", h) = Require(q, Pass)
  BY DEF UtilityCheck
<1>2. q \in BOOLEAN /\ (q <=> Due("utility", h))
  OBVIOUS
<1> HIDE DEF q, Run, Due
<1> QED
  BY <1>1, <1>2, RequirePass

\* The relation of modes in the terms of the reference.
LEMMA SupersetNames ==
  ASSUME NEW actual, NEW expected
  PROVE  IsPermissiveSuperset(actual, expected) <=> Named(expected) \subseteq Named(actual)
BY DEF IsPermissiveSuperset, ParsePermissions, Named

\* A path of node: a mode whose letters name the rights of the table, where
\* the description wants that mode.
LEMMA NodePermissionSure ==
  ASSUME NEW h \in Hosts("nodePermission")
  PROVE  Sure(Run("nodePermission", h), "nodePermission", h)
<1> DEFINE c == "nodePermission"
           own == IsPermissiveSuperset(h.mode, h.expected)
           far == IsPermissiveSuperset(h.target, Dir755)
           rest == IF h.linked THEN Require(far, Pass) ELSE Pass
<1>1. h.linked \in BOOLEAN
  OBVIOUS
<1>2. Run(c, h) = Require(own, rest)
  BY DEF PathPermissionCheck
<1>3. Described(c, h) <=> h.mode = h.expected /\ (h.linked => h.target = Dir755)
  OBVIOUS
<1>4. Overlooks(c, h) <=> /\ ~Described(c, h)
                          /\ Named(h.expected) \subseteq Named(h.mode)
                          /\ h.linked => Named(Dir755) \subseteq Named(h.target)
  OBVIOUS
<1>5. ~Rejects(c, h)
  OBVIOUS
<1> HIDE DEF Run, Described, Overlooks, Rejects
<1>6. own \in BOOLEAN /\ far \in BOOLEAN
  BY DEF IsPermissiveSuperset
<1>7. own /\ (h.linked => far) <=> Due(c, h)
  BY <1>1, <1>3, <1>4, <1>5, SupersetNames
<1> HIDE DEF Due, own, far
<1>8. own => Sure(rest, c, h)
  BY <1>1, <1>6, <1>7, RequirePass, SurePass
<1> QED
  BY <1>2, <1>6, <1>7, <1>8, RequireSure

\* A file that can be read and is not empty.
LEMMA ReadabilitySure ==
  ASSUME NEW h \in Hosts("readability")
  PROVE  Sure(Run("readability", h), "readability", h)
<1> DEFINE q == h.readable /\ ~h.empty
<1>1. Run("readability", h) = Require(q, Pass)
  BY DEF FileReadabilityCheck
<1>2. q \in BOOLEAN /\ (q <=> Due("readability", h))
  OBVIOUS
<1> HIDE DEF q, Run, Due
<1> QED
  BY <1>1, <1>2, RequirePass

(* observability and storage *)

\* /var/log: a mode that grants the rights names them; one that names them may
\* grant fewer.
LEMMA VarLogSure ==
  ASSUME NEW h \in Hosts("varLog")
  PROVE  Sure(Run("varLog", h), "varLog", h)
<1> DEFINE c == "varLog"
           own == IsPermissiveSuperset(h.mode, Dir755)
<1>1. Run(c, h) = Require(own, Pass)
  BY DEF VerifyPathPermissions
<1>2. Described(c, h) <=> Grants(h.mode, Dir755)
  OBVIOUS
<1>3. Overlooks(c, h) <=> ~Described(c, h) /\ Named(Dir755) \subseteq Named(h.mode)
  OBVIOUS
<1>4. ~Rejects(c, h)
  OBVIOUS
<1> HIDE DEF Run, Described, Overlooks, Rejects
<1>5. h.mode \in Mode /\ Dir755 \in Mode /\ Plain(Dir755)
  BY HostsAssumption DEF Dir755, Letters, Plain, Mode, Rights, Executes
<1>6. Grants(h.mode, Dir755) => own
  BY <1>5, GrantsSatisfies
<1>7. own \in BOOLEAN /\ (own <=> Due(c, h))
  BY <1>2, <1>3, <1>4, <1>6, SupersetNames DEF IsPermissiveSuperset
<1> HIDE DEF Due, own
<1> QED
  BY <1>1, <1>7, RequirePass

\* The metrics of containerd: any of three signs, each of which is enough;
\* the first counts any listener, the last any host.
LEMMA MetricsSure ==
  ASSUME NEW h \in Hosts("metrics")
  PROVE  Sure(Run("metrics", h), "metrics", h)
<1> DEFINE c == "metrics"
           listens == h.lister /\ (h.exposed \/ h.other)
           etc == h.etcContainerd \/ h.etc
<1>1. Run(c, h) = Suffices(listens, Suffices(h.configured, Suffices(etc, Fail)))
  BY DEF ContainerdMetrics
<1>2. listens \in BOOLEAN /\ h.configured \in BOOLEAN /\ etc \in BOOLEAN
  OBVIOUS
<1>3. Due(c, h) <=> listens \/ h.configured \/ etc
  OBVIOUS
<1>4. Due(c, h) => Earned(c, h)
  BY DueEarned
<1> HIDE DEF listens, etc, Run, Due
<1> QED
  BY <1>1, <1>2, <1>3, <1>4, SufficesSure, SufficesSafe, SafeFail, SureFail

\* The loopback interface, as the pattern reads: the address is asked for in
\* one branch only.
LEMMA LoopbackSure ==
  ASSUME NEW h \in Hosts("loopback")
  PROVE  Sure(Run("loopback", h), "loopback", h)
<1> DEFINE q == h.ip /\ (h.state = "UNKNOWN" \/ (h.state = "UP" /\
                                                   h.address \in {"first", "similar"}))
<1>1. Run("loopback", h) = Require(q, Pass)
  BY DEF NetworkLoopbackUp
<1>2. q \in BOOLEAN /\ (q <=> Due("loopback", h))
  OBVIOUS
<1> HIDE DEF q, Run, Due
<1> QED
  BY <1>1, <1>2, RequirePass

\* The directory of the journal: found, though not shown to be readable.
LEMMA JournalDirSure ==
  ASSUME NEW h \in Hosts("journalDir")
  PROVE  Sure(Run("journalDir", h), "journalDir", h)
<1> DEFINE q == h.dir
<1>1. Run("journalDir", h) = Require(q, Pass)
  BY DEF JournalDir
<1>2. q \in BOOLEAN /\ (q <=> Due("journalDir", h))
  BY  DEF AllOf
<1> HIDE DEF q, Run, Due
<1> QED
  BY <1>1, <1>2, RequirePass

\* A directory of logs, or its parent.
LEMMA LogDirSure ==
  ASSUME NEW h \in Hosts("logDir")
  PROVE  Sure(Run("logDir", h), "logDir", h)
<1> DEFINE q == h.dir \/ h.parent
<1>1. Run("logDir", h) = Require(q, Pass)
  BY DEF LogDir
<1>2. q \in BOOLEAN /\ (q <=> Due("logDir", h))
  OBVIOUS
<1> HIDE DEF q, Run, Due
<1> QED
  BY <1>1, <1>2, RequirePass

\* A directory of state, the directory above or the one above that, whether
\* it can be written or not.
LEMMA PosFilesSure ==
  ASSUME NEW h \in Hosts("posFiles")
  PROVE  Sure(Run("posFiles", h), "posFiles", h)
<1> DEFINE q == h.dir \/ h.parent \/ h.grandparent
<1>1. Run("posFiles", h) = Require(q, Pass)
  BY DEF VerifyDirWritable
<1>2. q \in BOOLEAN /\ (q <=> Due("posFiles", h))
  OBVIOUS
<1> HIDE DEF q, Run, Due
<1> QED
  BY <1>1, <1>2, RequirePass

\* The same for a directory whose description stops at the first one above.
LEMMA RuntimeDirSure ==
  ASSUME NEW h \in Hosts("runtimeDir")
  PROVE  Sure(Run("runtimeDir", h), "runtimeDir", h)
<1> DEFINE q == h.dir \/ h.parent \/ h.grandparent
<1>1. Run("runtimeDir", h) = Require(q, Pass)
  BY DEF VerifyDirWritable
<1>2. q \in BOOLEAN /\ (q <=> Due("runtimeDir", h))
  OBVIOUS
<1> HIDE DEF q, Run, Due
<1> QED
  BY <1>1, <1>2, RequirePass

\* A bundle of certificates: resolves to something that is not empty.
LEMMA BundleSure ==
  ASSUME NEW h \in Hosts("bundle")
  PROVE  Sure(Run("bundle", h), "bundle", h)
<1> DEFINE q == h.resolves /\ ~h.empty
<1>1. Run("bundle", h) = Require(q, Pass)
  BY DEF VerifyConcreteFile
<1>2. q \in BOOLEAN /\ (q <=> Due("bundle", h))
  OBVIOUS
<1> HIDE DEF q, Run, Due
<1> QED
  BY <1>1, <1>2, RequirePass

\* resolv.conf: the same and a name server, which only a readable file shows.
LEMMA ResolvConfSure ==
  ASSUME NEW h \in Hosts("resolvConf")
  PROVE  Sure(Run("resolvConf", h), "resolvConf", h)
<1>1. Run("resolvConf", h) = Require(h.resolves /\ ~h.empty,
                                     Require(h.regular /\ h.readable /\ h.nameserver, Pass))
  BY DEF ResolvConf, VerifyConcreteFile
<1>2. (h.resolves /\ ~h.empty) \in BOOLEAN /\ (h.regular /\ h.readable /\ h.nameserver) \in BOOLEAN
  OBVIOUS
<1>3. (h.resolves /\ ~h.empty) /\ (h.regular /\ h.readable /\ h.nameserver) <=> Due("resolvConf", h)
  OBVIOUS
<1> HIDE DEF Run, Due
<1> QED
  BY <1>1, <1>2, <1>3, RequireTwo

\* Persistent storage of the journal: the directory and files in it, of now
\* or of before.
LEMMA JournalStorageSure ==
  ASSUME NEW h \in Hosts("journalStorage")
  PROVE  Sure(Run("journalStorage", h), "journalStorage", h)
<1>1. Run("journalStorage", h) = Require(h.dir, Require((h.files /\ h.readable), Pass))
  BY DEF JournaldPersistentStorage
<1>2. h.dir \in BOOLEAN /\ (h.files /\ h.readable) \in BOOLEAN
  OBVIOUS
<1>3. h.dir /\ (h.files /\ h.readable) <=> Due("journalStorage", h)
  OBVIOUS
<1> HIDE DEF Run, Due
<1> QED
  BY <1>1, <1>2, <1>3, RequireTwo

\* Time synchronisation: any of five services, or timedatectl.
LEMMA TimeSyncSure ==
  ASSUME NEW h \in Hosts("timeSync")
  PROVE  Sure(Run("timeSync", h), "timeSync", h)
<1> DEFINE c == "timeSync"
           Sy == Suffices(h.synchronized, Fail)
           Nd == Suffices(h.ntpd, Sy)
           Np == Suffices(h.ntp, Nd)
           Cd == Suffices(h.chronyd, Np)
           Ch == Suffices(h.chrony, Cd)
<1>1. /\ h.timesyncd \in BOOLEAN /\ h.chrony \in BOOLEAN /\ h.chronyd \in BOOLEAN
      /\ h.ntp \in BOOLEAN /\ h.ntpd \in BOOLEAN /\ h.synchronized \in BOOLEAN
  OBVIOUS
<1>2. Run(c, h) = Suffices(h.timesyncd, Ch)
  BY DEF TimeSynchronization
<1>3. Due(c, h) <=> \/ h.timesyncd \/ h.chrony \/ h.chronyd \/ h.ntp \/ h.ntpd
                    \/ h.synchronized
  BY DEF Daemon
<1>4. Due(c, h) => Earned(c, h)
  BY DueEarned
<1> HIDE DEF Run, Due
<1>5. Safe(Sy, c, h) /\ Safe(Nd, c, h) /\ Safe(Np, c, h) /\ Safe(Cd, c, h) /\ Safe(Ch, c, h)
  BY <1>1, <1>3, <1>4, SufficesSafe, SafeFail
<1>6. ~h.timesyncd /\ ~h.chrony /\ ~h.chronyd /\ ~h.ntp /\ ~h.ntpd => Sure(Sy, c, h)
  BY <1>1, <1>3, SufficesSure, SafeFail, SureFail
<1>7. ~h.timesyncd /\ ~h.chrony /\ ~h.chronyd /\ ~h.ntp => Sure(Nd, c, h)
  BY <1>1, <1>3, <1>5, <1>6, SufficesSure
<1>8. ~h.timesyncd /\ ~h.chrony /\ ~h.chronyd => Sure(Np, c, h)
  BY <1>1, <1>3, <1>5, <1>7, SufficesSure
<1>9. ~h.timesyncd /\ ~h.chrony => Sure(Cd, c, h)
  BY <1>1, <1>3, <1>5, <1>8, SufficesSure
<1>10. ~h.timesyncd => Sure(Ch, c, h)
  BY <1>1, <1>3, <1>5, <1>9, SufficesSure
<1> QED
  BY <1>1, <1>2, <1>3, <1>5, <1>10, SufficesSure

\* The limit of watches, for every number: positive, where set is described.
LEMMA WatchesSure ==
  ASSUME NEW h \in Hosts("watches")
  PROVE  Sure(Run("watches", h), "watches", h)
<1>0. h.parses \in BOOLEAN /\ h.value \in Int
  BY HostsAssumption
<1> DEFINE q == h.parses /\ ~(h.value <= 0)
<1>1. Run("watches", h) = Require(q, Pass)
  BY DEF MaxUserWatches, ReadSysctl
<1>2. q \in BOOLEAN /\ (q <=> Due("watches", h))
  BY <1>0
<1> HIDE DEF q, Run, Due
<1> QED
  BY <1>1, <1>2, RequirePass

\* The first unprivileged port, for every number: the bound itself is
\* admitted.
LEMMA PortStartSure ==
  ASSUME NEW h \in Hosts("portStart")
  PROVE  Sure(Run("portStart", h), "portStart", h)
<1>0. h.parses \in BOOLEAN /\ h.value \in Int
  BY HostsAssumption
<1> DEFINE q == h.parses /\ ~(h.value > 2021)
<1>1. Run("portStart", h) = Require(q, Pass)
  BY DEF UnprivilegedPortStart, ReadSysctl
<1>2. q \in BOOLEAN /\ (q <=> Due("portStart", h))
  BY <1>0
<1> HIDE DEF q, Run, Due
<1> QED
  BY <1>1, <1>2, RequirePass

\* Memory control groups: any of three signs, two of which do not see that
\* they are disabled.
LEMMA MemcgSure ==
  ASSUME NEW h \in Hosts("memcg")
  PROVE  Sure(Run("memcg", h), "memcg", h)
<1> DEFINE c == "memcg"
           v1 == h.procCgroups /\ h.memcg
           v2 == h.controllers /\ h.memcg /\ ~h.disabled
           config == h.kconfig /\ h.memcg
<1>1. Run(c, h) = Suffices(v1, Suffices(v2, Suffices(config, Fail)))
  BY DEF KernelConfigMemcg
<1>2. v1 \in BOOLEAN /\ v2 \in BOOLEAN /\ config \in BOOLEAN
  OBVIOUS
<1>3. Due(c, h) <=> v1 \/ v2 \/ config
  OBVIOUS
<1>4. Due(c, h) => Earned(c, h)
  BY DueEarned
<1> HIDE DEF v1, v2, config, Run, Due
<1> QED
  BY <1>1, <1>2, <1>3, <1>4, SufficesSure, SufficesSafe, SafeFail, SureFail

(* security *)

\* The bootstrap directory: writable and not mounted read-only, but for
\* errors=remount-ro.
LEMMA BootstrapSure ==
  ASSUME NEW h \in Hosts("bootstrap")
  PROVE  Sure(Run("bootstrap", h), "bootstrap", h)
<1> DEFINE q == h.writable /\ ~(h.findmnt /\ (h.readOnly \/ h.remountRO))
<1>1. Run("bootstrap", h) = Require(q, Pass)
  BY DEF BootstrapDirectoryCheck
<1>2. q \in BOOLEAN /\ (q <=> Due("bootstrap", h))
  OBVIOUS
<1> HIDE DEF q, Run, Due
<1> QED
  BY <1>1, <1>2, RequirePass

\* The dynamic linker: present at any of three paths, run or not.
LEMMA LinkerSure ==
  ASSUME NEW h \in Hosts("linker")
  PROVE  Sure(Run("linker", h), "linker", h)
<1> DEFINE q == h.lib64 \/ h.libGnu \/ h.lib
<1>1. Run("linker", h) = Require(q, Pass)
  BY DEF DynamicBinaryExecutionCheck
<1>2. q \in BOOLEAN /\ (q <=> Due("linker", h))
  OBVIOUS
<1> HIDE DEF q, Run, Due
<1> QED
  BY <1>1, <1>2, RequirePass

\* Access under an LSM: that of the login; the reports that follow a failure
\* end in a failure, whatever they answer.
LEMMA LsmSure ==
  ASSUME NEW h \in Hosts("lsm")
  PROVE  Sure(Run("lsm", h), "lsm", h)
<1> DEFINE c == "lsm"
           q == LoginMay(h)
           report == Whatever(Whatever(Whatever(Fail)))
<1>1. Run(c, h) = Ask(q, Pass, report, report)
  BY DEF LsmPathAccessCheck
<1>2. q \in BOOLEAN /\ (q <=> Due(c, h))
  BY DEF LoginMay
<1> HIDE DEF q, Run, Due
<1>3. Safe(report, c, h)
  BY SafeAsk, SafeFail DEF Whatever
<1>4. ~q => Sure(report, c, h)
  BY <1>2, SureAsk, SafeAsk, SafeFail, SureFail DEF Whatever
<1> HIDE DEF report
<1> QED
  BY <1>1, <1>2, <1>3, <1>4, SureAsk, SurePass

\* The TPM devices: one that is found is valid, so that even a lost answer,
\* which hides one of two, leaves what is described; the other has to be valid
\* too.
LEMMA TpmSure ==
  ASSUME NEW h \in Hosts("tpm")
  PROVE  Sure(Run("tpm", h), "tpm", h)
<1> DEFINE c == "tpm"
           RM(b) == IF b THEN Require(h.validRM, Pass) ELSE Pass
           Verdict(a, b) == IF ~a /\ ~b THEN Fail
                            ELSE IF a THEN Require(h.valid0, RM(b)) ELSE RM(b)
           Second(a) == Ask(h.tpmRM, Verdict(a, TRUE), Verdict(a, FALSE), Verdict(a, FALSE))
<1>1. /\ h.driver \in BOOLEAN /\ h.v2 \in BOOLEAN /\ h.tpm0 \in BOOLEAN /\ h.tpmRM \in BOOLEAN
      /\ h.valid0 \in BOOLEAN /\ h.validRM \in BOOLEAN /\ (h.tpmRM => h.v2)
  OBVIOUS
<1>2. Run(c, h) = Require(h.driver, Ask(h.tpm0, Second(TRUE), Second(FALSE), Second(FALSE)))
  BY DEF TpmDeviceCheck, VerifyTpmPermissions
<1>3. Due(c, h) <=> /\ h.driver /\ (h.tpm0 \/ h.tpmRM)
                    /\ (h.tpm0 => h.valid0) /\ (h.tpmRM => h.validRM)
  BY <1>1
<1>4. h.driver /\ ((h.tpm0 /\ h.valid0) \/ (h.tpmRM /\ h.validRM)) => Earned(c, h)
  BY <1>1 DEF Earned
<1> HIDE DEF Run, Due
<1>5. ASSUME NEW a \in BOOLEAN, NEW b \in BOOLEAN, h.driver, a => h.tpm0, b => h.tpmRM
      PROVE  Safe(Verdict(a, b), c, h)
  BY <1>1, <1>4, <1>5, RequireSafe, SafePass, SafeFail
<1>6. ASSUME NEW a \in BOOLEAN, h.driver, a => h.tpm0
      PROVE  Safe(Second(a), c, h)
  BY <1>1, <1>5, <1>6, SafeAsk
<1>7. h.driver => Sure(Verdict(h.tpm0, h.tpmRM), c, h)
  BY <1>1, <1>3, RequireSure, SurePass, SureFail
<1>8. h.driver => Sure(Second(h.tpm0), c, h)
  BY <1>1, <1>5, <1>7, SureAsk
<1>9. h.driver => Sure(Ask(h.tpm0, Second(TRUE), Second(FALSE), Second(FALSE)), c, h)
  BY <1>1, <1>6, <1>8, SureAsk
<1> QED
  BY <1>1, <1>2, <1>3, <1>9, RequireSure

(* accelerator; the example *)

\* The five checks of TPU: an error of the PCI query fails them and no TPU
\* passes them; each then asks for what it describes. First, that the driver
\* is bound.
LEMMA TpuBindingSure ==
  ASSUME NEW h \in Hosts("tpuBinding")
  PROVE  Sure(Run("tpuBinding", h), "tpuBinding", h)
<1> DEFINE c == "tpuBinding"
           q == h.tpu /\ h.attributes
           rest == Require(h.bound, Pass)
<1>1. Run(c, h) = Ask(q, rest, Pass, Fail)
  BY DEF VfioPciBindingCheck, HasGoogleTPUV7x, GetPCIDevices
<1>2. q \in BOOLEAN /\ (h.bound) \in BOOLEAN
  OBVIOUS
<1>3. (~q => Due(c, h)) /\ (q => ((h.bound) <=> Due(c, h)))
  OBVIOUS
<1> HIDE DEF Run, Due
<1>4. q => Sure(rest, c, h)
  BY <1>2, <1>3, RequirePass
<1> HIDE DEF q, rest
<1> QED
  BY <1>1, <1>2, <1>3, <1>4, SureAsk, SurePass, SafeFail

\* That the module is loaded, and the device there with its mode and, on
\* x86, interrupts.
LEMMA TpuSetupSure ==
  ASSUME NEW h \in Hosts("tpuSetup")
  PROVE  Sure(Run("tpuSetup", h), "tpuSetup", h)
<1> DEFINE c == "tpuSetup"
           q == h.tpu /\ h.attributes
           fact == h.loaded /\ h.charDevice /\ h.mode666 /\ (h.x86 => h.interrupts)
           rest == Require(fact, Pass)
<1>1. Run(c, h) = Ask(q, rest, Pass, Fail)
  BY DEF VfioDeviceSetupCheck, HasGoogleTPUV7x, GetPCIDevices
<1>2. q \in BOOLEAN /\ fact \in BOOLEAN
  OBVIOUS
<1>3. (~q => Due(c, h)) /\ (q => (fact <=> Due(c, h)))
  OBVIOUS
<1> HIDE DEF Run, Due, fact
<1>4. q => Sure(rest, c, h)
  BY <1>2, <1>3, RequirePass
<1> HIDE DEF q, rest
<1> QED
  BY <1>1, <1>2, <1>3, <1>4, SureAsk, SurePass, SafeFail

\* That a rule of udev reads as expected, which is not what it grants.
LEMMA TpuRuleSure ==
  ASSUME NEW h \in Hosts("tpuRule")
  PROVE  Sure(Run("tpuRule", h), "tpuRule", h)
<1> DEFINE c == "tpuRule"
           q == h.tpu /\ h.attributes
           rest == Require(h.line, Pass)
<1>1. Run(c, h) = Ask(q, rest, Pass, Fail)
  BY DEF DevicePermissionsRuleCheck, HasGoogleTPUV7x, GetPCIDevices
<1>2. q \in BOOLEAN /\ (h.line) \in BOOLEAN
  OBVIOUS
<1>3. (~q => Due(c, h)) /\ (q => ((h.line) <=> Due(c, h)))
  OBVIOUS
<1> HIDE DEF Run, Due
<1>4. q => Sure(rest, c, h)
  BY <1>2, <1>3, RequirePass
<1> HIDE DEF q, rest
<1> QED
  BY <1>1, <1>2, <1>3, <1>4, SureAsk, SurePass, SafeFail

\* That both limits are in the configuration of PAM, or both in that of
\* systemd, where COS needs one only; an answer that is lost never joins
\* half of the one to half of the other.
LEMMA TpuLimitsSure ==
  ASSUME NEW h \in Hosts("tpuLimits")
  PROVE  Sure(Run("tpuLimits", h), "tpuLimits", h)
<1> DEFINE c == "tpuLimits"
           q == h.tpu /\ h.attributes
           PAM == h.pamMemlock /\ h.pamNofile
           Limits(isCOS) == (isCOS \/ h.memlock) /\ h.nofile
           Systemd(isCOS) == Suffices(Limits(isCOS), Fail)
           systemd == Ask(h.cos, Systemd(TRUE), Systemd(FALSE), Systemd(FALSE))
           pam == Ask(h.pamMemlock, Suffices(h.pamNofile, systemd), systemd, systemd)
<1>1. /\ h.tpu \in BOOLEAN /\ h.attributes \in BOOLEAN /\ h.cos \in BOOLEAN
      /\ h.pamMemlock \in BOOLEAN /\ h.pamNofile \in BOOLEAN
      /\ h.memlock \in BOOLEAN /\ h.nofile \in BOOLEAN
  OBVIOUS
<1>2. Run(c, h) = Ask(q, pam, Pass, Fail)
  BY DEF ResourceLimitsCheck, HasGoogleTPUV7x, GetPCIDevices, ParseSystemdLimits
<1>3. (~q => Due(c, h)) /\ (q => (Due(c, h) <=> PAM \/ Limits(h.cos)))
  BY <1>1
<1>4. PAM \/ Limits(h.cos) \/ Limits(FALSE) => Earned(c, h)
  BY <1>1 DEF Earned
<1> HIDE DEF Run, Due
<1>5. Safe(systemd, c, h)
  BY <1>1, <1>4, SafeAsk, SufficesSafe, SafeFail
<1>6. q /\ ~PAM => Sure(systemd, c, h)
  BY <1>1, <1>3, <1>4, SureAsk, SufficesSure, SufficesSafe, SureFail, SafeFail
<1>7. q => Sure(pam, c, h)
  BY <1>1, <1>3, <1>5, <1>6, SureAsk, SufficesSure
<1> QED
  BY <1>1, <1>2, <1>3, <1>7, SureAsk, SurePass, SafeFail

\* That the command line of the kernel has what is described; a lost os-
\* release is taken for a system with more requirements, never fewer.
LEMMA TpuCmdlineSure ==
  ASSUME NEW h \in Hosts("tpuCmdline")
  PROVE  Sure(Run("tpuCmdline", h), "tpuCmdline", h)
<1> DEFINE c == "tpuCmdline"
           q == h.tpu /\ h.attributes
           Huge(isCOS) == h.thp = "always" \/ (isCOS /\ h.thp = "madvise")
           Idle(isCOS) == IF ~isCOS /\ ~h.idlePoll THEN Fail ELSE Pass
           Hugepages(isCOS) == IF h.thpCmdline THEN Idle(isCOS)
                               ELSE Require(Huge(isCOS), Idle(isCOS))
           Through(isCOS) == IF ~isCOS /\ ~h.passthrough THEN Fail ELSE Hugepages(isCOS)
           cos == Ask(h.cos, Through(TRUE), Through(FALSE), Through(FALSE))
           Rest(isCOS) == /\ h.thpCmdline \/ Huge(isCOS)
                          /\ isCOS \/ (h.passthrough /\ h.idlePoll)
<1>1. /\ h.tpu \in BOOLEAN /\ h.attributes \in BOOLEAN /\ h.cos \in BOOLEAN
      /\ h.iommu \in BOOLEAN /\ h.passthrough \in BOOLEAN /\ h.thpCmdline \in BOOLEAN
      /\ h.idlePoll \in BOOLEAN
  OBVIOUS
<1>2. Run(c, h) = Ask(q, Require(h.iommu, cos), Pass, Fail)
  BY DEF KernelCmdlineCheck, HasGoogleTPUV7x, GetPCIDevices
<1>3. (~q => Due(c, h)) /\ (q => (Due(c, h) <=> h.iommu /\ Rest(h.cos)))
  BY <1>1
<1>4. h.iommu /\ (Rest(h.cos) \/ Rest(FALSE)) => Earned(c, h)
  BY <1>1 DEF Earned
<1> HIDE DEF Run, Due
<1>5. ASSUME NEW b \in {h.cos, FALSE}, h.iommu
      PROVE  Safe(Through(b), c, h)
  BY <1>1, <1>4, <1>5, RequireSafe, SafePass, SafeFail
<1>6. q /\ h.iommu => Sure(Through(h.cos), c, h)
  BY <1>1, <1>3, RequireSure, SurePass, SureFail
<1>7. q /\ h.iommu => Sure(cos, c, h)
  BY <1>1, <1>5, <1>6, SureAsk
<1>8. q => Sure(Require(h.iommu, cos), c, h)
  BY <1>1, <1>3, <1>7, RequireSure
<1> QED
  BY <1>1, <1>2, <1>3, <1>8, SureAsk, SurePass, SafeFail

\* A sysctl that root can write, by the login or with sudo, in one command.
LEMMA SysctlFileSure ==
  ASSUME NEW h \in Hosts("sysctlFile")
  PROVE  Sure(Run("sysctlFile", h), "sysctlFile", h)
<1> DEFINE q == h.loginWritable \/ h.rootWritable
<1>1. Run("sysctlFile", h) = Require(q, Pass)
  BY DEF SysctlNetworkingCheck
<1>2. q \in BOOLEAN /\ (q <=> Due("sysctlFile", h))
  OBVIOUS
<1> HIDE DEF q, Run, Due
<1> QED
  BY <1>1, <1>2, RequirePass

\* Four tools, all of them, in the path.
LEMMA BinariesSure ==
  ASSUME NEW h \in Hosts("binaries")
  PROVE  Sure(Run("binaries", h), "binaries", h)
<1> DEFINE c == "binaries"
<1>1. /\ \A b \in Binaries : h[b] \in {"inPath", "installed", "absent"}
      /\ Binaries = {"ethtool", "ip", "sysctl", "lspci"}
  BY DEF Binaries
<1>2. Run(c, h) = Require(h.ethtool = "inPath", Require(h.ip = "inPath",
                    Require(h.sysctl = "inPath", Require(h.lspci = "inPath", Pass))))
  BY DEF RequiredBinariesCheck
<1>3. Due(c, h) <=> \A b \in Binaries : h[b] = "inPath"
  BY <1>1
<1>4. Due(c, h) <=> /\ h.ethtool = "inPath" /\ h.ip = "inPath"
                    /\ h.sysctl = "inPath" /\ h.lspci = "inPath"
  BY <1>1, <1>3
<1>5. /\ (h.ethtool = "inPath") \in BOOLEAN /\ (h.ip = "inPath") \in BOOLEAN
      /\ (h.sysctl = "inPath") \in BOOLEAN /\ (h.lspci = "inPath") \in BOOLEAN
  OBVIOUS
<1> HIDE DEF Run, Due
<1> DEFINE q == h.ethtool = "inPath"
           rest == Require(h.ip = "inPath", Require(h.sysctl = "inPath",
                     Require(h.lspci = "inPath", Pass)))
<1>6. q => Sure(rest, c, h)
  BY <1>4, <1>5, RequireThree
<1>7. Run(c, h) = Require(q, rest) /\ q \in BOOLEAN /\ (~q => ~Due(c, h))
  BY <1>2, <1>4, <1>5
<1> HIDE DEF q, rest
<1> QED
  BY <1>6, <1>7, RequireSure

\* The absence of agents: one trace of seven is a failure in whichever order
\* it is found; a lost answer, and an agent elsewhere, counts as none.
LEMMA VbarSure ==
  ASSUME NEW h \in Hosts("vbar")
  PROVE  Sure(Run("vbar", h), "vbar", h)
<1> DEFINE c == "vbar"
           Verdict(f) == IF f THEN Fail ELSE Pass
           Control(f) == Ask(h.controlAgent, Fail, Verdict(f), Verdict(f))
           TBinary(f) == Ask(h.telemetryBinary, Control(TRUE), Control(f), Control(f))
           TUnit(f) == Ask(h.telemetryUnit, Control(TRUE), TBinary(f), TBinary(f))
           TSnap(f) == Ask(h.telemetrySnap, Control(TRUE), TUnit(f), TUnit(f))
           VBinary == Ask(h.vbarBinary, TSnap(TRUE), TSnap(FALSE), TSnap(FALSE))
           VUnit == Ask(h.vbarUnit, TSnap(TRUE), VBinary, VBinary)
           VSnap == Ask(h.vbarSnap, TSnap(TRUE), VUnit, VUnit)
           Telemetry == h.telemetrySnap \/ h.telemetryUnit \/ h.telemetryBinary
           Vbar == h.vbarSnap \/ h.vbarUnit \/ h.vbarBinary
<1>1. /\ h.vbarSnap \in BOOLEAN /\ h.vbarUnit \in BOOLEAN /\ h.vbarBinary \in BOOLEAN
      /\ h.telemetrySnap \in BOOLEAN /\ h.telemetryUnit \in BOOLEAN
      /\ h.telemetryBinary \in BOOLEAN /\ h.controlAgent \in BOOLEAN
  OBVIOUS
<1>2. Run(c, h) = VSnap
  BY DEF AbsentVbarAgentCheck
<1>3. c \in FailsOpen
  BY DEF FailsOpen
<1>4. Due(c, h) <=> ~Vbar /\ ~Telemetry /\ ~h.controlAgent
  <2>1. DOMAIN h = {"vbarSnap", "vbarUnit", "vbarBinary", "telemetrySnap", "telemetryUnit",
                    "telemetryBinary", "controlAgent", "elsewhere"}
    OBVIOUS
  <2>2. Described(c, h) <=> ~Vbar /\ ~Telemetry /\ ~h.controlAgent /\ ~h.elsewhere
    BY <2>1 DEF AnyOf
  <2>3. Overlooks(c, h) <=> ~Described(c, h) /\ \A f \in DOMAIN h \ {"elsewhere"} : ~h[f]
    OBVIOUS
  <2>4. (\A f \in DOMAIN h \ {"elsewhere"} : ~h[f]) <=> ~Vbar /\ ~Telemetry /\ ~h.controlAgent
    BY <2>1
  <2>5. ~Rejects(c, h)
    OBVIOUS
  <2> HIDE DEF Described, Overlooks, Rejects
  <2> QED
    BY <2>2, <2>3, <2>4, <2>5
<1>5. Vbar \/ Telemetry \/ h.controlAgent => ~Due(c, h)
  BY <1>4
<1>6. ~Vbar /\ ~Telemetry /\ ~h.controlAgent => Due(c, h)
  BY <1>4
<1> HIDE DEF Run, Due, Vbar, Telemetry
<1>7. \A f \in BOOLEAN : Safe(Control(f), c, h)
  BY <1>1, <1>3, SafeAsk, SafePass, SafeFail
<1>8. \A f \in BOOLEAN : Safe(TBinary(f), c, h)
  BY <1>1, <1>7, SafeAsk
<1>9. \A f \in BOOLEAN : Safe(TUnit(f), c, h)
  BY <1>1, <1>7, <1>8, SafeAsk
<1>10. \A f \in BOOLEAN : Safe(TSnap(f), c, h)
  BY <1>1, <1>7, <1>9, SafeAsk
<1>11. Safe(VBinary, c, h) /\ Safe(VUnit, c, h)
  <2>1. Safe(TSnap(TRUE), c, h) /\ Safe(TSnap(FALSE), c, h)
    BY <1>10
  <2>2. Safe(VBinary, c, h)
    BY <1>1, <2>1, SafeAsk
  <2> QED
    BY <1>1, <2>1, <2>2, SafeAsk
<1>12. ASSUME NEW f \in BOOLEAN, f <=> Vbar \/ Telemetry
       PROVE  Sure(Control(f), c, h)
  <2>1. Safe(Verdict(f), c, h)
    BY <1>3, SafePass, SafeFail
  <2>2. ~h.controlAgent => Sure(Verdict(f), c, h)
    BY <1>5, <1>6, <1>12, SurePass, SureFail
  <2>3. h.controlAgent => Sure(Fail, c, h)
    BY <1>5, SureFail
  <2> QED
    BY <1>1, <2>1, <2>2, <2>3, SureAsk
<1>13. ASSUME NEW f \in BOOLEAN, f <=> Vbar
       PROVE  Sure(TSnap(f), c, h)
  <2>1. Telemetry => Sure(Control(TRUE), c, h)
    BY <1>12
  <2>2. ~Telemetry => Sure(Control(f), c, h)
    BY <1>12, <1>13
  <2>3. ~h.telemetrySnap /\ ~h.telemetryUnit => Sure(TBinary(f), c, h)
    BY <1>1, <1>7, <2>1, <2>2, SureAsk DEF Telemetry
  <2>4. ~h.telemetrySnap => Sure(TUnit(f), c, h)
    BY <1>1, <1>8, <2>1, <2>3, SureAsk DEF Telemetry
  <2> QED
    BY <1>1, <1>9, <2>1, <2>4, SureAsk DEF Telemetry
<1>14. Vbar => Sure(TSnap(TRUE), c, h)
  BY <1>13
<1>15. ~Vbar => Sure(TSnap(FALSE), c, h)
  BY <1>13
<1>16. ~h.vbarSnap /\ ~h.vbarUnit => Sure(VBinary, c, h)
  BY <1>1, <1>10, <1>14, <1>15, SureAsk DEF Vbar
<1>17. ~h.vbarSnap => Sure(VUnit, c, h)
  BY <1>1, <1>11, <1>14, <1>16, SureAsk DEF Vbar
<1> QED
  BY <1>1, <1>2, <1>11, <1>14, <1>17, SureAsk DEF Vbar

\* Docker: in the path, executable at its place and its service there.
LEMMA DockerSure ==
  ASSUME NEW h \in Hosts("docker")
  PROVE  Sure(Run("docker", h), "docker", h)
<1>1. Run("docker", h) = Require(h.inPath, Require(h.executable, Require(h.service, Pass)))
  BY DEF DockerExistsCheck
<1>2. /\ h.inPath \in BOOLEAN /\ h.executable \in BOOLEAN
      /\ h.service \in BOOLEAN
  OBVIOUS
<1>3. h.inPath /\ h.executable /\ h.service <=> Due("docker", h)
  OBVIOUS
<1> HIDE DEF Run, Due
<1> QED
  BY <1>1, <1>2, <1>3, RequireThree

HIDE DEF Hosts, Run, Described, Overlooks, Rejects, Due, Facts, Kernel, Permission, TPU

\* Every check is right on every host: the lemmas above are all the cases
\* there are.
LEMMA EveryCheckSure ==
  ASSUME NEW c \in AllChecks, NEW h \in Hosts(c)
  PROVE  Sure(Run(c, h), c, h)
BY HoldsSure, PathSure, VarRunSure, MdsTpmSure, MdsEfiSure, KernelNamedSure,
   KernelUnnamedSure, ForeignRulesSure, MountSure, NetPermissionSure,
   PortSure, ContainerdSure, GlibcSure, KernelVersionSure, AgentActiveSure,
   AgentLoadedSure, UefiFeatureSure, OsFeatureSure, ModuleSure,
   ModuleAbsentSure, UtilitySure, NodePermissionSure, ReadabilitySure,
   VarLogSure, MetricsSure, LoopbackSure, JournalDirSure, LogDirSure,
   PosFilesSure, RuntimeDirSure, BundleSure, ResolvConfSure,
   JournalStorageSure, TimeSyncSure, WatchesSure, PortStartSure, MemcgSure,
   BootstrapSure, LinkerSure, LsmSure, TpmSure, TpuBindingSure,
   TpuSetupSure, TpuRuleSure, TpuLimitsSure, TpuCmdlineSure, SysctlFileSure,
   BinariesSure, VbarSure, DockerSure
   DEF AllChecks, Holds, Kernel, Permission, TPU

----------------------------------------------------------------------------
(* The execution of one check. *)

\* What can follow is safe, and sure as long as every answer has come.
IInv ==
  /\ check \in AllChecks /\ host \in Hosts(check) /\ lost \in BOOLEAN
  /\ Safe(at, check, host) \/ ~lost
  /\ Sure(at, check, host) \/ lost

\* No host is both an exception that passes and one that fails.
LEMMA ExceptionsDisjoint ==
  ASSUME NEW c, NEW h
  PROVE  Overlooks(c, h) => ~Rejects(c, h)
<1> HIDE DEF Described
<1> QED
  BY Zenon DEF Overlooks, Rejects

\* What follows a safe node is safe.
LEMMA SafeFollows ==
  ASSUME NEW n, NEW c, NEW h, n \notin {Pass, Fail}, Safe(n, c, h)
  PROVE  Safe(Answer(n), c, h) /\ Safe(n.lost, c, h)
BY DEF Safe, SafeSet

\* What follows a sure node is sure, or safe once the answer is lost.
LEMMA SureFollows ==
  ASSUME NEW n, NEW c, NEW h, n \notin {Pass, Fail}, Sure(n, c, h)
  PROVE  Sure(Answer(n), c, h) /\ Safe(n.lost, c, h)
BY DEF Sure, SureSet

\* The invariant holds at every command of every check.
THEOREM Invariant == Spec => []IInv
<1>1. Init => IInv
  BY EveryCheckSure, ChecksAssumption DEF Init, IInv
<1>2. IInv /\ [Next]_vars => IInv'
  <2> SUFFICES ASSUME IInv, [Next]_vars PROVE IInv'
    OBVIOUS
  <2>1. CASE Answered
    <3>1. at' = Answer(at) /\ at \notin {Pass, Fail} /\ UNCHANGED <<check, host, lost>>
      BY <2>1 DEF Answered, Answer, Over
    <3> QED
      BY <3>1, SafeFollows, SureFollows DEF IInv
  <2>2. CASE Lose
    <3>1. at' = at.lost /\ at \notin {Pass, Fail} /\ lost' = TRUE /\ UNCHANGED <<check, host>>
      BY <2>2 DEF Lose, Over
    <3> QED
      BY <3>1, SafeFollows, SureFollows DEF IInv
  <2>3. CASE UNCHANGED vars
    BY <2>3 DEF vars, IInv
  <2> QED
    BY <2>1, <2>2, <2>3 DEF Next, Ended
<1> QED
  BY <1>1, <1>2, PTL DEF Spec

\* On every host a check passes only if the host is as described or is one it
\* overlooks, whichever answers were lost, but for the checks that fail open;
\* and answered it passes none that it rejects.
THEOREM PassesAreEarned == Spec => []PassIsEarned
<1>1. ASSUME IInv PROVE PassIsEarned
  <2>1. ASSUME at = Pass, lost PROVE Earned(check, host) \/ check \in FailsOpen
    BY <1>1, <2>1, Verdicts DEF IInv, Safe, SafeSet
  <2>2. ASSUME at = Pass, ~lost PROVE Due(check, host)
    BY <1>1, <2>2, Verdicts DEF IInv, Sure, SureSet
  <2>3. Overlooks(check, host) => ~Rejects(check, host)
    BY ExceptionsDisjoint
  <2> QED
    BY <2>1, <2>2, <2>3 DEF PassIsEarned, Earned, Due
<1> QED
  BY Invariant, <1>1, PTL

\* On every host a check all of whose commands were answered fails only if the
\* host is not as described or is one it rejects, and none that it overlooks.
THEOREM FailuresAreEarned == Spec => []FailureIsEarned
<1>1. ASSUME IInv PROVE FailureIsEarned
  <2>1. ASSUME at = Fail, ~lost PROVE ~Due(check, host)
    BY <1>1, <2>1, Verdicts DEF IInv, Sure, SureSet
  <2> QED
    BY <2>1 DEF FailureIsEarned, Due
<1> QED
  BY Invariant, <1>1, PTL

\* The checks without exception: they overlook no host, and no lost answer
\* passes one.
Sound == Holds \cup
  {"path", "varRun", "kernelNamed", "mount", "netPermission", "containerd", "glibc", "agentActive",
   "agentLoaded", "uefiFeature", "module", "utility", "readability", "resolvConf", "watches",
   "portStart", "bootstrap", "sysctlFile", "binaries", "docker"}

\* A pass of one of these means that the host is as described, on every host
\* and whichever answers were lost.
THEOREM SoundPasses == Spec => [](check \in Sound /\ at = Pass => Described(check, host))
<1>1. ASSUME check \in Sound
      PROVE  ~Overlooks(check, host) /\ check \notin FailsOpen
  <2> HIDE DEF Described
  <2> QED
    BY <1>1 DEF Sound, Holds, Overlooks, FailsOpen
<1>2. PassIsEarned => (check \in Sound /\ at = Pass => Described(check, host))
  BY <1>1 DEF PassIsEarned
<1> QED
  BY PassesAreEarned, <1>2, PTL
=============================================================================

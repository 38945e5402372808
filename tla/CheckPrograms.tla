--------------------------- MODULE CheckPrograms ---------------------------
(***************************************************************************)
(* What Run of each non-destructive check does: a tree of remote commands. *)
(* A node is one call of the SSH runner.  Its command comes out yes or no, *)
(* which the state h of the host decides, or its answer is lost: the       *)
(* session was refused, the connection broke, the command never started.   *)
(* The runner returns an error for no and for lost alike, so the code can  *)
(* tell the two apart only where it reads the output.                      *)
(*                                                                         *)
(* `A || B` of a remote shell is A \/ B, and the loops over a table of     *)
(* paths, ports or symbols are one check for each kind of entry.           *)
(***************************************************************************)
EXTENDS Integers, Sequences, Permissions

Pass == [verdict |-> "pass"]
Fail == [verdict |-> "fail"]

Ask(truth, yes, no, lost) == [truth |-> truth, yes |-> yes, no |-> no, lost |-> lost]

\* The four ways in which the checks use an error.
Require(truth, rest) == Ask(truth, rest, Fail, Fail)   \* if err != nil { return err }
Suffices(truth, rest) == Ask(truth, Pass, rest, rest)  \* if err == nil { return nil }
Forbid(truth, rest) == Ask(truth, Fail, rest, rest)    \* if err == nil { return an error }
OnlyIf(truth, rest) == Ask(truth, rest, Pass, Pass)    \* if err != nil { return nil }

----------------------------------------------------------------------------
(* checklib, gke-metadata-server *)

\* `ls` of what is there also fails where it may not be listed.
PathExistenceCheck(h) == Require(h.exists /\ h.listable, Pass)

VerifyVarRun(h) == Require(h.dir, Require(h.findmnt /\ h.rw, Pass))

VerifyTPMDevice(h) == OnlyIf(h.enabled, Require(h.device, Require(h.ownerRW, Pass)))

VerifyEFIVars(h) ==
  OnlyIf(h.uefi, Require(h.dir, Require(h.readable, Require(h.efivarfs, Pass))))

----------------------------------------------------------------------------
(* networking *)

\* The state machine of VerifyKernelFeature; `named` is moduleName # "".  With
\* no sysctl at hand the shell evaluates `test != 1`, or `test = 1`, an error;
\* without a configuration to read (`audit`) there is nothing to match.
RAMAndDynamicLoad(h, named) ==
  IF named THEN Require(h.inRAM \/ (h.sysctl /\ ~h.disabled), Pass)
           ELSE Forbid(h.sysctl /\ h.disabled, Pass)

KconfigAudit(h, named) ==
  Require(h.audit /\ h.kconfig # "n", IF h.kconfig = "y" THEN Pass ELSE RAMAndDynamicLoad(h, named))

ModinfoFastPath(h, named) ==
  IF ~named THEN KconfigAudit(h, named)
  ELSE Ask(h.modinfo # "none",
           IF h.modinfo = "builtin" THEN Pass ELSE RAMAndDynamicLoad(h, named),
           KconfigAudit(h, named), KconfigAudit(h, named))

\* The two kinds of symbols in CiliumKernelFeatures: with a module name, and without.
CiliumKernelFeatures == {TRUE, FALSE}

\* A probe whose command must succeed, or a sysctl with one of the allowed values.
NetworkStackCheck(truth) == Require(truth, Pass)

\* The probe of systemd-networkd, the one that is not a single command.
ForeignRules(h) == ~h.active \/ ~(h.shows /\ h.manages)

VirtualMountCheck(h) == Require(h.dir, Require(h.type, Require(h.writable, Pass)))

\* Both permission checks look at the path and, if the entry is one with
\* targetPermissions, at what the link points to; networking compares for equality.
NetPathPermissionCheck(h, expected, target) ==
  Require(h.mode = expected,
          IF h.linked THEN Require(h.target = target, Pass) ELSE Pass)

\* ss, or netstat where there is no ss; the output is a list of listeners.
PortCollisionCheck(h) == Forbid(h.use = "listening" /\ (h.ss \/ h.netstat), Pass)

----------------------------------------------------------------------------
(* node *)

CgroupV2Check(h) == Require(h.holds, Pass)

ContainerdExistsCheck(h) == Require(h.inPath, Require(h.executable, Require(h.active, Pass)))

BadGlibcCheck(h) == Require(h.parses /\ h.major >= 2 /\ h.minor >= 35, Pass)

GlibcCheck(h) ==
  Require(h.parses /\ ~(h.major < 2 \/ (h.major = 2 /\ h.minor < 35)), Pass)

GuestAgentServiceCheck(h, expectActive) ==
  Require(h.loaded, IF expectActive THEN Require(h.active, Pass) ELSE Pass)

\* The command of a feature; for a driver it is modinfo or else the configuration.
GuestOSFeatureCheck(truth) == Require(truth, Pass)
DriverFound(h) == \/ h.modinfo /\ h.driver = "there"
                  \/ (h.bootConfig \/ h.procConfig) /\ h.driver # "none"

KernelModuleCheck(h, shouldExist) ==
  IF shouldExist THEN Require(h.modinfo /\ h.module, Pass)
                 ELSE Forbid(h.modinfo /\ h.module, Pass)

KernelVersionCheck(h) ==
  Require(h.parses /\ ~(h.major < 6 \/ (h.major = 6 /\ h.minor < 8)), Pass)

NpdPathCheck(h) == Require(h.holds, Pass)
NpdServiceCheck(h) == Require(h.holds, Pass)
SocketExistsCheck(h) == Require(h.holds, Pass)
UtilityCheck(h) == Require(h.inPath, Pass)

\* node asks for at least the expected permissions.
PathPermissionCheck(h, expected, target) ==
  Require(IsPermissiveSuperset(h.mode, expected),
          IF h.linked THEN Require(IsPermissiveSuperset(h.target, target), Pass) ELSE Pass)

FileReadabilityCheck(h) == Require(h.readable /\ ~h.empty, Pass)

----------------------------------------------------------------------------
(* observability *)

ContainerdMetrics(h) ==
  Suffices(h.lister /\ (h.exposed \/ h.other),
    Suffices(h.configured, Suffices(h.etcContainerd \/ h.etc, Fail)))

\* The alternation of the pattern leaves the address to its second branch only,
\* which looks at the first address and for its first letters.
NetworkLoopbackUp(h) ==
  Require(h.ip /\ (h.state = "UNKNOWN" \/ (h.state = "UP" /\ h.address \in {"first", "similar"})),
          Pass)

VerifyPathPermissions(h, expected) == Require(IsPermissiveSuperset(h.mode, expected), Pass)

JournalDir(h) == Require(h.dir, Pass)
LogDir(h) == Require(h.dir \/ h.parent, Pass)

VerifyDirWritable(h) == Require(h.dir \/ h.parent \/ h.grandparent, Pass)

VerifyConcreteFile(h, rest) == Require(h.resolves /\ ~h.empty, rest)
ResolvConf(h) == VerifyConcreteFile(h, Require(h.regular /\ h.readable /\ h.nameserver, Pass))

JournaldActive(h) == Require(h.holds, Pass)
JournaldPersistentStorage(h) == Require(h.dir, Require(h.files /\ h.readable, Pass))

\* Five names of a service in the order of the code, then timedatectl.
TimeSynchronization(h) ==
  Suffices(h.timesyncd, Suffices(h.chrony, Suffices(h.chronyd,
    Suffices(h.ntp, Suffices(h.ntpd, Suffices(h.synchronized, Fail))))))

\* readSysctl and ParseInt: an answer that is not a number is an error.
ReadSysctl(h, acceptable) == Require(h.parses /\ acceptable, Pass)
MaxUserWatches(h) == ReadSysctl(h, ~(h.value <= 0))
UnprivilegedPortStart(h) == ReadSysctl(h, ~(h.value > 2021))

KernelConfigMemcg(h) ==
  Suffices(h.procCgroups /\ h.memcg,
    Suffices(h.controllers /\ h.memcg /\ ~h.disabled, Suffices(h.kconfig /\ h.memcg, Fail)))

----------------------------------------------------------------------------
(* security *)

\* `grep -qw ro` also matches the option errors=remount-ro; with no findmnt
\* there is nothing to match.
BootstrapDirectoryCheck(h) ==
  Require(h.writable /\ ~(h.findmnt /\ (h.readOnly \/ h.remountRO)), Pass)

DynamicBinaryExecutionCheck(h) == Require(h.lib64 \/ h.libGnu \/ h.lib, Pass)

\* A failed access is followed by three commands for the report, whatever they answer.
Whatever(rest) == Ask(TRUE, rest, rest, rest)
LoginMay(h) == IF h.present THEN h.login ELSE h.parent
LsmPathAccessCheck(h) ==
  LET Report == Whatever(Whatever(Whatever(Fail)))
  IN  Ask(LoginMay(h), Pass, Report, Report)

VerifyTpmPermissions(valid, rest) == Require(valid, rest)

\* Both devices are looked for before the permissions of either are.
TpmDeviceCheck(h) ==
  LET AfterTpm0(found0, foundRM) ==
        LET RM == IF foundRM THEN VerifyTpmPermissions(h.validRM, Pass) ELSE Pass
        IN  IF ~found0 /\ ~foundRM THEN Fail
            ELSE IF found0 THEN VerifyTpmPermissions(h.valid0, RM) ELSE RM
      TpmRM(found0) == Ask(h.tpmRM, AfterTpm0(found0, TRUE),
                           AfterTpm0(found0, FALSE), AfterTpm0(found0, FALSE))
  IN  Require(h.driver, Ask(h.tpm0, TpmRM(TRUE), TpmRM(FALSE), TpmRM(FALSE)))

----------------------------------------------------------------------------
(* accelerator *)

\* GetPCIDevices drops a line that lacks one of the four fields.
GetPCIDevices(h) == h.tpu /\ h.attributes

BadHasGoogleTPUV7x(h, rest) == Ask(GetPCIDevices(h), rest, Pass, Pass)

\* HasGoogleTPUV7x as the five checks use it: an error fails the check, no
\* device passes it.
HasGoogleTPUV7x(h, rest) == Ask(GetPCIDevices(h), rest, Pass, Fail)

VfioPciBindingCheck(h) == HasGoogleTPUV7x(h, Require(h.bound, Pass))

VfioDeviceSetupCheck(h) ==
  HasGoogleTPUV7x(h, Require(h.loaded /\ h.charDevice /\ h.mode666 /\ (h.x86 => h.interrupts), Pass))

DevicePermissionsRuleCheck(h) == HasGoogleTPUV7x(h, Require(h.line, Pass))

ParseSystemdLimits(h, isCOS) == (isCOS \/ h.memlock) /\ h.nofile

\* An os-release that cannot be read means that the host is not COS.
ResourceLimitsCheck(h) ==
  LET Systemd(isCOS) == Suffices(ParseSystemdLimits(h, isCOS), Fail)
      NotPAM == Ask(h.cos, Systemd(TRUE), Systemd(FALSE), Systemd(FALSE))
  IN  HasGoogleTPUV7x(h, Ask(h.pamMemlock, Suffices(h.pamNofile, NotPAM), NotPAM, NotPAM))

KernelCmdlineCheck(h) ==
  LET IdlePoll(isCOS) == IF ~isCOS /\ ~h.idlePoll THEN Fail ELSE Pass
      Hugepages(isCOS) ==
        IF h.thpCmdline THEN IdlePoll(isCOS)
        ELSE Require(h.thp = "always" \/ (isCOS /\ h.thp = "madvise"), IdlePoll(isCOS))
      Passthrough(isCOS) == IF ~isCOS /\ ~h.passthrough THEN Fail ELSE Hugepages(isCOS)
  IN  HasGoogleTPUV7x(h, Require(h.iommu,
        Ask(h.cos, Passthrough(TRUE), Passthrough(FALSE), Passthrough(FALSE))))

SysctlNetworkingCheck(h) == Require(h.loginWritable \/ h.rootWritable, Pass)

RequiredBinariesCheck(h) ==
  LET Binary(b, rest) == Require(h[b] = "inPath", rest)
  IN  Binary("ethtool", Binary("ip", Binary("sysctl", Binary("lspci", Pass))))

\* The first trace of an agent settles that agent; the others are looked for
\* all the same, and the verdict comes at the end.
AbsentVbarAgentCheck(h) ==
  LET ControlAgent(found) == LET Verdict == IF found THEN Fail ELSE Pass
                             IN  Ask(h.controlAgent, Fail, Verdict, Verdict)
      Agent(snap, unit, binary, found, Rest(_)) ==
        LET Binary == Ask(binary, Rest(TRUE), Rest(found), Rest(found))
            Unit == Ask(unit, Rest(TRUE), Binary, Binary)
        IN  Ask(snap, Rest(TRUE), Unit, Unit)
      Telemetry(found) ==
        Agent(h.telemetrySnap, h.telemetryUnit, h.telemetryBinary, found, ControlAgent)
  IN  Agent(h.vbarSnap, h.vbarUnit, h.vbarBinary, FALSE, Telemetry)

----------------------------------------------------------------------------
(* examples, not registered *)

DockerExistsCheck(h) == Require(h.inPath, Require(h.executable, Require(h.service, Pass)))
=============================================================================

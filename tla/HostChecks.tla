----------------------------- MODULE HostChecks -----------------------------
(***************************************************************************)
(* The non-destructive checks against a host: one check, command by        *)
(* command, each of whose answers may be lost, and what its verdict is     *)
(* worth.  Described(c, h) is the reference: it says of the host what the  *)
(* Description of the check, or the comment on it, says, and knows nothing *)
(* of commands.  Where the code does otherwise is stated exactly, host by  *)
(* host, in Overlooks and Rejects.                                         *)
(***************************************************************************)
EXTENDS CheckPrograms

CONSTANTS
  Checks,   \* the checks that are registered
  Numbers,  \* what the parts of a version can be
  Values,   \* what a sysctl can be
  Modes     \* the modes files can have

VARIABLES
  check,  \* the check that runs
  host,   \* the facts about the host it is about
  at,     \* the command it executes next, or its verdict
  lost    \* whether the answer of some command was lost

vars == <<check, host, at, lost>>

----------------------------------------------------------------------------
(* One check for each kind of registered check. *)

Holds == {"networkStack", "cgroup", "npdPath", "npdService", "socket", "journald"}
Kernel == {"kernelNamed", "kernelUnnamed"}
Permission == {"netPermission", "nodePermission"}
TPU == {"tpuBinding", "tpuSetup", "tpuRule", "tpuLimits", "tpuCmdline"}
Binaries == {"ethtool", "ip", "sysctl", "lspci"}

AllChecks == Holds \cup Kernel \cup Permission \cup TPU \cup
  {"path", "varRun", "mdsTpm", "mdsEfi", "foreignRules", "mount", "port", "containerd", "glibc",
   "agentActive", "agentLoaded", "uefiFeature", "osFeature", "module", "moduleAbsent",
   "kernelVersion", "utility", "readability", "metrics", "loopback", "varLog", "journalDir",
   "logDir", "posFiles", "runtimeDir", "bundle", "resolvConf", "journalStorage", "timeSync",
   "watches", "portStart", "memcg", "bootstrap", "linker", "lsm", "tpm", "sysctlFile",
   "binaries", "vbar", "docker"}

ASSUME ChecksAssumption == Checks \subseteq AllChecks

ASSUME HostsAssumption == Numbers \subseteq Nat /\ Values \subseteq Int /\ Modes \subseteq Mode

\* The modes the tables of paths ask for: drwxr-xr-x, lrwxrwxrwx, drwx-----T.
Letters(type, rights, special) == [type |-> type, rights |-> rights, special |-> special]
Dir755 == Letters("d", Rights \ {"gw", "ow"}, {})
Link777 == Letters("l", Rights, {})
Sticky700 == Letters("d", {"ur", "uw", "ux"}, {"ox"})

Facts(names) == [names -> BOOLEAN]

(* What the commands of a check, or its description, tell apart.  The shell, *)
(* coreutils, grep, systemctl and, for the login, sudo are taken to be there. *)
Hosts(c) ==
  CASE c \in Holds -> Facts({"holds"})
    [] c = "path" -> Facts({"exists", "listable"})
    [] c = "varRun" -> Facts({"dir", "rw", "findmnt"})
    [] c = "mdsTpm" -> Facts({"enabled", "device", "ownerRW"})
    [] c = "mdsEfi" -> Facts({"uefi", "dir", "readable", "efivarfs"})
    [] c \in Kernel -> {h \in [modinfo: {"builtin", "ko", "none"}, kconfig: {"y", "m", "n"},
                               audit: BOOLEAN, inRAM: BOOLEAN, disabled: BOOLEAN, sysctl: BOOLEAN] :
                           \* modinfo and the configuration speak of one kernel
                           <<h.modinfo, h.kconfig>> \notin {<<"builtin", "m">>, <<"ko", "y">>}}
    [] c = "foreignRules" -> Facts({"active", "shows", "manages"})
    [] c = "mount" -> Facts({"dir", "type", "writable"})
    [] c \in Permission -> {h \in [mode: Modes, linked: BOOLEAN, target: Modes,
                                   expected: {Dir755, Link777, Sticky700}] :
                               h.linked = (h.expected = Link777)}
    [] c = "varLog" -> [mode: {m \in Modes : m.type = "d"}]
    [] c = "port" -> [use: {"free", "bound", "listening"}, ss: BOOLEAN, netstat: BOOLEAN]
    [] c = "containerd" -> {h \in Facts({"exists", "inPath", "executable", "active"}) :
                              h.inPath \/ h.executable => h.exists}
    [] c = "glibc" -> [parses: BOOLEAN, major: Numbers, minor: Numbers]
    [] c = "kernelVersion" -> [parses: BOOLEAN, major: Numbers, minor: Numbers, rc: BOOLEAN]
    [] c \in {"agentActive", "agentLoaded"} -> Facts({"loaded", "active"})
    [] c = "uefiFeature" -> {h \in Facts({"supported", "booted"}) : h.booted => h.supported}
    [] c = "osFeature" -> [driver: {"there", "configured", "none"}, modinfo: BOOLEAN,
                           bootConfig: BOOLEAN, procConfig: BOOLEAN]
    [] c \in {"module", "moduleAbsent"} -> Facts({"modinfo", "module"})
    [] c = "utility" -> {h \in Facts({"installed", "inPath"}) : h.inPath => h.installed}
    [] c = "readability" -> Facts({"readable", "empty"})
    [] c = "metrics" -> {h \in Facts({"exposed", "other", "lister", "configured", "etcContainerd",
                                      "etc"}) :
                           (h.configured => h.etcContainerd) /\ (h.etcContainerd => h.etc)}
    [] c = "loopback" -> [ip: BOOLEAN, state: {"UNKNOWN", "UP", "DOWN"},
                          address: {"first", "later", "similar", "none"}]
    [] c = "journalDir" -> Facts({"dir", "readable"})
    [] c = "logDir" -> {h \in Facts({"dir", "readable", "parent", "creatable"}) :
                          h.dir \/ h.creatable => h.parent}
    [] c \in {"posFiles", "runtimeDir"} ->
         {h \in Facts({"dir", "parent", "grandparent", "writable"}) :
            (h.dir => h.parent) /\ (h.parent => h.grandparent)}
    [] c = "bundle" -> Facts({"resolves", "regular", "readable", "empty"})
    [] c = "resolvConf" -> Facts({"resolves", "regular", "readable", "empty", "nameserver"})
    [] c = "journalStorage" -> {h \in Facts({"dir", "files", "readable", "persistent"}) :
                                  h.persistent => h.dir /\ h.files}
    [] c = "timeSync" -> Facts({"timesyncd", "chrony", "chronyd", "ntp", "ntpd", "other",
                                "synchronized"})
    [] c \in {"watches", "portStart"} -> [parses: BOOLEAN, value: Values]
    [] c = "memcg" -> Facts({"memcg", "disabled", "procCgroups", "controllers", "kconfig"})
    [] c = "bootstrap" -> {h \in Facts({"writable", "findmnt", "readOnly", "remountRO"}) :
                             h.readOnly => ~h.writable}   \* access(2) answers EROFS
    [] c = "linker" -> {h \in Facts({"lib64", "libGnu", "lib", "executes"}) :
                          h.executes => h.lib64}   \* the path a binary names
    [] c = "lsm" -> Facts({"present", "permits", "login", "parent"})
    [] c = "tpm" -> {h \in Facts({"driver", "v2", "tpm0", "tpmRM", "valid0", "validRM"}) :
                       h.tpmRM => h.v2}   \* there is no resource manager for TPM 1.2
    [] c = "tpuBinding" -> Facts({"tpu", "attributes", "bound"})
    [] c = "tpuSetup" -> Facts({"tpu", "attributes", "loaded", "charDevice", "mode666", "x86",
                                "interrupts"})
    [] c = "tpuRule" -> Facts({"tpu", "attributes", "grants", "line"})
    [] c = "tpuLimits" -> Facts({"tpu", "attributes", "cos", "pamMemlock", "pamNofile", "memlock",
                                 "nofile"})
    [] c = "tpuCmdline" -> [tpu: BOOLEAN, attributes: BOOLEAN, cos: BOOLEAN, iommu: BOOLEAN,
                            passthrough: BOOLEAN, thpCmdline: BOOLEAN, idlePoll: BOOLEAN,
                            thp: {"always", "madvise", "never"}]
    [] c = "sysctlFile" -> {h \in Facts({"rootWritable", "loginWritable"}) :
                              h.loginWritable => h.rootWritable}
    [] c = "binaries" -> [Binaries -> {"inPath", "installed", "absent"}]
    [] c = "vbar" -> Facts({"vbarSnap", "vbarUnit", "vbarBinary", "telemetrySnap",
                            "telemetryUnit", "telemetryBinary", "controlAgent", "elsewhere"})
    [] c = "docker" -> {h \in Facts({"installed", "inPath", "executable", "service"}) :
                          h.inPath \/ h.executable => h.installed}

Run(c, h) ==
  CASE c = "path" -> PathExistenceCheck(h)
    [] c = "varRun" -> VerifyVarRun(h)
    [] c = "mdsTpm" -> VerifyTPMDevice(h)
    [] c = "mdsEfi" -> VerifyEFIVars(h)
    [] c = "kernelNamed" -> ModinfoFastPath(h, TRUE)
    [] c = "kernelUnnamed" -> ModinfoFastPath(h, FALSE)
    [] c = "networkStack" -> NetworkStackCheck(h.holds)
    [] c = "foreignRules" -> NetworkStackCheck(ForeignRules(h))
    [] c = "mount" -> VirtualMountCheck(h)
    [] c = "netPermission" -> NetPathPermissionCheck(h, h.expected, Dir755)
    [] c = "port" -> PortCollisionCheck(h)
    [] c = "cgroup" -> CgroupV2Check(h)
    [] c = "containerd" -> ContainerdExistsCheck(h)
    [] c = "glibc" -> GlibcCheck(h)
    [] c = "agentActive" -> GuestAgentServiceCheck(h, TRUE)
    [] c = "agentLoaded" -> GuestAgentServiceCheck(h, FALSE)
    [] c = "uefiFeature" -> GuestOSFeatureCheck(h.booted)
    [] c = "osFeature" -> GuestOSFeatureCheck(DriverFound(h))
    [] c = "module" -> KernelModuleCheck(h, TRUE)
    [] c = "moduleAbsent" -> KernelModuleCheck(h, FALSE)
    [] c = "kernelVersion" -> KernelVersionCheck(h)
    [] c = "npdPath" -> NpdPathCheck(h)
    [] c = "npdService" -> NpdServiceCheck(h)
    [] c = "socket" -> SocketExistsCheck(h)
    [] c = "utility" -> UtilityCheck(h)
    [] c = "nodePermission" -> PathPermissionCheck(h, h.expected, Dir755)
    [] c = "readability" -> FileReadabilityCheck(h)
    [] c = "metrics" -> ContainerdMetrics(h)
    [] c = "loopback" -> NetworkLoopbackUp(h)
    [] c = "varLog" -> VerifyPathPermissions(h, Dir755)
    [] c = "journalDir" -> JournalDir(h)
    [] c = "logDir" -> LogDir(h)
    [] c \in {"posFiles", "runtimeDir"} -> VerifyDirWritable(h)
    [] c = "bundle" -> VerifyConcreteFile(h, Pass)
    [] c = "resolvConf" -> ResolvConf(h)
    [] c = "journald" -> JournaldActive(h)
    [] c = "journalStorage" -> JournaldPersistentStorage(h)
    [] c = "timeSync" -> TimeSynchronization(h)
    [] c = "watches" -> MaxUserWatches(h)
    [] c = "portStart" -> UnprivilegedPortStart(h)
    [] c = "memcg" -> KernelConfigMemcg(h)
    [] c = "bootstrap" -> BootstrapDirectoryCheck(h)
    [] c = "linker" -> DynamicBinaryExecutionCheck(h)
    [] c = "lsm" -> LsmPathAccessCheck(h)
    [] c = "tpm" -> TpmDeviceCheck(h)
    [] c = "tpuBinding" -> VfioPciBindingCheck(h)
    [] c = "tpuSetup" -> VfioDeviceSetupCheck(h)
    [] c = "tpuRule" -> DevicePermissionsRuleCheck(h)
    [] c = "tpuLimits" -> ResourceLimitsCheck(h)
    [] c = "tpuCmdline" -> KernelCmdlineCheck(h)
    [] c = "sysctlFile" -> SysctlNetworkingCheck(h)
    [] c = "binaries" -> RequiredBinariesCheck(h)
    [] c = "vbar" -> AbsentVbarAgentCheck(h)
    [] c = "docker" -> DockerExistsCheck(h)

----------------------------------------------------------------------------
(* The reference: the description of each check, read literally, and with   *)
(* it what the comment on the check or on its helper says.                  *)

AllOf(h) == \A f \in DOMAIN h : h[f]
AnyOf(h) == \E f \in DOMAIN h : h[f]
Reaches(h, major, minor) == h.major > major \/ (h.major = major /\ h.minor >= minor)
Daemon(h) == h.timesyncd \/ h.chrony \/ h.chronyd \/ h.ntp \/ h.ntpd

\* How VerifyKernelFeature documents a module that is not part of the kernel.
BuiltIn(h) == h.modinfo = "builtin" \/ (h.modinfo = "none" /\ h.kconfig = "y")
Loadable(h) == h.modinfo = "ko" \/ (h.modinfo = "none" /\ h.kconfig = "m")

Described(c, h) ==
  CASE c \in Holds \cup {"mount", "agentActive", "journalDir"} -> AllOf(h)
    [] c \in {"path", "containerd"} -> h.exists
    [] c = "varRun" -> h.dir /\ h.rw
    [] c = "mdsTpm" -> h.enabled => h.device /\ h.ownerRW
    [] c = "mdsEfi" -> h.uefi => h.dir /\ h.readable
    [] c = "kernelNamed" -> BuiltIn(h) \/ (Loadable(h) /\ (h.inRAM \/ ~h.disabled))
    [] c = "kernelUnnamed" -> h.kconfig = "y" \/ (h.kconfig = "m" /\ ~h.disabled)
    [] c = "foreignRules" -> ~h.manages
    [] c \in Permission -> h.mode = h.expected /\ (h.linked => h.target = Dir755)
    [] c = "varLog" -> Grants(h.mode, Dir755)
    [] c = "port" -> h.use = "free"
    [] c = "glibc" -> Reaches(h, 2, 35)
    [] c = "kernelVersion" -> Reaches(h, 6, 8) /\ ~(h.rc /\ h.major = 6 /\ h.minor = 8)
    [] c = "agentLoaded" -> h.loaded
    [] c = "uefiFeature" -> h.supported
    [] c = "osFeature" -> h.driver = "there"
    [] c = "module" -> h.module
    [] c = "moduleAbsent" -> ~h.module
    [] c = "utility" -> h.installed
    [] c = "readability" -> h.readable /\ ~h.empty
    [] c = "metrics" -> h.exposed \/ h.etcContainerd
    [] c = "loopback" -> h.state # "DOWN" /\ h.address \in {"first", "later"}
    [] c = "logDir" -> IF h.dir THEN h.readable ELSE h.creatable
    [] c = "posFiles" -> (h.dir \/ h.grandparent) /\ h.writable
    [] c = "runtimeDir" -> (h.dir \/ h.parent) /\ h.writable
    [] c = "bundle" -> h.resolves /\ h.regular /\ h.readable /\ ~h.empty
    [] c = "resolvConf" -> h.resolves /\ h.regular /\ h.readable /\ ~h.empty /\ h.nameserver
    [] c = "journalStorage" -> h.persistent
    [] c = "timeSync" -> Daemon(h) \/ h.other
    [] c = "watches" -> h.parses
    [] c = "portStart" -> h.parses /\ h.value <= 2021
    [] c = "memcg" -> h.memcg /\ ~h.disabled
    [] c = "bootstrap" -> h.writable /\ ~h.readOnly
    [] c = "linker" -> h.executes
    [] c = "lsm" -> h.permits
    [] c = "tpm" -> h.driver /\ h.v2 /\ ((h.tpm0 /\ h.valid0) \/ (h.tpmRM /\ h.validRM))
    [] c = "tpuBinding" -> h.tpu => h.bound
    [] c = "tpuSetup" -> h.tpu => h.loaded /\ h.charDevice /\ h.mode666 /\ (h.x86 => h.interrupts)
    [] c = "tpuRule" -> h.grants
    [] c = "tpuLimits" -> (h.pamMemlock /\ h.pamNofile) \/ (h.memlock /\ h.nofile)
    [] c = "tpuCmdline" -> /\ h.iommu
                           /\ h.thpCmdline \/ h.thp = "always" \/ (h.cos /\ h.thp = "madvise")
                           /\ h.cos \/ (h.passthrough /\ h.idlePoll)
    [] c = "sysctlFile" -> h.rootWritable
    [] c = "binaries" -> \A b \in Binaries : h[b] # "absent"
    [] c = "vbar" -> ~AnyOf(h)
    [] c = "docker" -> h.installed /\ h.service

\* Checks that take a lost answer for the one that suits the host: they look
\* for something that must be absent, or that excuses them.
FailsOpen == {"port", "moduleAbsent", "vbar", "mdsTpm", "mdsEfi", "kernelUnnamed"}

\* What the letters of a mode name, an S or a T included.
Named(mode) == mode.rights \cup mode.special

\* Where code and description part: the hosts that a check passes though they
\* are not as described, with what it takes for a sign that they are ...
Overlooks(c, h) ==
  /\ ~Described(c, h)
  /\ CASE c = "kernelUnnamed" -> h.audit /\ h.kconfig = "m" /\ ~h.sysctl
       [] c = "foreignRules" -> ~h.active \/ ~h.shows
       [] c = "nodePermission" -> /\ Named(h.expected) \subseteq Named(h.mode)
                                  /\ h.linked => Named(Dir755) \subseteq Named(h.target)
       [] c = "varLog" -> Named(Dir755) \subseteq Named(h.mode)
       [] c = "port" -> h.use = "bound" \/ (~h.ss /\ ~h.netstat)
       [] c = "kernelVersion" -> h.parses /\ h.rc /\ h.major = 6 /\ h.minor = 8
       [] c = "osFeature" -> h.driver = "configured" /\ (h.bootConfig \/ h.procConfig)
       [] c = "moduleAbsent" -> ~h.modinfo
       [] c = "metrics" -> h.etc \/ (h.lister /\ h.other)
       [] c = "loopback" -> h.ip /\ (h.state = "UNKNOWN" \/ (h.state = "UP" /\ h.address = "similar"))
       [] c = "journalDir" -> h.dir
       [] c = "logDir" -> h.parent
       [] c \in {"posFiles", "runtimeDir"} -> h.grandparent
       [] c = "bundle" -> h.resolves /\ ~h.empty
       [] c = "journalStorage" -> h.dir /\ h.files /\ h.readable
       [] c = "timeSync" -> h.synchronized
       [] c = "memcg" -> h.memcg /\ (h.procCgroups \/ h.kconfig)
       [] c = "linker" -> h.lib64 \/ h.libGnu \/ h.lib
       [] c = "lsm" -> IF h.present THEN h.login ELSE h.parent
       [] c = "tpm" -> /\ h.driver /\ ~h.v2 /\ h.tpm0 /\ h.valid0
       [] c \in {"tpuBinding", "tpuSetup"} -> ~h.attributes
       [] c = "tpuRule" -> ~h.tpu \/ ~h.attributes \/ h.line
       [] c = "tpuLimits" -> ~h.tpu \/ ~h.attributes \/ (h.cos /\ h.nofile)
       [] c = "tpuCmdline" -> ~h.tpu \/ ~h.attributes
       [] c = "vbar" -> \A f \in DOMAIN h \ {"elsewhere"} : ~h[f]
       [] OTHER -> FALSE

\* ... and those it fails though they are, with what it asks beyond that.
Rejects(c, h) ==
  /\ Described(c, h)
  /\ CASE c = "path" -> ~h.listable
       [] c = "varRun" -> ~h.findmnt
       [] c = "mdsEfi" -> h.uefi /\ ~h.efivarfs
       [] c = "kernelNamed" -> \/ h.modinfo = "none" /\ ~h.audit
                               \/ Loadable(h) /\ ~h.inRAM /\ ~h.sysctl
       [] c = "kernelUnnamed" -> ~h.audit
       [] c = "containerd" -> ~(h.inPath /\ h.executable /\ h.active)
       [] c \in {"glibc", "kernelVersion"} -> ~h.parses
       [] c = "uefiFeature" -> ~h.booted
       [] c = "osFeature" -> ~h.modinfo /\ ~h.bootConfig /\ ~h.procConfig
       [] c = "module" -> ~h.modinfo
       [] c = "utility" -> ~h.inPath
       [] c = "metrics" -> ~h.lister /\ ~h.etc
       [] c = "loopback" -> ~h.ip \/ (h.state = "UP" /\ h.address = "later")
       [] c = "journalStorage" -> ~h.readable
       [] c = "timeSync" -> ~Daemon(h) /\ ~h.synchronized
       [] c = "watches" -> h.value <= 0
       [] c = "memcg" -> ~h.procCgroups /\ ~h.controllers /\ ~h.kconfig
       [] c = "bootstrap" -> h.findmnt /\ h.remountRO
       [] c = "lsm" -> ~(IF h.present THEN h.login ELSE h.parent)
       [] c = "tpm" -> (h.tpm0 /\ ~h.valid0) \/ (h.tpmRM /\ ~h.validRM)
       [] c = "tpuRule" -> h.tpu /\ h.attributes /\ ~h.line
       [] c = "binaries" -> \E b \in Binaries : h[b] = "installed"
       [] c = "docker" -> ~h.inPath \/ ~h.executable
       [] OTHER -> FALSE

----------------------------------------------------------------------------
(* One command after the other. *)

Over == at \in {Pass, Fail}

Init ==
  /\ check \in Checks
  /\ host \in Hosts(check)
  /\ at = Run(check, host)
  /\ lost = FALSE

\* runner.Run or runner.CombinedOutput returns with the answer of the host.
Answered ==
  /\ ~Over
  /\ at' = IF at.truth THEN at.yes ELSE at.no
  /\ UNCHANGED <<check, host, lost>>

\* It returns an error that says nothing of the host.
Lose ==
  /\ ~Over
  /\ at' = at.lost
  /\ lost' = TRUE
  /\ UNCHANGED <<check, host>>

Ended == Over /\ UNCHANGED vars

Next == Answered \/ Lose \/ Ended

Spec == Init /\ [][Next]_vars

----------------------------------------------------------------------------
(* Properties *)

\* A check passes a host only if the host is as described, or is one the check
\* overlooks, whichever answers were lost, unless it fails open; with every
\* command answered it passes none that it rejects.
PassIsEarned ==
  at = Pass =>
    /\ (lost /\ check \in FailsOpen) \/ Described(check, host) \/ Overlooks(check, host)
    /\ ~lost => ~Rejects(check, host)

\* With every command answered a check fails a host only if the host is not as
\* described, or is one the check rejects, and none that it overlooks: every
\* alternative that the description admits is asked for.
FailureIsEarned ==
  at = Fail /\ ~lost =>
    /\ ~Described(check, host) \/ Rejects(check, host)
    /\ ~Overlooks(check, host)

\* bootstrap_dir.go:28: the check verifies that the directory is writable and
\* on a read-write mount; so it should not stop the suite on a host where it is.
GatekeeperAdmitsWritable ==
  check = "bootstrap" /\ at = Fail /\ ~lost => ~Described(check, host)
=============================================================================

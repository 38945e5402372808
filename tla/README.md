# Verification of the GKE OS Image Certification Suite

TLA+ models of the program in `src/`, TLC configurations that check them on
small instances, and theorems checked by TLAPS for every value of the
constants. `PROJECT.json` lists components, runs, mutants, theorems and hazards,
and maps every definition to the lines of source it stands for.

    tlc -workers 2 -config MCSuite.cfg MCSuite.tla     # one run
    tlapm CheckRunner_proofs.tla                       # one proof module

## 1. The system

The suite is a Go command. It connects over SSH to a VM that boots the image
under test (an existing one, or one it creates on GCE and reaches through an
IAP tunnel), filters the registered checks by OS and GKE version, runs the
gatekeepers (Tier 0), installs the tools the remaining checks need, runs those
checks (Tier 1) and turns the outcome into an exit code.

| Component | State it keeps | Operations | What makes it correct |
|---|---|---|---|
| Suite orchestration, `main.go: main, run` | active checks, the SSH client and the runner made from it, `requiresReconnect`, deferred calls, `hasFailures` | target, connect, reconnect, detect OS, validate, filter, Tier 0, tools, Tier 1, destructive checks with `Cleanup`, unwinding | gatekeepers decide before anything touches the VM; a check uses a live connection with current groups; what is started is undone; exit 0 certifies |
| Concurrent check runner, `runChecksConcurrently` | semaphore channel, `WaitGroup`, mutex, `errs`, one goroutine per check | launch, run, record the failure, release, wait | bounded concurrency, no failure lost, nothing left behind, a cancelled batch is never a passed one |
| VM provisioning and tunnel, `provisionAndTunnel`, `pkg/provision` | the VM at GCE, `tunnelCmd`, `tunnelExited`, a gcloud process and a goroutine in `cmd.Wait`, the deadline | insert, poll, start the tunnel, probe, handshake, cleanup | nothing it created outlives a failure; the loop looks at the current process |
| SSH runner, `pkg/validation/runner.go` | a session, a goroutine and a channel of capacity 1 per call, on one client that all checks share | `Run`, `CombinedOutput` | no leaked goroutine; a call returns when its context is done; sshd's `MaxSessions` is not exhausted |
| Constraint evaluation, `constraints.go`, `evaluator.go`, `utils/semver.go` | none; decides from flag, OS and constraints | `ParseSemVer`, `Compare`, `IsApplicable`, the version gate of `run` | order laws of versions; the two gates agree; exclusions hold however the OS is spelt |
| Tool installers, `pkg/tools` | files, daemon and groups on the VM | `Exists`, `Install`, `RequiresReconnect`, the loop over required tools | after resolution each tool is usable in the login the checks get; leftovers of a failed execution are repaired |
| Registries | a slice and a map filled by `init` functions | `Register`, `RegisteredChecks`, `Get` | read only after `init`; input of `Suite` |
| Destructive checks | images, containers, clusters, files and a remount on the host; the current cluster of kubeconfig | `Run`, `Cleanup` | a reported success of `Cleanup` may be believed; what a broken execution left is repaired by the next; no check uses another's cluster |
| Host checks (networking, node, observability, security, storage, paths, accelerator) | none | sequences of remote commands whose errors decide | a pass is earned by the host, not by a lost answer; a host as described is not failed |
| Permission strings | none | `ParsePermissions`, `IsPermissiveSuperset` | superset is a partial order on modes |
| Parallel end-to-end runner, `e2e/run_e2e.py` | processes in one working directory | start suites, collect results | suites do not disturb one another: a suite never takes another's tunnel for its own |

**Interactions.** `run` owns one SSH client at a time and passes the runner
made from it to checks and installers; the reconnect closure closes the client
and replaces both. `runChecksConcurrently` calls `Check.Run` in goroutines,
which call the SSH runner, which opens a session per command; sshd bounds the
sessions, which is why `validateConcurrency` keeps `-concurrency` below 10.
`provisionAndTunnel` hands `run` an address and a cleanup closure that `run`
defers.

**What is hard here.** Goroutines that meet in a channel, a mutex and a
`WaitGroup`; a `select` over two ready channels; a tunnel process that exits
under a loop that restarts it; a variable (`tunnelExited`, `sshClient`,
`runner`) that one function replaces and another has captured; a failure
between the creation of something and the `defer` that removes it; a tool that
works only in a later login; commands on a VM that fail half way, and a suite
executed again on that VM; an error of the SSH runner that may mean *no* and may
mean *no answer*; a local port chosen, released and used later. `PROJECT.json` lists each at its line (`hazards`).

## 2. Modules

| Module | Models | Proofs |
|---|---|---|
| `Batch` | abstract specification: a set of checks is started, they finish in any order, the batch ends with a verdict | |
| `CheckRunner` | `runChecksConcurrently`, statement by statement; implements `Batch` | `CheckRunner_proofs` |
| `Target` | abstract specification: `run` is given a VM and a tunnel once, or an error, and calls the closure once | |
| `Suite` | `main` and `run`; its batches are the abstract `Batch`, its VM and tunnel those of `Target` | `Suite_proofs` |
| `Provisioning` | `provisionAndTunnel`, `startTunnel`, `CreateInstance`, `DeleteInstance`; implements `Target` | `Provisioning_proofs` |
| `SSHSessions` | `RealSSHRunner.Run`, `CombinedOutput`, and sshd's sessions | `SSHSessions_proofs` |
| `Applicability` | `ParseSemVer`, `Compare`, `IsApplicable`, the gate and the filter of `run` | `Applicability_proofs` |
| `ToolInstall` | `resolveAndInstallDependencies` and the four installers, command by command | `ToolInstall_proofs` |
| `Permissions` | `ParsePermissions`, `IsPermissiveSuperset` | `HostChecks_proofs` |
| `CheckPrograms` | `Run` of every non-destructive check, as a tree of remote commands | |
| `HostChecks` | one check against one host, with answers that may be lost, and the reference its verdict is compared with | `HostChecks_proofs` |
| `DestructiveChecks` | `Run` and `Cleanup` of the four destructive checks, over several executions on one VM | `DestructiveChecks_proofs` |

The composition is by contract. `CheckRunner` is shown to implement `Batch`,
and `Suite` uses `Batch` by `INSTANCE`, so that `Suite` need not carry channels and
mutexes. In the same way `Provisioning` implements `Target` and the steps of `Suite`
that provision and tear down are those of `Target`, by `INSTANCE`; here both sides are
proved to keep the contract. `Suite` has one step per tool; `ToolInstall`
has the detail of those steps, and its theorem `HandOver` is what `Suite` relies on.
`SSHSessions` relies in turn on theorem `Bounded` of `Suite`. `Suite` takes the set of
applicable checks as an arbitrary subset of the registry, `Applicability`
says which. `HostChecks` and `DestructiveChecks` open the step in which a check runs:
the first says what the outcome of a member of a batch is worth, the second what
`RunDestructive` and `CleanUp` of `Suite` do to the VM. Each `MCx` module gives the constants of `x` their values. Operators
named `Bad...` are plausible bugs of the action that follows them; no
specification uses them, and the checks of section 4 do (`mutants` in
`PROJECT.json`).

**CheckRunner.** A check is its index in the slice. `pc` is the caller's place
in the loop, `gpc[c]` that of the goroutine of `c`. `sem` counts the tokens in
the channel, `wg` the counter. `mu` holds a thread and `snap[t]` what thread
`t` read of `errs`; `append` is a read and a write, so that a model without
the mutex loses entries, as the code would. `SelectDone` and `SelectSlot` are
the branches of the `select`, `Recheck` the second look at `ctx.Err()`. The
deferred calls run in the order `<-sem`, `wg.Done()`.

**Suite.** `stage` is the place in `run`. `clients` are the SSH connections in
the order they were dialled, `sshClient` the one captured by the deferred
close, `runner` the one checks are given, `loggedInWith[i]` the tools that were
on the VM when connection `i` logged in. `failed` and stage `unwind` stand for
the early returns: the deferred calls run in reverse order as `CloseClient`
and `TearDown`, after which `status` is the exit code. `Killed` is a signal or
a panic at any moment. Which calls fail is free.

**Provisioning.** `vm`, `tunnelCmd` (nil, created and not started, started),
`processes` (gcloud processes alive), `unreaped` (the goroutine in `cmd.Wait`),
`exited` (the channel the loop looks at). `now` counts the seconds the loop
sleeps. The tunnel may exit at any step. `listener` is who has the local port:
`getFreePort` returns it closed, so that another process, in particular the tunnel
of another suite, may open it before gcloud does or after gcloud has gone. Host
keys are ignored (`getSSHConfig`); `KeyAccepted` is what is left, the key pair
of this execution. `Answer`, `VmOfRun` and `TunnelOfRun` are what `run` sees of this:
nothing until the function returns, then a VM and a tunnel or an error. A process that is
alive and that `cleanup` would not kill would be a tunnel `lost`, which `Target` does not
know.

**SSHSessions.** One call per `Run` or `CombinedOutput`, numbered in the order
they ask for a session. `remote[c]` is the command together with sshd's end of
the session, which closing the client's end does not free. The signal sent when
the context ends may be ignored. `session.Run` returns in one of two ways: with the
answer of sshd, which comes when the command has ended (`RunAnswers`), or with an error
because the connection is gone (`RunFails`), while the command may go on. The deferred
`Close` of a call does not wake it, so the goroutine of a call whose context is done
waits as long as its command runs and the connection is up. `connection` is `gone` once the
client knows of it: it breaks at any moment, or `run` closes the client after the last call. A
session closed before the goroutine has asked for the command is treated as one whose command
has ended.

**Applicability.** A version string is what the regular expression finds in it:
up to three numbers and a rank for the pre-release (0: none); the rank stands
for the order of the strings, which is all `Compare` uses. `Lower` and `Trim`
are functions on the OS names in play, so that spellings stay distinct.

**ToolInstall.** `file[t]` and `temp[t]` are absent, good or junk; `daemon`,
`group` and `login` decide whether Docker answers. `Script(t)` is the sequence
of commands of `Install` on the OS at hand. A command succeeds, fails with no
effect, fails with part of it, or fails after all of it, since the connection
may be lost. `ExecuteAgain` runs the suite again on the VM as it was left.

**CheckPrograms, HostChecks.** A node of a tree is one call of the SSH runner: what
the command finds out on the host (`truth`) and what the code does next if the
call returns nil (`yes`), an error because the answer is no (`no`), or an error because
there was no answer (`lost`). The code cannot tell the last two apart unless it
reads the output, so the combinators for its four idioms (`Require`, `Suffices`,
`Forbid`, `OnlyIf`) treat them alike. A shell pipeline is one node; a table of
paths, ports or symbols is one check per kind of entry. `Hosts(c)` has a fact for
everything the commands of check `c` distinguish; the versions, values of sysctls and modes
that hosts may have are parameters (`Numbers`, `Values`, `Modes`). `Described(c, h)` is the
reference: `Description()` of the check read literally and, with it, what the comment on the
check or on its helper says. It asks neither for less than these words, nor for a command
that only the implementation uses; the shell, coreutils, `grep`, `systemctl` and, for
the login, `sudo` are taken to be there. A verdict can differ from it in three ways, each named
in an operator of the module:
- `FailsOpen`: six kinds of check look for something that must be absent, or that excuses
  the host, and so pass on a lost answer: `port`, `moduleAbsent`, `vbar`, `mdsTpm`,
  `mdsEfi`, `kernelUnnamed`;
- `Overlooks`: hosts that are not as described and pass;
- `Rejects`: hosts that are as described and fail.

`Overlooks` and `Rejects` are exact: the two properties of the run say, both ways, that with
every answer the hosts listed are all there are. This is the list (files are those below
`src/pkg/checks/`):

| Check | passes though not as described | fails though as described |
|---|---|---|
| `path`, `varRun` (`checklib/paths.go` below `src/pkg/`, `gke-metadata-server/paths.go`) | | what exists may not be listed; no `findmnt` |
| `mdsEfi` (`gke-metadata-server/paths.go`) | | booted by UEFI, no efivarfs mounted |
| `kernelNamed`, `kernelUnnamed` (`networking/utilities.go`) | symbol without a module name: loadable, loading disabled, and the sysctl that says so is not there | nothing to read the configuration from; loadable by name, not loaded, and no sysctl |
| `foreignRules` (`networking/network_stack.go`) | networkd manages foreign rules, but is not active or does not show it | |
| `port` (`networking/ports.go`) | bound without listening; neither `ss` nor `netstat` | |
| `containerd`, `utility`, `docker`, `binaries` (`node/`, `examples/`, `accelerator/`) | | installed, but not where the check looks (`PATH`, `/usr/bin`), or the service of containerd is not active |
| `glibc`, `kernelVersion` (`node/`) | release candidates of 6.8 | a version string that cannot be parsed |
| `uefiFeature`, `osFeature` (`node/guest_os_features.go`) | a driver that is in the configuration only | UEFI supported, not booted with; neither `modinfo` nor a configuration |
| `module`, `moduleAbsent` (`node/kernel_modules.go`) | present, no `modinfo` | available, no `modinfo` |
| `nodePermission` (`node/paths.go`) | more than the exact mode, or an S or T for an execute right | |
| `varLog`, `journalDir`, `logDir`, `posFiles`, `runtimeDir` (`observability/paths.go`) | S or T for an execute right; a directory that may not be read; a parent that may not be written; a grandparent; a directory that may not be written | |
| `bundle` (`observability/paths.go`) | not empty, but not a regular file or not readable | |
| `metrics` (`observability/network.go`) | something else listens on the port; some `metrics` line elsewhere below `/etc` | exposed, but no `ss` or `netstat` and no configuration |
| `loopback` (`observability/network.go`) | state UNKNOWN with any address (the alternation of the pattern binds weaker than meant), or UP with one that only begins like it | up with a second address that is the right one; no `ip` |
| `journalStorage`, `timeSync` (`observability/services.go`) | journal files that are there, storage not persistent; synchronised, no daemon | files that the login may not read; a daemon that is none of the five and has not synchronised yet |
| `watches`, `memcg` (`observability/sysctls.go`) | disabled, but in `/proc/cgroups` or the configuration | a value that is not positive; no file to read it from |
| `bootstrap` (`security/bootstrap_dir.go`) | | the mount option `errors=remount-ro` |
| `linker`, `lsm` (`security/`) | a linker that does not execute the binary; the login or the parent may, the policy does not permit | permitted, but not to the login |
| `tpm` (`security/tpm.go`) | a TPM 1.2 | one device with the permissions, another without |
| `tpuBinding`, `tpuSetup`, `tpuRule`, `tpuLimits`, `tpuCmdline` (`accelerator/tpu_v7x.go`) | the PCI line of the TPU lacks a field; no TPU, but no rule, limits or arguments either; a udev line that does not grant; on COS, a limit of files only | a rule that grants in other words |
| `vbar` (`accelerator/tpu_device_plugin.go`) | an agent elsewhere | |

A pass of one of the 26 kinds in `Sound`, which are neither in the second column nor in
`FailsOpen`, means that the host is as described whatever is lost (theorem `SoundPasses`).

**DestructiveChecks.** `held` is what is on the VM and what is true of it. A
command needs some of it, needs some of it absent, adds and drops. A call may
fail without a reason on the VM (`CallFails`): nothing was done, the command was cut off
and left `leaves`, or it goes on (`stray`) and ends at any later time; the connection
may break with it, after which every call fails at once. `Killed` ends the
process inside a command. `quiet` says that an execution met none of this, `calm`
the same of a Cleanup, `before` is the VM as the check found it. `Own(c)` is all that `Run`
may create or change, the container `certcheck` and the remount of the Cilium check among it; what a
`Cleanup` does not undo of it is an exception that the properties spell out, not left out of `Own`.

## 3. Runs

| Run | Instance | What it shows |
|---|---|---|
| `check_runner` | 4 checks, 2 slots, check 2 hangs | exact counters, no lost failure, `EmptyMeansAllRan`, at most one start after a cancellation, `CancelReturns`, `NoStarvation`, refinement of `Batch` |
| `suite` | registries over 8 checks, 3 tools | `GatekeepersFirst`, `RunnerIsCurrent` (a live connection whose login has the groups), `ToolsBeforeChecks`, `AlwaysCleanedUp` (and a destructive check runs alone), `ExitZeroCertifies`, `EverythingUnwound` (connections, tunnel and VM), termination if every call returns (267,000 states) |
| `provisioning` | deadline 40 s | nothing leaks once `CreateInstance` has returned, the right channel, a success is that of the own tunnel though others may take the port, refinement of `Target` (in particular no tunnel is lost, whichever attempt started it, and an error leaves none), a return unless GCE, an SSH handshake or the checks keep it waiting for ever |
| `ssh_sessions` | 4 calls, 2 at a time, 3 sessions, a connection that may break | on a connection that is up, sessions are refused only when commands that outlived their calls used the margin; an answer means that the command has ended, the other error that the connection is gone; `CallsEnd`: calls return, and no goroutine outlives the connection (288,000 states) |
| `applicability` | 15 versions, 6 OS spellings, 10 checks | interval, gate and exclusion properties |
| `tool_install` | Docker, Kind, Cilium; COS, NixOS, Ubuntu, RHEL; 2 executions | soundness of Docker and Cilium, repair of leftovers |
| `host_checks` | 55 kinds of check, 3,044 pairs of check and host, any answer lost | `PassIsEarned` (a pass has a host as described behind it, or one listed in `Overlooks`, or an answer lost by one of the `FailsOpen` checks), `FailureIsEarned` (a failure with every answer has a host not as described, or one listed in `Rejects`) |
| `destructive_checks` | 3 executions; the registered check alone, Docker alone, the two that make clusters together | `CleanupVerdict` (nil means clean but for a `certcheck` that was cut off and for the Cilium check, whose nil means nothing unless it is calm; and a calm Cleanup reports nil where `ctr` can be used), `RestoresAllButItsOwn`, `QuietExecutionRepairs`, `PassesOnOwnCluster` (1.2 million states) |
| `suite_readme_order`, `provisioning_teardown`, `tool_install_unverified`, `host_checks_gatekeeper` | as above; the last on the gatekeepers only | the findings of section 6 |

**Why the bounds are enough.**
`check_runner`: with two slots and four checks one can hang, one wait for a
slot in the `select`, one be past it and one be failing, at the same time; a
third slot adds no new pair of positions.
`suite`: a check that breaks each rule of `validateChecks`, one that needs no
tool, one that needs two (one of which requires a reconnect), one whose tool has
no installer, and two destructive checks; there are only two dials in the
code, so `Conn == 1..2` bounds nothing.
`provisioning`: 40 seconds leave room for several attempts, each of which sleeps
a handful of seconds, with an exit of the tunnel between and after them;
the 180 of the code only add repetitions.
`ssh_sessions`: two strays leave one session for two concurrent callers, the
smallest instance in which a call is refused; the code has 10 sessions and at
most 9 callers.
`applicability`: the bounds that occur in the registry, a version on each side of
the gate at 1.34, with and without pre-release, and missing numbers.
`tool_install`: `kind` and `kubectl` share their script up to the file name, so one
of them is enough; two executions are the least for a repair, and a second
execution may start from every state the first can leave.
`host_checks`: facts are Boolean except where a bound is compared; versions and
sysctls take values on, just below and just above the bound (`SomeNumbers`, `SomeValues`),
and the modes are those of the registry with one for each way to miss a requirement
(`SomeModes`); the theorems are about all of them.
`destructive_checks`: one execution may break, the next repairs and the third shows the
repair; only checks that share something (kubeconfig) need be together. One
stray command at a time.

**Fairness.**
`CheckRunner`: the goroutines and the loop are scheduled by the Go runtime; a
check not in `Hanging` returns, one in `Hanging` only once the context is done. No
fairness for `Cancel`.
`Suite`: weak fairness of `Step`, that is, every call returns; termination is
relative to that (the hazards at `main.go:107` and `provision.go:127` are the
places where the code itself gives no bound).
`Provisioning`: weak fairness of what the function does itself (`Own`) and of the
goroutine in `cmd.Wait`. Nothing is assumed of GCE, of the VM becoming `RUNNING`, of
the SSH handshake, whose peer may be a foreign listener that never answers, of the
checks that run before the deferred call, or of the tunnel: the code bounds
none of these waits (hazards at `main.go:330` and `provision.go:127`). So the property is
`ReturnsUnlessKeptWaiting`: the function returns, or stays for ever in one of six waits it names.
`SSHSessions`: weak fairness of the steps of the client that need no answer of sshd, and
of the deferred `Close` of the client. Commands may run for ever, contexts may never
end, the connection need not break, sshd may never answer the request for a session
nor report the end of a command.
The `Hanging` checks and the cancellation are behaviour of
`runChecksConcurrently` and of the SSH runner as written; `run` itself passes a
context that is never cancelled.

## 4. Every property can fail

For each property of each passing run, `mutants` names a bug of the code
(a dropped guard, a missing reset, a token not given back) under which TLC
finds the property violated in the same run.

## 5. Proofs

*`CheckRunner_proofs`*, for every number of checks, every concurrency from 1 to
9 and every set of hanging checks (the three named assumptions of
`CheckRunner`): `TypeCorrect`, `ExactCounters`, `Bounded` (never more checks at once than slots, which
follows from the counters and is not checked by a run), `LeavesNothing`,
`EmptyErrs`, `OneLateStart`, `NoErrorLost` and `Refinement`
(`Spec => AbstractBatch!Spec`).

`CountersExact` alone is not inductive: that the `WaitGroup` counts the
goroutines needs to know which checks the loop has launched (`LoopInv`), that an
append is not lost needs that only the holder of the mutex has a current
`snap` (`MutexInv`), that empty `errs` means success needs that a goroutine on
its way out with a failure is in `errs` or still before its append (`ErrsInv`),
and the bound on late starts needs that the loop, which is the one that may be
past its second look, stops at its next (`LateInv`). `IInv` is their
conjunction, with `ReturnInv`. There is one lemma per conjunct (`LoopStep`,
`MutexStep`, ...), with one step per action that can disturb it. Cardinalities are
handled by two lemmas, `CountOneMore` and `CountOneLess`. The refinement maps a
goroutine to the outcome of its check and the return of the caller to the
verdict (`LaunchStarts`, `ReturnFinishes`, `ReturnDecides`).

*`Applicability_proofs`*, for every registry, set of version strings and set of
OS names: `Compare` is antisymmetric, answers 0 for equal versions only and is
transitive; type correctness; `Intervals`, `GateSubsumesOldMinimums` and
`ExclusionHolds`. The invariant says that the parsed version passed the gate
(`Accepted`) and that the active checks are exactly those `IsApplicable` accepts
(`ActiveExact`); the rest are consequences of the laws of `Compare`.
Assumptions: `Lower` is idempotent and the functions stay within `OSNames`
(`ApplicabilityAssumption`).

*`HostChecks_proofs`*, for every host: every version, every value of a sysctl, every mode
(`HostsAssumption`), every set of registered checks (`ChecksAssumption`) and any answers
lost. `PassesAreEarned` and `FailuresAreEarned` are the two properties of the run, with
`Described` as the literal reference and the exceptions of section 2; `SoundPasses` is
what they say of the 26 kinds of check without one. `Earned` is what a pass must have behind it
at least, `Due` the verdict that is due with every answer: it passes the hosts
overlooked and those as described that are not rejected. A
program is a tree, and induction over trees is out of the prover's reach; nothing here
needs it. `Safe(n, c, h)` says that no verdict that can follow node `n` is wrong once an
answer has been lost: there is a set that contains `n` and, with each node of it, what may
follow that node, and in which a pass is earned. `Sure(n, c, h)` says the same while every
answer has come, when the verdict has to be the one that is due. The inductive invariant `IInv` is
that the node reached is safe, and sure while nothing is lost; a step stays in the set.
Since it quantifies over arbitrary sets TLC cannot evaluate it, and checks what follows
from it. The lemmas about the combinators say of each idiom of the Go code, whatever comes
after it, what a lost answer can do: after `Require` (`if err != nil { return err }`) only a
failure, so that what it asks is never taken for granted; after `Suffices` and `Forbid` the
rest must be right by itself; `OnlyIf` turns a lost answer into a pass, which is right only
in a check of `FailsOpen`. There is one lemma per check, and `EveryCheckSure` joins them.
The same module has the laws of permission strings, for every mode: the relation is
reflexive and transitive, and
antisymmetric up to the type letter and the spelling of an execute right; equality
(which the networking checks ask for) implies it; without S and T it is exactly
that the mode grants what the requirement names (`SupersetGrants`,
`GrantsSatisfies`). With S or T it is not, and `Overlooks` lists these modes for the checks concerned.

*`Suite_proofs`*, for every set of checks and tools, whatever each check needs and
whichever way each step goes (`SuiteAssumption`: finitely many checks, the tiers and
kinds are sets of checks, the tools that need a reconnect have an installer). The
invariant says for each stage what has happened before it: which checks are active and
conform (`FilterInv`), who is in the batch (`BatchInv`), how far each tier has come
(`OutcomeInv`), whose `Cleanup` is due (`TidyInv`), what `failed` stands for
(`FailedInv`), which connection is open and in hand (`ConnInv`), what is installed and
in which login (`ToolInv`), who answers for the VM (`TargetInv`). There is one lemma per
conjunct; the lemmas before them say which step touches which variable, and
`OverChangesNothing` that nothing happens after a crash or the exit. `Certifies`, `Unwound`,
`CurrentRunner` and `ToolsFirst` follow; `Gatekeepers` is about the past and is an
induction of its own. `CleanedUp` has the hypothesis that no check of Tier 0 is
destructive. It is needed: `validateChecks` accepts such a check, which would run and
never be cleaned up (section 6), and no registered check is one. `Bounded`
(`Cardinality(Running) <= Concurrency`, in no run) is what `SSHSessions` assumes of its
callers. `KeepsContract` (`Spec => T!Spec`) is the side of `run` in the contract `Target`: it
asks for a VM at most once, calls the closure at most once and only after a success, and
touches VM and tunnel in no other way.

*`Provisioning_proofs`*, for every deadline: a process that is alive is that of the
command in hand (`ProcessInv`), and each point of the function has behind it what was
made before it (`ProgressInv`). They give `TunnelInHand`, `ChannelCurrent`, `OwnSuccess`
(only `Handshake` succeeds, and only where the listener is the own tunnel), `NoLeak` and
`HandOver`. `Refinement` (`Spec => ImplementsTarget`) is the other side of the contract
`Target`: the return of an error is `Refuse` (`ErrorRefuses`), a handshake that succeeds is
`Succeed`, the deletion that ends the closure is `CleanUp` after a success and the answer
after a failure (`DeletionAnswers`), and `run` notices nothing else (`Unnoticed`). That no
process is lost is `ProcessInv`.

*`SSHSessions_proofs`*, for every number of calls and every concurrency below the limit of
sshd (`SessionsAssumption`, which is `validateConcurrency`): `AnswersAreFinal` needs that
what the goroutine holds, what is in the channel and what was taken from it come from a command that
has ended, or from a connection that is gone (`ResultInv`).
`RefusalsExplained` is a count: a session sshd holds is that of a call in
progress or of a stray (`ServedOrStray`), there are at most `Concurrency - 1` of the
first beside the caller, so a refusal on a connection that is up needs more than `MaxSessions - Concurrency` of the
second.

*`ToolInstall_proofs`*, for every set of required tools and any number of executions on
one VM, on each operating system. `ScriptInv` says what the part of a script already run
has achieved, `LoopInv` that what the loop has dealt with is good, up to the login.
What a script is, and what a command changes, are lemmas (`DockerScript`,
`EffectOfCommand`). `kind` and `kubectl` are good only if the server sent them (`served`),
as in the run; Docker and Cilium are good in every case (`DockerAndCilium`, `Repaired`). `HandOver` is what
stages `tools` and `reconnect` of `Suite` rely on: every tool has been visited, only Docker
asks for a reconnection, and after it the login is in the group.

*`DestructiveChecks_proofs`*, for every registry and any number of executions
(`RegistriesAssumption`, `ExecutionsAssumption`). The first part names the nodes of each
check, with the command and the two successors of each, and shows that a check is
never anywhere else (`RunClosed`, `CleanupClosed`). The invariant then says, node by node,
what is known there:
- `LinkInv`: while an execution is quiet the connection stands;
- `CleanInv`: what a `Cleanup` has removed so far, and when it may still fail;
- `RestInv`: apart from what its `Cleanup` removes (`Removed`), what a quiet check has changed;
- `UsedInv`: which cluster kubeconfig points at and which were talked to;
- `RepairInv`: the cluster of a check that is done is gone, and so is absent when the next
  execution starts;
- `PassInv`: where a `Run` that has every reason to pass can be.

`CleanInv` is not inductive without `LinkInv`, nor `PassInv` without `RepairInv` (a
cluster that is left makes `kind create` fail) and `RestInv` (a resource of another check
is not taken away). `FactsStay` says that no command changes what the VM is: its
tools, certificates and kernel. TLC found `IInv` invariant on the instance of the run
before it was proved. The five properties of the run
follow; the exceptions of `CleanupVerdict` and `RestoresAllButItsOwn` are those of `Own(c)` that no
`Cleanup` removes, `certcheck` and the remount.

*Model-checked only.* Liveness (`CancelReturns`, `NoStarvation`, `Ends`,
`ReturnsUnlessKeptWaiting`, `CallsEnd`): fairness and `ENABLED` are outside what the prover does. Every safety and every
action property of a passing run, and both refinements, are statements of theorems.

## 6. Where the code and its documents differ

Each is a run that TLC finds violated by the model of the code as it is.

1. `suite_readme_order`: `main.go:198` installs the tools of all Tier 1 checks before
   the first of them runs; README.md:45-46 has the independent checks first.
2. `provisioning_teardown`: the request of `Insert` may fail towards the program although GCE
   has made the VM (`provision.go:116`): `CreateInstance` returns an error and no cleanup is
   registered, as after its later errors. README.md:49 calls the teardown guaranteed.
3. `tool_install_unverified`: `curl` without `--fail` makes an error page the tool;
   `validation/interface.go:50`.
4. `host_checks_gatekeeper`: `grep -qw ro` matches the mount option
   `errors=remount-ro`, so that the gatekeeper of the bootstrap directory fails on a
   writable, read-write mount; `bootstrap_dir.go:28`.

Others are visible in the models and have no run of their own:

- `validateChecks` accepts a destructive check in Tier 0, which is run and never cleaned
  up (`interface.go:60`, `main.go:583`). No registered check is of that kind.
- A first start of the tunnel that fails leaves `tunnelCmd` set, so that the loop
  never starts it again (`main.go:269`: "with retries"): `StartTunnel`, second branch.
- A matrix rule with `Skip` false is ignored (`constraints.go:29`, `:43`). No
  registered check has one.
- `Cleanup` of the certificate check removes the image even if it was there before, and
  fails where there is no usable `ctr`; that of the Cilium check leaves the remount and
  always returns nil (`interface.go:59-62`). `RestoresAllButItsOwn`
  and `CleanupVerdict` state the exceptions.
- A container `certcheck` that was cut off is removed by nothing: `Cleanup` reports success
  with it left, although `interface.go:59-62` has it undo what `Run` did, and the check then fails
  on that VM for good. It is an exception of `CleanupVerdict` and of `QuietExecutionRepairs`.
- A handshake on the local port that nobody answers keeps `provisionAndTunnel` past its deadline
  for ever (`main.go:330`): `ssh.Dial` bounds the connect only.
- The hosts in `Overlooks` and `Rejects`, check by check in section 2: descriptions that say
  more, or less, than the check asks.

## 7. Abstractions

Time is the sleeps of the provisioning loop. Wording, logging, the reasons
`IsApplicable` returns and the temporary key files are left out.
`context.Background()` is never done, which `Suite` states in the type of
`ctxDone`. sshd, gcloud, GCE and the commands on the VM are external and are
modelled by the outcomes the code distinguishes. The goroutines of a batch share
only `errs`, under the mutex that `CheckRunner` models. There is one data race in the code
modelled: the `tunnelCmd.Wait()` of the cleanup (`main.go:244`) and the `cmd.Wait()` of the
goroutine (`main.go:297`) are on one `exec.Cmd`. The results of both are ignored or no longer read
and the process has been killed, so that no outcome of the race leads to a state the
model tells apart, and no property is about it.

A check's tree has no time in it: a call is answered, or it is lost. Facts of a host do
not change while a check runs. In `DestructiveChecks` the tools a check requires are
installed, which is what `ToolInstall` is about.

**Not modelled.** The script `e2e/run_e2e.py`, except for what a suite meets of the
others on its local port: it starts processes and prints their results. The shared
`iap-tunnel.log`: diagnostics only. The test doubles (used by tests only) and the
embedded manifests (configuration text). `Register` and its mutex: called only from
`init`, before there is a second goroutine.

## 8. Plan

Done: all modules of section 2, proofs of every safety and action property of the passing
runs, of both refinements (`Batch`, `Target`) and of the combinators of `CheckPrograms`.
Left: an abstract specification of the resolution of the tools, of which `Suite` and
`ToolInstall` would be the two sides as they are of `Target`. `HandOver` states now what
`Suite` needs of it; which tools an execution has installed, which `Suite` remembers,
`ToolInstall` would need a history variable to tell.

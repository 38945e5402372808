---------------------------- MODULE MCHostChecks ----------------------------
(* Every kind of check that the packages register. *)
EXTENDS HostChecks

Registered == AllChecks
Gatekeepers == {"bootstrap", "cgroup", "containerd", "glibc", "tpm", "readability", "binaries"}

\* Parts of versions and values of sysctls on and on both sides of the bounds.
SomeNumbers == {0, 1, 2, 3, 5, 6, 7, 8, 9, 34, 35, 36}
SomeValues == {-1, 0, 1, 2020, 2021, 2022}

\* drwxr-xr-x, lrwxrwxrwx, drwx-----T, drwxrwxrwx, drwxrwxrwt, drwxr-xr-T,
\* drw-r--r--, -rw-r--r--: those of the tables, and each way to miss one of them.
SomeModes == {Dir755, Link777, Sticky700, Letters("d", Rights, {}), Letters("d", Rights, {"ox"}),
              Letters("d", Rights \ {"gw", "ow", "ox"}, {"ox"}),
              Letters("d", {"ur", "uw", "gr", "or"}, {}), Letters("-", {"ur", "uw", "gr", "or"}, {})}
=============================================================================

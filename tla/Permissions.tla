---------------------------- MODULE Permissions ----------------------------
(***************************************************************************)
(* ParsePermissions and IsPermissiveSuperset (pkg/validation).  A mode is  *)
(* what `stat -c %A` prints of it: a letter for the type of the file, then *)
(* three letters for each of owner, group and others.  The letter of an    *)
(* execute right is x, or s or t where the set-id or sticky bit is set too,*)
(* or S or T where only that bit is set.                                   *)
(***************************************************************************)
EXTENDS FiniteSets

Executes == {"ux", "gx", "ox"}
Rights == {"ur", "uw", "gr", "gw", "or", "ow"} \cup Executes

Mode == [type: {"d", "-", "l", "c"}, rights: SUBSET Rights, special: SUBSET Executes]

\* The first letter is dropped; x, s and S (t and T for the others) count as
\* the right to execute.
ParsePermissions(mode) == mode.rights \cup mode.special

IsPermissiveSuperset(actual, expected) ==
  \/ actual = expected
  \/ ParsePermissions(expected) \subseteq ParsePermissions(actual)

\* What the mode lets somebody do, and whether its letters say so plainly.
Grants(actual, expected) == expected.rights \subseteq actual.rights
Plain(mode) == mode.special \subseteq mode.rights
=============================================================================

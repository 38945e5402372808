-------------------------- MODULE MCApplicability --------------------------
(***************************************************************************)
(* Model of Applicability for TLC: versions around the bounds that the     *)
(* registry and the comments of constraints.go name, with and without a    *)
(* pre-release and with missing numbers; the constraints of the registered *)
(* checks bfq and cryptsetup, and one of each other form.                  *)
(***************************************************************************)
EXTENDS Applicability

CONSTANTS plain, bfq, cryptsetup, newer, window, onlyCos, notUbuntu, unlessUbuntu,
          skipRule, versionRule

MCChecks == {plain, bfq, cryptsetup, newer, window, onlyCos, notUbuntu,
             unlessUbuntu, skipRule, versionRule}

V(ns, p) == [nums |-> ns, pre |-> p]
NoBound == V(<<>>, 0)

MCTexts == {NoBound, V(<<1>>, 0), V(<<1, 32, 0>>, 0), V(<<1, 33, 0>>, 0),
            V(<<1, 33, 5>>, 0), V(<<1, 34, 0>>, 1), V(<<1, 34>>, 0),
            V(<<1, 35, 0>>, 1), V(<<1, 35, 0>>, 2), V(<<1, 35, 0>>, 0),
            V(<<1, 36, 99>>, 0), V(<<1, 37>>, 2), V(<<1, 37>>, 0),
            V(<<1, 32, 0>>, 1), V(<<2, 0, 1>>, 0)}

MCOSNames == {"cos", "COS", "ubuntu", "Ubuntu", "ubuntu ", "Ubuntu "}
MCLower == [o \in MCOSNames |-> CASE o = "COS" -> "cos" [] o = "Ubuntu" -> "ubuntu"
                                  [] o = "Ubuntu " -> "ubuntu " [] OTHER -> o]
MCTrim == [o \in MCOSNames |-> CASE o = "ubuntu " -> "ubuntu" [] o = "Ubuntu " -> "Ubuntu"
                                 [] OTHER -> o]

Zero == [onlyOS |-> {}, skipOS |-> {}, min |-> NoBound, max |-> NoBound, matrix |-> {}]

MCConstraints == [c \in MCChecks |->
    CASE c = plain -> Zero
      [] c = bfq -> [Zero EXCEPT !.min = V(<<1, 32, 0>>, 0)]
      [] c = cryptsetup -> [Zero EXCEPT !.min = V(<<1, 33, 0>>, 0)]
      [] c = newer -> [Zero EXCEPT !.min = V(<<1, 37>>, 0)]
      [] c = window -> [Zero EXCEPT !.min = V(<<1, 35, 0>>, 2), !.max = V(<<1, 36, 99>>, 0)]
      [] c = onlyCos -> [Zero EXCEPT !.onlyOS = {"COS"}]
      [] c = notUbuntu -> [Zero EXCEPT !.skipOS = {"Ubuntu"}]
      [] c = unlessUbuntu -> [Zero EXCEPT !.matrix =
             {[osID |-> "Ubuntu", min |-> NoBound, max |-> NoBound, skip |-> TRUE]}]
      [] c = skipRule -> [Zero EXCEPT !.matrix =
             {[osID |-> "ubuntu", min |-> NoBound, max |-> V(<<1, 35, 0>>, 0), skip |-> TRUE]}]
      [] c = versionRule -> [Zero EXCEPT !.matrix =
             {[osID |-> "cos", min |-> V(<<1, 37>>, 0), max |-> NoBound, skip |-> FALSE]}]]
=============================================================================

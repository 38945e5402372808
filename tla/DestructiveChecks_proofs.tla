---------------------- MODULE DestructiveChecks_proofs ----------------------
(***************************************************************************)
(* What holds of the destructive checks for every registry and any number  *)
(* of executions of the suite on one VM.  The code of a check is a tree of *)
(* commands: the first part names its nodes and says of each what its      *)
(* command does and what follows.  The invariant then says, node by node,  *)
(* what is known of the VM when a check is there; a step of the process is *)
(* a step along the tree, and a command that goes on by itself comes from  *)
(* anywhere.  Nothing further on looks into a node again.                  *)
(***************************************************************************)
EXTENDS DestructiveChecks, FiniteSetTheorems, TLAPS

\* Where Run and Cleanup of each check can be.
As == {"user", "sudo"}
Sudo(rest) == Do(Asks({"ctr", "sudo"}), rest["sudo"], rest["user"])
Linked == Do(Asks({}), Prefixed(TRUE), Prefixed(FALSE))
CertMounts(l) == GetRequiredCertMounts(l, [mounts \in BOOLEAN |-> Prefixed(mounts)])
Pulls(m) == [as \in As |-> Pull(m, as)]
Pulled(m, as) == Try(Asks({"ctr", as, "alpine"}), Container(m, as))
Removals == [as \in As |-> RemoveImage(as)]

KindTest2 == Try(OnCluster({}), Nil)
KindTest1 == Try(OnCluster({}), KindTest2)

CiliumTest2  == Try(OnCluster({"datapath"}), Nil)
CiliumTest1  == Try(OnCluster({"datapath"}), CiliumTest2)
CiliumSetUp  == Try(OnCluster({"cilium-values.yaml"}), CiliumTest1)
CiliumCreate == Try(KindCreate("gke-os-cert-cilium", {"kind-cilium-config.yaml"}), CiliumSetUp)
CiliumFile2  == Try(Creates("cilium-values.yaml", {}, {}), CiliumCreate)
CiliumFile1  == Try(Creates("kind-cilium-config.yaml", {}, {}), CiliumFile2)
CiliumRemove == Ignore(Removes(Files, {}), Nil)

AtCertRun(n) ==
  \/ \E l \in BOOLEAN : n = ContainerCertsRun(l) \/ n = CertMounts(l)
  \/ n = Linked
  \/ \E m \in BOOLEAN : n = Prefixed(m) \/ n = Sudo(Pulls(m))
  \/ \E m \in BOOLEAN, as \in As : n = Pull(m, as) \/ n = Pulled(m, as) \/ n = Container(m, as)

AtCertCleanup(n) ==
  n = ContainerCertsCleanup \/ n = Sudo(Removals) \/ \E as \in As : n = RemoveImage(as)

AtCiliumRun(n) ==
  n \in {CiliumDatapathRun, CiliumFile1, CiliumFile2, CiliumCreate, CiliumSetUp, CiliumTest1,
         CiliumTest2}

AtRun(c, n) ==
  \/ n \in {Nil, Error}
  \/ c = "containerCerts" /\ AtCertRun(n)
  \/ c = "ciliumDatapath" /\ AtCiliumRun(n)
  \/ c = "dockerRun" /\ n = DockerRunRun
  \/ c = "kindCluster" /\ n \in {KindClusterRun, KindTest1, KindTest2}

AtCleanup(c, n) ==
  \/ n \in {Nil, Error}
  \/ c = "containerCerts" /\ AtCertCleanup(n)
  \/ c = "ciliumDatapath" /\ n \in {CiliumDatapathCleanup, CiliumRemove}
  \/ c = "dockerRun" /\ n = DockerRunCleanup
  \/ c = "kindCluster" /\ n = KindClusterCleanup

----------------------------------------------------------------------------
LEMMA Leaves == Nil # Error
BY DEF Nil, Error

LEMMA DoParts ==
  ASSUME NEW c, NEW x, NEW y
  PROVE  /\ Do(c, x, y).command = c /\ Do(c, x, y).ok = x /\ Do(c, x, y).no = y
         /\ DOMAIN Do(c, x, y) = {"command", "ok", "no"}
         /\ Do(c, x, y) \notin {Nil, Error}
<1>1. DOMAIN Do(c, x, y) = {"command", "ok", "no"}
  BY DEF Do
<1>2. DOMAIN Nil = {"returns"} /\ DOMAIN Error = {"returns"}
  BY DEF Nil, Error
<1>3. Do(c, x, y) \notin {Nil, Error}
  BY <1>1, <1>2
<1> QED
  BY <1>1, <1>3 DEF Do

LEMMA CommandParts ==
  ASSUME NEW n, NEW f, NEW a, NEW d, NEW l
  PROVE  /\ Command(n, f, a, d, l).needs = n /\ Command(n, f, a, d, l).free = f
         /\ Command(n, f, a, d, l).adds = a /\ Command(n, f, a, d, l).drops = d
         /\ Command(n, f, a, d, l).leaves = l
BY DEF Command
LEMMA Steps ==
  ASSUME NEW c, NEW x, NEW y
  PROVE  /\ Try(c, x).command = c /\ Try(c, x).ok = x /\ Try(c, x).no = Error
         /\ Ignore(c, x).command = c /\ Ignore(c, x).ok = x /\ Ignore(c, x).no = x
         /\ Try(c, x) \notin {Nil, Error} /\ Ignore(c, x) \notin {Nil, Error}
         /\ DOMAIN Try(c, x) = {"command", "ok", "no"}
         /\ DOMAIN Ignore(c, x) = {"command", "ok", "no"}
BY DoParts DEF Try, Ignore

----------------------------------------------------------------------------
(* Each node of the certificate check: its command and what follows. *)

\* n executes a command c, then goes on at ok or at no.
Node(n, c, ok, no) ==
  /\ n.command = c /\ n.ok = ok /\ n.no = no
  /\ n \notin {Nil, Error} /\ DOMAIN n = {"command", "ok", "no"}

LEMMA DoNode ==
  ASSUME NEW c, NEW x, NEW y
  PROVE  Node(Do(c, x, y), c, x, y) /\ Node(Try(c, x), c, x, Error)
         /\ Node(Ignore(c, x), c, x, x)
BY DoParts, Steps DEF Node

LEMMA CertRunNodes ==
  ASSUME NEW l \in BOOLEAN, NEW m \in BOOLEAN, NEW as \in As
  PROVE  /\ Node(ContainerCertsRun(l), Asks({"ctr"}), CertMounts(l), Error)
         /\ Node(CertMounts(l), Asks({}), IF l THEN Linked ELSE Prefixed(TRUE), Prefixed(FALSE))
         /\ Node(Linked, Asks({}), Prefixed(TRUE), Prefixed(FALSE))
         /\ Node(Prefixed(m), Asks({"ctr", "user"}), Pull(m, "user"), Sudo(Pulls(m)))
         /\ Node(Sudo(Pulls(m)), Asks({"ctr", "sudo"}), Pull(m, "sudo"), Pull(m, "user"))
         /\ Node(Pull(m, as), Creates("alpine", {"ctr", as}, {}), Container(m, as), Pulled(m, as))
         /\ Node(Pulled(m, as), Asks({"ctr", as, "alpine"}), Container(m, as), Error)
         /\ Node(Container(m, as), CertCheck(m, as), Nil, Error)
<1>1. Node(ContainerCertsRun(l), Asks({"ctr"}), CertMounts(l), Error)
  BY DoNode DEF ContainerCertsRun, CertMounts
<1>2. Node(CertMounts(l), Asks({}), IF l THEN Linked ELSE Prefixed(TRUE), Prefixed(FALSE))
  <2> DEFINE rest == [mounts \in BOOLEAN |-> Prefixed(mounts)]
  <2>1. rest[TRUE] = Prefixed(TRUE) /\ rest[FALSE] = Prefixed(FALSE)
    OBVIOUS
  <2>2. CertMounts(l) = Do(Asks({}), IF l THEN Do(Asks({}), rest[TRUE], rest[FALSE])
                                          ELSE rest[TRUE], rest[FALSE])
    BY DEF CertMounts, GetRequiredCertMounts
  <2> HIDE DEF rest
  <2>3. CertMounts(l) = Do(Asks({}), IF l THEN Linked ELSE Prefixed(TRUE), Prefixed(FALSE))
    BY <2>1, <2>2 DEF Linked
  <2> QED
    BY <2>3, DoNode
<1>3. Node(Linked, Asks({}), Prefixed(TRUE), Prefixed(FALSE))
  BY DoNode DEF Linked
<1>4. Node(Prefixed(m), Asks({"ctr", "user"}), Pull(m, "user"), Sudo(Pulls(m)))
  <2>1. Pulls(m)["user"] = Pull(m, "user")
    BY DEF Pulls, As
  <2>2. Prefixed(m) = Do(Asks({"ctr", "user"}), Pulls(m)["user"], Sudo(Pulls(m)))
    BY DEF Prefixed, CtrPrefix, Pulls, As, Sudo
  <2> QED
    BY <2>1, <2>2, DoNode
<1>5. Node(Sudo(Pulls(m)), Asks({"ctr", "sudo"}), Pull(m, "sudo"), Pull(m, "user"))
  <2>1. Pulls(m)["sudo"] = Pull(m, "sudo") /\ Pulls(m)["user"] = Pull(m, "user")
    BY DEF Pulls, As
  <2> QED
    BY <2>1, DoNode DEF Sudo
<1>6. Node(Pull(m, as), Creates("alpine", {"ctr", as}, {}), Container(m, as), Pulled(m, as))
  BY DoNode DEF Pull, Pulled
<1>7. Node(Pulled(m, as), Asks({"ctr", as, "alpine"}), Container(m, as), Error)
  BY DoNode DEF Pulled
<1>8. Node(Container(m, as), CertCheck(m, as), Nil, Error)
  BY DoNode DEF Container
<1> QED
  BY <1>1, <1>2, <1>3, <1>4, <1>5, <1>6, <1>7, <1>8

LEMMA CertCleanupNodes ==
  ASSUME NEW as \in As
  PROVE  /\ Node(ContainerCertsCleanup, Asks({"ctr", "user"}), RemoveImage("user"), Sudo(Removals))
         /\ Node(Sudo(Removals), Asks({"ctr", "sudo"}), RemoveImage("sudo"), RemoveImage("user"))
         /\ Node(RemoveImage(as), Removes({"alpine"}, {"ctr", as}), Nil, Error)
<1>1. Removals["sudo"] = RemoveImage("sudo") /\ Removals["user"] = RemoveImage("user")
  BY DEF Removals, As
<1>2. ContainerCertsCleanup = Do(Asks({"ctr", "user"}), Removals["user"], Sudo(Removals))
  BY DEF ContainerCertsCleanup, CtrPrefix, Removals, As, Sudo
<1>3. Node(ContainerCertsCleanup, Asks({"ctr", "user"}), RemoveImage("user"), Sudo(Removals))
  BY <1>1, <1>2, DoNode
<1>4. Node(Sudo(Removals), Asks({"ctr", "sudo"}), RemoveImage("sudo"), RemoveImage("user"))
  BY <1>1, DoNode DEF Sudo
<1>5. Node(RemoveImage(as), Removes({"alpine"}, {"ctr", as}), Nil, Error)
  BY DoNode DEF RemoveImage
<1> QED
  BY <1>3, <1>4, <1>5

LEMMA ClusterNodes ==
  /\ Node(KindClusterRun, KindCreate("cert-validation", {}), KindTest1, Error)
  /\ Node(KindTest1, OnCluster({}), KindTest2, Error)
  /\ Node(KindTest2, OnCluster({}), Nil, Error)
  /\ Node(KindClusterCleanup, Removes({"cert-validation"}, {}), Nil, Error)
  /\ Node(DockerRunRun, Creates("hello-world", {}, {}), Nil, Error)
  /\ Node(DockerRunCleanup, Removes({"hello-world"}, {}), Nil, Error)
BY DoNode DEF KindClusterRun, KindTest1, KindTest2, KindClusterCleanup, DockerRunRun,
              DockerRunCleanup

LEMMA CiliumNodes ==
  /\ Node(CiliumDatapathRun, Creates("exec-mount", {}, {}), CiliumFile1, CiliumFile1)
  /\ Node(CiliumFile1, Creates("kind-cilium-config.yaml", {}, {}), CiliumFile2, Error)
  /\ Node(CiliumFile2, Creates("cilium-values.yaml", {}, {}), CiliumCreate, Error)
  /\ Node(CiliumCreate, KindCreate("gke-os-cert-cilium", {"kind-cilium-config.yaml"}),
          CiliumSetUp, Error)
  /\ Node(CiliumSetUp, OnCluster({"cilium-values.yaml"}), CiliumTest1, Error)
  /\ Node(CiliumTest1, OnCluster({"datapath"}), CiliumTest2, Error)
  /\ Node(CiliumTest2, OnCluster({"datapath"}), Nil, Error)
  /\ Node(CiliumDatapathCleanup, Removes({"gke-os-cert-cilium"}, {}), CiliumRemove, CiliumRemove)
  /\ Node(CiliumRemove, Removes(Files, {}), Nil, Nil)
BY DoNode DEF CiliumDatapathRun, CiliumFile1, CiliumFile2, CiliumCreate, CiliumSetUp, CiliumTest1,
              CiliumTest2, CiliumDatapathCleanup, CiliumRemove

----------------------------------------------------------------------------
(* What Run and Cleanup may do to the VM *)

\* Run adds what is the check's own, Cleanup drops all but two of that: the
\* container and the remount.
Removed(c) ==
  CASE c = "containerCerts" -> {"alpine"}
    [] c = "ciliumDatapath" -> {"gke-os-cert-cilium"} \cup Files
    [] c = "dockerRun" -> {"hello-world"}
    [] c = "kindCluster" -> {"cert-validation"}

RunNode(c, n) ==
  /\ DOMAIN n = {"command", "ok", "no"} /\ n \notin {Nil, Error}
  /\ AtRun(c, n.ok) /\ AtRun(c, n.no)
  /\ n.command.adds \subseteq Own(c) /\ n.command.leaves \subseteq Own(c)
  /\ n.command.drops = {}

CleanupNode(c, n) ==
  /\ DOMAIN n = {"command", "ok", "no"} /\ n \notin {Nil, Error}
  /\ AtCleanup(c, n.ok) /\ AtCleanup(c, n.no)
  /\ n.command.adds = {} /\ n.command.leaves = {}
  /\ n.command.drops \subseteq Removed(c) /\ "context" \notin n.command.needs

LEMMA OwnResources ==
  ASSUME NEW c \in DestructiveCheck
  PROVE  Removed(c) \subseteq Resources /\ Own(c) \subseteq Resources
BY DEF DestructiveCheck, Removed, Own, Resources, Clusters, Files

LEMMA RunCloses ==
  ASSUME NEW c, NEW n, NEW x, NEW y, NEW k,
         Node(n, k, x, y), AtRun(c, x), AtRun(c, y),
         k.adds \subseteq Own(c), k.leaves \subseteq Own(c), k.drops = {}
  PROVE  RunNode(c, n)
BY DEF Node, RunNode

LEMMA CleanupCloses ==
  ASSUME NEW c, NEW n, NEW x, NEW y, NEW k,
         Node(n, k, x, y), AtCleanup(c, x), AtCleanup(c, y),
         k.adds = {}, k.leaves = {}, k.drops \subseteq Removed(c), "context" \notin k.needs
  PROVE  CleanupNode(c, n)
BY DEF Node, CleanupNode

LEMMA AsksFields ==
  ASSUME NEW s
  PROVE  /\ Asks(s).adds = {} /\ Asks(s).leaves = {} /\ Asks(s).drops = {}
         /\ Asks(s).needs = s /\ Asks(s).free = {}
BY CommandParts DEF Asks

LEMMA OnClusterFields ==
  ASSUME NEW s
  PROVE  /\ OnCluster(s).adds = {} /\ OnCluster(s).leaves = {} /\ OnCluster(s).drops = {}
         /\ OnCluster(s).needs = s \cup {"context"} /\ OnCluster(s).free = {}
BY CommandParts DEF OnCluster

LEMMA CreatesFields ==
  ASSUME NEW r, NEW s, NEW f
  PROVE  /\ Creates(r, s, f).adds = {r} /\ Creates(r, s, f).leaves = {r}
         /\ Creates(r, s, f).drops = {}
         /\ Creates(r, s, f).needs = s /\ Creates(r, s, f).free = f
BY CommandParts DEF Creates

LEMMA KindCreateFields ==
  ASSUME NEW r, NEW s
  PROVE  /\ KindCreate(r, s).adds = {r} /\ KindCreate(r, s).leaves = {r}
         /\ KindCreate(r, s).drops = {}
         /\ KindCreate(r, s).needs = s /\ KindCreate(r, s).free = {r}
BY CreatesFields DEF KindCreate

LEMMA RemovesFields ==
  ASSUME NEW d, NEW s
  PROVE  /\ Removes(d, s).adds = {} /\ Removes(d, s).leaves = {} /\ Removes(d, s).drops = d
         /\ Removes(d, s).needs = s /\ Removes(d, s).free = {}
BY CommandParts DEF Removes

LEMMA CertCheckFields ==
  ASSUME NEW m, NEW as
  PROVE  /\ CertCheck(m, as).adds = {} /\ CertCheck(m, as).leaves = {"certcheck"}
         /\ CertCheck(m, as).drops = {}
         /\ CertCheck(m, as).needs = {"ctr", as, "alpine", "certs"}
         /\ CertCheck(m, as).free = {"certcheck"} \cup (IF m THEN {} ELSE {"linked"})
<1> DEFINE f == {"certcheck"} \cup (IF m THEN {} ELSE {"linked"})
           s == {"ctr", as, "alpine", "certs"}
<1>1. CertCheck(m, as) = Command(s, f, {}, {}, {"certcheck"})
  BY DEF CertCheck
<1> HIDE DEF f, s
<1>2. /\ CertCheck(m, as).adds = {} /\ CertCheck(m, as).leaves = {"certcheck"}
      /\ CertCheck(m, as).drops = {} /\ CertCheck(m, as).needs = s /\ CertCheck(m, as).free = f
  BY <1>1, CommandParts
<1> QED
  BY <1>2 DEF f, s

LEMMA CertRunClosed ==
  ASSUME NEW n, AtCertRun(n)
  PROVE  RunNode("containerCerts", n)
<1> DEFINE c == "containerCerts"
<1>1. /\ {"alpine"} \subseteq Own(c) /\ {"certcheck"} \subseteq Own(c)
      /\ {"alpine"} \subseteq Removed(c)
      /\ "user" \in As /\ "sudo" \in As /\ "context" \notin As
  BY DEF As, Own, Removed
<1>2. CASE \E l \in BOOLEAN : n = ContainerCertsRun(l)
  <2>1. PICK l \in BOOLEAN : n = ContainerCertsRun(l)
    BY <1>2
  <2>2. Node(n, Asks({"ctr"}), CertMounts(l), Error)
    BY <1>1, <2>1, CertRunNodes
  <2>3. AtRun(c, CertMounts(l)) /\ AtRun(c, Error)
    BY <1>1 DEF AtRun, AtCertRun
  <2>4. /\ Asks({"ctr"}).adds = {} /\ Asks({"ctr"}).leaves = {}
        /\ Asks({"ctr"}).drops = {}
    BY AsksFields
  <2> QED
    BY <1>1, <2>2, <2>3, <2>4, RunCloses
<1>3. CASE \E l \in BOOLEAN : n = CertMounts(l)
  <2>1. PICK l \in BOOLEAN : n = CertMounts(l)
    BY <1>3
  <2>2. Node(n, Asks({}), (IF l THEN Linked ELSE Prefixed(TRUE)), Prefixed(FALSE))
    BY <1>1, <2>1, CertRunNodes
  <2>3. AtRun(c, (IF l THEN Linked ELSE Prefixed(TRUE))) /\ AtRun(c, Prefixed(FALSE))
    BY <1>1 DEF AtRun, AtCertRun
  <2>4. /\ Asks({}).adds = {} /\ Asks({}).leaves = {}
        /\ Asks({}).drops = {}
    BY AsksFields
  <2> QED
    BY <1>1, <2>2, <2>3, <2>4, RunCloses
<1>4. CASE n = Linked
  <2>1. Node(n, Asks({}), Prefixed(TRUE), Prefixed(FALSE))
    BY <1>1, <1>4, CertRunNodes
  <2>2. AtRun(c, Prefixed(TRUE)) /\ AtRun(c, Prefixed(FALSE))
    BY <1>1 DEF AtRun, AtCertRun
  <2>3. /\ Asks({}).adds = {} /\ Asks({}).leaves = {}
        /\ Asks({}).drops = {}
    BY AsksFields
  <2> QED
    BY <1>1, <2>1, <2>2, <2>3, RunCloses
<1>5. CASE \E m \in BOOLEAN : n = Prefixed(m)
  <2>1. PICK m \in BOOLEAN : n = Prefixed(m)
    BY <1>5
  <2>2. Node(n, Asks({"ctr", "user"}), Pull(m, "user"), Sudo(Pulls(m)))
    BY <1>1, <2>1, CertRunNodes
  <2>3. AtRun(c, Pull(m, "user")) /\ AtRun(c, Sudo(Pulls(m)))
    BY <1>1 DEF AtRun, AtCertRun
  <2>4. /\ Asks({"ctr", "user"}).adds = {} /\ Asks({"ctr", "user"}).leaves = {}
        /\ Asks({"ctr", "user"}).drops = {}
    BY AsksFields
  <2> QED
    BY <1>1, <2>2, <2>3, <2>4, RunCloses
<1>6. CASE \E m \in BOOLEAN : n = Sudo(Pulls(m))
  <2>1. PICK m \in BOOLEAN : n = Sudo(Pulls(m))
    BY <1>6
  <2>2. Node(n, Asks({"ctr", "sudo"}), Pull(m, "sudo"), Pull(m, "user"))
    BY <1>1, <2>1, CertRunNodes
  <2>3. AtRun(c, Pull(m, "sudo")) /\ AtRun(c, Pull(m, "user"))
    BY <1>1 DEF AtRun, AtCertRun
  <2>4. /\ Asks({"ctr", "sudo"}).adds = {} /\ Asks({"ctr", "sudo"}).leaves = {}
        /\ Asks({"ctr", "sudo"}).drops = {}
    BY AsksFields
  <2> QED
    BY <1>1, <2>2, <2>3, <2>4, RunCloses
<1>7. CASE \E m \in BOOLEAN, as \in As : n = Pull(m, as)
  <2>1. PICK m \in BOOLEAN, as \in As : n = Pull(m, as)
    BY <1>7
  <2>2. Node(n, Creates("alpine", {"ctr", as}, {}), Container(m, as), Pulled(m, as))
    BY <1>1, <2>1, CertRunNodes
  <2>3. AtRun(c, Container(m, as)) /\ AtRun(c, Pulled(m, as))
    BY <1>1 DEF AtRun, AtCertRun
  <2>4. /\ Creates("alpine", {"ctr", as}, {}).adds = {"alpine"}
        /\ Creates("alpine", {"ctr", as}, {}).leaves = {"alpine"}
        /\ Creates("alpine", {"ctr", as}, {}).drops = {}
    BY CreatesFields
  <2> QED
    BY <1>1, <2>1, <2>2, <2>3, <2>4, RunCloses
<1>8. CASE \E m \in BOOLEAN, as \in As : n = Pulled(m, as)
  <2>1. PICK m \in BOOLEAN, as \in As : n = Pulled(m, as)
    BY <1>8
  <2>2. Node(n, Asks({"ctr", as, "alpine"}), Container(m, as), Error)
    BY <1>1, <2>1, CertRunNodes
  <2>3. AtRun(c, Container(m, as)) /\ AtRun(c, Error)
    BY <1>1 DEF AtRun, AtCertRun
  <2>4. /\ Asks({"ctr", as, "alpine"}).adds = {} /\ Asks({"ctr", as, "alpine"}).leaves = {}
        /\ Asks({"ctr", as, "alpine"}).drops = {}
    BY AsksFields
  <2> QED
    BY <1>1, <2>1, <2>2, <2>3, <2>4, RunCloses
<1>9. CASE \E m \in BOOLEAN, as \in As : n = Container(m, as)
  <2>1. PICK m \in BOOLEAN, as \in As : n = Container(m, as)
    BY <1>9
  <2>2. Node(n, CertCheck(m, as), Nil, Error)
    BY <1>1, <2>1, CertRunNodes
  <2>3. AtRun(c, Nil) /\ AtRun(c, Error)
    BY <1>1 DEF AtRun, AtCertRun
  <2>4. /\ CertCheck(m, as).adds = {} /\ CertCheck(m, as).leaves = {"certcheck"}
        /\ CertCheck(m, as).drops = {}
    BY CertCheckFields
  <2> QED
    BY <1>1, <2>1, <2>2, <2>3, <2>4, RunCloses
<1> QED
  BY <1>2, <1>3, <1>4, <1>5, <1>6, <1>7, <1>8, <1>9 DEF AtCertRun

LEMMA CertCleanupClosed ==
  ASSUME NEW n, AtCertCleanup(n)
  PROVE  CleanupNode("containerCerts", n)
<1> DEFINE c == "containerCerts"
<1>1. /\ {"alpine"} \subseteq Own(c) /\ {"certcheck"} \subseteq Own(c)
      /\ {"alpine"} \subseteq Removed(c)
      /\ "user" \in As /\ "sudo" \in As /\ "context" \notin As
  BY DEF As, Own, Removed
<1>2. CASE n = ContainerCertsCleanup
  <2>1. Node(n, Asks({"ctr", "user"}), RemoveImage("user"), Sudo(Removals))
    BY <1>1, <1>2, CertCleanupNodes
  <2>2. AtCleanup(c, RemoveImage("user")) /\ AtCleanup(c, Sudo(Removals))
    BY <1>1 DEF AtCleanup, AtCertCleanup
  <2>3. /\ Asks({"ctr", "user"}).adds = {} /\ Asks({"ctr", "user"}).leaves = {}
        /\ Asks({"ctr", "user"}).drops = {} /\ Asks({"ctr", "user"}).needs = {"ctr", "user"}
    BY AsksFields
  <2> QED
    BY <1>1, <2>1, <2>2, <2>3, CleanupCloses
<1>3. CASE n = Sudo(Removals)
  <2>1. Node(n, Asks({"ctr", "sudo"}), RemoveImage("sudo"), RemoveImage("user"))
    BY <1>1, <1>3, CertCleanupNodes
  <2>2. AtCleanup(c, RemoveImage("sudo")) /\ AtCleanup(c, RemoveImage("user"))
    BY <1>1 DEF AtCleanup, AtCertCleanup
  <2>3. /\ Asks({"ctr", "sudo"}).adds = {} /\ Asks({"ctr", "sudo"}).leaves = {}
        /\ Asks({"ctr", "sudo"}).drops = {} /\ Asks({"ctr", "sudo"}).needs = {"ctr", "sudo"}
    BY AsksFields
  <2> QED
    BY <1>1, <2>1, <2>2, <2>3, CleanupCloses
<1>4. CASE \E as \in As : n = RemoveImage(as)
  <2>1. PICK as \in As : n = RemoveImage(as)
    BY <1>4
  <2>2. Node(n, Removes({"alpine"}, {"ctr", as}), Nil, Error)
    BY <1>1, <2>1, CertCleanupNodes
  <2>3. AtCleanup(c, Nil) /\ AtCleanup(c, Error)
    BY <1>1 DEF AtCleanup, AtCertCleanup
  <2>4. /\ Removes({"alpine"}, {"ctr", as}).adds = {}
        /\ Removes({"alpine"}, {"ctr", as}).leaves = {}
        /\ Removes({"alpine"}, {"ctr", as}).drops = {"alpine"}
        /\ Removes({"alpine"}, {"ctr", as}).needs = {"ctr", as}
    BY RemovesFields
  <2> QED
    BY <1>1, <2>1, <2>2, <2>3, <2>4, CleanupCloses
<1> QED
  BY <1>2, <1>3, <1>4 DEF AtCertCleanup

LEMMA CiliumRunClosed ==
  ASSUME NEW n, AtCiliumRun(n)
  PROVE  RunNode("ciliumDatapath", n)
<1> DEFINE c == "ciliumDatapath"
<1>1. /\ {"exec-mount"} \subseteq Own(c) /\ {"kind-cilium-config.yaml"} \subseteq Own(c)
      /\ {"cilium-values.yaml"} \subseteq Own(c) /\ {"gke-os-cert-cilium"} \subseteq Own(c)
      /\ {"gke-os-cert-cilium"} \subseteq Removed(c) /\ Files \subseteq Removed(c)
  BY DEF Own, Removed, Files
<1>2. CASE n = CiliumDatapathRun
  <2>1. Node(n, Creates("exec-mount", {}, {}), CiliumFile1, CiliumFile1)
    BY <1>1, <1>2, CiliumNodes
  <2>2. AtRun(c, CiliumFile1) /\ AtRun(c, CiliumFile1)
    BY <1>1 DEF AtRun, AtCiliumRun
  <2>3. /\ Creates("exec-mount", {}, {}).adds = {"exec-mount"}
        /\ Creates("exec-mount", {}, {}).leaves = {"exec-mount"}
        /\ Creates("exec-mount", {}, {}).drops = {}
    BY CreatesFields
  <2> QED
    BY <1>1, <2>1, <2>2, <2>3, RunCloses
<1>3. CASE n = CiliumFile1
  <2>1. Node(n, Creates("kind-cilium-config.yaml", {}, {}), CiliumFile2, Error)
    BY <1>1, <1>3, CiliumNodes
  <2>2. AtRun(c, CiliumFile2) /\ AtRun(c, Error)
    BY <1>1 DEF AtRun, AtCiliumRun
  <2>3. /\ Creates("kind-cilium-config.yaml", {}, {}).adds = {"kind-cilium-config.yaml"}
        /\ Creates("kind-cilium-config.yaml", {}, {}).leaves = {"kind-cilium-config.yaml"}
        /\ Creates("kind-cilium-config.yaml", {}, {}).drops = {}
    BY CreatesFields
  <2> QED
    BY <1>1, <2>1, <2>2, <2>3, RunCloses
<1>4. CASE n = CiliumFile2
  <2>1. Node(n, Creates("cilium-values.yaml", {}, {}), CiliumCreate, Error)
    BY <1>1, <1>4, CiliumNodes
  <2>2. AtRun(c, CiliumCreate) /\ AtRun(c, Error)
    BY <1>1 DEF AtRun, AtCiliumRun
  <2>3. /\ Creates("cilium-values.yaml", {}, {}).adds = {"cilium-values.yaml"}
        /\ Creates("cilium-values.yaml", {}, {}).leaves = {"cilium-values.yaml"}
        /\ Creates("cilium-values.yaml", {}, {}).drops = {}
    BY CreatesFields
  <2> QED
    BY <1>1, <2>1, <2>2, <2>3, RunCloses
<1>5. CASE n = CiliumCreate
  <2>1. Node(n, KindCreate("gke-os-cert-cilium", {"kind-cilium-config.yaml"}), CiliumSetUp, Error)
    BY <1>1, <1>5, CiliumNodes
  <2>2. AtRun(c, CiliumSetUp) /\ AtRun(c, Error)
    BY <1>1 DEF AtRun, AtCiliumRun
  <2>3. /\ KindCreate("gke-os-cert-cilium", {"kind-cilium-config.yaml"}).adds = {"gke-os-cert-cilium"}
        /\ KindCreate("gke-os-cert-cilium", {"kind-cilium-config.yaml"}).leaves = {"gke-os-cert-cilium"}
        /\ KindCreate("gke-os-cert-cilium", {"kind-cilium-config.yaml"}).drops = {}
    BY KindCreateFields
  <2> QED
    BY <1>1, <2>1, <2>2, <2>3, RunCloses
<1>6. CASE n = CiliumSetUp
  <2>1. Node(n, OnCluster({"cilium-values.yaml"}), CiliumTest1, Error)
    BY <1>1, <1>6, CiliumNodes
  <2>2. AtRun(c, CiliumTest1) /\ AtRun(c, Error)
    BY <1>1 DEF AtRun, AtCiliumRun
  <2>3. /\ OnCluster({"cilium-values.yaml"}).adds = {}
        /\ OnCluster({"cilium-values.yaml"}).leaves = {}
        /\ OnCluster({"cilium-values.yaml"}).drops = {}
    BY OnClusterFields
  <2> QED
    BY <1>1, <2>1, <2>2, <2>3, RunCloses
<1>7. CASE n = CiliumTest1
  <2>1. Node(n, OnCluster({"datapath"}), CiliumTest2, Error)
    BY <1>1, <1>7, CiliumNodes
  <2>2. AtRun(c, CiliumTest2) /\ AtRun(c, Error)
    BY <1>1 DEF AtRun, AtCiliumRun
  <2>3. /\ OnCluster({"datapath"}).adds = {} /\ OnCluster({"datapath"}).leaves = {}
        /\ OnCluster({"datapath"}).drops = {}
    BY OnClusterFields
  <2> QED
    BY <1>1, <2>1, <2>2, <2>3, RunCloses
<1>8. CASE n = CiliumTest2
  <2>1. Node(n, OnCluster({"datapath"}), Nil, Error)
    BY <1>1, <1>8, CiliumNodes
  <2>2. AtRun(c, Nil) /\ AtRun(c, Error)
    BY <1>1 DEF AtRun, AtCiliumRun
  <2>3. /\ OnCluster({"datapath"}).adds = {} /\ OnCluster({"datapath"}).leaves = {}
        /\ OnCluster({"datapath"}).drops = {}
    BY OnClusterFields
  <2> QED
    BY <1>1, <2>1, <2>2, <2>3, RunCloses
<1> QED
  BY <1>2, <1>3, <1>4, <1>5, <1>6, <1>7, <1>8 DEF AtCiliumRun

LEMMA CiliumCleanupClosed ==
  ASSUME NEW n, n \in {CiliumDatapathCleanup, CiliumRemove}
  PROVE  CleanupNode("ciliumDatapath", n)
<1> DEFINE c == "ciliumDatapath"
<1>1. /\ {"exec-mount"} \subseteq Own(c) /\ {"kind-cilium-config.yaml"} \subseteq Own(c)
      /\ {"cilium-values.yaml"} \subseteq Own(c) /\ {"gke-os-cert-cilium"} \subseteq Own(c)
      /\ {"gke-os-cert-cilium"} \subseteq Removed(c) /\ Files \subseteq Removed(c)
  BY DEF Own, Removed, Files
<1>2. CASE n = CiliumDatapathCleanup
  <2>1. Node(n, Removes({"gke-os-cert-cilium"}, {}), CiliumRemove, CiliumRemove)
    BY <1>1, <1>2, CiliumNodes
  <2>2. AtCleanup(c, CiliumRemove) /\ AtCleanup(c, CiliumRemove)
    BY <1>1 DEF AtCleanup
  <2>3. /\ Removes({"gke-os-cert-cilium"}, {}).adds = {}
        /\ Removes({"gke-os-cert-cilium"}, {}).leaves = {}
        /\ Removes({"gke-os-cert-cilium"}, {}).drops = {"gke-os-cert-cilium"}
        /\ Removes({"gke-os-cert-cilium"}, {}).needs = {}
    BY RemovesFields
  <2> QED
    BY <1>1, <2>1, <2>2, <2>3, CleanupCloses
<1>3. CASE n = CiliumRemove
  <2>1. Node(n, Removes(Files, {}), Nil, Nil)
    BY <1>1, <1>3, CiliumNodes
  <2>2. AtCleanup(c, Nil) /\ AtCleanup(c, Nil)
    BY <1>1 DEF AtCleanup
  <2>3. /\ Removes(Files, {}).adds = {} /\ Removes(Files, {}).leaves = {}
        /\ Removes(Files, {}).drops = Files /\ Removes(Files, {}).needs = {}
    BY RemovesFields
  <2> QED
    BY <1>1, <2>1, <2>2, <2>3, CleanupCloses
<1> QED
  BY <1>2, <1>3

LEMMA DockerRunClosed ==
  ASSUME NEW n, n = DockerRunRun
  PROVE  RunNode("dockerRun", n)
<1> DEFINE c == "dockerRun"
<1>1. /\ {"hello-world"} \subseteq Own(c) /\ {"hello-world"} \subseteq Removed(c)
  BY DEF Own, Removed
<1>2. CASE n = DockerRunRun
  <2>1. Node(n, Creates("hello-world", {}, {}), Nil, Error)
    BY <1>1, <1>2, ClusterNodes
  <2>2. AtRun(c, Nil) /\ AtRun(c, Error)
    BY DEF AtRun
  <2>3. /\ Creates("hello-world", {}, {}).adds = {"hello-world"}
        /\ Creates("hello-world", {}, {}).leaves = {"hello-world"}
        /\ Creates("hello-world", {}, {}).drops = {}
    BY CreatesFields
  <2> QED
    BY <1>1, <2>1, <2>2, <2>3, RunCloses
<1> QED
  BY <1>2

LEMMA DockerCleanupClosed ==
  ASSUME NEW n, n = DockerRunCleanup
  PROVE  CleanupNode("dockerRun", n)
<1> DEFINE c == "dockerRun"
<1>1. /\ {"hello-world"} \subseteq Own(c) /\ {"hello-world"} \subseteq Removed(c)
  BY DEF Own, Removed
<1>2. CASE n = DockerRunCleanup
  <2>1. Node(n, Removes({"hello-world"}, {}), Nil, Error)
    BY <1>1, <1>2, ClusterNodes
  <2>2. AtCleanup(c, Nil) /\ AtCleanup(c, Error)
    BY DEF AtCleanup
  <2>3. /\ Removes({"hello-world"}, {}).adds = {} /\ Removes({"hello-world"}, {}).leaves = {}
        /\ Removes({"hello-world"}, {}).drops = {"hello-world"}
        /\ Removes({"hello-world"}, {}).needs = {}
    BY RemovesFields
  <2> QED
    BY <1>1, <2>1, <2>2, <2>3, CleanupCloses
<1> QED
  BY <1>2

LEMMA KindRunClosed ==
  ASSUME NEW n, n \in {KindClusterRun, KindTest1, KindTest2}
  PROVE  RunNode("kindCluster", n)
<1> DEFINE c == "kindCluster"
<1>1. /\ {"cert-validation"} \subseteq Own(c) /\ {"cert-validation"} \subseteq Removed(c)
  BY DEF Own, Removed
<1>2. CASE n = KindClusterRun
  <2>1. Node(n, KindCreate("cert-validation", {}), KindTest1, Error)
    BY <1>1, <1>2, ClusterNodes
  <2>2. AtRun(c, KindTest1) /\ AtRun(c, Error)
    BY DEF AtRun
  <2>3. /\ KindCreate("cert-validation", {}).adds = {"cert-validation"}
        /\ KindCreate("cert-validation", {}).leaves = {"cert-validation"}
        /\ KindCreate("cert-validation", {}).drops = {}
    BY KindCreateFields
  <2> QED
    BY <1>1, <2>1, <2>2, <2>3, RunCloses
<1>3. CASE n = KindTest1
  <2>1. Node(n, OnCluster({}), KindTest2, Error)
    BY <1>1, <1>3, ClusterNodes
  <2>2. AtRun(c, KindTest2) /\ AtRun(c, Error)
    BY DEF AtRun
  <2>3. /\ OnCluster({}).adds = {} /\ OnCluster({}).leaves = {}
        /\ OnCluster({}).drops = {}
    BY OnClusterFields
  <2> QED
    BY <1>1, <2>1, <2>2, <2>3, RunCloses
<1>4. CASE n = KindTest2
  <2>1. Node(n, OnCluster({}), Nil, Error)
    BY <1>1, <1>4, ClusterNodes
  <2>2. AtRun(c, Nil) /\ AtRun(c, Error)
    BY DEF AtRun
  <2>3. /\ OnCluster({}).adds = {} /\ OnCluster({}).leaves = {}
        /\ OnCluster({}).drops = {}
    BY OnClusterFields
  <2> QED
    BY <1>1, <2>1, <2>2, <2>3, RunCloses
<1> QED
  BY <1>2, <1>3, <1>4

LEMMA KindCleanupClosed ==
  ASSUME NEW n, n = KindClusterCleanup
  PROVE  CleanupNode("kindCluster", n)
<1> DEFINE c == "kindCluster"
<1>1. /\ {"cert-validation"} \subseteq Own(c) /\ {"cert-validation"} \subseteq Removed(c)
  BY DEF Own, Removed
<1>2. CASE n = KindClusterCleanup
  <2>1. Node(n, Removes({"cert-validation"}, {}), Nil, Error)
    BY <1>1, <1>2, ClusterNodes
  <2>2. AtCleanup(c, Nil) /\ AtCleanup(c, Error)
    BY DEF AtCleanup
  <2>3. /\ Removes({"cert-validation"}, {}).adds = {}
        /\ Removes({"cert-validation"}, {}).leaves = {}
        /\ Removes({"cert-validation"}, {}).drops = {"cert-validation"}
        /\ Removes({"cert-validation"}, {}).needs = {}
    BY RemovesFields
  <2> QED
    BY <1>1, <2>1, <2>2, <2>3, CleanupCloses
<1> QED
  BY <1>2

LEMMA RunClosed ==
  ASSUME NEW c \in DestructiveCheck, NEW n, AtRun(c, n), n \notin {Nil, Error}
  PROVE  RunNode(c, n)
BY CertRunClosed, CiliumRunClosed, DockerRunClosed, KindRunClosed DEF AtRun

LEMMA CleanupClosed ==
  ASSUME NEW c \in DestructiveCheck, NEW n, AtCleanup(c, n), n \notin {Nil, Error}
  PROVE  CleanupNode(c, n)
BY CertCleanupClosed, CiliumCleanupClosed, DockerCleanupClosed, KindCleanupClosed DEF AtCleanup

----------------------------------------------------------------------------
(* Types: where the process is, and what a command that goes on may do. *)

Harmless(k) == k.adds \subseteq Resources /\ k.drops \subseteq Resources

TypeInv ==
  /\ registry \in Registries /\ todo \subseteq registry
  /\ held \subseteq Facts \cup Resources
  /\ context \in Clusters \cup {"none"} /\ used \subseteq Clusters \cup {"none"}
  /\ executions \in 0 .. MaxExecutions
  /\ phase \in {"idle", "run", "cleanup", "checked"}
  /\ Busy => check \in registry
  /\ link \in BOOLEAN /\ failed \in BOOLEAN /\ quiet \in BOOLEAN /\ calm \in BOOLEAN
  /\ lastQuiet \in BOOLEAN /\ disturbed \in BOOLEAN
  /\ \A k \in stray : stray = {k} /\ Harmless(k)
  /\ phase = "run" => AtRun(check, at)
  /\ phase = "cleanup" => AtCleanup(check, at)
  /\ ~Busy => at \in {Nil, Error}

LEMMA Starts ==
  ASSUME NEW c \in DestructiveCheck, NEW l \in BOOLEAN
  PROVE  AtRun(c, Run(c, l)) /\ AtCleanup(c, Cleanup(c))
<1>1. CASE c = "containerCerts"
  <2>1. Run(c, l) = ContainerCertsRun(l) /\ Cleanup(c) = ContainerCertsCleanup
    BY <1>1 DEF Run, Cleanup
  <2> QED
    BY <1>1, <2>1 DEF AtRun, AtCleanup, AtCertRun, AtCertCleanup
<1>2. CASE c = "ciliumDatapath"
  <2>1. Run(c, l) = CiliumDatapathRun /\ Cleanup(c) = CiliumDatapathCleanup
    BY <1>2 DEF Run, Cleanup
  <2> QED
    BY <1>2, <2>1 DEF AtRun, AtCleanup, AtCiliumRun
<1>3. CASE c = "dockerRun"
  <2>1. Run(c, l) = DockerRunRun /\ Cleanup(c) = DockerRunCleanup
    BY <1>3 DEF Run, Cleanup
  <2> QED
    BY <1>3, <2>1 DEF AtRun, AtCleanup
<1>4. CASE c = "kindCluster"
  <2>1. Run(c, l) = KindClusterRun /\ Cleanup(c) = KindClusterCleanup
    BY <1>4 DEF Run, Cleanup
  <2> QED
    BY <1>4, <2>1 DEF AtRun, AtCleanup
<1> QED
  BY <1>1, <1>2, <1>3, <1>4 DEF DestructiveCheck

LEMMA Effects ==
  ASSUME TypeInv, NEW k, NEW adds, adds \subseteq Resources, k.drops \subseteq Resources,
         Effect(k, adds)
  PROVE  /\ held' \subseteq Facts \cup Resources /\ context' \in Clusters \cup {"none"}
         /\ held' = (held \cup adds) \ k.drops
<1>1. held \subseteq Facts \cup Resources /\ context \in Clusters \cup {"none"}
  BY DEF TypeInv
<1>2. held' = (held \cup adds) \ k.drops
  BY DEF Effect
<1>3. CASE adds \cap Clusters # {}
  <2>1. PICK x : x \in Clusters /\ x \in adds
    BY <1>3
  <2>2. (CHOOSE z \in Clusters : z \in adds) \in Clusters
    BY <2>1
  <2> QED
    BY <1>1, <1>2, <1>3, <2>2 DEF Effect
<1>4. CASE ~(adds \cap Clusters # {})
  BY <1>1, <1>2, <1>4 DEF Effect
<1> QED
  BY <1>3, <1>4

\* Where a call is made, and what may come of it.
LEMMA CallAt ==
  ASSUME TypeInv, Calling
  PROVE  /\ check \in registry /\ check \in DestructiveCheck
         /\ \/ phase = "run" /\ RunNode(check, at)
            \/ phase = "cleanup" /\ CleanupNode(check, at)
         /\ at.command.adds \subseteq Resources /\ at.command.leaves \subseteq Resources
         /\ at.command.drops \subseteq Resources
<1>1. check \in registry /\ check \in DestructiveCheck /\ at \notin {Nil, Error}
  BY RegistriesAssumption DEF TypeInv, Calling
<1>2. CASE phase = "run"
  <2>1. RunNode(check, at)
    BY <1>1, <1>2, RunClosed DEF TypeInv
  <2> QED
    BY <1>1, <1>2, <2>1, OwnResources DEF RunNode
<1>3. CASE phase = "cleanup"
  <2>1. CleanupNode(check, at)
    BY <1>1, <1>3, CleanupClosed DEF TypeInv
  <2> QED
    BY <1>1, <1>3, <2>1, OwnResources DEF CleanupNode
<1> QED
  BY <1>2, <1>3 DEF Calling, Busy

LEMMA TypeOKFollows ==
  ASSUME TypeInv
  PROVE  TypeOK
<1>1. at \in {Nil, Error} \/ DOMAIN at = {"command", "ok", "no"}
  <2>1. CASE Calling
    BY <2>1, CallAt DEF RunNode, CleanupNode
  <2>2. CASE ~Calling
    BY <2>2 DEF TypeInv, Calling
  <2> QED
    BY <2>1, <2>2
<1>2. Cardinality(stray) <= 1
  <2>1. CASE stray = {}
    BY <2>1, FS_EmptySet
  <2>2. CASE \E k : stray = {k}
    BY <2>2, FS_Singleton
  <2> QED
    BY <2>1, <2>2 DEF TypeInv
<1> QED
  BY <1>1, <1>2 DEF TypeInv, TypeOK

LEMMA TypeInvInit ==
  ASSUME Init
  PROVE  TypeInv
<1>1. held \subseteq Facts \cup Resources
  <2>1. \A c : FactsOf(c) \subseteq Facts
    BY DEF FactsOf, Facts
  <2>2. "alpine" \in Resources
    BY DEF Resources
  <2> DEFINE facts == UNION {FactsOf(c) : c \in registry}
             image == IF "containerCerts" \in registry THEN {"alpine"} ELSE {}
  <2>3. held \in SUBSET (facts \cup image)
    BY DEF Init
  <2>4. facts \subseteq Facts
    BY <2>1
  <2>5. image \subseteq Resources
    BY <2>2
  <2> HIDE DEF facts, image
  <2> QED
    BY <2>3, <2>4, <2>5
<1>2. executions \in 0 .. MaxExecutions
  BY ExecutionsAssumption DEF Init
<1> QED
  BY <1>1, <1>2 DEF Init, TypeInv, Busy

LEMMA TypeInvStep ==
  ASSUME TypeInv, [Next]_vars
  PROVE  TypeInv'
<1>1. CASE StartExecution
  <2>1. executions' \in 0 .. MaxExecutions
    BY <1>1, ExecutionsAssumption DEF TypeInv, StartExecution
  <2> QED
    BY <1>1, <2>1 DEF TypeInv, StartExecution, Busy
<1>2. CASE StartCheck
  <2>1. PICK c \in todo : check' = c /\ todo' = todo \ {c} /\ at' = Run(c, "linked" \in held)
    BY <1>2 DEF StartCheck
  <2>2. c \in registry /\ c \in DestructiveCheck
    BY RegistriesAssumption DEF TypeInv
  <2> DEFINE l == "linked" \in held
  <2>3. AtRun(c, at')
    <3>1. l \in BOOLEAN /\ at' = Run(c, l)
      BY <2>1
    <3> HIDE DEF l
    <3> QED
      BY <2>2, <3>1, Starts
  <2> QED
    BY <1>2, <2>1, <2>2, <2>3 DEF TypeInv, StartCheck, Busy
<1>3. CASE RunReturns
  <2>1. check \in registry /\ check \in DestructiveCheck
    BY <1>3, RegistriesAssumption DEF TypeInv, RunReturns, Returned
  <2>2. AtCleanup(check, at')
    BY <1>3, <2>1, Starts DEF RunReturns
  <2>3. failed' \in BOOLEAN
    BY <1>3 DEF RunReturns
  <2> QED
    BY <1>3, <2>1, <2>2, <2>3 DEF TypeInv, RunReturns, Busy
<1>4. CASE CleanupReturns
  BY <1>4 DEF TypeInv, CleanupReturns, Returned, Busy
<1>5. CASE Answered \/ CallFails \/ NotConnected
  <2>1. Calling
    BY <1>5 DEF Answered, CallFails, NotConnected
  <2>2. at' = at.ok \/ at' = at.no
    BY <1>5 DEF Answered, CallFails, NotConnected
  <2>3. /\ UNCHANGED <<registry, todo, executions, phase, check, failed, lastQuiet, disturbed>>
        /\ link' \in BOOLEAN /\ quiet' \in BOOLEAN /\ calm' \in BOOLEAN
        /\ Busy /\ at \notin {Nil, Error}
    BY <1>5 DEF Answered, CallFails, NotConnected, TypeInv, Calling
  <2>4. (phase = "run" => AtRun(check, at')) /\ (phase = "cleanup" => AtCleanup(check, at'))
    BY <2>1, <2>2, CallAt DEF RunNode, CleanupNode
  <2>5. held' \subseteq Facts \cup Resources /\ context' \in Clusters \cup {"none"}
    <3>1. CASE UNCHANGED <<held, context>>
      BY <3>1 DEF TypeInv
    <3>2. CASE Effect(at.command, at.command.adds) \/ Effect(at.command, at.command.leaves)
      BY <2>1, <3>2, CallAt, Effects
    <3> QED
      BY <1>5, <3>1, <3>2 DEF Answered, CallFails, NotConnected
  <2>6. used' \subseteq Clusters \cup {"none"}
    <3>1. used' = used \/ used' = used \cup {context}
      BY <1>5 DEF Answered, CallFails, NotConnected
    <3> QED
      BY <3>1 DEF TypeInv
  <2>7. \A k \in stray' : stray' = {k} /\ Harmless(k)
    <3>1. stray' = stray \/ stray' = {at.command}
      BY <1>5 DEF Answered, CallFails, NotConnected
    <3>2. Harmless(at.command)
      BY <2>1, CallAt DEF Harmless
    <3> QED
      BY <3>1, <3>2 DEF TypeInv
  <2> QED
    BY <2>3, <2>4, <2>5, <2>6, <2>7 DEF TypeInv, Busy
<1>6. CASE StrayEnds
  <2>1. PICK k \in stray :
          /\ stray' = stray \ {k}
          /\ IF Works(k) THEN Effect(k, k.adds) /\ disturbed' = TRUE /\ quiet' = FALSE
                         ELSE UNCHANGED <<held, context, disturbed, quiet>>
    BY <1>6 DEF StrayEnds
  <2>2. Harmless(k) /\ stray' = {}
    BY <2>1 DEF TypeInv
  <2>3. held' \subseteq Facts \cup Resources /\ context' \in Clusters \cup {"none"}
    <3>1. CASE Effect(k, k.adds)
      BY <2>2, <3>1, Effects DEF Harmless
    <3>2. CASE UNCHANGED <<held, context>>
      BY <3>2 DEF TypeInv
    <3> QED
      BY <2>1, <3>1, <3>2
  <2>4. disturbed' \in BOOLEAN /\ quiet' \in BOOLEAN
    BY <2>1 DEF TypeInv
  <2> QED
    BY <1>6, <2>2, <2>3, <2>4 DEF StrayEnds, TypeInv, Busy
<1>7. CASE Killed
  <2>1. Calling
    BY <1>7 DEF Killed
  <2>2. held' \subseteq Facts \cup Resources /\ context' \in Clusters \cup {"none"}
    <3>1. CASE Effect(at.command, at.command.leaves)
      BY <2>1, <3>1, CallAt, Effects
    <3>2. CASE UNCHANGED <<held, context>>
      BY <3>2 DEF TypeInv
    <3> QED
      BY <1>7, <3>1, <3>2 DEF Killed
  <2> QED
    BY <1>7, <2>2 DEF Killed, TypeInv, Busy
<1>8. CASE UNCHANGED vars
  BY <1>8 DEF vars, TypeInv, Busy
<1> QED
  BY <1>1, <1>2, <1>3, <1>4, <1>5, <1>6, <1>7, <1>8 DEF Next

----------------------------------------------------------------------------
(* What is known of the VM and of the connection at each command *)

\* While nothing has failed the connection stands; where the Cleanup at hand has
\* not failed, it stood to its end.
LinkInv ==
  /\ quiet => link /\ calm /\ ~disturbed
  /\ phase = "cleanup" /\ calm => link

\* What a Cleanup has achieved at each of its commands.
CertClean ==
  \/ at = ContainerCertsCleanup
  \/ at = Sudo(Removals) /\ (calm => ~({"ctr", "user"} \subseteq held))
  \/ \E as \in As : at = RemoveImage(as) /\ (calm => {"ctr", as} \subseteq held \/ ~CtrUsable)
  \/ at = Nil /\ (disturbed \/ "alpine" \notin held)
  \/ at = Error /\ (calm => ~CtrUsable)

CiliumClean ==
  \/ at = CiliumDatapathCleanup
  \/ at = CiliumRemove /\ (calm /\ ~disturbed => "gke-os-cert-cilium" \notin held)
  \/ at = Nil /\ (calm /\ ~disturbed => Removed("ciliumDatapath") \cap held = {})

OneClean(cleanup, r) ==
  \/ at = cleanup
  \/ at = Nil /\ (disturbed \/ r \notin held)
  \/ at = Error /\ ~calm

CleanInv ==
  phase \in {"cleanup", "checked"} =>
    /\ check = "containerCerts" => CertClean
    /\ check = "ciliumDatapath" => CiliumClean
    /\ check = "dockerRun" => OneClean(DockerRunCleanup, "hello-world")
    /\ check = "kindCluster" => OneClean(KindClusterCleanup, "cert-validation")

\* Outside of its own resources a quiet check changes the remount only, and
\* without ctr the certificate check changes nothing.
Rest(c) ==
  /\ c # "ciliumDatapath" => held \ Removed(c) = before \ Removed(c)
  /\ c = "ciliumDatapath" =>
       \/ phase = "run" /\ at = CiliumDatapathRun /\ held = before
       \/ held \ Removed(c) = (before \ Removed(c)) \cup {"exec-mount"}
  /\ c = "containerCerts" /\ ~CtrUsable => held = before

RestInv == quiet /\ phase \in {"run", "cleanup", "checked"} => Rest(check)

\* The clusters the commands of a Run have talked to.
OnOwn(cluster) == disturbed \/ (context = cluster /\ used \subseteq {cluster})

UsedRun ==
  /\ check \in {"containerCerts", "dockerRun"} => used = {}
  /\ check = "kindCluster" =>
       \/ at = KindClusterRun /\ used = {}
       \/ at \in {KindTest1, KindTest2, Nil} /\ OnOwn("cert-validation")
       \/ at = Error
  /\ check = "ciliumDatapath" =>
       \/ at \in {CiliumDatapathRun, CiliumFile1, CiliumFile2, CiliumCreate} /\ used = {}
       \/ at \in {CiliumSetUp, CiliumTest1, CiliumTest2, Nil} /\ OnOwn("gke-os-cert-cilium")
       \/ at = Error

UsedInv ==
  /\ phase = "run" => UsedRun
  /\ phase \in {"cleanup", "checked"} => failed \/ disturbed \/ used \subseteq Removed(check)

\* The cluster of a check is gone once the check is done, and while the last
\* execution was quiet as well it is not there before either.
ClusterOf(c) == Removed(c) \cap Clusters

RepairInv ==
  /\ Busy => check \notin todo
  /\ \A c \in registry :
       quiet /\ executions >= 1 =>
         /\ c \notin todo /\ ~(Busy /\ check = c) => ClusterOf(c) \cap held = {}
         /\ c \in todo /\ lastQuiet /\ executions > 1 => ClusterOf(c) \cap held = {}

\* Where a Run is that has every reason to pass.
Deserves(c) ==
  /\ quiet /\ lastQuiet /\ executions > 1
  /\ c = "containerCerts" => CtrUsable /\ "certs" \in held /\ "certcheck" \notin before
  /\ c = "ciliumDatapath" => "datapath" \in held

CertPasses ==
  \/ \E l \in BOOLEAN : at = ContainerCertsRun(l) \/ at = CertMounts(l)
  \/ at = Linked \/ at = Prefixed(TRUE)
  \/ at = Sudo(Pulls(TRUE)) /\ "user" \notin held
  \/ \E as \in As : {"ctr", as} \subseteq held /\ at = Pull(TRUE, as)
  \/ \E as \in As : {"ctr", as, "alpine"} \subseteq held /\ at = Container(TRUE, as)
  \/ at = Nil

Ready(cluster) == cluster \in held /\ context = cluster

CiliumPasses ==
  \/ at \in {CiliumDatapathRun, CiliumFile1} /\ "gke-os-cert-cilium" \notin held
  \/ at = CiliumFile2 /\ "gke-os-cert-cilium" \notin held /\ "kind-cilium-config.yaml" \in held
  \/ at = CiliumCreate /\ "gke-os-cert-cilium" \notin held /\ Files \subseteq held
  \/ at = CiliumSetUp /\ Ready("gke-os-cert-cilium") /\ Files \subseteq held
  \/ at \in {CiliumTest1, CiliumTest2} /\ Ready("gke-os-cert-cilium")
  \/ at = Nil

KindPasses ==
  \/ at = KindClusterRun /\ "cert-validation" \notin held
  \/ at \in {KindTest1, KindTest2} /\ Ready("cert-validation")
  \/ at = Nil

PassInv ==
  Deserves(check) =>
    /\ phase = "run" =>
         /\ check = "containerCerts" => CertPasses /\ "certcheck" \notin held
         /\ check = "ciliumDatapath" => CiliumPasses
         /\ check = "dockerRun" => at \in {DockerRunRun, Nil}
         /\ check = "kindCluster" => KindPasses
    /\ phase \in {"cleanup", "checked"} => ~failed

IInv == TypeInv /\ LinkInv /\ CleanInv /\ RestInv /\ UsedInv /\ RepairInv /\ PassInv

----------------------------------------------------------------------------
(* A call, at each of its ends *)

\* An answer: the command k at hand has worked and x follows, or not, and y does.
LEMMA AnsweredAt ==
  ASSUME Answered, NEW k, NEW x, NEW y, Node(at, k, x, y)
  PROVE  /\ \/ /\ Works(k) /\ at' = x /\ Effect(k, k.adds)
               /\ held' = (held \cup k.adds) \ k.drops
            \/ ~Works(k) /\ at' = y /\ held' = held /\ context' = context
         /\ used' = IF "context" \in k.needs THEN used \cup {context} ELSE used
<1>1. at.command = k /\ at.ok = x /\ at.no = y
  BY DEF Node
<1> QED
  BY <1>1 DEF Answered, Effect

LEMMA CallFrame ==
  ASSUME Answered \/ CallFails \/ NotConnected
  PROVE  /\ Calling
         /\ UNCHANGED <<registry, executions, todo, check, phase, failed, before, lastQuiet,
                        disturbed>>
BY DEF Answered, CallFails, NotConnected

LEMMA FailedAt ==
  ASSUME CallFails \/ NotConnected
  PROVE  at' = at.no /\ used' = used
BY DEF CallFails, NotConnected

LEMMA LinkInvStep ==
  ASSUME TypeInv, LinkInv, [Next]_vars
  PROVE  LinkInv'
<1> USE DEF LinkInv
<1>1. CASE StartExecution
  BY <1>1 DEF StartExecution
<1>2. CASE StartCheck
  BY <1>2 DEF StartCheck
<1>3. CASE RunReturns
  BY <1>3 DEF RunReturns, TypeInv
<1>4. CASE CleanupReturns
  BY <1>4 DEF CleanupReturns
<1>5. CASE Answered
  BY <1>5 DEF Answered
<1>6. CASE CallFails
  BY <1>6 DEF CallFails
<1>7. CASE NotConnected
  BY <1>7 DEF NotConnected
<1>8. CASE StrayEnds
  BY <1>8 DEF StrayEnds
<1>9. CASE Killed
  BY <1>9 DEF Killed
<1>10. CASE UNCHANGED vars
  BY <1>10 DEF vars
<1> QED
  BY <1>1, <1>2, <1>3, <1>4, <1>5, <1>6, <1>7, <1>8, <1>9, <1>10 DEF Next

\* A call after which nothing has failed was answered.
LEMMA QuietCall ==
  ASSUME LinkInv, Answered \/ CallFails \/ NotConnected
  PROVE  /\ quiet' => Answered /\ quiet
         /\ phase = "cleanup" /\ calm' => Answered /\ calm
<1>1. CASE Answered
  BY <1>1 DEF Answered
<1>2. CASE CallFails
  BY <1>2 DEF CallFails
<1>3. CASE NotConnected
  <2>1. ~link /\ quiet' = quiet /\ calm' = calm
    BY <1>3 DEF NotConnected
  <2> QED
    BY <2>1 DEF LinkInv
<1> QED
  BY <1>1, <1>2, <1>3

\* A command that goes on by itself touches the VM only, and leaves its mark.
LEMMA StrayFrame ==
  ASSUME StrayEnds
  PROVE  /\ UNCHANGED <<registry, link, executions, todo, check, phase, at, failed, used, before,
                        calm, lastQuiet>>
         /\ \/ disturbed' = TRUE /\ quiet' = FALSE
            \/ UNCHANGED <<held, context, disturbed, quiet>>
BY DEF StrayEnds

\* No command changes the facts of the VM.
LEMMA FactsStay ==
  ASSUME TypeInv, [Next]_vars, NEW f \in Facts
  PROVE  f \in held' <=> f \in held
<1> DEFINE Same == f \in held' <=> f \in held
<1>1. f \notin Resources
  BY DEF Facts, Resources, Clusters, Files
<1>2. ASSUME NEW k, NEW adds, adds \subseteq Resources, k.drops \subseteq Resources,
             Effect(k, adds)
      PROVE  Same
  <2>1. held' = (held \cup adds) \ k.drops
    BY <1>2 DEF Effect
  <2> QED
    BY <1>1, <1>2, <2>1
<1>3. CASE Answered
  <2>1. held' = held \/ Effect(at.command, at.command.adds)
    BY <1>3 DEF Answered
  <2> QED
    BY <1>2, <1>3, <2>1, CallAt DEF Answered
<1>4. CASE CallFails
  <2>1. held' = held \/ Effect(at.command, at.command.leaves)
    BY <1>4 DEF CallFails
  <2> QED
    BY <1>2, <1>4, <2>1, CallAt DEF CallFails
<1>5. CASE Killed
  <2>1. held' = held \/ Effect(at.command, at.command.leaves)
    BY <1>5 DEF Killed
  <2> QED
    BY <1>2, <1>5, <2>1, CallAt DEF Killed
<1>6. CASE StrayEnds
  <2>1. PICK k \in stray : held' = held \/ Effect(k, k.adds)
    BY <1>6 DEF StrayEnds
  <2> QED
    BY <1>2, <2>1 DEF TypeInv, Harmless
<1>7. CASE StartExecution \/ StartCheck \/ RunReturns \/ CleanupReturns \/ NotConnected
           \/ UNCHANGED vars
  BY <1>7 DEF StartExecution, StartCheck, RunReturns, CleanupReturns, NotConnected, vars
<1> QED
  BY <1>3, <1>4, <1>5, <1>6, <1>7 DEF Next

LEMMA CtrStays ==
  ASSUME TypeInv, [Next]_vars
  PROVE  /\ CtrUsable' <=> CtrUsable
         /\ \A as \in As : {"ctr", as} \subseteq held' <=> {"ctr", as} \subseteq held
         /\ "certs" \in held' <=> "certs" \in held
         /\ "datapath" \in held' <=> "datapath" \in held
         /\ "user" \in held' <=> "user" \in held
<1>1. {"ctr", "user", "sudo", "certs", "datapath"} \subseteq Facts
  BY DEF Facts
<1>2. ("ctr" \in held' <=> "ctr" \in held) /\ ("user" \in held' <=> "user" \in held)
      /\ ("sudo" \in held' <=> "sudo" \in held) /\ ("certs" \in held' <=> "certs" \in held)
      /\ ("datapath" \in held' <=> "datapath" \in held)
  BY <1>1, FactsStay
<1> QED
  BY <1>2 DEF CtrUsable, As

----------------------------------------------------------------------------
(* The verdict of a Cleanup *)

LEMMA CertCleanStep ==
  ASSUME TypeInv, LinkInv, CertClean, phase = "cleanup", check = "containerCerts",
         Answered \/ CallFails \/ NotConnected
  PROVE  CertClean'
<1>1. at \notin {Nil, Error} /\ UNCHANGED disturbed
  BY CallFrame DEF Calling
<1>2. [Next]_vars
  BY DEF Next
<1>3. "user" \in As /\ "sudo" \in As
  BY DEF As
<1>4. ASSUME ~Answered
      PROVE  ~calm'
  BY <1>4, QuietCall
<1>5. CASE at = ContainerCertsCleanup
  <2>1. Node(at, Asks({"ctr", "user"}), RemoveImage("user"), Sudo(Removals))
    BY <1>3, <1>5, CertCleanupNodes
  <2>2. CASE Answered
    <3>1. \/ Works(Asks({"ctr", "user"})) /\ at' = RemoveImage("user")
          \/ ~Works(Asks({"ctr", "user"})) /\ at' = Sudo(Removals)
      BY <2>1, <2>2, AnsweredAt
    <3>2. Works(Asks({"ctr", "user"})) <=> {"ctr", "user"} \subseteq held
      BY AsksFields DEF Works
    <3> QED
      BY <1>2, <1>3, <3>1, <3>2, CtrStays DEF CertClean
  <2>3. CASE ~Answered
    <3>1. at' = Sudo(Removals)
      BY <2>1, <2>3, FailedAt DEF Node
    <3> QED
      BY <1>4, <2>3, <3>1 DEF CertClean
  <2> QED
    BY <2>2, <2>3
<1>6. CASE at = Sudo(Removals) /\ (calm => ~({"ctr", "user"} \subseteq held))
  <2>1. Node(at, Asks({"ctr", "sudo"}), RemoveImage("sudo"), RemoveImage("user"))
    BY <1>3, <1>6, CertCleanupNodes
  <2>2. CASE Answered
    <3>1. \/ Works(Asks({"ctr", "sudo"})) /\ at' = RemoveImage("sudo")
          \/ ~Works(Asks({"ctr", "sudo"})) /\ at' = RemoveImage("user")
      BY <2>1, <2>2, AnsweredAt
    <3>2. Works(Asks({"ctr", "sudo"})) <=> {"ctr", "sudo"} \subseteq held
      BY AsksFields DEF Works
    <3>3. calm' = calm
      BY <2>2 DEF Answered
    <3>4. CASE {"ctr", "sudo"} \subseteq held
      BY <1>2, <1>3, <3>1, <3>2, <3>4, CtrStays DEF CertClean
    <3>5. CASE ~({"ctr", "sudo"} \subseteq held)
      <4>1. calm => ~CtrUsable
        BY <1>6, <3>5 DEF CtrUsable
      <4> QED
        BY <1>2, <1>3, <3>1, <3>2, <3>3, <3>5, <4>1, CtrStays DEF CertClean
    <3> QED
      BY <3>4, <3>5
  <2>3. CASE ~Answered
    <3>1. at' = RemoveImage("user")
      BY <2>1, <2>3, FailedAt DEF Node
    <3> QED
      BY <1>3, <1>4, <2>3, <3>1 DEF CertClean
  <2> QED
    BY <2>2, <2>3
<1>7. CASE \E as \in As : at = RemoveImage(as) /\ (calm => {"ctr", as} \subseteq held \/ ~CtrUsable)
  <2>1. PICK as \in As : at = RemoveImage(as) /\ (calm => {"ctr", as} \subseteq held \/ ~CtrUsable)
    BY <1>7
  <2> DEFINE k == Removes({"alpine"}, {"ctr", as})
  <2>2. Node(at, k, Nil, Error)
    BY <2>1, CertCleanupNodes
  <2>3. /\ k.adds = {} /\ k.drops = {"alpine"} /\ k.needs = {"ctr", as} /\ k.free = {}
    BY RemovesFields
  <2> HIDE DEF k
  <2>4. CASE Answered
    <3>1. CASE Works(k) /\ at' = Nil /\ held' = (held \cup k.adds) \ k.drops
      BY <2>3, <3>1 DEF CertClean
    <3>2. CASE ~Works(k) /\ at' = Error
      <4>1. ~({"ctr", as} \subseteq held)
        <5>1. {"ctr", as} \subseteq held => Works(k)
          BY <2>3 DEF Works, As
        <5> QED
          BY <3>2, <5>1
      <4>2. calm' = calm
        BY <2>4 DEF Answered
      <4> QED
        BY <1>2, <2>1, <3>2, <4>1, <4>2, CtrStays DEF CertClean
    <3> QED
      BY <2>2, <2>4, <3>1, <3>2, AnsweredAt
  <2>5. CASE ~Answered
    <3>1. at' = Error
      BY <2>2, <2>5, FailedAt DEF Node
    <3> QED
      BY <1>4, <2>5, <3>1 DEF CertClean
  <2> QED
    BY <2>4, <2>5
<1> QED
  BY <1>1, <1>5, <1>6, <1>7 DEF CertClean

LEMMA CiliumCleanStep ==
  ASSUME TypeInv, LinkInv, CiliumClean, phase = "cleanup", check = "ciliumDatapath",
         Answered \/ CallFails \/ NotConnected
  PROVE  CiliumClean'
<1>1. at \notin {Nil, Error} /\ UNCHANGED disturbed
  BY CallFrame DEF Calling
<1>2. ASSUME ~Answered
      PROVE  ~calm'
  BY <1>2, QuietCall
<1>3. CASE at = CiliumDatapathCleanup
  <2> DEFINE k == Removes({"gke-os-cert-cilium"}, {})
  <2>1. Node(at, k, CiliumRemove, CiliumRemove)
    BY <1>3, CiliumNodes
  <2>2. k.adds = {} /\ k.drops = {"gke-os-cert-cilium"} /\ k.needs = {} /\ k.free = {}
    BY RemovesFields
  <2> HIDE DEF k
  <2>3. Works(k)
    BY <2>2 DEF Works
  <2>4. CASE Answered
    <3>1. at' = CiliumRemove /\ held' = (held \cup k.adds) \ k.drops
      BY <2>1, <2>3, <2>4, AnsweredAt
    <3> QED
      BY <2>2, <3>1 DEF CiliumClean
  <2>5. CASE ~Answered
    <3>1. at' = CiliumRemove
      BY <2>1, <2>5, FailedAt DEF Node
    <3> QED
      BY <1>2, <2>5, <3>1 DEF CiliumClean
  <2> QED
    BY <2>4, <2>5
<1>4. CASE at = CiliumRemove /\ (calm /\ ~disturbed => "gke-os-cert-cilium" \notin held)
  <2> DEFINE k == Removes(Files, {})
  <2>1. Node(at, k, Nil, Nil)
    BY <1>4, CiliumNodes
  <2>2. k.adds = {} /\ k.drops = Files /\ k.needs = {} /\ k.free = {}
    BY RemovesFields
  <2> HIDE DEF k
  <2>3. Works(k)
    BY <2>2 DEF Works
  <2>4. CASE Answered
    <3>1. at' = Nil /\ held' = (held \cup k.adds) \ k.drops
      BY <2>1, <2>3, <2>4, AnsweredAt
    <3>2. held' = held \ Files
      BY <2>2, <3>1
    <3>3. calm' = calm
      BY <2>4 DEF Answered
    <3>4. Removed("ciliumDatapath") = {"gke-os-cert-cilium"} \cup Files
      BY DEF Removed
    <3>5. calm' /\ ~disturbed' => Removed("ciliumDatapath") \cap held' = {}
      BY <1>1, <1>4, <3>2, <3>3, <3>4
    <3>6. Removed("ciliumDatapath")' = Removed("ciliumDatapath")
      BY DEF Removed
    <3> QED
      BY <3>1, <3>5, <3>6 DEF CiliumClean
  <2>5. CASE ~Answered
    <3>1. at' = Nil
      BY <2>1, <2>5, FailedAt DEF Node
    <3> QED
      BY <1>2, <2>5, <3>1 DEF CiliumClean
  <2> QED
    BY <2>4, <2>5
<1> QED
  BY <1>1, <1>3, <1>4 DEF CiliumClean

LEMMA OneCleanStep ==
  ASSUME LinkInv, NEW n, NEW r, OneClean(n, r), Node(n, Removes({r}, {}), Nil, Error),
         phase = "cleanup", Answered \/ CallFails \/ NotConnected
  PROVE  OneClean(n, r)'
<1> DEFINE k == Removes({r}, {})
<1>1. at = n /\ Node(at, k, Nil, Error)
  BY CallFrame DEF Calling, OneClean
<1>2. k.adds = {} /\ k.drops = {r} /\ k.needs = {} /\ k.free = {}
  BY RemovesFields
<1> HIDE DEF k
<1>3. Works(k)
  BY <1>2 DEF Works
<1>4. CASE Answered
  <2>1. at' = Nil /\ held' = (held \cup k.adds) \ k.drops
    BY <1>1, <1>3, <1>4, AnsweredAt
  <2> QED
    BY <1>2, <2>1 DEF OneClean
<1>5. CASE ~Answered
  <2>1. at' = Error
    BY <1>1, <1>5, FailedAt DEF Node
  <2>2. ~calm'
    BY <1>5, QuietCall
  <2> QED
    BY <2>1, <2>2 DEF OneClean
<1> QED
  BY <1>4, <1>5

LEMMA CleanInvStep ==
  ASSUME TypeInv, LinkInv, CleanInv, [Next]_vars
  PROVE  CleanInv'
<1>1. CASE StartExecution \/ StartCheck \/ Killed
  <2>1. phase' \notin {"cleanup", "checked"}
    BY <1>1 DEF StartExecution, StartCheck, Killed
  <2> QED
    BY <2>1 DEF CleanInv
<1>2. CASE RunReturns
  <2>1. at' = Cleanup(check) /\ check' = check
    BY <1>2 DEF RunReturns
  <2>2. /\ Cleanup("containerCerts") = ContainerCertsCleanup
        /\ Cleanup("ciliumDatapath") = CiliumDatapathCleanup
        /\ Cleanup("dockerRun") = DockerRunCleanup
        /\ Cleanup("kindCluster") = KindClusterCleanup
    BY DEF Cleanup
  <2> QED
    BY <2>1, <2>2 DEF CleanInv, CertClean, CiliumClean, OneClean
<1>3. CASE CleanupReturns
  BY <1>3 DEF CleanupReturns, CleanInv, CertClean, CiliumClean, OneClean, CtrUsable
<1>4. CASE Answered \/ CallFails \/ NotConnected
  <2>1. check' = check /\ phase' = phase /\ Calling
    BY <1>4, CallFrame
  <2>2. CASE phase = "cleanup"
    <3>1. check = "containerCerts" => CertClean'
      BY <1>4, <2>2, CertCleanStep DEF CleanInv
    <3>2. check = "ciliumDatapath" => CiliumClean'
      BY <1>4, <2>2, CiliumCleanStep DEF CleanInv
    <3>3. check = "dockerRun" => OneClean(DockerRunCleanup, "hello-world")'
      BY <1>4, <2>2, OneCleanStep, ClusterNodes DEF CleanInv
    <3>4. check = "kindCluster" => OneClean(KindClusterCleanup, "cert-validation")'
      BY <1>4, <2>2, OneCleanStep, ClusterNodes DEF CleanInv
    <3> QED
      BY <2>1, <3>1, <3>2, <3>3, <3>4 DEF CleanInv
  <2>3. CASE phase = "run"
    BY <2>1, <2>3 DEF CleanInv
  <2> QED
    BY <2>1, <2>2, <2>3 DEF Calling, Busy
<1>5. CASE StrayEnds
  <2>1. UNCHANGED <<check, phase, at, calm>>
    BY <1>5, StrayFrame
  <2>2. CASE disturbed' = TRUE /\ phase \in {"cleanup", "checked"}
    <3>1. check = "containerCerts" => CertClean'
      <4>1. /\ CtrUsable' <=> CtrUsable
            /\ \A as \in As : {"ctr", as} \subseteq held' <=> {"ctr", as} \subseteq held
        BY CtrStays
      <4>2. {"ctr", "user"} \subseteq held' <=> {"ctr", "user"} \subseteq held
        BY <4>1 DEF As
      <4> HAVE check = "containerCerts"
      <4>3. CASE at = Sudo(Removals) /\ (calm => ~({"ctr", "user"} \subseteq held))
        BY <2>1, <4>2, <4>3 DEF CertClean
      <4>4. CASE \E as \in As : at = RemoveImage(as)
                              /\ (calm => {"ctr", as} \subseteq held \/ ~CtrUsable)
        <5>1. PICK as \in As : at = RemoveImage(as)
                              /\ (calm => {"ctr", as} \subseteq held \/ ~CtrUsable)
          BY <4>4
        <5> QED
          BY <2>1, <4>1, <5>1 DEF CertClean
      <4>5. CASE at = ContainerCertsCleanup \/ at = Nil
        BY <2>1, <2>2, <4>5 DEF CertClean
      <4>6. CASE at = Error /\ (calm => ~CtrUsable)
        BY <2>1, <4>1, <4>6 DEF CertClean
      <4> QED
        BY <2>2, <4>3, <4>4, <4>5, <4>6 DEF CleanInv, CertClean
    <3>2. check = "ciliumDatapath" => CiliumClean'
      BY <2>1, <2>2 DEF CleanInv, CiliumClean
    <3>3. check = "dockerRun" => OneClean(DockerRunCleanup, "hello-world")'
      BY <2>1, <2>2 DEF CleanInv, OneClean
    <3>4. check = "kindCluster" => OneClean(KindClusterCleanup, "cert-validation")'
      BY <2>1, <2>2 DEF CleanInv, OneClean
    <3> QED
      BY <2>1, <3>1, <3>2, <3>3, <3>4 DEF CleanInv
  <2>3. CASE UNCHANGED <<held, disturbed>>
    BY <2>1, <2>3 DEF CleanInv, CertClean, CiliumClean, OneClean, CtrUsable
  <2>4. CASE phase \notin {"cleanup", "checked"}
    BY <2>1, <2>4 DEF CleanInv
  <2> QED
    BY <1>5, <2>2, <2>3, <2>4, StrayFrame
<1>6. CASE UNCHANGED vars
  BY <1>6 DEF vars, CleanInv, CertClean, CiliumClean, OneClean, CtrUsable
<1> QED
  BY <1>1, <1>2, <1>3, <1>4, <1>5, <1>6 DEF Next

LEMMA VerdictAt ==
  ASSUME TypeInv, CleanInv, NEW c \in registry, check = c, phase \in {"cleanup", "checked"},
         at \in {Nil, Error}
  PROVE  /\ at = Nil /\ ~disturbed =>
              Removed(c) \cap held = {} \/ (c = "ciliumDatapath" /\ ~calm)
         /\ calm => at = Nil \/ (c = "containerCerts" /\ ~CtrUsable)
<1>1. c \in DestructiveCheck
  BY RegistriesAssumption DEF TypeInv
<1>2. /\ ContainerCertsCleanup \notin {Nil, Error} /\ Sudo(Removals) \notin {Nil, Error}
      /\ \A as \in As : RemoveImage(as) \notin {Nil, Error}
  <2>1. "user" \in As
    BY DEF As
  <2> QED
    BY <2>1, CertCleanupNodes DEF Node
<1>3. /\ CiliumDatapathCleanup \notin {Nil, Error} /\ CiliumRemove \notin {Nil, Error}
      /\ DockerRunCleanup \notin {Nil, Error} /\ KindClusterCleanup \notin {Nil, Error}
  BY CiliumNodes, ClusterNodes DEF Node
<1>4. CASE c = "containerCerts"
  <2>1. Removed(c) = {"alpine"}
    BY <1>4 DEF Removed
  <2>2. \/ at = Nil /\ (disturbed \/ "alpine" \notin held)
        \/ at = Error /\ (calm => ~CtrUsable)
    <3>1. CertClean
      BY <1>1, <1>4 DEF CleanInv
    <3>2. at # ContainerCertsCleanup /\ at # Sudo(Removals) /\ \A as \in As : at # RemoveImage(as)
      BY <1>1, <1>2
    <3> QED
      BY <3>1, <3>2 DEF CertClean
  <2> QED
    BY <1>1, <1>4, <2>1, <2>2, Leaves
<1>5. CASE c = "ciliumDatapath"
  BY <1>1, <1>3, <1>5, Leaves DEF CleanInv, CiliumClean
<1>6. CASE c = "dockerRun"
  <2>1. Removed(c) = {"hello-world"}
    BY <1>6 DEF Removed
  <2> QED
    BY <1>1, <1>3, <1>6, <2>1, Leaves DEF CleanInv, OneClean
<1>7. CASE c = "kindCluster"
  <2>1. Removed(c) = {"cert-validation"}
    BY <1>7 DEF Removed
  <2> QED
    BY <1>1, <1>3, <1>7, <2>1, Leaves DEF CleanInv, OneClean
<1> QED
  BY <1>1, <1>4, <1>5, <1>6, <1>7 DEF DestructiveCheck

LEMMA VerdictFollows ==
  ASSUME TypeInv, CleanInv, RestInv
  PROVE  CleanupVerdict
<1> SUFFICES ASSUME NEW c \in registry, Checked(c)
             PROVE  /\ at = Nil /\ ~disturbed =>
                         \/ Own(c) \cap held = {}
                         \/ c = "ciliumDatapath" /\ (calm => Own(c) \cap held = {"exec-mount"})
                         \/ /\ c = "containerCerts" /\ Own(c) \cap held = {"certcheck"}
                            /\ quiet => "certcheck" \in before
                    /\ calm => at = Nil \/ (c = "containerCerts" /\ ~CtrUsable)
  BY DEF CleanupVerdict
<1>1. at \in {Nil, Error} /\ phase = "checked" /\ check = c
  BY DEF TypeInv, Checked, Busy
<1>2. /\ at = Nil /\ ~disturbed => Removed(c) \cap held = {} \/ (c = "ciliumDatapath" /\ ~calm)
      /\ calm => at = Nil \/ (c = "containerCerts" /\ ~CtrUsable)
  BY <1>1, VerdictAt
<1>3. c \in DestructiveCheck
  BY RegistriesAssumption DEF TypeInv
<1>4. CASE c = "containerCerts"
  <2>1. Own(c) = Removed(c) \cup {"certcheck"} /\ "certcheck" \notin Removed(c)
    BY <1>4 DEF Own, Removed
  <2>2. quiet => held \ Removed(c) = before \ Removed(c)
    BY <1>1, <1>4 DEF RestInv, Rest
  <2> QED
    BY <1>2, <1>4, <2>1, <2>2
<1>5. CASE c = "ciliumDatapath"
  <2>1. Own(c) = Removed(c) \cup {"exec-mount"}
    BY <1>5 DEF Own, Removed
  <2> QED
    BY <1>2, <1>5, <2>1
<1>6. CASE c \in {"dockerRun", "kindCluster"}
  <2>1. Own(c) = Removed(c)
    BY <1>6 DEF Own, Removed
  <2> QED
    BY <1>2, <1>6, <2>1
<1> QED
  BY <1>3, <1>4, <1>5, <1>6 DEF DestructiveCheck

----------------------------------------------------------------------------
(* What a quiet check leaves *)

\* The certificate check changes the VM by ctr and its one image only, and talks
\* to no cluster.
CertTouches(n) ==
  /\ "context" \notin n.command.needs
  /\ \/ n.command.adds = {} /\ n.command.drops = {}
     \/ /\ n.command.adds \cup n.command.drops = {"alpine"}
        /\ \E as \in As : {"ctr", as} \subseteq n.command.needs

LEMMA CertTouch ==
  ASSUME NEW n, AtCertRun(n) \/ AtCertCleanup(n)
  PROVE  CertTouches(n)
<1>1. ASSUME NEW s, n.command = Asks(s), "context" \notin s
      PROVE  CertTouches(n)
  BY <1>1, AsksFields DEF CertTouches
<1>2. CASE \E m \in BOOLEAN, as \in As : n = Pull(m, as)
  <2>1. PICK m \in BOOLEAN, as \in As : n = Pull(m, as)
    BY <1>2
  <2> DEFINE s == {"ctr", as}
  <2>2. n.command = Creates("alpine", s, {})
    BY <2>1, CertRunNodes DEF Node
  <2> HIDE DEF s
  <2>3. n.command.adds = {"alpine"} /\ n.command.drops = {} /\ n.command.needs = s
    BY <2>2, CreatesFields
  <2> QED
    BY <2>3 DEF CertTouches, s, As
<1>3. CASE \E m \in BOOLEAN, as \in As : n = Container(m, as)
  <2>1. PICK m \in BOOLEAN, as \in As : n = Container(m, as)
    BY <1>3
  <2> DEFINE k == CertCheck(m, as)
  <2>2. n.command = k
    BY <2>1, CertRunNodes DEF Node
  <2>3. k.adds = {} /\ k.drops = {} /\ k.needs = {"ctr", as, "alpine", "certs"}
    BY CertCheckFields
  <2> HIDE DEF k
  <2>4. "context" \notin k.needs
    BY <2>3 DEF As
  <2> QED
    BY <2>2, <2>3, <2>4 DEF CertTouches
<1>4. CASE \E as \in As : n = RemoveImage(as)
  <2>1. PICK as \in As : n = RemoveImage(as)
    BY <1>4
  <2> DEFINE s == {"ctr", as}
  <2>2. n.command = Removes({"alpine"}, s)
    BY <2>1, CertCleanupNodes DEF Node
  <2> HIDE DEF s
  <2>3. n.command.adds = {} /\ n.command.drops = {"alpine"} /\ n.command.needs = s
    BY <2>2, RemovesFields
  <2> QED
    BY <2>3 DEF CertTouches, s, As
<1>5. CASE \E m \in BOOLEAN, as \in As : n = Pulled(m, as)
  <2>1. PICK m \in BOOLEAN, as \in As : n = Pulled(m, as)
    BY <1>5
  <2>2. n.command = Asks({"ctr", as, "alpine"})
    BY <2>1, CertRunNodes DEF Node
  <2>3. "context" \notin {"ctr", as, "alpine"}
    BY DEF As
  <2> QED
    BY <2>2, <2>3, <1>1
<1>6. CASE \E l \in BOOLEAN : n = ContainerCertsRun(l) \/ n = CertMounts(l)
  <2>1. PICK l \in BOOLEAN : n = ContainerCertsRun(l) \/ n = CertMounts(l)
    BY <1>6
  <2>2. "user" \in As /\ TRUE \in BOOLEAN
    BY DEF As
  <2>3. n.command = Asks({"ctr"}) \/ n.command = Asks({})
    BY <2>1, <2>2, CertRunNodes DEF Node
  <2> QED
    BY <2>3, <1>1
<1>7. CASE \E m \in BOOLEAN : n = Prefixed(m) \/ n = Sudo(Pulls(m))
  <2>1. PICK m \in BOOLEAN : n = Prefixed(m) \/ n = Sudo(Pulls(m))
    BY <1>7
  <2>2. "user" \in As /\ TRUE \in BOOLEAN
    BY DEF As
  <2>3. n.command = Asks({"ctr", "user"}) \/ n.command = Asks({"ctr", "sudo"})
    BY <2>1, <2>2, CertRunNodes DEF Node
  <2> QED
    BY <2>3, <1>1
<1>8. CASE n = Linked \/ n = ContainerCertsCleanup \/ n = Sudo(Removals)
  <2>1. "user" \in As /\ TRUE \in BOOLEAN
    BY DEF As
  <2>2. \/ n.command = Asks({}) \/ n.command = Asks({"ctr", "user"})
        \/ n.command = Asks({"ctr", "sudo"})
    BY <2>1, <1>8, CertRunNodes, CertCleanupNodes DEF Node
  <2> QED
    BY <2>2, <1>1
<1> QED
  BY <1>2, <1>3, <1>4, <1>5, <1>6, <1>7, <1>8 DEF AtCertRun, AtCertCleanup

LEMMA RestOfCert ==
  ASSUME TypeInv, Answered, check = "containerCerts", Rest("containerCerts")
  PROVE  Rest("containerCerts")'
<1> DEFINE k == at.command
<1>1. Calling /\ [Next]_vars /\ UNCHANGED <<check, before>>
  BY CallFrame DEF Next
<1>2. CertTouches(at)
  <2>1. CASE phase = "run"
    BY <1>1, <2>1, CertTouch DEF TypeInv, AtRun, Calling
  <2>2. CASE phase = "cleanup"
    BY <1>1, <2>2, CertTouch DEF TypeInv, AtCleanup, Calling
  <2> QED
    BY <1>1, <2>1, <2>2 DEF Calling, Busy
<1>3. held' = held \/ (Works(k) /\ held' = (held \cup k.adds) \ k.drops)
  BY DEF Answered, Effect
<1>4. CtrUsable' <=> CtrUsable
  BY <1>1, CtrStays
<1>5. held' = held \/ (CtrUsable /\ held' \ {"alpine"} = held \ {"alpine"})
  <2>1. CASE k.adds = {} /\ k.drops = {}
    BY <1>3, <2>1
  <2>2. CASE /\ k.adds \cup k.drops = {"alpine"}
             /\ \E as \in As : {"ctr", as} \subseteq k.needs
    <3>1. Works(k) => CtrUsable
      BY <2>2 DEF Works, CtrUsable, As
    <3>2. k.adds \subseteq {"alpine"} /\ k.drops \subseteq {"alpine"}
      BY <2>2
    <3> QED
      BY <1>3, <3>1, <3>2
  <2> QED
    BY <1>2, <2>1, <2>2 DEF CertTouches
<1>6. Removed("containerCerts") = {"alpine"} /\ Removed("containerCerts")' = {"alpine"}
  BY DEF Removed
<1> QED
  BY <1>1, <1>4, <1>5, <1>6 DEF Rest

LEMMA RestOfOne ==
  ASSUME TypeInv, Answered, NEW c \in {"dockerRun", "kindCluster"}, check = c, Rest(c)
  PROVE  Rest(c)'
<1> DEFINE k == at.command
<1>1. Calling /\ UNCHANGED <<check, before>>
  BY CallFrame
<1>2. k.adds \subseteq Removed(c) /\ k.drops \subseteq Removed(c)
  <2>1. Own(c) = Removed(c)
    BY DEF Own, Removed
  <2> QED
    BY <1>1, <2>1, CallAt DEF RunNode, CleanupNode
<1>3. held' = held \/ held' = (held \cup k.adds) \ k.drops
  BY DEF Answered, Effect
<1>4. held' \ Removed(c) = held \ Removed(c) /\ Removed(c)' = Removed(c)
  <2>1. Removed(c)' = Removed(c)
    BY DEF Removed
  <2> QED
    BY <1>2, <1>3, <2>1
<1> QED
  BY <1>1, <1>4 DEF Rest

LEMMA RestOfCilium ==
  ASSUME TypeInv, Answered, check = "ciliumDatapath", Rest("ciliumDatapath")
  PROVE  Rest("ciliumDatapath")'
<1> DEFINE k == at.command
           own == Removed("ciliumDatapath")
<1>1. Calling /\ UNCHANGED <<check, before>>
  BY CallFrame
<1>2. own' = own /\ "exec-mount" \notin own
  BY DEF Removed, Files
<1>3. k.adds \subseteq own \cup {"exec-mount"} /\ k.drops \subseteq own
  <2>1. Own("ciliumDatapath") = own \cup {"exec-mount"}
    BY DEF Own, Removed
  <2> QED
    BY <1>1, <2>1, CallAt DEF RunNode, CleanupNode
<1>4. held' = held \/ held' = (held \cup k.adds) \ k.drops
  BY DEF Answered, Effect
<1>5. CASE at = CiliumDatapathRun /\ held = before
  <2>1. Node(at, Creates("exec-mount", {}, {}), CiliumFile1, CiliumFile1)
    BY <1>5, CiliumNodes
  <2> DEFINE e == Creates("exec-mount", {}, {})
  <2>2. e.needs = {} /\ e.free = {} /\ e.adds = {"exec-mount"} /\ e.drops = {}
    BY CreatesFields
  <2>3. Works(e)
    BY <2>2 DEF Works
  <2>4. held' = (held \cup e.adds) \ e.drops
    BY <2>1, <2>3, AnsweredAt
  <2> HIDE DEF e, own
  <2>5. held' \ own = (before \ own) \cup {"exec-mount"}
    BY <1>2, <1>5, <2>2, <2>4
  <2> QED
    BY <1>1, <1>2, <2>5 DEF Rest, own
<1>6. CASE held \ own = (before \ own) \cup {"exec-mount"}
  <2> HIDE DEF own, k
  <2>1. held' \ own = held \ own
    BY <1>2, <1>3, <1>4, <1>6
  <2> QED
    BY <1>1, <1>2, <1>6, <2>1 DEF Rest, own
<1> QED
  BY <1>5, <1>6 DEF Rest

LEMMA RestInvStep ==
  ASSUME TypeInv, LinkInv, RestInv, [Next]_vars
  PROVE  RestInv'
<1>1. CASE StartExecution \/ Killed
  <2>1. phase' = "idle"
    BY <1>1 DEF StartExecution, Killed
  <2> QED
    BY <2>1 DEF RestInv
<1>2. CASE StartCheck
  <2>1. /\ check' \in todo /\ at' = Run(check', "linked" \in held) /\ phase' = "run"
        /\ held' = held /\ before' = held
    BY <1>2 DEF StartCheck
  <2>2. check' = "ciliumDatapath" => at' = CiliumDatapathRun
    BY <2>1 DEF Run
  <2> QED
    BY <2>1, <2>2 DEF RestInv, Rest
<1>3. CASE RunReturns
  <2>1. CiliumDatapathRun \notin {Nil, Error}
    BY CiliumNodes DEF Node
  <2>2. /\ UNCHANGED <<check, held, before, quiet>> /\ at \in {Nil, Error} /\ phase = "run"
        /\ phase' = "cleanup"
    BY <1>3 DEF RunReturns, Returned
  <2> QED
    BY <2>1, <2>2 DEF RestInv, Rest, CtrUsable, Removed
<1>4. CASE CleanupReturns
  <2>1. /\ UNCHANGED <<check, held, before, quiet>> /\ phase = "cleanup" /\ phase' = "checked"
    BY <1>4 DEF CleanupReturns
  <2> QED
    BY <2>1 DEF RestInv, Rest, CtrUsable, Removed
<1>5. CASE Answered \/ CallFails \/ NotConnected
  <2>1. SUFFICES ASSUME quiet' PROVE Rest(check)'
    BY DEF RestInv
  <2>2. Answered /\ quiet
    BY <1>5, <2>1, QuietCall
  <2>3. Calling /\ check' = check
    BY <1>5, CallFrame
  <2>4. Rest(check)
    BY <2>2, <2>3 DEF RestInv, Calling, Busy
  <2>5. check \in DestructiveCheck
    BY <2>3, CallAt
  <2>6. CASE check = "containerCerts"
    BY <2>2, <2>3, <2>4, <2>6, RestOfCert
  <2>7. CASE check = "ciliumDatapath"
    BY <2>2, <2>3, <2>4, <2>7, RestOfCilium
  <2>8. CASE check \in {"dockerRun", "kindCluster"}
    <3>1. PICK c \in {"dockerRun", "kindCluster"} : check = c
      BY <2>8
    <3>2. Rest(c)'
      BY <2>2, <2>4, <3>1, RestOfOne
    <3> QED
      BY <2>3, <3>1, <3>2
  <2> QED
    BY <2>5, <2>6, <2>7, <2>8 DEF DestructiveCheck
<1>6. CASE StrayEnds
  <2>1. CASE quiet' = FALSE
    BY <2>1 DEF RestInv
  <2>2. CASE UNCHANGED <<held, quiet>>
    <3>1. UNCHANGED <<check, phase, at, before>>
      BY <1>6, StrayFrame
    <3> QED
      BY <2>2, <3>1 DEF RestInv, Rest, CtrUsable, Removed
  <2> QED
    BY <1>6, <2>1, <2>2, StrayFrame
<1>7. CASE UNCHANGED vars
  BY <1>7 DEF vars, RestInv, Rest, CtrUsable, Removed
<1> QED
  BY <1>1, <1>2, <1>3, <1>4, <1>5, <1>6, <1>7 DEF Next

LEMMA RestFollows ==
  ASSUME TypeInv, LinkInv, CleanInv, RestInv
  PROVE  RestoresAllButItsOwn
<1> SUFFICES ASSUME NEW c \in registry, Checked(c), quiet
             PROVE  \/ held = (before \ (Own(c) \ {"certcheck"})) \cup
                                (IF c = "ciliumDatapath" THEN {"exec-mount"} ELSE {})
                    \/ c = "containerCerts" /\ ~CtrUsable /\ held = before
  BY DEF RestoresAllButItsOwn
<1>1. phase = "checked" /\ check = c /\ calm /\ ~disturbed
  BY DEF Checked, LinkInv
<1>2. Rest(c)
  BY <1>1 DEF RestInv
<1>3. /\ at = Nil => Removed(c) \cap held = {}
      /\ at = Nil \/ (c = "containerCerts" /\ ~CtrUsable)
  <2>1. at \in {Nil, Error}
    BY DEF TypeInv, Checked, Busy
  <2> QED
    BY <1>1, <2>1, VerdictAt
<1>4. CASE at = Nil
  <2>1. Removed(c) \cap held = {}
    BY <1>3, <1>4
  <2>2. held \ Removed(c) = held
    BY <2>1
  <2>3. /\ c # "ciliumDatapath" => Own(c) \ {"certcheck"} = Removed(c)
        /\ c = "ciliumDatapath" => Own(c) \ {"certcheck"} = Removed(c) \cup {"exec-mount"}
    <3>1. c \in DestructiveCheck
      BY RegistriesAssumption DEF TypeInv
    <3> QED
      BY <3>1 DEF DestructiveCheck, Own, Removed, Files
  <2>4. c = "ciliumDatapath" => held = (before \ Removed(c)) \cup {"exec-mount"}
    <3>1. ASSUME c = "ciliumDatapath" PROVE phase # "run"
      BY <1>1
    <3> QED
      BY <1>1, <1>2, <2>2 DEF Rest
  <2> QED
    BY <1>1, <1>2, <2>2, <2>3, <2>4 DEF Rest
<1>5. CASE c = "containerCerts" /\ ~CtrUsable
  BY <1>2, <1>5 DEF Rest
<1> QED
  BY <1>3, <1>4, <1>5

----------------------------------------------------------------------------
(* The cluster a check talks to *)

\* kind makes the cluster it creates the current one.
LEMMA NewCluster ==
  ASSUME NEW k, NEW cluster \in Clusters, Effect(k, {cluster}), k.drops = {}
  PROVE  context' = cluster /\ held' = held \cup {cluster}
<1>1. {cluster} \cap Clusters # {}
  OBVIOUS
<1>2. (CHOOSE z \in Clusters : z \in {cluster}) = cluster
  OBVIOUS
<1> QED
  BY <1>1, <1>2 DEF Effect

\* A command that adds no cluster and drops none leaves the current one.
LEMMA SameCluster ==
  ASSUME NEW k, NEW adds, Effect(k, adds), adds \cap Clusters = {}, k.drops = {}
  PROVE  context' = context /\ held' = held \cup adds
BY DEF Effect

\* The commands of Run that talk to a cluster do nothing else.
LEMMA AskCluster ==
  ASSUME Answered, NEW s, NEW x, Node(at, OnCluster(s), x, Error)
  PROVE  /\ at' = x \/ at' = Error
         /\ context' = context /\ held' = held /\ used' = used \cup {context}
<1> DEFINE k == OnCluster(s)
<1>1. /\ k.adds = {} /\ k.drops = {} /\ "context" \in k.needs
  BY OnClusterFields
<1>2. Node(at, k, x, Error)
  OBVIOUS
<1> HIDE DEF k
<1>3. /\ \/ Works(k) /\ at' = x /\ Effect(k, k.adds)
         \/ ~Works(k) /\ at' = Error /\ held' = held /\ context' = context
      /\ used' = used \cup {context}
  BY <1>1, <1>2, AnsweredAt
<1> QED
  BY <1>1, <1>3, SameCluster

LEMMA UsedOfKind ==
  ASSUME Answered, check = "kindCluster", UsedRun
  PROVE  UsedRun'
<1>1. UNCHANGED <<check, disturbed>> /\ at \notin {Nil, Error}
  BY CallFrame DEF Calling
<1>2. CASE at = KindClusterRun /\ used = {}
  <2> DEFINE k == KindCreate("cert-validation", {})
  <2>1. Node(at, k, KindTest1, Error)
    BY <1>2, ClusterNodes
  <2>2. /\ k.adds = {"cert-validation"} /\ k.drops = {} /\ k.needs = {}
        /\ "cert-validation" \in Clusters
    BY KindCreateFields DEF Clusters
  <2> HIDE DEF k
  <2>3. used' = {}
    BY <1>2, <2>1, <2>2, AnsweredAt
  <2>4. CASE at' = Error
    BY <1>1, <2>4 DEF UsedRun
  <2>5. CASE at' = KindTest1 /\ Effect(k, k.adds)
    <3>1. context' = "cert-validation"
      BY <2>2, <2>5, NewCluster
    <3> QED
      BY <1>1, <2>3, <2>5, <3>1 DEF UsedRun, OnOwn
  <2> QED
    BY <2>1, <2>4, <2>5, AnsweredAt
<1>3. CASE at \in {KindTest1, KindTest2} /\ OnOwn("cert-validation")
  <2>1. \/ Node(at, OnCluster({}), KindTest2, Error)
        \/ Node(at, OnCluster({}), Nil, Error)
    BY <1>3, ClusterNodes
  <2>2. /\ at' \in {KindTest2, Nil, Error}
        /\ context' = context /\ used' = used \cup {context}
    BY <2>1, AskCluster
  <2> QED
    BY <1>1, <1>3, <2>2 DEF UsedRun, OnOwn
<1> QED
  BY <1>1, <1>2, <1>3 DEF UsedRun

\* Only a command on a cluster needs one.
LEMMA CiliumApart ==
  CiliumDatapathRun \notin {CiliumSetUp, CiliumTest1, CiliumTest2}
<1>1. "context" \notin CiliumDatapathRun.command.needs
  <2>1. CiliumDatapathRun.command = Creates("exec-mount", {}, {})
    BY CiliumNodes DEF Node
  <2> QED
    BY <2>1, CreatesFields
<1>2. /\ "context" \in CiliumSetUp.command.needs /\ "context" \in CiliumTest1.command.needs
      /\ "context" \in CiliumTest2.command.needs
  <2>1. \A s : "context" \in OnCluster(s).needs
    BY OnClusterFields
  <2> QED
    BY <2>1, CiliumNodes DEF Node
<1> QED
  BY <1>1, <1>2

\* A command that creates a file or remounts talks to no cluster.
LEMMA CreateFile ==
  ASSUME Answered, NEW r, r \notin Clusters, NEW x, NEW y, Node(at, Creates(r, {}, {}), x, y)
  PROVE  at' = x /\ context' = context /\ held' = held \cup {r} /\ used' = used
<1> DEFINE k == Creates(r, {}, {})
<1>1. k.adds = {r} /\ k.drops = {} /\ k.needs = {} /\ k.free = {}
  BY CreatesFields
<1>2. Node(at, k, x, y)
  OBVIOUS
<1> HIDE DEF k
<1>3. Works(k)
  BY <1>1 DEF Works
<1>4. at' = x /\ Effect(k, k.adds) /\ used' = used
  BY <1>1, <1>2, <1>3, AnsweredAt
<1> QED
  BY <1>1, <1>4, SameCluster

LEMMA UsedOfCilium ==
  ASSUME Answered, check = "ciliumDatapath", UsedRun
  PROVE  UsedRun'
<1>1. UNCHANGED <<check, disturbed>> /\ at \notin {Nil, Error}
  BY CallFrame DEF Calling
<1>2. /\ "exec-mount" \notin Clusters /\ "kind-cilium-config.yaml" \notin Clusters
      /\ "cilium-values.yaml" \notin Clusters
  BY DEF Clusters
<1>3. CASE at \in {CiliumDatapathRun, CiliumFile1, CiliumFile2} /\ used = {}
  <2>1. at' \in {CiliumFile1, CiliumFile2, CiliumCreate} /\ used' = used
    <3>1. CASE at = CiliumDatapathRun
      BY <1>2, <3>1, CiliumNodes, CreateFile
    <3>2. CASE at = CiliumFile1
      BY <1>2, <3>2, CiliumNodes, CreateFile
    <3>3. CASE at = CiliumFile2
      BY <1>2, <3>3, CiliumNodes, CreateFile
    <3> QED
      BY <1>3, <3>1, <3>2, <3>3
  <2> QED
    BY <1>1, <1>3, <2>1 DEF UsedRun
<1>4. CASE at = CiliumCreate /\ used = {}
  <2> DEFINE k == KindCreate("gke-os-cert-cilium", {"kind-cilium-config.yaml"})
  <2>1. Node(at, k, CiliumSetUp, Error)
    BY <1>4, CiliumNodes
  <2>2. /\ k.adds = {"gke-os-cert-cilium"} /\ k.drops = {} /\ "context" \notin k.needs
        /\ "gke-os-cert-cilium" \in Clusters
    BY KindCreateFields DEF Clusters
  <2> HIDE DEF k
  <2>3. used' = {}
    BY <1>4, <2>1, <2>2, AnsweredAt
  <2>4. CASE at' = Error
    BY <1>1, <2>4 DEF UsedRun
  <2>5. CASE at' = CiliumSetUp /\ Effect(k, k.adds)
    <3>1. context' = "gke-os-cert-cilium"
      BY <2>2, <2>5, NewCluster
    <3> QED
      BY <1>1, <2>3, <2>5, <3>1 DEF UsedRun, OnOwn
  <2> QED
    BY <2>1, <2>4, <2>5, AnsweredAt
<1>5. CASE at \in {CiliumSetUp, CiliumTest1, CiliumTest2} /\ OnOwn("gke-os-cert-cilium")
  <2>1. \/ Node(at, OnCluster({"cilium-values.yaml"}), CiliumTest1, Error)
        \/ Node(at, OnCluster({"datapath"}), CiliumTest2, Error)
        \/ Node(at, OnCluster({"datapath"}), Nil, Error)
    BY <1>5, CiliumNodes
  <2>2. /\ at' \in {CiliumTest1, CiliumTest2, Nil, Error}
        /\ context' = context /\ used' = used \cup {context}
    BY <2>1, AskCluster
  <2> QED
    BY <1>1, <1>5, <2>2 DEF UsedRun, OnOwn
<1> QED
  BY <1>1, <1>3, <1>4, <1>5 DEF UsedRun

LEMMA NotOnCluster ==
  ASSUME TypeInv, Calling, phase = "cleanup" \/ check \in {"containerCerts", "dockerRun"}
  PROVE  "context" \notin at.command.needs
<1>1. CASE phase = "cleanup"
  BY <1>1, CallAt DEF CleanupNode
<1>2. CASE phase = "run" /\ check = "containerCerts"
  BY <1>2, CertTouch DEF TypeInv, AtRun, Calling, CertTouches
<1>3. CASE phase = "run" /\ check = "dockerRun"
  <2>1. at = DockerRunRun
    BY <1>3 DEF TypeInv, AtRun, Calling
  <2>2. at.command = Creates("hello-world", {}, {})
    BY <2>1, ClusterNodes DEF Node
  <2> QED
    BY <2>2, CreatesFields
<1> QED
  BY <1>1, <1>2, <1>3 DEF Calling, Busy

LEMMA UsedInvStep ==
  ASSUME TypeInv, UsedInv, [Next]_vars
  PROVE  UsedInv'
<1>1. CASE StartExecution \/ Killed
  <2>1. phase' = "idle"
    BY <1>1 DEF StartExecution, Killed
  <2> QED
    BY <2>1 DEF UsedInv
<1>2. CASE StartCheck
  <2>1. /\ check' \in todo /\ at' = Run(check', "linked" \in held) /\ phase' = "run"
        /\ used' = {}
    BY <1>2 DEF StartCheck
  <2>2. /\ check' = "ciliumDatapath" => at' = CiliumDatapathRun
        /\ check' = "kindCluster" => at' = KindClusterRun
    BY <2>1 DEF Run
  <2> QED
    BY <2>1, <2>2 DEF UsedInv, UsedRun
<1>3. CASE RunReturns
  <2>1. /\ CiliumDatapathRun \notin {Nil, Error} /\ CiliumFile1 \notin {Nil, Error}
        /\ CiliumFile2 \notin {Nil, Error} /\ CiliumCreate \notin {Nil, Error}
        /\ KindClusterRun \notin {Nil, Error}
    BY CiliumNodes, ClusterNodes DEF Node
  <2>2. /\ UNCHANGED <<check, used, disturbed, context>> /\ at \in {Nil, Error} /\ phase = "run"
        /\ phase' = "cleanup" /\ failed' = (at = Error)
    BY <1>3 DEF RunReturns, Returned
  <2>3. check \in DestructiveCheck
    BY <2>2, RegistriesAssumption DEF TypeInv, Busy
  <2>4. CASE at = Error
    BY <2>2, <2>4 DEF UsedInv
  <2>5. CASE at = Nil
    <3>1. UsedRun
      BY <2>2 DEF UsedInv
    <3>2. disturbed \/ used \subseteq Removed(check)
      <4>1. CASE check \in {"containerCerts", "dockerRun"}
        BY <3>1, <4>1 DEF UsedRun
      <4>2. CASE check = "kindCluster"
        <5>1. OnOwn("cert-validation")
          BY <2>1, <2>5, <3>1, <4>2, Leaves DEF UsedRun
        <5> QED
          BY <4>2, <5>1 DEF OnOwn, Removed
      <4>3. CASE check = "ciliumDatapath"
        <5>1. OnOwn("gke-os-cert-cilium")
          BY <2>1, <2>5, <3>1, <4>3, Leaves DEF UsedRun
        <5> QED
          BY <4>3, <5>1 DEF OnOwn, Removed
      <4> QED
        BY <2>3, <4>1, <4>2, <4>3 DEF DestructiveCheck
    <3>3. Removed(check)' = Removed(check)
      BY <2>2 DEF Removed
    <3> QED
      BY <2>2, <3>2, <3>3 DEF UsedInv
  <2> QED
    BY <2>2, <2>4, <2>5
<1>4. CASE CleanupReturns
  <2>1. /\ UNCHANGED <<check, used, disturbed, failed>> /\ phase = "cleanup"
        /\ phase' = "checked"
    BY <1>4 DEF CleanupReturns
  <2>2. Removed(check)' = Removed(check)
    BY <2>1 DEF Removed
  <2> QED
    BY <2>1, <2>2 DEF UsedInv
<1>5. CASE Answered \/ CallFails \/ NotConnected
  <2>1. Calling /\ UNCHANGED <<check, phase, failed, disturbed>>
    BY <1>5, CallFrame
  <2>2. Removed(check)' = Removed(check) /\ check \in DestructiveCheck
    BY <2>1, CallAt DEF Removed
  <2>3. CASE phase = "cleanup"
    <3>1. used' = used
      <4>1. CASE Answered
        BY <2>1, <2>3, <4>1, NotOnCluster DEF Answered
      <4> QED
        BY <1>5, <4>1, FailedAt
    <3> QED
      BY <2>1, <2>2, <2>3, <3>1 DEF UsedInv
  <2>4. CASE phase = "run"
    <3>1. UsedRun
      BY <2>4 DEF UsedInv
    <3>2. CASE check \in {"containerCerts", "dockerRun"}
      <4>1. used' = used
        <5>1. CASE Answered
          BY <2>1, <3>2, <5>1, NotOnCluster DEF Answered
        <5> QED
          BY <1>5, <5>1, FailedAt
      <4> QED
        BY <2>1, <2>4, <3>1, <3>2, <4>1 DEF UsedInv, UsedRun
    <3>3. CASE check = "kindCluster"
      <4>1. CASE Answered
        BY <2>1, <2>4, <3>1, <3>3, <4>1, UsedOfKind DEF UsedInv
      <4>2. CASE CallFails \/ NotConnected
        <5>1. at.no = Error
          BY <2>1, <2>4, <3>3, ClusterNodes DEF TypeInv, AtRun, Calling, Node
        <5> QED
          BY <2>1, <2>4, <3>3, <4>2, <5>1, FailedAt DEF UsedInv, UsedRun
      <4> QED
        BY <1>5, <4>1, <4>2
    <3>4. CASE check = "ciliumDatapath"
      <4>1. CASE Answered
        BY <2>1, <2>4, <3>1, <3>4, <4>1, UsedOfCilium DEF UsedInv
      <4>2. CASE CallFails \/ NotConnected
        <5>1. at.no = Error \/ (at = CiliumDatapathRun /\ at.no = CiliumFile1)
          BY <2>1, <2>4, <3>4, CiliumNodes DEF TypeInv, AtRun, AtCiliumRun, Calling, Node
        <5>2. at' = at.no /\ used' = used
          BY <4>2, FailedAt
        <5>3. CASE at.no = Error
          BY <2>1, <2>4, <3>4, <5>2, <5>3 DEF UsedInv, UsedRun
        <5>4. CASE at = CiliumDatapathRun /\ at.no = CiliumFile1
          <6>1. used = {}
            <7>1. CiliumDatapathRun \notin {CiliumSetUp, CiliumTest1, CiliumTest2}
              BY CiliumApart
            <7> QED
              BY <2>1, <3>1, <3>4, <5>4, <7>1 DEF UsedRun, Calling
          <6> QED
            BY <2>1, <2>4, <3>4, <5>2, <5>4, <6>1 DEF UsedInv, UsedRun
        <5> QED
          BY <5>1, <5>3, <5>4
      <4> QED
        BY <1>5, <4>1, <4>2
    <3> QED
      BY <2>2, <3>2, <3>3, <3>4 DEF DestructiveCheck
  <2> QED
    BY <2>1, <2>3, <2>4 DEF Calling, Busy
<1>6. CASE StrayEnds
  <2>1. UNCHANGED <<check, phase, at, failed, used>>
    BY <1>6, StrayFrame
  <2>2. Removed(check)' = Removed(check)
    BY <2>1 DEF Removed
  <2>3. CASE disturbed' = TRUE
    BY <2>1, <2>3 DEF UsedInv, UsedRun, OnOwn
  <2>4. CASE UNCHANGED <<context, disturbed>>
    BY <2>1, <2>2, <2>4 DEF UsedInv, UsedRun, OnOwn
  <2> QED
    BY <1>6, <2>3, <2>4, StrayFrame
<1>7. CASE UNCHANGED vars
  <2>1. Removed(check)' = Removed(check)
    BY <1>7 DEF vars, Removed
  <2> QED
    BY <1>7, <2>1 DEF vars, UsedInv, UsedRun, OnOwn
<1> QED
  BY <1>1, <1>2, <1>3, <1>4, <1>5, <1>6, <1>7 DEF Next

LEMMA UsedFollows ==
  ASSUME TypeInv, UsedInv
  PROVE  PassesOnOwnCluster
<1>1. \A c \in DestructiveCheck : Removed(c) \subseteq Own(c)
  BY DEF DestructiveCheck, Own, Removed
<1> QED
  BY <1>1, RegistriesAssumption DEF TypeInv, UsedInv, PassesOnOwnCluster, Checked

----------------------------------------------------------------------------
(* What a quiet execution repairs *)

LEMMA ClustersApart ==
  ASSUME NEW c \in DestructiveCheck, NEW d \in DestructiveCheck, c # d
  PROVE  ClusterOf(c) \cap Own(d) = {}
BY DEF DestructiveCheck, ClusterOf, Own, Removed, Clusters, Files

LEMMA RepairInvStep ==
  ASSUME TypeInv, LinkInv, CleanInv, RepairInv, [Next]_vars
  PROVE  RepairInv'
<1> DEFINE Gone(c) == /\ c \notin todo /\ ~(Busy /\ check = c) => ClusterOf(c) \cap held = {}
                      /\ c \in todo /\ lastQuiet /\ executions > 1 => ClusterOf(c) \cap held = {}
<1>1. registry' = registry /\ \A c : ClusterOf(c)' = ClusterOf(c)
  <2>1. registry' = registry
    BY DEF Next, StartExecution, StartCheck, RunReturns, CleanupReturns, Answered, CallFails,
           NotConnected, StrayEnds, Killed, vars
  <2> QED
    BY <2>1 DEF ClusterOf, Removed
<1>2. Busy' => check' \notin todo'
  <2>1. CASE StartExecution \/ StartCheck \/ Killed \/ CleanupReturns
    BY <2>1 DEF StartExecution, StartCheck, Killed, CleanupReturns, Busy
  <2>2. CASE RunReturns
    BY <2>2 DEF RunReturns, RepairInv, Busy
  <2>3. CASE Answered \/ CallFails \/ NotConnected
    BY <2>3, CallFrame DEF RepairInv, Busy
  <2>4. CASE StrayEnds
    BY <2>4, StrayFrame DEF RepairInv, Busy
  <2>5. CASE UNCHANGED vars
    BY <2>5 DEF RepairInv, vars, Busy
  <2> QED
    BY <2>1, <2>2, <2>3, <2>4, <2>5 DEF Next
<1>3. SUFFICES ASSUME NEW c \in registry, quiet', executions' >= 1
               PROVE  Gone(c)'
  BY <1>1, <1>2 DEF RepairInv
<1>4. c \in DestructiveCheck /\ ClusterOf(c)' = ClusterOf(c) /\ executions \in Nat
  BY <1>1, RegistriesAssumption, ExecutionsAssumption DEF TypeInv
<1>5. quiet /\ executions >= 1 => Gone(c)
  BY DEF RepairInv
<1>6. CASE StartExecution
  <2>1. /\ ~Busy /\ todo = {} /\ executions' = executions + 1 /\ todo' = registry
        /\ lastQuiet' = quiet /\ held' = held
    BY <1>6 DEF StartExecution
  <2>2. quiet /\ executions >= 1 => ClusterOf(c) \cap held = {}
    BY <1>5, <2>1
  <2> QED
    BY <1>4, <2>1, <2>2
<1>7. CASE StartCheck
  <2>1. /\ ~Busy /\ Busy' /\ todo' = todo \ {check'}
        /\ UNCHANGED <<held, quiet, executions, lastQuiet>>
    BY <1>7 DEF StartCheck, Busy
  <2> QED
    BY <1>3, <1>4, <1>5, <2>1
<1>8. CASE RunReturns
  <2>1. Busy /\ Busy' /\ UNCHANGED <<held, quiet, executions, lastQuiet, todo, check>>
    BY <1>8 DEF RunReturns, Busy
  <2> QED
    BY <1>3, <1>4, <1>5, <2>1
<1>9. CASE CleanupReturns
  <2>1. /\ Busy /\ ~Busy' /\ UNCHANGED <<held, quiet, executions, lastQuiet, todo, check>>
        /\ phase = "cleanup" /\ at \in {Nil, Error}
    BY <1>9 DEF CleanupReturns, Returned, Busy
  <2>2. CASE check = c
    <3>1. calm /\ ~disturbed
      BY <1>3, <2>1 DEF LinkInv
    <3>2. \/ at = Nil /\ Removed(c) \cap held = {}
          \/ c = "containerCerts"
      BY <2>1, <2>2, <3>1, VerdictAt
    <3>3. c = "containerCerts" => ClusterOf(c) = {}
      BY DEF ClusterOf, Removed, Clusters
    <3>4. ClusterOf(c) \cap held = {}
      BY <3>2, <3>3 DEF ClusterOf
    <3> QED
      BY <1>4, <2>1, <3>4
  <2>3. CASE check # c
    BY <1>3, <1>4, <1>5, <2>1, <2>3
  <2> QED
    BY <2>2, <2>3
<1>10. CASE Answered \/ CallFails \/ NotConnected
  <2>1. Answered /\ quiet
    BY <1>3, <1>10, QuietCall
  <2>2. /\ Calling /\ Busy /\ Busy' /\ UNCHANGED <<executions, lastQuiet, todo, check>>
    BY <1>10, CallFrame DEF Calling, Busy
  <2>3. CASE check = c
    BY <2>2, <2>3 DEF RepairInv
  <2>4. CASE check # c
    <3>1. /\ check \in DestructiveCheck
          /\ at.command.adds \subseteq Own(check)
      BY <2>2, CallAt DEF RunNode, CleanupNode
    <3>2. held' \subseteq held \cup at.command.adds
      BY <2>1 DEF Answered, Effect
    <3>3. ClusterOf(c) \cap held = {} => ClusterOf(c) \cap held' = {}
      BY <1>4, <2>4, <3>1, <3>2, ClustersApart
    <3> QED
      BY <1>3, <1>4, <1>5, <2>1, <2>2, <2>4, <3>3
  <2> QED
    BY <2>3, <2>4
<1>11. CASE StrayEnds
  <2>1. UNCHANGED <<executions, lastQuiet, todo, check, phase, held, quiet>>
    BY <1>3, <1>11, StrayFrame
  <2> QED
    BY <1>3, <1>4, <1>5, <2>1 DEF Busy
<1>12. CASE Killed
  BY <1>3, <1>12 DEF Killed
<1>13. CASE UNCHANGED vars
  BY <1>3, <1>4, <1>5, <1>13 DEF vars, Busy
<1> QED
  BY <1>6, <1>7, <1>8, <1>9, <1>10, <1>11, <1>12, <1>13 DEF Next

----------------------------------------------------------------------------
(* The Run of a check that deserves to pass *)

\* An inquiry changes nothing.
LEMMA Inquiry ==
  ASSUME Answered, NEW s, NEW x, NEW y, Node(at, Asks(s), x, y), "context" \notin s
  PROVE  /\ held' = held
         /\ s \subseteq held => at' = x
         /\ ~(s \subseteq held) => at' = y
<1> DEFINE k == Asks(s)
<1>1. k.adds = {} /\ k.drops = {} /\ k.needs = s /\ k.free = {}
  BY AsksFields
<1>2. Node(at, k, x, y)
  OBVIOUS
<1> HIDE DEF k
<1>3. Works(k) <=> s \subseteq held
  BY <1>1 DEF Works
<1> QED
  BY <1>1, <1>2, <1>3, AnsweredAt

LEMMA PassCert ==
  ASSUME TypeInv, Answered, phase = "run", check = "containerCerts", CertPasses,
         "certcheck" \notin held, CtrUsable, "certs" \in held
  PROVE  CertPasses' /\ "certcheck" \notin held'
<1>1. at \notin {Nil, Error} /\ [Next]_vars
  BY CallFrame DEF Calling, Next
<1>2. "user" \in As /\ "sudo" \in As /\ TRUE \in BOOLEAN /\ "context" \notin As
  BY DEF As
<1>3. CASE \E l \in BOOLEAN : at = ContainerCertsRun(l)
  <2>1. PICK l \in BOOLEAN : at = ContainerCertsRun(l)
    BY <1>3
  <2>2. Node(at, Asks({"ctr"}), CertMounts(l), Error)
    BY <1>2, <2>1, CertRunNodes
  <2>3. {"ctr"} \subseteq held /\ "context" \notin {"ctr"}
    BY DEF CtrUsable
  <2>4. held' = held /\ at' = CertMounts(l)
    BY <2>2, <2>3, Inquiry
  <2> QED
    BY <2>4 DEF CertPasses
<1>4. CASE \E l \in BOOLEAN : at = CertMounts(l)
  <2>1. PICK l \in BOOLEAN : at = CertMounts(l)
    BY <1>4
  <2>2. Node(at, Asks({}), IF l THEN Linked ELSE Prefixed(TRUE), Prefixed(FALSE))
    BY <1>2, <2>1, CertRunNodes
  <2> DEFINE x == IF l THEN Linked ELSE Prefixed(TRUE)
             s == {}
  <2>3. s \subseteq held /\ "context" \notin s /\ (x = Linked \/ x = Prefixed(TRUE))
    OBVIOUS
  <2>4. Node(at, Asks(s), x, Prefixed(FALSE))
    BY <2>2
  <2> HIDE DEF x, s
  <2>5. held' = held /\ at' = x
    BY <2>3, <2>4, Inquiry
  <2> QED
    BY <2>3, <2>5 DEF CertPasses
<1>5. CASE at = Linked
  <2>1. Node(at, Asks({}), Prefixed(TRUE), Prefixed(FALSE))
    BY <1>2, <1>5, CertRunNodes
  <2> DEFINE s == {}
  <2>2. s \subseteq held /\ "context" \notin s /\ Node(at, Asks(s), Prefixed(TRUE), Prefixed(FALSE))
    BY <2>1
  <2> HIDE DEF s
  <2>3. held' = held /\ at' = Prefixed(TRUE)
    BY <2>2, Inquiry
  <2> QED
    BY <2>3 DEF CertPasses
<1>6. CASE at = Prefixed(TRUE)
  <2>1. Node(at, Asks({"ctr", "user"}), Pull(TRUE, "user"), Sudo(Pulls(TRUE)))
    BY <1>2, <1>6, CertRunNodes
  <2>2. /\ held' = held
        /\ {"ctr", "user"} \subseteq held => at' = Pull(TRUE, "user")
        /\ ~({"ctr", "user"} \subseteq held) => at' = Sudo(Pulls(TRUE))
    BY <2>1, Inquiry
  <2>3. ~({"ctr", "user"} \subseteq held) => "user" \notin held
    BY DEF CtrUsable
  <2> QED
    BY <1>2, <2>2, <2>3 DEF CertPasses
<1>7. CASE at = Sudo(Pulls(TRUE)) /\ "user" \notin held
  <2>1. Node(at, Asks({"ctr", "sudo"}), Pull(TRUE, "sudo"), Pull(TRUE, "user"))
    BY <1>2, <1>7, CertRunNodes
  <2>2. {"ctr", "sudo"} \subseteq held /\ "context" \notin {"ctr", "sudo"}
    BY <1>7 DEF CtrUsable
  <2>3. held' = held /\ at' = Pull(TRUE, "sudo")
    BY <2>1, <2>2, Inquiry
  <2> QED
    BY <1>2, <2>2, <2>3 DEF CertPasses
<1>8. CASE \E as \in As : {"ctr", as} \subseteq held /\ at = Pull(TRUE, as)
  <2>1. PICK as \in As : {"ctr", as} \subseteq held /\ at = Pull(TRUE, as)
    BY <1>8
  <2> DEFINE s == {"ctr", as}
             k == Creates("alpine", s, {})
  <2>2. Node(at, k, Container(TRUE, as), Pulled(TRUE, as))
    BY <1>2, <2>1, CertRunNodes
  <2>3. s \subseteq held /\ "context" \notin s
    BY <2>1 DEF As
  <2> HIDE DEF s
  <2>4. k.adds = {"alpine"} /\ k.drops = {} /\ k.needs = s /\ k.free = {}
    BY CreatesFields
  <2> HIDE DEF k
  <2>5. Works(k)
    BY <2>3, <2>4 DEF Works
  <2>6. at' = Container(TRUE, as) /\ held' = (held \cup k.adds) \ k.drops
    BY <2>2, <2>5, AnsweredAt
  <2>7. held' = held \cup {"alpine"} /\ {"ctr", as, "alpine"} \subseteq held'
    BY <2>1, <2>4, <2>6
  <2> QED
    BY <2>6, <2>7 DEF CertPasses
<1>9. CASE \E as \in As : {"ctr", as, "alpine"} \subseteq held /\ at = Container(TRUE, as)
  <2>1. PICK as \in As : {"ctr", as, "alpine"} \subseteq held /\ at = Container(TRUE, as)
    BY <1>9
  <2> DEFINE k == CertCheck(TRUE, as)
  <2>2. Node(at, k, Nil, Error)
    BY <1>2, <2>1, CertRunNodes
  <2>3. /\ k.adds = {} /\ k.drops = {} /\ k.needs = {"ctr", as, "alpine", "certs"}
        /\ k.free = {"certcheck"} \cup (IF TRUE THEN {} ELSE {"linked"})
    BY CertCheckFields
  <2> HIDE DEF k
  <2>4. Works(k)
    <3>1. k.free = {"certcheck"}
      BY <2>3
    <3>2. k.needs \subseteq held /\ "context" \notin k.needs
      BY <2>1, <2>3 DEF As
    <3> QED
      BY <3>1, <3>2 DEF Works
  <2>5. at' = Nil /\ held' = (held \cup k.adds) \ k.drops
    BY <2>2, <2>4, AnsweredAt
  <2> QED
    BY <2>3, <2>5 DEF CertPasses
<1> QED
  BY <1>1, <1>3, <1>4, <1>5, <1>6, <1>7, <1>8, <1>9 DEF CertPasses

\* A command on a cluster that is there works if the rest it needs is there.
LEMMA OnReady ==
  ASSUME Answered, NEW s, s \subseteq held, "context" \notin s, NEW x,
         Node(at, OnCluster(s), x, Error), NEW cluster \in Clusters, Ready(cluster)
  PROVE  at' = x /\ held' = held /\ context' = context
<1> DEFINE k == OnCluster(s)
<1>1. k.adds = {} /\ k.drops = {} /\ k.needs = s \cup {"context"} /\ k.free = {}
  BY OnClusterFields
<1>2. Node(at, k, x, Error)
  OBVIOUS
<1> HIDE DEF k
<1>3. Works(k)
  BY <1>1 DEF Works, Ready
<1>4. at' = x
  BY <1>2, <1>3, AnsweredAt
<1> QED
  BY <1>4, AskCluster

LEMMA KindCreates ==
  ASSUME Answered, NEW cluster \in Clusters, NEW s, s \subseteq held, "context" \notin s,
         cluster \notin held, NEW x, Node(at, KindCreate(cluster, s), x, Error)
  PROVE  at' = x /\ held' = held \cup {cluster} /\ context' = cluster
<1> DEFINE k == KindCreate(cluster, s)
<1>1. k.adds = {cluster} /\ k.drops = {} /\ k.needs = s /\ k.free = {cluster}
  BY KindCreateFields
<1>2. Node(at, k, x, Error)
  OBVIOUS
<1> HIDE DEF k
<1>3. Works(k)
  BY <1>1 DEF Works
<1>4. at' = x /\ Effect(k, k.adds)
  BY <1>2, <1>3, AnsweredAt
<1> QED
  BY <1>1, <1>4, NewCluster

LEMMA PassKind ==
  ASSUME Answered, KindPasses
  PROVE  KindPasses'
<1>1. at \notin {Nil, Error} /\ "cert-validation" \in Clusters
  BY CallFrame DEF Calling, Clusters
<1>2. CASE at = KindClusterRun /\ "cert-validation" \notin held
  <2>1. Node(at, KindCreate("cert-validation", {}), KindTest1, Error)
    BY <1>2, ClusterNodes
  <2>2. /\ at' = KindTest1 /\ held' = held \cup {"cert-validation"}
        /\ context' = "cert-validation"
    BY <1>1, <1>2, <2>1, KindCreates
  <2> QED
    BY <2>2 DEF KindPasses, Ready
<1>3. CASE at \in {KindTest1, KindTest2} /\ Ready("cert-validation")
  <2>1. \/ Node(at, OnCluster({}), KindTest2, Error)
        \/ Node(at, OnCluster({}), Nil, Error)
    BY <1>3, ClusterNodes
  <2>2. at' \in {KindTest2, Nil} /\ held' = held /\ context' = context
    BY <1>1, <1>3, <2>1, OnReady
  <2> QED
    BY <1>3, <2>2 DEF KindPasses, Ready
<1> QED
  BY <1>1, <1>2, <1>3 DEF KindPasses

LEMMA PassCilium ==
  ASSUME Answered, CiliumPasses, "datapath" \in held
  PROVE  CiliumPasses'
<1>1. /\ at \notin {Nil, Error} /\ "gke-os-cert-cilium" \in Clusters
      /\ "exec-mount" \notin Clusters /\ "kind-cilium-config.yaml" \notin Clusters
      /\ "cilium-values.yaml" \notin Clusters
  BY CallFrame DEF Calling, Clusters
<1>2. Files = {"kind-cilium-config.yaml", "cilium-values.yaml"}
  BY DEF Files
<1>3. CASE at = CiliumDatapathRun /\ "gke-os-cert-cilium" \notin held
  <2>1. at' = CiliumFile1 /\ held' = held \cup {"exec-mount"}
    BY <1>1, <1>3, CiliumNodes, CreateFile
  <2> QED
    BY <1>3, <2>1 DEF CiliumPasses
<1>4. CASE at = CiliumFile1 /\ "gke-os-cert-cilium" \notin held
  <2>1. at' = CiliumFile2 /\ held' = held \cup {"kind-cilium-config.yaml"}
    BY <1>1, <1>4, CiliumNodes, CreateFile
  <2> QED
    BY <1>4, <2>1 DEF CiliumPasses
<1>5. CASE /\ at = CiliumFile2 /\ "gke-os-cert-cilium" \notin held
           /\ "kind-cilium-config.yaml" \in held
  <2>1. at' = CiliumCreate /\ held' = held \cup {"cilium-values.yaml"}
    BY <1>1, <1>5, CiliumNodes, CreateFile
  <2> QED
    BY <1>2, <1>5, <2>1 DEF CiliumPasses
<1>6. CASE at = CiliumCreate /\ "gke-os-cert-cilium" \notin held /\ Files \subseteq held
  <2>1. Node(at, KindCreate("gke-os-cert-cilium", {"kind-cilium-config.yaml"}), CiliumSetUp, Error)
    BY <1>6, CiliumNodes
  <2>2. {"kind-cilium-config.yaml"} \subseteq held /\ "context" \notin {"kind-cilium-config.yaml"}
    BY <1>2, <1>6
  <2>3. /\ at' = CiliumSetUp /\ held' = held \cup {"gke-os-cert-cilium"}
        /\ context' = "gke-os-cert-cilium"
    BY <1>1, <1>6, <2>1, <2>2, KindCreates
  <2> QED
    BY <1>2, <1>6, <2>3 DEF CiliumPasses, Ready
<1>7. CASE at = CiliumSetUp /\ Ready("gke-os-cert-cilium") /\ Files \subseteq held
  <2>1. Node(at, OnCluster({"cilium-values.yaml"}), CiliumTest1, Error)
    BY <1>7, CiliumNodes
  <2>2. {"cilium-values.yaml"} \subseteq held /\ "context" \notin {"cilium-values.yaml"}
    BY <1>2, <1>7
  <2>3. at' = CiliumTest1 /\ held' = held /\ context' = context
    BY <1>1, <1>7, <2>1, <2>2, OnReady
  <2> QED
    BY <1>7, <2>3 DEF CiliumPasses, Ready
<1>8. CASE at \in {CiliumTest1, CiliumTest2} /\ Ready("gke-os-cert-cilium")
  <2>1. \/ Node(at, OnCluster({"datapath"}), CiliumTest2, Error)
        \/ Node(at, OnCluster({"datapath"}), Nil, Error)
    BY <1>8, CiliumNodes
  <2>2. {"datapath"} \subseteq held /\ "context" \notin {"datapath"}
    OBVIOUS
  <2>3. at' \in {CiliumTest2, Nil} /\ held' = held /\ context' = context
    BY <1>1, <1>8, <2>1, <2>2, OnReady
  <2> QED
    BY <1>8, <2>3 DEF CiliumPasses, Ready
<1> QED
  BY <1>1, <1>3, <1>4, <1>5, <1>6, <1>7, <1>8 DEF CiliumPasses

LEMMA PassDocker ==
  ASSUME Answered, at = DockerRunRun
  PROVE  at' = Nil
<1>1. "hello-world" \notin Clusters
  BY DEF Clusters
<1> QED
  BY <1>1, ClusterNodes, CreateFile

\* A check deserves after a step what it deserved before.
LEMMA DeservesStays ==
  ASSUME TypeInv, [Next]_vars, UNCHANGED <<lastQuiet, executions, before>>, quiet' => quiet,
         NEW c, Deserves(c)'
  PROVE  Deserves(c)
BY CtrStays DEF Deserves

LEMMA PassInvStep ==
  ASSUME TypeInv, LinkInv, RepairInv, PassInv, [Next]_vars
  PROVE  PassInv'
<1>1. CASE StartExecution \/ Killed
  <2>1. phase' = "idle"
    BY <1>1 DEF StartExecution, Killed
  <2> QED
    BY <2>1 DEF PassInv
<1>2. CASE StartCheck
  <2>1. PICK c \in todo : check' = c /\ todo' = todo \ {c} /\ at' = Run(c, "linked" \in held)
    BY <1>2 DEF StartCheck
  <2>2. /\ phase' = "run" /\ failed' = FALSE /\ before' = held /\ held' = held
        /\ UNCHANGED <<quiet, lastQuiet, executions>>
    BY <1>2 DEF StartCheck
  <2>3. c \in registry /\ c \in DestructiveCheck /\ executions \in Nat
    BY RegistriesAssumption, ExecutionsAssumption DEF TypeInv
  <2>4. SUFFICES ASSUME Deserves(c)'
                 PROVE  /\ c = "containerCerts" => CertPasses' /\ "certcheck" \notin held'
                        /\ c = "ciliumDatapath" => CiliumPasses'
                        /\ c = "dockerRun" => at' \in {DockerRunRun, Nil}
                        /\ c = "kindCluster" => KindPasses'
    BY <2>1, <2>2 DEF PassInv
  <2>5. ClusterOf(c) \cap held = {}
    <3>1. quiet /\ lastQuiet /\ executions > 1 /\ executions >= 1
      BY <2>2, <2>3, <2>4 DEF Deserves
    <3> QED
      BY <2>3, <3>1 DEF RepairInv
  <2>6. CASE c = "containerCerts"
    <3> DEFINE l == "linked" \in held
    <3>1. l \in BOOLEAN /\ at' = Run(c, l)
      BY <2>1
    <3> HIDE DEF l
    <3>2. at' = ContainerCertsRun(l)
      BY <2>6, <3>1 DEF Run
    <3>3. "certcheck" \notin held'
      BY <2>2, <2>4, <2>6 DEF Deserves
    <3> QED
      BY <2>6, <3>1, <3>2, <3>3 DEF CertPasses
  <2>7. CASE c = "ciliumDatapath"
    <3>1. at' = CiliumDatapathRun /\ "gke-os-cert-cilium" \in ClusterOf(c)
      BY <2>1, <2>7 DEF Run, ClusterOf, Removed, Clusters
    <3> QED
      BY <2>2, <2>5, <2>7, <3>1 DEF CiliumPasses
  <2>8. CASE c = "dockerRun"
    BY <2>1, <2>8 DEF Run
  <2>9. CASE c = "kindCluster"
    <3>1. at' = KindClusterRun /\ "cert-validation" \in ClusterOf(c)
      BY <2>1, <2>9 DEF Run, ClusterOf, Removed, Clusters
    <3> QED
      BY <2>2, <2>5, <2>9, <3>1 DEF KindPasses
  <2> QED
    BY <2>3, <2>6, <2>7, <2>8, <2>9 DEF DestructiveCheck
<1>3. CASE RunReturns
  <2>1. /\ UNCHANGED <<check, before, held, quiet, lastQuiet, executions>> /\ phase = "run"
        /\ at \in {Nil, Error} /\ failed' = (at = Error) /\ phase' = "cleanup"
    BY <1>3 DEF RunReturns, Returned
  <2>2. check \in DestructiveCheck
    BY <2>1, RegistriesAssumption DEF TypeInv, Busy
  <2>3. SUFFICES ASSUME Deserves(check)
                 PROVE  at = Nil
    BY <2>1, DeservesStays, Leaves DEF PassInv
  <2>4. CASE check = "containerCerts"
    <3>1. CertPasses
      BY <2>1, <2>3, <2>4 DEF PassInv
    <3>2. /\ \A l \in BOOLEAN : at # ContainerCertsRun(l) /\ at # CertMounts(l)
          /\ at # Linked /\ at # Prefixed(TRUE) /\ at # Sudo(Pulls(TRUE))
          /\ \A as \in As : at # Pull(TRUE, as) /\ at # Container(TRUE, as)
      <4>1. "user" \in As /\ TRUE \in BOOLEAN
        BY DEF As
      <4> QED
        BY <2>1, <4>1, CertRunNodes DEF Node
    <3> QED
      BY <3>1, <3>2 DEF CertPasses
  <2>5. CASE check = "ciliumDatapath"
    <3>1. CiliumPasses
      BY <2>1, <2>3, <2>5 DEF PassInv
    <3> QED
      BY <2>1, <3>1, CiliumNodes DEF CiliumPasses, Node
  <2>6. CASE check = "dockerRun"
    BY <2>1, <2>3, <2>6, ClusterNodes DEF PassInv, Node
  <2>7. CASE check = "kindCluster"
    <3>1. KindPasses
      BY <2>1, <2>3, <2>7 DEF PassInv
    <3> QED
      BY <2>1, <3>1, ClusterNodes DEF KindPasses, Node
  <2> QED
    BY <2>2, <2>4, <2>5, <2>6, <2>7 DEF DestructiveCheck
<1>4. CASE CleanupReturns
  <2>1. /\ UNCHANGED <<check, before, held, quiet, lastQuiet, executions, failed>>
        /\ phase = "cleanup" /\ phase' = "checked"
    BY <1>4 DEF CleanupReturns
  <2> QED
    BY <2>1, DeservesStays DEF PassInv
<1>5. CASE Answered \/ CallFails \/ NotConnected
  <2>1. /\ Calling /\ UNCHANGED <<check, phase, failed, lastQuiet, executions, before>>
    BY <1>5, CallFrame
  <2>2. quiet' => Answered /\ quiet
    BY <1>5, QuietCall
  <2>3. SUFFICES ASSUME Deserves(check)'
                 PROVE  /\ phase = "run" =>
                             /\ check = "containerCerts" => CertPasses' /\ "certcheck" \notin held'
                             /\ check = "ciliumDatapath" => CiliumPasses'
                             /\ check = "dockerRun" => at' \in {DockerRunRun, Nil}
                             /\ check = "kindCluster" => KindPasses'
                        /\ phase \in {"cleanup", "checked"} => ~failed
    BY <2>1 DEF PassInv
  <2>4. Deserves(check) /\ Answered
    BY <2>1, <2>2, <2>3, DeservesStays DEF Deserves
  <2>5. CASE phase = "cleanup"
    BY <2>4, <2>5 DEF PassInv
  <2>6. CASE phase = "run" /\ check = "containerCerts"
    BY <2>4, <2>6, PassCert DEF PassInv, Deserves
  <2>7. CASE phase = "run" /\ check = "ciliumDatapath"
    BY <2>4, <2>7, PassCilium DEF PassInv, Deserves
  <2>8. CASE phase = "run" /\ check = "dockerRun"
    <3>1. at = DockerRunRun
      BY <2>1, <2>4, <2>8 DEF PassInv, Calling
    <3> QED
      BY <2>4, <2>8, <3>1, PassDocker
  <2>9. CASE phase = "run" /\ check = "kindCluster"
    BY <2>4, <2>9, PassKind DEF PassInv
  <2>10. check \in DestructiveCheck
    BY <2>1, CallAt
  <2> QED
    BY <2>1, <2>5, <2>6, <2>7, <2>8, <2>9, <2>10 DEF Calling, Busy, DestructiveCheck
<1>6. CASE StrayEnds
  <2>1. UNCHANGED <<check, phase, at, failed, before, lastQuiet, executions>>
    BY <1>6, StrayFrame
  <2>2. CASE quiet' = FALSE
    BY <2>2 DEF PassInv, Deserves
  <2>3. CASE UNCHANGED <<held, context, quiet>>
    BY <2>1, <2>3, DeservesStays DEF PassInv, CertPasses, CiliumPasses, KindPasses, Ready
  <2> QED
    BY <1>6, <2>2, <2>3, StrayFrame
<1>7. CASE UNCHANGED vars
  BY <1>7 DEF vars, PassInv, Deserves, CtrUsable, CertPasses, CiliumPasses, KindPasses, Ready
<1> QED
  BY <1>1, <1>2, <1>3, <1>4, <1>5, <1>6, <1>7 DEF Next

LEMMA PassFollows ==
  ASSUME PassInv
  PROVE  QuietExecutionRepairs
BY DEF PassInv, QuietExecutionRepairs, Checked, Deserves

----------------------------------------------------------------------------
(* The theorems *)

LEMMA InitIInv ==
  ASSUME Init
  PROVE  IInv
<1>1. TypeInv
  BY TypeInvInit
<1>2. LinkInv /\ CleanInv /\ RestInv /\ UsedInv /\ RepairInv /\ PassInv
  BY DEF Init, LinkInv, CleanInv, RestInv, UsedInv, RepairInv, PassInv, Busy
<1> QED
  BY <1>1, <1>2 DEF IInv

\* Every reachable state is one of these: the invariant is inductive.
THEOREM Invariant == Spec => []IInv
<1>1. Init => IInv
  BY InitIInv
<1>2. IInv /\ [Next]_vars => IInv'
  <2>1. SUFFICES ASSUME IInv, [Next]_vars PROVE IInv'
    OBVIOUS
  <2>2. TypeInv' /\ LinkInv'
    BY <2>1, TypeInvStep, LinkInvStep DEF IInv
  <2>3. CleanInv' /\ RestInv'
    BY <2>1, CleanInvStep, RestInvStep DEF IInv
  <2>4. UsedInv'
    BY <2>1, UsedInvStep DEF IInv
  <2>5. RepairInv' /\ PassInv'
    BY <2>1, RepairInvStep, PassInvStep DEF IInv
  <2> QED
    BY <2>2, <2>3, <2>4, <2>5 DEF IInv
<1> QED
  BY <1>1, <1>2, PTL DEF Spec

\* The variables have their types, for every registry and any number of
\* executions: a check is never at anything but its own commands or a verdict,
\* and one command at most goes on by itself.
THEOREM TypeCorrect == Spec => []TypeOK
<1>1. IInv => TypeOK
  BY TypeOKFollows DEF IInv
<1> QED
  BY <1>1, Invariant, PTL

\* What the verdict of a Cleanup is worth: success means that what the check
\* creates is gone, whatever failed before, but for the container certcheck and
\* for CiliumDatapathCheck, and a Cleanup whose own calls are answered succeeds.
THEOREM BelievableCleanup == Spec => []CleanupVerdict
<1>1. IInv => CleanupVerdict
  BY VerdictFollows DEF IInv
<1> QED
  BY <1>1, Invariant, PTL

\* A check during which nothing fails restores the VM but for its own resources
\* and the remount.
THEOREM Restores == Spec => []RestoresAllButItsOwn
<1>1. IInv => RestoresAllButItsOwn
  BY RestFollows DEF IInv
<1> QED
  BY <1>1, Invariant, PTL

\* A check never passes on a cluster it has not made itself.
THEOREM OwnCluster == Spec => []PassesOnOwnCluster
<1>1. IInv => PassesOnOwnCluster
  BY UsedFollows DEF IInv
<1> QED
  BY <1>1, Invariant, PTL

\* After an execution without failures the next one passes every check whose VM
\* deserves it, whatever earlier executions left.
THEOREM Repairs == Spec => []QuietExecutionRepairs
<1>1. IInv => QuietExecutionRepairs
  BY PassFollows DEF IInv
<1> QED
  BY <1>1, Invariant, PTL
=============================================================================

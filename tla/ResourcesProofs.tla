--------------------------- MODULE ResourcesProofs ---------------------------
(***************************************************************************)
(* What the run of MCResources checks for some requests and versions,      *)
(* proved for every request, every server version, and any number of       *)
(* Readers, Runs and bookmarks: the parallel tables of the code agree      *)
(* through every sequence of failed Runs, relists and new Readers.         *)
(***************************************************************************)
EXTENDS Resources, FiniteSetTheorems, SequenceTheorems, TLAPS

-----------------------------------------------------------------------------
(* The inductive invariant.                                                *)

Width(table, k) == Len(table[ListRetrieve[k]])

\* A loop comes to place q before p.
Before(q, p) == q[1] < p[1] \/ (q[1] = p[1] /\ q[2] < p[2])

\* The places of a table that a loop over it has gone through before p.
Passed(table, bits, p) ==
    {q \in (1..9) \X (1..4) :
        /\ ListRetrieve[q[1]] \in Asked(bits)
        /\ q[2] <= Width(table, q[1])
        /\ Before(q, p)}

\* A loop over a table is at a type it was asked for, or at the end.
OnTable(table, bits, p) ==
    /\ p \in Place
    /\ p[1] < 10 => /\ ListRetrieve[p[1]] \in Asked(bits)
                    /\ p[2] <= Width(table, p[1])
    /\ p[1] = 10 => p[2] = 1

\* Run has one watch open for each place it has gone through.
RunSound ==
    /\ reader.pc \in {"none", "new", "closed"} => watchers = {}
    /\ reader.pc \in {"run", "started"} =>
          /\ reader.run # 0
          /\ OnTable(Specs, reader.bits, reader.at)
          /\ {w.spec : w \in watchers} =
                {At(Specs, q) : q \in Passed(Specs, reader.bits, reader.at)}
    /\ reader.pc = "started" => reader.at[1] = 10
    /\ \A v, w \in watchers : v.spec = w.spec => v = w

\* So has a relist that has not failed listed each kind it has gone through.
RoundSound ==
    round.pc # "idle" =>
        /\ reader.pc = "started"
        /\ OnTable(Pagers, reader.bits, round.at)
        /\ round.pc = "list" <=> round.at[1] < 10
        /\ ~round.failed =>
              /\ IsInjective(round.listed)
              /\ ToSet(round.listed) =
                    {At(Pagers, q) :
                        q \in Passed(Pagers, reader.bits, round.at)}

\* A bookmark was stored by the watch that looks for it under its key.
MarkOwn == \A s \in AllSpecs : mark[CmKey(s.gvr)] \in {"none", s.kind}

\* The relist's variable has its type.
Round == [pc : {"idle", "list", "done"}, at : Place,
          listed : Seq(Kinds), failed : BOOLEAN]

\* What the invariant says of the Reader, its watches and the bookmarks.
WatchSound ==
    /\ reader \in Reader /\ (reader.pc # "none" => reader.bits # {})
    /\ watchers \subseteq Watcher
    /\ mark \in [Keys -> Kinds \cup {"none"}]
    /\ RunSound
    /\ MarkOwn
    /\ ResumesOwn
    /\ BookmarksWhenSupported

\* What it says of the relist.
RelistSound == round \in Round /\ RoundSound

\* What it says of the entry.
SlotSound ==
    /\ slot \subseteq Entry /\ Cardinality(slot) <= 1
    /\ Decodable
    /\ Redacted

ResourcesInv == WatchSound /\ RelistSound /\ SlotSound

-----------------------------------------------------------------------------
(* The tables.                                                             *)

\* A number for each kind: four times its type, and its place there.
Code == [Node |-> 5, Pod |-> 9, Namespace |-> 13, PersistentVolume |-> 17,
         Role |-> 21, RoleBinding |-> 22, ClusterRole |-> 23,
         ClusterRoleBinding |-> 24, Service |-> 25, Deployment |-> 29,
         Ingress |-> 33, Endpoints |-> 37]

\* The kind each resource has objects of.
KindOf == [nodes |-> "Node", pods |-> "Pod", namespaces |-> "Namespace",
           persistentvolumes |-> "PersistentVolume", roles |-> "Role",
           rolebindings |-> "RoleBinding", clusterroles |-> "ClusterRole",
           clusterrolebindings |-> "ClusterRoleBinding",
           services |-> "Service", deployments |-> "Deployment",
           ingresses |-> "Ingress", endpoints |-> "Endpoints"]

\* ListRetrieve yields each type.
LEMMA Types ==
    /\ \A k \in 1..9 : ListRetrieve[k] \in DOMAIN Bit
    /\ \A rt \in DOMAIN Bit : \E k \in 1..9 : ListRetrieve[k] = rt
<1>1. \A k \in 1..9 : ListRetrieve[k] \in DOMAIN Bit
  BY DEF ListRetrieve, Bit
<1>2. \A rt \in DOMAIN Bit : \E k \in 1..9 : ListRetrieve[k] = rt
  <2> SUFFICES ASSUME NEW rt \in DOMAIN Bit
               PROVE  \E k \in 1..9 : ListRetrieve[k] = rt
    OBVIOUS
  <2>1. /\ ListRetrieve[1] = "Node" /\ ListRetrieve[2] = "Pod"
        /\ ListRetrieve[3] = "Namespace"
        /\ ListRetrieve[4] = "PersistentVolume"
        /\ ListRetrieve[5] = "RBAC" /\ ListRetrieve[6] = "Service"
        /\ ListRetrieve[7] = "Deployment"
        /\ ListRetrieve[8] = "IngressController"
        /\ ListRetrieve[9] = "Endpoint"
    BY DEF ListRetrieve
  <2>2. rt \in {"Node", "Pod", "Namespace", "PersistentVolume", "RBAC",
                "Service", "Deployment", "IngressController", "Endpoint"}
    BY DEF Bit
  <2> QED
    BY <2>1, <2>2
<1> QED
  BY <1>1, <1>2

\* Both tables have between one and four entries for each type, the same
\* kinds in the same places, and no kind twice.
Row(k) ==
    /\ Width(Specs, k) \in 1..4
    /\ Width(Pagers, k) = Width(Specs, k)
    /\ DOMAIN Specs[ListRetrieve[k]] = 1..Width(Specs, k)
    /\ DOMAIN Pagers[ListRetrieve[k]] = 1..Width(Specs, k)
    /\ \A j \in 1..4 : j <= Width(Specs, k) =>
          /\ At(Pagers, <<k, j>>) = At(Specs, <<k, j>>).kind
          /\ At(Pagers, <<k, j>>) \in DOMAIN Code
          /\ Code[At(Pagers, <<k, j>>)] = 4 * k + j
          /\ KindOf[At(Specs, <<k, j>>).gvr[2]] = At(Pagers, <<k, j>>)

\* The kind and the resource of a watch.
LEMMA Spec1Fields ==
    \A g, res, kind : /\ Spec1(g, res, kind).kind = kind
                      /\ Spec1(g, res, kind).gvr[2] = res
BY DEF Spec1

\* It is so for a type with one watch.
LEMMA SingleRow ==
    ASSUME NEW k \in 1..9, NEW sp, NEW kind, NEW res, KindOf[res] = kind,
           sp.gvr[2] = res,
           Specs[ListRetrieve[k]] = <<sp>>, Pagers[ListRetrieve[k]] = <<kind>>,
           sp.kind = kind, kind \in DOMAIN Code, Code[kind] = 4 * k + 1
    PROVE  Row(k)
BY DEF Row, Width, At

\* It is so for every type.
LEMMA Tables == \A k \in 1..9 : Row(k)
<1>1. Row(1)
  <2>1. /\ ListRetrieve[1] = "Node"
        /\ Pagers["Node"] = <<"Node">>
        /\ Code["Node"] = 4 * 1 + 1
        /\ "Node" \in DOMAIN Code
    BY DEF ListRetrieve, Pagers, PagersRight, Code
  <2>2. \E g : Specs["Node"] = <<Spec1(g, "nodes", "Node")>>
    <3>1. Specs["Node"] = <<Spec1("", "nodes", "Node")>>
      BY DEF Specs
    <3> QED
      BY <3>1, Zenon
  <2>3. KindOf["nodes"] = "Node"
    BY DEF KindOf
  <2> QED
    BY <2>1, <2>2, <2>3, Spec1Fields, SingleRow
<1>2. Row(2)
  <2>1. /\ ListRetrieve[2] = "Pod"
        /\ Pagers["Pod"] = <<"Pod">>
        /\ Code["Pod"] = 4 * 2 + 1
        /\ "Pod" \in DOMAIN Code
    BY DEF ListRetrieve, Pagers, PagersRight, Code
  <2>2. \E g : Specs["Pod"] = <<Spec1(g, "pods", "Pod")>>
    <3>1. Specs["Pod"] = <<Spec1("", "pods", "Pod")>>
      BY DEF Specs
    <3> QED
      BY <3>1, Zenon
  <2>3. KindOf["pods"] = "Pod"
    BY DEF KindOf
  <2> QED
    BY <2>1, <2>2, <2>3, Spec1Fields, SingleRow
<1>3. Row(3)
  <2>1. /\ ListRetrieve[3] = "Namespace"
        /\ Pagers["Namespace"] = <<"Namespace">>
        /\ Code["Namespace"] = 4 * 3 + 1
        /\ "Namespace" \in DOMAIN Code
    BY DEF ListRetrieve, Pagers, PagersRight, Code
  <2>2. \E g : Specs["Namespace"] = <<Spec1(g, "namespaces", "Namespace")>>
    <3>1. Specs["Namespace"] = <<Spec1("", "namespaces", "Namespace")>>
      BY DEF Specs
    <3> QED
      BY <3>1, Zenon
  <2>3. KindOf["namespaces"] = "Namespace"
    BY DEF KindOf
  <2> QED
    BY <2>1, <2>2, <2>3, Spec1Fields, SingleRow
<1>4. Row(4)
  <2>1. /\ ListRetrieve[4] = "PersistentVolume"
        /\ Pagers["PersistentVolume"] = <<"PersistentVolume">>
        /\ Code["PersistentVolume"] = 4 * 4 + 1
        /\ "PersistentVolume" \in DOMAIN Code
    BY DEF ListRetrieve, Pagers, PagersRight, Code
  <2>2. \E g : Specs["PersistentVolume"] =
                <<Spec1(g, "persistentvolumes", "PersistentVolume")>>
    <3>1. Specs["PersistentVolume"] =
             <<Spec1("", "persistentvolumes", "PersistentVolume")>>
      BY DEF Specs
    <3> QED
      BY <3>1, Zenon
  <2>3. KindOf["persistentvolumes"] = "PersistentVolume"
    BY DEF KindOf
  <2> QED
    BY <2>1, <2>2, <2>3, Spec1Fields, SingleRow
<1>5. Row(5)
  <2>1. /\ ListRetrieve[5] = "RBAC"
        /\ Pagers["RBAC"] = <<"Role", "RoleBinding", "ClusterRole",
                              "ClusterRoleBinding">>
    BY DEF ListRetrieve, Pagers, PagersRight
  <2>2. \E s1, s2, s3, s4 :
          /\ Specs["RBAC"] = <<s1, s2, s3, s4>>
          /\ s1.kind = "Role" /\ s2.kind = "RoleBinding"
          /\ s3.kind = "ClusterRole" /\ s4.kind = "ClusterRoleBinding"
          /\ s1.gvr[2] = "roles" /\ s2.gvr[2] = "rolebindings"
          /\ s3.gvr[2] = "clusterroles"
          /\ s4.gvr[2] = "clusterrolebindings"
    BY DEF Specs, Spec1
  <2>3. /\ Code["Role"] = 21 /\ Code["RoleBinding"] = 22
        /\ Code["ClusterRole"] = 23 /\ Code["ClusterRoleBinding"] = 24
        /\ {"Role", "RoleBinding", "ClusterRole", "ClusterRoleBinding"}
              \subseteq DOMAIN Code
    BY DEF Code
  <2>5. /\ KindOf["roles"] = "Role" /\ KindOf["rolebindings"] = "RoleBinding"
        /\ KindOf["clusterroles"] = "ClusterRole"
        /\ KindOf["clusterrolebindings"] = "ClusterRoleBinding"
    BY DEF KindOf
  <2>4. \A j \in 1..4 : j = 1 \/ j = 2 \/ j = 3 \/ j = 4
    OBVIOUS
  <2> QED
    BY <2>1, <2>2, <2>3, <2>4, <2>5 DEF Row, Width, At
<1>6. Row(6)
  <2>1. /\ ListRetrieve[6] = "Service"
        /\ Pagers["Service"] = <<"Service">>
        /\ Code["Service"] = 4 * 6 + 1
        /\ "Service" \in DOMAIN Code
    BY DEF ListRetrieve, Pagers, PagersRight, Code
  <2>2. \E g : Specs["Service"] = <<Spec1(g, "services", "Service")>>
    <3>1. Specs["Service"] = <<Spec1("", "services", "Service")>>
      BY DEF Specs
    <3> QED
      BY <3>1, Zenon
  <2>3. KindOf["services"] = "Service"
    BY DEF KindOf
  <2> QED
    BY <2>1, <2>2, <2>3, Spec1Fields, SingleRow
<1>7. Row(7)
  <2>1. /\ ListRetrieve[7] = "Deployment"
        /\ Pagers["Deployment"] = <<"Deployment">>
        /\ Code["Deployment"] = 4 * 7 + 1
        /\ "Deployment" \in DOMAIN Code
    BY DEF ListRetrieve, Pagers, PagersRight, Code
  <2>2. \E g : Specs["Deployment"] = <<Spec1(g, "deployments", "Deployment")>>
    <3>1. Specs["Deployment"] = <<Spec1("apps", "deployments", "Deployment")>>
      BY DEF Specs
    <3> QED
      BY <3>1, Zenon
  <2>3. KindOf["deployments"] = "Deployment"
    BY DEF KindOf
  <2> QED
    BY <2>1, <2>2, <2>3, Spec1Fields, SingleRow
<1>8. Row(8)
  <2>1. /\ ListRetrieve[8] = "IngressController"
        /\ Pagers["IngressController"] = <<"Ingress">>
        /\ Code["Ingress"] = 4 * 8 + 1
        /\ "Ingress" \in DOMAIN Code
    BY DEF ListRetrieve, Pagers, PagersRight, Code
  <2>2. \E g : Specs["IngressController"] = <<Spec1(g, "ingresses", "Ingress")>>
    <3>1. Specs["IngressController"] =
             <<Spec1("networking", "ingresses", "Ingress")>>
      BY DEF Specs
    <3> QED
      BY <3>1, Zenon
  <2>3. KindOf["ingresses"] = "Ingress"
    BY DEF KindOf
  <2> QED
    BY <2>1, <2>2, <2>3, Spec1Fields, SingleRow
<1>9. Row(9)
  <2>1. /\ ListRetrieve[9] = "Endpoint"
        /\ Pagers["Endpoint"] = <<"Endpoints">>
        /\ Code["Endpoints"] = 4 * 9 + 1
        /\ "Endpoints" \in DOMAIN Code
    BY DEF ListRetrieve, Pagers, PagersRight, Code
  <2>2. \E g : Specs["Endpoint"] = <<Spec1(g, "endpoints", "Endpoints")>>
    <3>1. Specs["Endpoint"] = <<Spec1("", "endpoints", "Endpoints")>>
      BY DEF Specs
    <3> QED
      BY <3>1, Zenon
  <2>3. KindOf["endpoints"] = "Endpoints"
    BY DEF KindOf
  <2> QED
    BY <2>1, <2>2, <2>3, Spec1Fields, SingleRow
<1> QED
  BY <1>1, <1>2, <1>3, <1>4, <1>5, <1>6, <1>7, <1>8, <1>9

\* A watch is at one of the places of the table.
LEMMA SpecPlace ==
    ASSUME NEW sp
    PROVE  sp \in AllSpecs <=>
             \E k \in 1..9, j \in 1..4 : /\ j <= Width(Specs, k)
                                         /\ sp = At(Specs, <<k, j>>)
<1>1. ASSUME sp \in AllSpecs
      PROVE  \E k \in 1..9, j \in 1..4 : /\ j <= Width(Specs, k)
                                          /\ sp = At(Specs, <<k, j>>)
  <2>1. PICK rt \in DOMAIN Bit : sp \in ToSet(Specs[rt])
    BY <1>1 DEF AllSpecs, SpecsOf
  <2>2. PICK k \in 1..9 : ListRetrieve[k] = rt
    BY Types
  <2>3. PICK j \in DOMAIN Specs[rt] : sp = Specs[rt][j]
    BY <2>1 DEF ToSet
  <2>4. j \in 1..4 /\ j <= Width(Specs, k)
    <3>1. Row(k)
      BY Tables
    <3> QED
      BY <2>2, <2>3, <3>1 DEF Row
  <2> QED
    BY <2>2, <2>3, <2>4 DEF At
<1>2. ASSUME NEW k \in 1..9, NEW j \in 1..4, j <= Width(Specs, k),
             sp = At(Specs, <<k, j>>)
      PROVE  sp \in AllSpecs
  <2>1. j \in DOMAIN Specs[ListRetrieve[k]]
    <3>1. Row(k)
      BY Tables
    <3> QED
      BY <1>2, <3>1 DEF Row
  <2>2. sp \in ToSet(Specs[ListRetrieve[k]])
    BY <1>2, <2>1 DEF ToSet, At
  <2> QED
    BY <2>2, Types DEF AllSpecs, SpecsOf
<1> QED
  BY <1>1, <1>2

\* Two watches with one key, or of one kind, are the same.
LEMMA SpecKeys ==
    ASSUME NEW s \in AllSpecs, NEW t \in AllSpecs
    PROVE  /\ CmKey(s.gvr) = CmKey(t.gvr) => s.kind = t.kind
           /\ s.kind = t.kind => s = t
           /\ s.kind \in DOMAIN Code
<1>1. PICK k \in 1..9, j \in 1..4 : j <= Width(Specs, k)
                                    /\ s = At(Specs, <<k, j>>)
  BY SpecPlace
<1>2. PICK l \in 1..9, m \in 1..4 : m <= Width(Specs, l)
                                    /\ t = At(Specs, <<l, m>>)
  BY SpecPlace
<1>3. /\ s.kind \in DOMAIN Code
      /\ Code[s.kind] = 4 * k + j
      /\ KindOf[s.gvr[2]] = s.kind
  BY <1>1, Tables DEF Row
<1>4. /\ Code[t.kind] = 4 * l + m
      /\ KindOf[t.gvr[2]] = t.kind
  BY <1>2, Tables DEF Row
<1>5. CmKey(s.gvr)[3] = s.gvr[2] /\ CmKey(t.gvr)[3] = t.gvr[2]
  BY DEF CmKey
<1>6. s.kind = t.kind => k = l /\ j = m
  BY <1>3, <1>4
<1> QED
  BY <1>1, <1>2, <1>3, <1>4, <1>5, <1>6

\* The first type asked for.
LEMMA FirstIs ==
    ASSUME NEW bits, NEW i \in 1..10
    PROVE  LET f == FirstAsked(bits, i) IN
           /\ f \in i..10
           /\ f < 10 => ListRetrieve[f] \in Asked(bits)
           /\ \A k \in i..9 : k < f => ListRetrieve[k] \notin Asked(bits)
<1> DEFINE S == {k \in i..9 : ListRetrieve[k] \in Asked(bits)} \cup {10}
<1>1. S \subseteq 1..10 /\ 10 \in S
  OBVIOUS
<1>2. \E x \in S : \A y \in S : x <= y
  <2> HIDE DEF S
  <2> QED
    BY <1>1
<1>3. Min(S) \in S /\ \A y \in S : Min(S) <= y
  BY <1>2 DEF Min
<1>4. FirstAsked(bits, i) = Min(S)
  BY DEF FirstAsked
<1> QED
  BY <1>3, <1>4

-----------------------------------------------------------------------------
(* The loops over the tables.                                              *)

\* A table with between one and four entries for each type.
Regular(table) == \A k \in 1..9 : Width(table, k) \in 1..4

\* Both tables are.
LEMMA BothRegular == Regular(Specs) /\ Regular(Pagers)
BY Tables DEF Row, Regular

\* The first place behind the i-th type.
LEMMA FirstOnTable ==
    ASSUME NEW bits, NEW table, Regular(table), NEW i \in 1..10
    PROVE  LET p == FirstPlace(bits, i) IN
           /\ OnTable(table, bits, p)
           /\ i <= p[1]
           /\ \A k \in i..9 : k < p[1] => ListRetrieve[k] \notin Asked(bits)
<1> DEFINE f == FirstAsked(bits, i)
<1>1. /\ f \in i..10
      /\ f < 10 => ListRetrieve[f] \in Asked(bits)
      /\ \A k \in i..9 : k < f => ListRetrieve[k] \notin Asked(bits)
  BY FirstIs
<1>2. FirstPlace(bits, i) = <<f, 1>>
  BY DEF FirstPlace
<1> HIDE DEF f
<1>3. f < 10 => 1 <= Width(table, f)
  BY <1>1 DEF Regular
<1> QED
  BY <1>1, <1>2, <1>3 DEF OnTable, Place

\* At its first place a loop has gone through nothing.
LEMMA NothingPassed ==
    ASSUME NEW bits, NEW table, Regular(table)
    PROVE  Passed(table, bits, FirstPlace(bits, 1)) = {}
<1> DEFINE p == FirstPlace(bits, 1)
<1>1. \A k \in 1..9 : k < p[1] => ListRetrieve[k] \notin Asked(bits)
  BY FirstOnTable
<1>2. p[2] = 1
  BY DEF FirstPlace
<1> HIDE DEF p
<1>3. Passed(table, bits, p) = {}
  BY <1>1, <1>2 DEF Passed, Before
<1> QED
  BY <1>3 DEF p

\* A step of a loop goes through the place it was at.
LEMMA OnePassed ==
    ASSUME NEW bits, NEW table, Regular(table), NEW p,
           OnTable(table, bits, p), p[1] < 10
    PROVE  LET n == NextPlace(bits, table, p) IN
           /\ OnTable(table, bits, n)
           /\ Passed(table, bits, n) = Passed(table, bits, p) \cup {p}
           /\ p \notin Passed(table, bits, p)
<1> DEFINE n == NextPlace(bits, table, p)
<1>1. /\ p[1] \in 1..9 /\ p[2] \in 1..4 /\ p = <<p[1], p[2]>>
      /\ ListRetrieve[p[1]] \in Asked(bits)
      /\ p[2] <= Width(table, p[1]) /\ Width(table, p[1]) \in 1..4
  BY DEF OnTable, Place, Regular
<1>2. p \in (1..9) \X (1..4)
  BY <1>1
<1>3. p \notin Passed(table, bits, p)
  BY <1>1 DEF Passed, Before
<1>4. CASE p[2] < Width(table, p[1])
  <2>1. n = <<p[1], p[2] + 1>>
    BY <1>4 DEF NextPlace, Width
  <2> HIDE DEF n
  <2>2. n[1] = p[1] /\ n[2] = p[2] + 1
    BY <2>1
  <2>3. OnTable(table, bits, n)
    BY <1>1, <1>4, <2>1, <2>2 DEF OnTable, Place
  <2>4. ASSUME NEW q \in (1..9) \X (1..4)
        PROVE  Before(q, n) <=> Before(q, p) \/ q = p
    <3>1. q[1] \in 1..9 /\ q[2] \in 1..4 /\ q = <<q[1], q[2]>>
      OBVIOUS
    <3>2. q = p <=> q[1] = p[1] /\ q[2] = p[2]
      BY <1>1, <3>1
    <3> QED
      BY <1>1, <2>2, <3>1, <3>2 DEF Before
  <2>5. Passed(table, bits, n) = Passed(table, bits, p) \cup {p}
    BY <1>1, <1>2, <2>4 DEF Passed
  <2> QED
    BY <1>3, <2>3, <2>5 DEF n
<1>5. CASE ~(p[2] < Width(table, p[1]))
  <2>1. n = FirstPlace(bits, p[1] + 1)
    BY <1>5 DEF NextPlace, Width
  <2>2. /\ OnTable(table, bits, n)
        /\ p[1] + 1 <= n[1]
        /\ \A k \in p[1] + 1..9 : k < n[1] => ListRetrieve[k] \notin Asked(bits)
    <3>1. p[1] + 1 \in 1..10
      BY <1>1
    <3> QED
      BY <2>1, <3>1, FirstOnTable
  <2>3. n[2] = 1 /\ n[1] \in 1..10
    BY <2>1, <2>2 DEF FirstPlace, OnTable, Place
  <2> HIDE DEF n
  <2>4. p[2] = Width(table, p[1])
    BY <1>1, <1>5
  <2>5. ASSUME NEW q \in (1..9) \X (1..4), ListRetrieve[q[1]] \in Asked(bits),
               q[2] <= Width(table, q[1])
        PROVE  Before(q, n) <=> Before(q, p) \/ q = p
    <3>1. q[1] \in 1..9 /\ q[2] \in 1..4 /\ q = <<q[1], q[2]>>
      OBVIOUS
    <3>2. q = p <=> q[1] = p[1] /\ q[2] = p[2]
      BY <1>1, <3>1
    <3>3. ~(p[1] < q[1] /\ q[1] < n[1])
      <4>1. SUFFICES ASSUME p[1] < q[1], q[1] < n[1] PROVE FALSE
        OBVIOUS
      <4>2. q[1] \in p[1] + 1..9
        BY <1>1, <3>1, <4>1
      <4> QED
        BY <2>2, <2>5, <4>1, <4>2
    <3>4. Before(q, n) <=> q[1] <= p[1]
      BY <1>1, <2>2, <2>3, <3>1, <3>3 DEF Before
    <3>5. q[1] = p[1] => q[2] < p[2] \/ q[2] = p[2]
      BY <1>1, <2>4, <2>5, <3>1
    <3> QED
      BY <1>1, <3>1, <3>2, <3>4, <3>5 DEF Before
  <2>6. Passed(table, bits, n) = Passed(table, bits, p) \cup {p}
    BY <1>1, <1>2, <2>5 DEF Passed
  <2> QED
    BY <1>3, <2>2, <2>6 DEF n
<1> QED
  BY <1>4, <1>5

\* When Run is through it has come by each watch of each type asked for.
LEMMA AllPassed ==
    ASSUME NEW bits, NEW p, p[1] = 10
    PROVE  {At(Specs, q) : q \in Passed(Specs, bits, p)} = SpecsOf(Asked(bits))
<1> DEFINE P == {At(Specs, q) : q \in Passed(Specs, bits, p)}
<1>1. ASSUME NEW q \in Passed(Specs, bits, p)
      PROVE  At(Specs, q) \in SpecsOf(Asked(bits))
  <2>1. q[1] \in 1..9 /\ q[2] \in 1..4 /\ q[2] <= Width(Specs, q[1])
        /\ ListRetrieve[q[1]] \in Asked(bits)
    BY DEF Passed
  <2>2. Row(q[1])
    BY <2>1, Tables
  <2>3. q[2] \in DOMAIN Specs[ListRetrieve[q[1]]]
    BY <2>1, <2>2 DEF Row
  <2> QED
    BY <2>1, <2>3 DEF At, SpecsOf, ToSet
<1>2. ASSUME NEW sp \in SpecsOf(Asked(bits))
      PROVE  \E q \in Passed(Specs, bits, p) : sp = At(Specs, q)
  <2>1. PICK rt \in Asked(bits) : sp \in ToSet(Specs[rt])
    BY DEF SpecsOf
  <2>2. PICK k \in 1..9 : ListRetrieve[k] = rt
    BY Types DEF Asked
  <2>3. PICK j \in DOMAIN Specs[rt] : sp = Specs[rt][j]
    BY <2>1 DEF ToSet
  <2>4. Row(k)
    BY Tables
  <2>5. j \in 1..4 /\ j <= Width(Specs, k)
    BY <2>2, <2>3, <2>4 DEF Row
  <2>6. <<k, j>> \in Passed(Specs, bits, p)
    <3>1. <<k, j>> \in (1..9) \X (1..4) /\ <<k, j>>[1] = k /\ <<k, j>>[2] = j
      BY <2>5
    <3>2. Before(<<k, j>>, p)
      BY <3>1 DEF Before
    <3> QED
      BY <2>2, <2>5, <3>1, <3>2 DEF Passed
  <2> QED
    BY <2>2, <2>3, <2>6 DEF At
<1> QED
  BY <1>1, <1>2

-----------------------------------------------------------------------------
(* Kinds, entries and the scrubber.                                        *)

\* The kinds are those of the tables; each watch is for one of them.
LEMMA KindsAre ==
    Kinds \subseteq DOMAIN Code /\ \A s \in AllSpecs : s.kind \in Kinds
<1>1. ASSUME NEW k \in 1..9, NEW j \in 1..4, j <= Width(Specs, k)
      PROVE  At(Pagers, <<k, j>>) \in Kinds
  <2>1. Row(k)
    BY Tables
  <2>2. j \in DOMAIN Pagers[ListRetrieve[k]]
    BY <1>1, <2>1 DEF Row
  <2> QED
    BY <2>2, Types DEF At, Kinds, Pagers, ToSet
<1>2. ASSUME NEW s \in AllSpecs PROVE s.kind \in Kinds
  <2>1. PICK k \in 1..9, j \in 1..4 : j <= Width(Specs, k)
                                      /\ s = At(Specs, <<k, j>>)
    BY SpecPlace
  <2> QED
    BY <1>1, <2>1, Tables DEF Row
<1>3. ASSUME NEW kind \in Kinds PROVE kind \in DOMAIN Code
  <2>1. PICK rt \in DOMAIN Bit : kind \in ToSet(Pagers[rt])
    BY DEF Kinds, Pagers
  <2>2. PICK k \in 1..9 : ListRetrieve[k] = rt
    BY Types
  <2>3. PICK j \in DOMAIN Pagers[rt] : kind = Pagers[rt][j]
    BY <2>1 DEF ToSet
  <2>4. Row(k)
    BY Tables
  <2>5. j \in 1..4 /\ j <= Width(Specs, k)
    BY <2>2, <2>3, <2>4 DEF Row
  <2>6. kind = At(Pagers, <<k, j>>)
    BY <2>2, <2>3 DEF At
  <2> QED
    BY <2>4, <2>5, <2>6 DEF Row
<1> QED
  BY <1>2, <1>3

\* The accessor for the ObjectType of a kind returns objects of this kind.
LEMMA Decodes ==
    \A kind \in DOMAIN Code : /\ ObjectTypeOf[kind] \in DOMAIN Accessor
                              /\ Accessor[ObjectTypeOf[kind]] = kind
<1> SUFFICES ASSUME NEW kind \in DOMAIN Code
             PROVE  /\ ObjectTypeOf[kind] \in DOMAIN Accessor
                    /\ Accessor[ObjectTypeOf[kind]] = kind
  OBVIOUS
<1>1. kind \in {"Node", "Pod", "Namespace", "PersistentVolume", "Role",
               "RoleBinding", "ClusterRole", "ClusterRoleBinding", "Service",
               "Deployment", "Ingress", "Endpoints"}
  BY DEF Code
<1> QED
  BY <1>1 DEF ObjectTypeOf, ObjectTypeRight, Accessor

\* Only two ObjectTypes are of objects that have a pod spec.
LEMMA PodSpecTypes ==
    ASSUME NEW t \in DOMAIN Accessor, Accessor[t] \in {"Pod", "Deployment"}
    PROVE  t \in {"OTPod", "OTDeployment"}
<1>1. t \in {"OTNode", "OTPod", "OTNamespace", "OTPersistentVolume",
            "OTClusterRole", "OTClusterRoleBinding", "OTRole",
            "OTRoleBinding", "OTService", "OTDeployment",
            "OTIngressController", "OTEndpoint"}
  BY DEF Accessor
<1> QED
  BY <1>1 DEF Accessor

\* An entry made of an object is one of its ObjectType.
LEMMA NewEntryType ==
    ASSUME NEW o \in Objects,
           NEW ct \in {"CTAdd", "CTUpdate", "CTDelete", "CTSnapshot"}
    PROVE  /\ NewEntry(o, ct) \in Entry
           /\ Accessor[NewEntry(o, ct).type] = o.kind
           /\ NewEntry(o, ct).obj = o
           /\ NewEntry(o, ct).at = "in"
<1>1. o.kind \in DOMAIN Code
  BY KindsAre DEF Objects
<1>2. /\ ObjectTypeOf[o.kind] \in DOMAIN Accessor
      /\ Accessor[ObjectTypeOf[o.kind]] = o.kind
  BY <1>1, Decodes
<1> QED
  BY <1>2 DEF NewEntry, Entry

-----------------------------------------------------------------------------
(* The server's version.                                                   *)

\* Number unfolds to the function it is defined by.
LEMMA NumberIs ==
    ASSUME NEW s, NEW k
    PROVE  Number(s, k) =
             (CHOOSE n : n = [i \in 0..k |-> IF i = 0 THEN 0
                                             ELSE n[i - 1] * 10 + s[i]])[k]
BY DEF Number

\* The number that one digit makes, and two.
LEMMA ShortNumbers ==
    ASSUME NEW s, s[1] \in Nat
    PROVE  /\ Number(s, 1) = s[1]
           /\ s[2] \in Nat => Number(s, 2) = s[1] * 10 + s[2]
<1> DEFINE IsNumber(f, k) ==
        f = [i \in 0..k |-> IF i = 0 THEN 0 ELSE f[i - 1] * 10 + s[i]]
<1>1. Number(s, 1) = s[1]
  <2> DEFINE f == [i \in 0..1 |-> IF i = 0 THEN 0 ELSE s[1]]
  <2>1. IsNumber(f, 1)
    OBVIOUS
  <2> HIDE DEF f
  <2>2. PICK n : /\ IsNumber(n, 1)
                 /\ n = CHOOSE g : IsNumber(g, 1)
    BY <2>1
  <2>3. n[0] = 0 /\ n[1] = n[0] * 10 + s[1]
    BY <2>2
  <2>4. Number(s, 1) = n[1]
    BY <2>2, NumberIs
  <2> QED
    BY <2>3, <2>4
<1>2. ASSUME s[2] \in Nat PROVE Number(s, 2) = s[1] * 10 + s[2]
  <2> DEFINE f == [i \in 0..2 |-> IF i = 0 THEN 0 ELSE
                                  IF i = 1 THEN s[1] ELSE s[1] * 10 + s[2]]
  <2>1. IsNumber(f, 2)
    BY <1>2
  <2> HIDE DEF f
  <2>2. PICK n : /\ IsNumber(n, 2)
                 /\ n = CHOOSE g : IsNumber(g, 2)
    BY <2>1
  <2>3. n[0] = 0 /\ n[1] = n[0] * 10 + s[1] /\ n[2] = n[1] * 10 + s[2]
    BY <2>2
  <2>4. Number(s, 2) = n[2]
    BY <2>2, NumberIs
  <2> QED
    BY <2>3, <2>4
<1> QED
  BY <1>1, <1>2

\* The number behind which s has no more digits.
LEMMA DigitsEnd ==
    ASSUME NEW s \in Seq(0..Other), NEW d \in Nat, d <= Len(s),
           \A i \in 1..d : s[i] # Other,
           d < Len(s) => s[d + 1] = Other
    PROVE  ConvertToDecimal(s) = Number(s, d)
<1> DEFINE S == {i \in 1..Len(s) : s[i] = Other} \cup {Len(s) + 1}
<1>1. d + 1 \in S /\ \A x \in S : x \in Nat /\ d + 1 <= x
  OBVIOUS
<1>2. ConvertToDecimal(s) = Number(s, Min(S) - 1)
  BY DEF ConvertToDecimal
<1> HIDE DEF S
<1>3. Min(S) = d + 1
  <2>1. Min(S) \in S /\ \A y \in S : Min(S) <= y
    BY <1>1 DEF Min
  <2> QED
    BY <1>1, <2>1
<1> QED
  BY <1>2, <1>3

\* A reported number is read as it was meant, whatever stands behind it.
LEMMA Decimal ==
    ASSUME NEW n \in 0..99, NEW suffix \in Seq(0..Other),
           suffix # <<>> => suffix[1] = Other
    PROVE  ConvertToDecimal(Reported(n, suffix)) = n
<1> DEFINE s == Reported(n, suffix)
<1>1. CASE n < 10
  <2>1. s = <<n>> \o suffix
    BY <1>1 DEF Reported
  <2>2. <<n>> \in Seq(0..Other) /\ Len(<<n>>) = 1 /\ <<n>>[1] = n
    BY <1>1 DEF Other
  <2> HIDE DEF s
  <2>3. /\ s \in Seq(0..Other) /\ Len(s) = 1 + Len(suffix)
        /\ s[1] = n
        /\ 1 < Len(s) => s[2] = Other
    BY <2>1, <2>2, ConcatProperties
  <2>4. ConvertToDecimal(s) = Number(s, 1)
    BY <1>1, <2>3, DigitsEnd DEF Other
  <2> QED
    BY <2>3, <2>4, ShortNumbers DEF s
<1>2. CASE ~(n < 10)
  <2>1. s = <<n \div 10, n % 10>> \o suffix
    BY <1>2 DEF Reported
  <2>2. /\ n \div 10 \in 0..9 /\ n % 10 \in 0..9
        /\ (n \div 10) * 10 + (n % 10) = n
    <3>1. n % 10 \in 0..9
      OBVIOUS
    <3>2. (n \div 10) * 10 + (n % 10) = n
      OBVIOUS
    <3>3. n \div 10 \in Int
      OBVIOUS
    <3> QED
      BY <3>1, <3>2, <3>3
  <2> DEFINE t == <<n \div 10, n % 10>>
  <2>3. /\ t \in Seq(0..Other) /\ Len(t) = 2
        /\ t[1] = n \div 10 /\ t[2] = n % 10
    BY <2>2 DEF Other
  <2> HIDE DEF s, t
  <2>4. /\ s \in Seq(0..Other) /\ Len(s) = 2 + Len(suffix)
        /\ s[1] = n \div 10 /\ s[2] = n % 10
        /\ 2 < Len(s) => s[3] = Other
    <3>1. s = t \o suffix
      BY <2>1 DEF t
    <3>2. /\ s \in Seq(0..Other) /\ Len(s) = Len(t) + Len(suffix)
          /\ \A i \in 1..Len(s) : s[i] = IF i <= Len(t) THEN t[i]
                                      ELSE suffix[i - Len(t)]
      <4>1. /\ t \o suffix \in Seq(0..Other)
            /\ Len(t \o suffix) = Len(t) + Len(suffix)
            /\ \A i \in 1..Len(t) + Len(suffix) :
                  (t \o suffix)[i] = IF i <= Len(t) THEN t[i]
                                     ELSE suffix[i - Len(t)]
        BY <2>3, ConcatProperties
      <4> QED
        BY <3>1, <4>1
    <3>3. 2 < Len(s) => suffix # <<>> /\ s[3] = suffix[1]
      BY <2>3, <3>2
    <3> QED
      BY <2>3, <3>2, <3>3
  <2>5. ConvertToDecimal(s) = Number(s, 2)
    <3>1. \A i \in 1..2 : s[i] # Other
      BY <2>2, <2>4 DEF Other
    <3> QED
      BY <2>4, <3>1, DigitsEnd
  <2> QED
    BY <2>2, <2>4, <2>5, ShortNumbers DEF s
<1> QED
  BY <1>1, <1>2

\* New uses bookmarks with the servers that have them.
LEMMA BookmarksAre ==
    ASSUME NEW v \in Versions
    PROVE  Bookmarks(v) = (v.major > 1 \/ v.minor >= 29)
<1>1. /\ v.major \in 1..9 /\ v.minor \in 0..99 /\ v.suffix \in Seq(0..Other)
      /\ v.suffix # <<>> => v.suffix[1] = Other
  BY ResourcesAssumption DEF Version
<1>2. ConvertToDecimal(Reported(v.minor, v.suffix)) = v.minor
  BY <1>1, Decimal
<1>3. ConvertToDecimal(Reported(v.major, <<>>)) = v.major
  <2>1. <<>> \in Seq(0..Other) /\ v.major \in 0..99
    BY <1>1
  <2> QED
    BY <2>1, Decimal
<1> QED
  BY <1>1, <1>2, <1>3 DEF Bookmarks, MajorMinor

-----------------------------------------------------------------------------
(* The entry on its way through the scrubber.                              *)

\* An entry just made has not left the scrubber.
LEMMA MadeSound ==
    ASSUME NEW o \in Objects,
           NEW ct \in {"CTAdd", "CTUpdate", "CTDelete", "CTSnapshot"},
           slot' = {NewEntry(o, ct)}
    PROVE  SlotSound'
<1>1. Cardinality(slot') = 1
  BY FS_Singleton
<1>2. ASSUME NEW e \in slot'
      PROVE  e \in Entry /\ Accessor[e.type] = e.obj.kind /\ e.at = "in"
  BY NewEntryType
<1> QED
  BY <1>1, <1>2 DEF SlotSound, Decodable, Redacted

\* The scrubber leaves no secret in what it lets through.
LEMMA ScrubSound == ASSUME SlotSound, Scrub PROVE SlotSound'
<1>1. PICK e \in slot :
        /\ e.at = "in"
        /\ slot' =
              IF e.type \notin {"OTPod", "OTDeployment"}
              THEN {[e EXCEPT !.at = "out"]}
              ELSE IF Accessor[e.type] # e.obj.kind THEN {}
              ELSE {[e EXCEPT !.at = "out",
                              !.obj.env = ScrubPodSpec(@)]}
  BY DEF Scrub
<1>2. /\ e \in Entry /\ e.obj \in Objects /\ e.type \in DOMAIN Accessor
      /\ Accessor[e.type] = e.obj.kind
      /\ e.obj \in [kind : Kinds, env : SUBSET Containers]
      /\ e.obj.env # {} => e.obj.kind \in {"Pod", "Deployment"}
  BY <1>1 DEF SlotSound, Decodable, Entry, Objects
<1>3. ASSUME NEW d \in Entry, slot' = {d}, d.obj.env = {},
             Accessor[d.type] = d.obj.kind
      PROVE  SlotSound'
  <2>1. Cardinality(slot') = 1
    BY <1>3, FS_Singleton
  <2>2. \A x \in slot' : x = d
    BY <1>3
  <2> QED
    BY <1>3, <2>1, <2>2 DEF SlotSound, Decodable, Redacted
<1>4. CASE e.type \notin {"OTPod", "OTDeployment"}
  <2> DEFINE d == [e EXCEPT !.at = "out"]
  <2>1. slot' = {d}
    BY <1>1, <1>4
  <2>2. d \in Entry /\ d.obj = e.obj /\ d.type = e.type
    BY <1>2 DEF Entry
  <2>3. e.obj.env = {}
    BY <1>2, <1>4, PodSpecTypes
  <2> HIDE DEF d
  <2> QED
    BY <1>2, <1>3, <2>1, <2>2, <2>3
<1>5. CASE e.type \in {"OTPod", "OTDeployment"}
  <2> DEFINE d == [e EXCEPT !.at = "out", !.obj.env = ScrubPodSpec(@)]
             o == [e.obj EXCEPT !.env = ScrubPodSpec(@)]
  <2>1. slot' = {d}
    BY <1>1, <1>2, <1>5
  <2>2. ScrubPodSpec(e.obj.env) = {}
    BY <1>2 DEF ScrubPodSpec, Containers
  <2>3. o \in Objects /\ o.kind = e.obj.kind /\ o.env = {}
    BY <1>2, <2>2 DEF Objects
  <2>4. d.obj = o /\ d.type = e.type /\ d.at = "out" /\ d.change = e.change
    BY <1>2 DEF Entry
  <2>6. d \in Entry
    <3>1. ASSUME NEW p, p \in Objects
          PROVE  [e EXCEPT !.at = "out", !.obj = p] \in Entry
      BY <1>2, <3>1 DEF Entry
    <3>2. d = [e EXCEPT !.at = "out", !.obj = o]
      BY <1>2 DEF Entry
    <3> HIDE DEF d, o
    <3> QED
      BY <2>3, <3>1, <3>2
  <2> HIDE DEF d, o
  <2> QED
    BY <1>2, <1>3, <2>1, <2>3, <2>4, <2>6
<1> QED
  BY <1>4, <1>5

\* No step puts an entry on its way, or lets one out, that is not sound.
LEMMA SlotStep == ASSUME SlotSound, [Next]_vars PROVE SlotSound'
<1>1. CASE UNCHANGED slot
  BY <1>1 DEF SlotSound, Decodable, Redacted
<1>2. ASSUME NEW w \in watchers, Event(w) PROVE SlotSound'
  <2>1. PICK o \in Objects, e \in DOMAIN ChangeOf :
          slot' = {NewEntry(o, ChangeOf[e])}
    BY <1>2 DEF Event
  <2>2. ChangeOf[e] \in {"CTAdd", "CTUpdate", "CTDelete", "CTSnapshot"}
    BY DEF ChangeOf
  <2> QED
    BY <2>1, <2>2, MadeSound
<1>3. CASE Snapshot
  BY <1>3, MadeSound DEF Snapshot
<1>4. CASE Scrub
  BY <1>4, ScrubSound
<1>5. CASE Routed
  <2>1. slot' = {} /\ Cardinality({}) = 0
    BY <1>5, FS_EmptySet DEF Routed
  <2> QED
    BY <2>1 DEF SlotSound, Decodable, Redacted
<1> QED
  BY <1>1, <1>2, <1>3, <1>4, <1>5
     DEF Next, vars, New, CallRun, StartWatch, StartFails, Started, Close,
         StoreBookmark, RelistBegins, ListerEnds, ListerFails

-----------------------------------------------------------------------------
(* The bookmark store.                                                     *)

\* A bookmark is stored under a key that only its own watch uses.
LEMMA StoreBookmarkMarks ==
    ASSUME mark \in [Keys -> Kinds \cup {"none"}], watchers \subseteq Watcher,
           MarkOwn, NEW w \in watchers, StoreBookmark(w)
    PROVE  mark' \in [Keys -> Kinds \cup {"none"}] /\ MarkOwn'
<1> DEFINE key == CmKey(w.spec.gvr)
<1>1. w.spec \in AllSpecs
  BY DEF Watcher
<1>2. key \in Keys /\ \A s \in AllSpecs : CmKey(s.gvr) \in Keys
  BY <1>1 DEF Keys
<1>3. mark' = [mark EXCEPT ![key] = w.spec.kind]
  BY DEF StoreBookmark
<1>4. w.spec.kind \in Kinds
  BY <1>1, KindsAre
<1>5. \A s \in AllSpecs : CmKey(s.gvr) = key => s.kind = w.spec.kind
  BY <1>1, SpecKeys
<1> HIDE DEF key
<1>6. mark' \in [Keys -> Kinds \cup {"none"}]
  BY <1>3, <1>4
<1>7. ASSUME NEW s \in AllSpecs PROVE mark'[CmKey(s.gvr)] \in {"none", s.kind}
  <2>1. CASE CmKey(s.gvr) = key
    BY <1>2, <1>3, <1>5, <2>1
  <2>2. CASE CmKey(s.gvr) # key
    BY <1>2, <1>3, <2>2 DEF MarkOwn
  <2> QED
    BY <2>1, <2>2
<1> QED
  BY <1>6, <1>7 DEF MarkOwn

-----------------------------------------------------------------------------
(* Run and its watches.                                                    *)

\* Two places with the same kind are the same.
LEMMA PlaceOfKind ==
    ASSUME NEW p \in (1..9) \X (1..4), p[2] <= Width(Specs, p[1]),
           NEW q \in (1..9) \X (1..4), q[2] <= Width(Specs, q[1]),
           At(Pagers, p) = At(Pagers, q)
    PROVE  p = q
<1>1. /\ p[1] \in 1..9 /\ p[2] \in 1..4 /\ p = <<p[1], p[2]>>
      /\ q[1] \in 1..9 /\ q[2] \in 1..4 /\ q = <<q[1], q[2]>>
  OBVIOUS
<1>2. Row(p[1]) /\ Row(q[1])
  BY <1>1, Tables
<1>3. /\ Code[At(Pagers, p)] = 4 * p[1] + p[2]
      /\ Code[At(Pagers, q)] = 4 * q[1] + q[2]
  <2>1. /\ Code[At(Pagers, <<p[1], p[2]>>)] = 4 * p[1] + p[2]
        /\ Code[At(Pagers, <<q[1], q[2]>>)] = 4 * q[1] + q[2]
    BY <1>1, <1>2 DEF Row
  <2> QED
    BY <1>1, <2>1
<1>4. p[1] = q[1] /\ p[2] = q[2]
  BY <1>1, <1>3
<1> QED
  BY <1>1, <1>4

\* What stands at a place of the tables.
LEMMA AtPlace ==
    ASSUME NEW p \in (1..9) \X (1..4), p[2] <= Width(Specs, p[1])
    PROVE  /\ At(Specs, p) \in AllSpecs
           /\ At(Pagers, p) = At(Specs, p).kind
           /\ At(Pagers, p) \in Kinds
           /\ p[2] <= Width(Pagers, p[1])
<1>1. p[1] \in 1..9 /\ p[2] \in 1..4 /\ p = <<p[1], p[2]>>
  OBVIOUS
<1>2. Row(p[1])
  BY <1>1, Tables
<1>3. At(Specs, <<p[1], p[2]>>) \in AllSpecs
  BY <1>1, SpecPlace
<1>4. At(Pagers, <<p[1], p[2]>>) = At(Specs, <<p[1], p[2]>>).kind
  BY <1>1, <1>2 DEF Row
<1> QED
  BY <1>1, <1>2, <1>3, <1>4, KindsAre DEF Row

\* Run opens the next watch.
LEMMA StartWatchSound == ASSUME WatchSound, StartWatch PROVE WatchSound'
<1> DEFINE p == reader.at
           n == NextPlace(reader.bits, Specs, p)
           sp == At(Specs, p)
<1>1. /\ reader.pc = "run" /\ p[1] < 10
      /\ reader' = [reader EXCEPT !.at = n]
      /\ mark' = mark
  BY DEF StartWatch
<1>2. /\ OnTable(Specs, reader.bits, p)
      /\ reader.run \in 1..MaxRuns
      /\ {w.spec : w \in watchers} =
            {At(Specs, q) : q \in Passed(Specs, reader.bits, p)}
      /\ \A v, w \in watchers : v.spec = w.spec => v = w
  <2>1. MaxRuns \in Nat
    BY ResourcesAssumption
  <2> QED
    BY <1>1, <2>1 DEF WatchSound, RunSound, Reader
<1>3. /\ p \in (1..9) \X (1..4) /\ p[2] <= Width(Specs, p[1])
  BY <1>1, <1>2 DEF OnTable, Place
<1>4. /\ OnTable(Specs, reader.bits, n)
      /\ Passed(Specs, reader.bits, n) = Passed(Specs, reader.bits, p) \cup {p}
      /\ p \notin Passed(Specs, reader.bits, p)
  BY <1>1, <1>2, OnePassed, BothRegular
<1>5. sp \in AllSpecs /\ sp.kind \in Kinds
  BY <1>3, AtPlace
<1>6. PICK from : /\ from \in IF reader.bookmarking /\ reader.store
                              THEN {mark[CmKey(sp.gvr)], "none"} ELSE {"none"}
                  /\ watchers' = watchers \cup
                        {[spec |-> sp, run |-> reader.run, from |-> from]}
  BY DEF StartWatch
<1> DEFINE x == [spec |-> sp, run |-> reader.run, from |-> from]
<1>7. /\ from \in {"none", sp.kind}
      /\ ~reader.bookmarking => from = "none"
  BY <1>5, <1>6 DEF WatchSound, MarkOwn
<1>8. x \in Watcher /\ x.spec = sp /\ x.from = from
  BY <1>2, <1>5, <1>7 DEF Watcher
<1>9. ASSUME NEW w \in watchers PROVE w.spec # sp
  <2>1. PICK q \in Passed(Specs, reader.bits, p) : w.spec = At(Specs, q)
    BY <1>2
  <2>2. q \in (1..9) \X (1..4) /\ q[2] <= Width(Specs, q[1])
    BY DEF Passed
  <2>3. At(Pagers, q) = w.spec.kind /\ At(Pagers, p) = sp.kind
    BY <1>3, <2>1, <2>2, AtPlace
  <2> QED
    BY <1>3, <1>4, <2>1, <2>2, <2>3, PlaceOfKind
<1>10. watchers' = watchers \cup {x}
  BY <1>6
<1>11. reader \in Reader /\ n \in Place
  BY <1>4 DEF WatchSound, OnTable
<1> HIDE DEF p, n, sp, x
<1>12. /\ reader' \in Reader /\ reader'.pc = "run" /\ reader'.at = n
       /\ reader'.bits = reader.bits /\ reader'.run = reader.run
       /\ reader'.version = reader.version
       /\ reader'.bookmarking = reader.bookmarking
  BY <1>1, <1>11 DEF Reader
<1>13. RunSound'
  <2>1. {w.spec : w \in watchers'} =
            {At(Specs, q) : q \in Passed(Specs, reader.bits, n)}
    <3>1. {w.spec : w \in watchers'} = {w.spec : w \in watchers} \cup {sp}
      BY <1>8, <1>10
    <3>2. {At(Specs, q) : q \in Passed(Specs, reader.bits, n)} =
            {At(Specs, q) : q \in Passed(Specs, reader.bits, p)} \cup {sp}
      BY <1>4 DEF sp
    <3> QED
      BY <1>2, <3>1, <3>2
  <2>2. \A v, w \in watchers' : v.spec = w.spec => v = w
    BY <1>2, <1>8, <1>9, <1>10
  <2> QED
    BY <1>2, <1>4, <1>12, <2>1, <2>2 DEF RunSound
<1>14. ResumesOwn'
  BY <1>7, <1>8, <1>10 DEF WatchSound, ResumesOwn
<1>15. BookmarksWhenSupported'
  BY <1>1, <1>7, <1>8, <1>10, <1>12 DEF WatchSound, BookmarksWhenSupported
<1>16. watchers' \subseteq Watcher
  BY <1>8, <1>10 DEF WatchSound
<1>17. MarkOwn' /\ mark' \in [Keys -> Kinds \cup {"none"}]
  BY <1>1 DEF WatchSound, MarkOwn
<1> QED
  BY <1>1, <1>12, <1>13, <1>14, <1>15, <1>16, <1>17 DEF WatchSound

\* New, of a Reader that is the only one.
LEMMA NewSound ==
    ASSUME WatchSound, NEW bits \in Requests, NEW v \in Versions,
           NEW store \in BOOLEAN, New(bits, v, store)
    PROVE  WatchSound'
<1>1. /\ reader.pc \in {"none", "closed"} /\ reader.n < MaxReaders
      /\ bits # {} /\ \A b \in bits : Valid(b)
      /\ reader' = [pc |-> "new", n |-> reader.n + 1, bits |-> bits,
                    version |-> v, store |-> store,
                    bookmarking |-> Bookmarks(v), run |-> 0, at |-> <<1, 1>>]
      /\ watchers' = watchers /\ mark' = mark
  BY DEF New
<1>2. watchers = {}
  BY <1>1 DEF WatchSound, RunSound
<1>3. bits \in SUBSET (0..8)
  BY <1>1 DEF Valid
<1>4. Bookmarks(v) = (v.major > 1 \/ v.minor >= 29)
  BY BookmarksAre
<1>5. Bookmarks(v) \in BOOLEAN
  BY DEF Bookmarks
<1>6. reader' \in Reader
  <2>1. reader.n + 1 \in 0..MaxReaders /\ 0 \in 0..MaxRuns
    BY <1>1, ResourcesAssumption DEF WatchSound, Reader
  <2>2. <<1, 1>> \in Place
    BY DEF Place
  <2> QED
    BY <1>1, <1>3, <1>5, <2>1, <2>2 DEF Reader
<1>7. RunSound'
  BY <1>1, <1>2 DEF RunSound
<1>8. BookmarksWhenSupported'
  BY <1>1, <1>2, <1>4 DEF BookmarksWhenSupported
<1> QED
  BY <1>1, <1>2, <1>6, <1>7, <1>8 DEF WatchSound, MarkOwn, ResumesOwn

\* The other steps of Run, and Close.
LEMMA RunSteps ==
    ASSUME WatchSound, CallRun \/ StartFails \/ Started \/ Close
    PROVE  WatchSound'
<1>1. mark' = mark
  BY DEF CallRun, StartFails, Started, Close
<1>2. MarkOwn' /\ mark' \in [Keys -> Kinds \cup {"none"}]
  BY <1>1 DEF WatchSound, MarkOwn
<1>3. CASE CallRun
  <2> DEFINE p == FirstPlace(reader.bits, 1)
  <2>1. /\ reader.pc = "new" /\ reader.run < MaxRuns /\ watchers' = watchers
        /\ reader' = [reader EXCEPT !.pc = "run", !.run = @ + 1, !.at = p]
    BY <1>3 DEF CallRun
  <2>2. OnTable(Specs, reader.bits, p) /\ Passed(Specs, reader.bits, p) = {}
    BY FirstOnTable, NothingPassed, BothRegular
  <2>3. reader \in Reader /\ p \in Place /\ watchers = {}
    BY <2>1, <2>2 DEF WatchSound, OnTable, RunSound
  <2> HIDE DEF p
  <2>4. /\ reader'.pc = "run" /\ reader'.at = p
        /\ reader'.bits = reader.bits /\ reader'.run = reader.run + 1
        /\ reader'.version = reader.version
        /\ reader'.bookmarking = reader.bookmarking
    BY <2>1, <2>3 DEF Reader
  <2>5. reader.run + 1 \in 0..MaxRuns /\ reader.run + 1 # 0
    BY <2>1, <2>3, ResourcesAssumption DEF Reader
  <2>6. reader' \in Reader
    BY <2>1, <2>3, <2>5 DEF Reader
  <2>7. RunSound'
    BY <2>1, <2>2, <2>3, <2>4, <2>5 DEF RunSound
  <2>8. BookmarksWhenSupported'
    BY <2>1, <2>3, <2>4 DEF WatchSound, BookmarksWhenSupported
  <2> QED
    BY <1>2, <2>1, <2>3, <2>4, <2>6, <2>7, <2>8 DEF WatchSound, ResumesOwn
<1>4. CASE StartFails \/ Close
  <2>1. /\ watchers' = {} /\ reader.pc # "none"
        /\ \E pc \in {"new", "closed"} : reader' = [reader EXCEPT !.pc = pc]
    BY <1>4 DEF StartFails, Close
  <2>2. reader \in Reader
    BY DEF WatchSound
  <2>3. /\ reader' \in Reader /\ reader'.pc \in {"new", "closed"}
        /\ reader'.bits = reader.bits
        /\ reader'.version = reader.version
        /\ reader'.bookmarking = reader.bookmarking
    BY <2>1, <2>2 DEF Reader
  <2>4. RunSound'
    BY <2>1, <2>3 DEF RunSound
  <2>5. BookmarksWhenSupported'
    BY <2>1, <2>3 DEF WatchSound, BookmarksWhenSupported
  <2> QED
    BY <1>2, <2>1, <2>3, <2>4, <2>5 DEF WatchSound, ResumesOwn
<1>5. CASE Started
  <2>1. /\ reader.pc = "run" /\ reader.at[1] = 10 /\ watchers' = watchers
        /\ reader' = [reader EXCEPT !.pc = "started"]
    BY <1>5 DEF Started
  <2>2. reader \in Reader
    BY DEF WatchSound
  <2>3. /\ reader' \in Reader /\ reader'.pc = "started"
        /\ reader'.bits = reader.bits /\ reader'.at = reader.at
        /\ reader'.run = reader.run
        /\ reader'.version = reader.version
        /\ reader'.bookmarking = reader.bookmarking
    BY <2>1, <2>2 DEF Reader
  <2>4. RunSound'
    BY <2>1, <2>3 DEF WatchSound, RunSound
  <2>5. BookmarksWhenSupported'
    BY <2>1, <2>3 DEF WatchSound, BookmarksWhenSupported
  <2> QED
    BY <1>2, <2>1, <2>3, <2>4, <2>5 DEF WatchSound, ResumesOwn
<1> QED
  BY <1>3, <1>4, <1>5

\* Every step keeps what is said of the Reader, its watches and the bookmarks.
LEMMA WatchStep == ASSUME WatchSound, [Next]_vars PROVE WatchSound'
<1>1. CASE UNCHANGED <<reader, watchers, mark>>
  BY <1>1 DEF WatchSound, RunSound, MarkOwn, ResumesOwn, BookmarksWhenSupported
<1>2. ASSUME NEW w \in watchers, StoreBookmark(w) PROVE WatchSound'
  <2>1. mark' \in [Keys -> Kinds \cup {"none"}] /\ MarkOwn'
    BY <1>2, StoreBookmarkMarks DEF WatchSound
  <2>2. UNCHANGED <<reader, watchers>>
    BY <1>2 DEF StoreBookmark
  <2> QED
    BY <2>1, <2>2 DEF WatchSound, RunSound, ResumesOwn, BookmarksWhenSupported
<1>3. CASE CallRun \/ StartFails \/ Started \/ Close
  BY <1>3, RunSteps
<1>4. CASE StartWatch
  BY <1>4, StartWatchSound
<1>5. ASSUME NEW bits \in Requests, NEW v \in Versions,
             NEW store \in BOOLEAN, New(bits, v, store)
      PROVE  WatchSound'
  BY <1>5, NewSound
<1> QED
  BY <1>1, <1>2, <1>3, <1>4, <1>5
     DEF Next, vars, Event, RelistBegins, Snapshot, ListerEnds, ListerFails,
         Scrub, Routed

-----------------------------------------------------------------------------
(* Relists.                                                                *)

\* No relist is under way.
LEMMA NoRoundSound == ASSUME round' = NoRound PROVE RelistSound'
<1>1. NoRound \in Round
  BY DEF NoRound, Round, Place
<1> QED
  BY <1>1 DEF RelistSound, RoundSound, NoRound

\* A Reader is made for some type, so a relist is not over at once.
LEMMA SomeAsked ==
    ASSUME NEW bits \in SUBSET (0..8), bits # {}
    PROVE  FirstPlace(bits, 1)[1] < 10
<1>1. PICK b \in 0..8 : b \in bits
  OBVIOUS
<1>2. PICK rt \in DOMAIN Bit : Bit[rt] = b
  <2>1. /\ Bit["Node"] = 0 /\ Bit["Pod"] = 1 /\ Bit["Namespace"] = 2
        /\ Bit["PersistentVolume"] = 3 /\ Bit["RBAC"] = 4
        /\ Bit["Service"] = 5 /\ Bit["Deployment"] = 6
        /\ Bit["IngressController"] = 7 /\ Bit["Endpoint"] = 8
    BY DEF Bit
  <2>2. DOMAIN Bit = {"Node", "Pod", "Namespace", "PersistentVolume", "RBAC",
                      "Service", "Deployment", "IngressController",
                      "Endpoint"}
    BY DEF Bit
  <2>3. \/ b = 0 \/ b = 1 \/ b = 2 \/ b = 3 \/ b = 4
        \/ b = 5 \/ b = 6 \/ b = 7 \/ b = 8
    OBVIOUS
  <2> QED
    BY <2>1, <2>2, <2>3
<1>3. PICK k \in 1..9 : ListRetrieve[k] = rt
  BY Types
<1>4. ListRetrieve[k] \in Asked(bits)
  BY <1>1, <1>2, <1>3 DEF Asked
<1>5. /\ FirstPlace(bits, 1)[1] \in 1..10
      /\ \A m \in 1..9 : m < FirstPlace(bits, 1)[1] =>
                          ListRetrieve[m] \notin Asked(bits)
  BY FirstOnTable, BothRegular DEF OnTable, Place
<1> QED
  BY <1>4, <1>5

\* A relist begins.
LEMMA RelistBeginsSound ==
    ASSUME WatchSound, RelistSound, RelistBegins
    PROVE  RelistSound'
<1> DEFINE p == FirstPlace(reader.bits, 1)
<1>1. /\ reader.pc = "started" /\ reader' = reader
      /\ round' = [NoRound EXCEPT !.pc = "list", !.at = p]
  BY DEF RelistBegins
<1>2. reader.bits \in SUBSET (0..8) /\ reader.bits # {}
  BY <1>1 DEF WatchSound, Reader
<1>3. /\ OnTable(Pagers, reader.bits, p)
      /\ Passed(Pagers, reader.bits, p) = {}
      /\ p[1] < 10
  BY <1>2, SomeAsked, FirstOnTable, NothingPassed, BothRegular
<1> HIDE DEF p
<1>4. round' = [pc |-> "list", at |-> p, listed |-> <<>>, failed |-> FALSE]
  BY <1>1 DEF NoRound
<1>5. round' \in Round
  BY <1>3, <1>4 DEF Round, OnTable
<1>6. IsInjective(<<>>) /\ ToSet(<<>>) = {}
  BY DEF IsInjective, ToSet
<1>7. /\ reader'.pc = "started" /\ reader'.bits = reader.bits
      /\ round'.pc = "list" /\ round'.at = p /\ round'.listed = <<>>
  <2>1. reader'.pc = "started" /\ reader'.bits = reader.bits
    BY <1>1
  <2>2. round'.pc = "list" /\ round'.at = p /\ round'.listed = <<>>
    BY <1>4
  <2> QED
    BY <2>1, <2>2
<1>8. {At(Pagers, q) : q \in Passed(Pagers, reader.bits, p)} = {}
  BY <1>3
<1>9. RoundSound'
  BY <1>3, <1>6, <1>7, <1>8 DEF RoundSound
<1> QED
  BY <1>5, <1>9 DEF RelistSound

\* What is listed after one more kind.
LEMMA AppendKind ==
    ASSUME NEW S, NEW s \in Seq(S), NEW x \in S
    PROVE  /\ Append(s, x) \in Seq(S)
           /\ ToSet(Append(s, x)) = ToSet(s) \cup {x}
           /\ IsInjective(s) /\ x \notin ToSet(s) => IsInjective(Append(s, x))
<1> DEFINE t == Append(s, x)
<1>1. /\ t \in Seq(S) /\ Len(t) = Len(s) + 1
      /\ \A i \in 1..Len(s) : t[i] = s[i]
      /\ t[Len(s) + 1] = x
      /\ DOMAIN s = 1..Len(s) /\ DOMAIN t = 1..Len(t) /\ Len(s) \in Nat
  BY AppendProperties
<1> HIDE DEF t
<1>2. \A i \in DOMAIN t : i \in DOMAIN s \/ i = Len(s) + 1
  BY <1>1
<1>3. \A i \in DOMAIN s : i \in DOMAIN t /\ t[i] = s[i]
  BY <1>1
<1>4. Len(s) + 1 \in DOMAIN t
  BY <1>1
<1>5. ToSet(t) = ToSet(s) \cup {x}
  BY <1>1, <1>2, <1>3, <1>4 DEF ToSet
<1>6. ASSUME IsInjective(s), x \notin ToSet(s) PROVE IsInjective(t)
  <2>1. \A i \in DOMAIN s : s[i] # x
    BY <1>6 DEF ToSet
  <2> QED
    BY <1>1, <1>2, <1>3, <1>6, <2>1 DEF IsInjective
<1> QED
  BY <1>1, <1>5, <1>6 DEF t

\* A lister is done.
LEMMA ListerEndsSound ==
    ASSUME RelistSound, ListerEnds
    PROVE  RelistSound'
<1> DEFINE p == round.at
           n == NextPlace(reader.bits, Pagers, p)
           kind == At(Pagers, p)
           listed == IF round.failed THEN <<>> ELSE Append(round.listed, kind)
<1>1. /\ round.pc = "list" /\ reader' = reader
      /\ round' = [pc |-> IF n[1] < 10 THEN "list" ELSE "done", at |-> n,
                   listed |-> listed, failed |-> round.failed]
  BY DEF ListerEnds, GoOn
<1>2. /\ reader.pc = "started" /\ OnTable(Pagers, reader.bits, p) /\ p[1] < 10
      /\ round \in Round
  BY <1>1 DEF RelistSound, RoundSound
<1>3. /\ OnTable(Pagers, reader.bits, n)
      /\ Passed(Pagers, reader.bits, n) =
            Passed(Pagers, reader.bits, p) \cup {p}
      /\ p \notin Passed(Pagers, reader.bits, p)
  BY <1>2, OnePassed, BothRegular
<1>4. /\ p \in (1..9) \X (1..4) /\ p[2] <= Width(Specs, p[1])
  <2>1. p \in (1..9) \X (1..4) /\ p[1] \in 1..9 /\ p[2] <= Width(Pagers, p[1])
    BY <1>2 DEF OnTable, Place
  <2> QED
    BY <2>1, Tables DEF Row
<1>5. kind \in Kinds
  BY <1>4, AtPlace
<1>6. ASSUME NEW q \in Passed(Pagers, reader.bits, p) PROVE At(Pagers, q) # kind
  <2>1. q \in (1..9) \X (1..4) /\ q[1] \in 1..9 /\ q[2] <= Width(Pagers, q[1])
    BY DEF Passed
  <2>2. q[2] <= Width(Specs, q[1])
    BY <2>1, Tables DEF Row
  <2> QED
    BY <1>3, <1>4, <2>1, <2>2, PlaceOfKind
<1>7. listed \in Seq(Kinds)
  BY <1>2, <1>5, AppendKind DEF Round
<1>8. ASSUME ~round.failed
      PROVE  /\ IsInjective(listed)
             /\ ToSet(listed) =
                  {At(Pagers, q) : q \in Passed(Pagers, reader.bits, n)}
  <2>1. /\ IsInjective(round.listed) /\ round.listed \in Seq(Kinds)
        /\ ToSet(round.listed) =
              {At(Pagers, q) : q \in Passed(Pagers, reader.bits, p)}
    BY <1>1, <1>2, <1>8 DEF RelistSound, RoundSound, Round
  <2>2. kind \notin ToSet(round.listed)
    BY <1>6, <2>1
  <2>3. listed = Append(round.listed, kind)
    BY <1>8
  <2>4. /\ IsInjective(listed)
        /\ ToSet(listed) = ToSet(round.listed) \cup {kind}
    BY <1>5, <2>1, <2>2, <2>3, AppendKind
  <2>5. {At(Pagers, q) : q \in Passed(Pagers, reader.bits, n)} =
          {At(Pagers, q) : q \in Passed(Pagers, reader.bits, p)} \cup {kind}
    <3> HIDE DEF n
    <3> QED
      BY <1>3
  <2> QED
    BY <2>1, <2>4, <2>5
<1> HIDE DEF p, n, kind, listed
<1>9. /\ round' \in Round /\ round'.at = n /\ round'.listed = listed
      /\ round'.failed = round.failed
      /\ round'.pc = IF n[1] < 10 THEN "list" ELSE "done"
  BY <1>1, <1>2, <1>3, <1>7 DEF Round, OnTable
<1>10. RoundSound'
  BY <1>1, <1>2, <1>3, <1>8, <1>9 DEF RoundSound
<1> QED
  BY <1>9, <1>10 DEF RelistSound

\* A lister fails: nothing more is said of this relist.
LEMMA ListerFailsSound ==
    ASSUME RelistSound, ListerFails
    PROVE  RelistSound'
<1> DEFINE p == FirstPlace(reader.bits, round.at[1] + 1)
<1>1. /\ round.pc = "list" /\ reader' = reader
      /\ round' = [pc |-> IF p[1] < 10 THEN "list" ELSE "done", at |-> p,
                   listed |-> <<>>, failed |-> TRUE]
  BY DEF ListerFails, GoOn
<1>2. /\ reader.pc = "started" /\ round.at[1] \in 1..9
  BY <1>1 DEF RelistSound, RoundSound, Round, Place
<1>3. OnTable(Pagers, reader.bits, p)
  BY <1>2, FirstOnTable, BothRegular
<1> HIDE DEF p
<1>4. round' \in Round
  BY <1>1, <1>3 DEF Round, OnTable
<1> QED
  BY <1>1, <1>2, <1>3, <1>4 DEF RelistSound, RoundSound

\* Every step keeps what is said of the relist: Run does not go on while
\* there is one.
LEMMA RelistStep ==
    ASSUME WatchSound, RelistSound, [Next]_vars PROVE RelistSound'
<1>1. CASE UNCHANGED <<reader, round>>
  BY <1>1 DEF RelistSound, RoundSound
<1>2. CASE reader.pc # "started" /\ round' = round
  BY <1>2 DEF RelistSound, RoundSound
<1>3. CASE Close
  BY <1>3, NoRoundSound DEF Close
<1>4. CASE RelistBegins
  BY <1>4, RelistBeginsSound
<1>5. CASE ListerEnds
  BY <1>5, ListerEndsSound
<1>6. CASE ListerFails
  BY <1>6, ListerFailsSound
<1> QED
  BY <1>1, <1>2, <1>3, <1>4, <1>5, <1>6
     DEF Next, vars, New, CallRun, StartWatch, StartFails, Started,
         StoreBookmark, Event, Snapshot, Scrub, Routed

-----------------------------------------------------------------------------
(* The theorems.                                                           *)

\* It holds before the first New.
LEMMA ResourcesInit == ASSUME Init PROVE ResourcesInv
<1>1. /\ reader \in [pc : {"none"}, n : {0}, bits : {{}}, version : Versions,
                     store : BOOLEAN, bookmarking : {FALSE}, run : {0},
                     at : {<<1, 1>>}]
      /\ watchers = {} /\ mark = [k \in Keys |-> "none"]
      /\ round = NoRound /\ slot = {}
  BY DEF Init
<1>2. reader \in Reader /\ reader.pc = "none"
  <2>1. 0 \in 0..MaxReaders /\ 0 \in 0..MaxRuns
    BY ResourcesAssumption
  <2>2. <<1, 1>> \in Place /\ {} \in SUBSET (0..8)
    BY DEF Place
  <2> QED
    BY <1>1, <2>1, <2>2 DEF Reader
<1>3. mark \in [Keys -> Kinds \cup {"none"}] /\ MarkOwn
  <2>1. \A s \in AllSpecs : CmKey(s.gvr) \in Keys
    BY DEF Keys
  <2> QED
    BY <1>1, <2>1 DEF MarkOwn
<1>4. WatchSound
  BY <1>1, <1>2, <1>3
     DEF WatchSound, RunSound, ResumesOwn, BookmarksWhenSupported
<1>5. RelistSound
  BY <1>1 DEF RelistSound, RoundSound, NoRound, Round, Place
<1>6. SlotSound
  BY <1>1, FS_EmptySet DEF SlotSound, Decodable, Redacted
<1> QED
  BY <1>4, <1>5, <1>6 DEF ResourcesInv

\* The invariant that the properties follow from.
THEOREM ResourcesInvCorrect == Spec => []ResourcesInv
<1>1. ResourcesInv /\ [Next]_vars => ResourcesInv'
  BY WatchStep, RelistStep, SlotStep DEF ResourcesInv
<1> QED
  BY <1>1, ResourcesInit, PTL DEF Spec

\* Every variable has its type, for any requests, versions and bounds.
THEOREM ResourcesTypeCorrect == Spec => []TypeOK
<1>1. ResourcesInv => TypeOK
  BY DEF ResourcesInv, WatchSound, RelistSound, SlotSound, TypeOK, Round
<1> QED
  BY <1>1, ResourcesInvCorrect, PTL

\* Any number of Runs of any number of Readers, each of them failing at any
\* of its watches, leave no kind watched twice (watchlist.go:330-345).
THEOREM OneWatcherEachCorrect == Spec => []OneWatcherEach
<1>1. ASSUME ResourcesInv PROVE OneWatcherEach
  <2>1. WatchSound /\ RunSound
    BY <1>1 DEF ResourcesInv, WatchSound
  <2>2. ASSUME NEW v \in watchers, NEW w \in watchers, v.spec.kind = w.spec.kind
        PROVE  v = w
    <3>1. v.spec \in AllSpecs /\ w.spec \in AllSpecs
      BY <2>1 DEF WatchSound, Watcher
    <3>2. v.spec = w.spec
      BY <2>2, <3>1, SpecKeys
    <3> QED
      BY <2>1, <3>2 DEF RunSound
  <2>3. ASSUME reader.pc = "started"
        PROVE  {w.spec : w \in watchers} = SpecsOf(Asked(reader.bits))
    BY <2>1, <2>3, AllPassed DEF RunSound
  <2> QED
    BY <2>2, <2>3 DEF OneWatcherEach
<1> QED
  BY <1>1, ResourcesInvCorrect, PTL

\* A watch resumes from a bookmark of its own kind only, whichever Readers
\* shared the store (configmap.go:169-178).
THEOREM ResumesOwnCorrect == Spec => []ResumesOwn
<1>1. ResourcesInv => ResumesOwn
  BY DEF ResourcesInv, WatchSound
<1> QED
  BY <1>1, ResourcesInvCorrect, PTL

\* A loop over the listers that is through has come by the kinds that Run
\* has come by.
LEMMA SameKinds ==
    ASSUME NEW bits, NEW p, p[1] = 10, NEW r, r[1] = 10
    PROVE  {At(Pagers, q) : q \in Passed(Pagers, bits, p)} =
           {At(Specs, q).kind : q \in Passed(Specs, bits, r)}
<1>1. Passed(Pagers, bits, p) = Passed(Specs, bits, r)
  <2>1. ASSUME NEW q \in (1..9) \X (1..4)
        PROVE  /\ Before(q, p) /\ Before(q, r)
               /\ Width(Pagers, q[1]) = Width(Specs, q[1])
    <3>1. q[1] \in 1..9
      OBVIOUS
    <3>2. q[1] < 10
      BY <3>1
    <3>3. Width(Pagers, q[1]) = Width(Specs, q[1])
      BY <3>1, Tables DEF Row
    <3> QED
      BY <3>2, <3>3 DEF Before
  <2> QED
    BY <2>1 DEF Passed
<1>2. ASSUME NEW q \in Passed(Specs, bits, r)
      PROVE  At(Pagers, q) = At(Specs, q).kind
  <2>1. q \in (1..9) \X (1..4) /\ q[2] <= Width(Specs, q[1])
    BY DEF Passed
  <2> QED
    BY <2>1, AtPlace
<1> QED
  BY <1>1, <1>2

\* A relist that reports no error lists each kind that is watched once, and
\* nothing else (relist.go:54-70, spawn.go:32-87).
THEOREM RelistsWatchedCorrect == Spec => []RelistsWatched
<1>1. ASSUME ResourcesInv, round.pc = "done", ~round.failed
      PROVE  /\ IsInjective(round.listed)
             /\ ToSet(round.listed) = {w.spec.kind : w \in watchers}
  <2>1. /\ reader.pc = "started" /\ round.at[1] = 10
        /\ IsInjective(round.listed)
        /\ ToSet(round.listed) =
              {At(Pagers, q) : q \in Passed(Pagers, reader.bits, round.at)}
    BY <1>1 DEF ResourcesInv, RelistSound, RoundSound, OnTable, Place
  <2>2. /\ reader.at[1] = 10
        /\ {w.spec : w \in watchers} =
              {At(Specs, q) : q \in Passed(Specs, reader.bits, reader.at)}
    BY <1>1, <2>1 DEF ResourcesInv, WatchSound, RunSound
  <2>3. {w.spec.kind : w \in watchers} =
           {At(Specs, q).kind : q \in Passed(Specs, reader.bits, reader.at)}
    <3>1. {w.spec.kind : w \in watchers} =
             {s.kind : s \in {w.spec : w \in watchers}}
      OBVIOUS
    <3>2. {At(Specs, q).kind : q \in Passed(Specs, reader.bits, reader.at)} =
             {s.kind : s \in {At(Specs, q) :
                              q \in Passed(Specs, reader.bits, reader.at)}}
      OBVIOUS
    <3> QED
      BY <2>2, <3>1, <3>2
  <2> QED
    BY <2>1, <2>2, <2>3, SameKinds
<1>2. ResourcesInv => RelistsWatched
  BY <1>1 DEF RelistsWatched
<1> QED
  BY <1>2, ResourcesInvCorrect, PTL

\* The accessor for an entry's ObjectType returns its object (data.go:195-198).
THEOREM DecodableCorrect == Spec => []Decodable
<1>1. ResourcesInv => Decodable
  BY DEF ResourcesInv, SlotSound
<1> QED
  BY <1>1, ResourcesInvCorrect, PTL

\* Nothing leaves the scrubber with a secret in it (safety.go:37-39).
THEOREM RedactedCorrect == Spec => []Redacted
<1>1. ResourcesInv => Redacted
  BY DEF ResourcesInv, SlotSound
<1> QED
  BY <1>1, ResourcesInvCorrect, PTL

\* Bookmarks are used from Kubernetes 1.29 on, for every version a server may
\* have and every way it may write it (watchlist.go:96-100, 879-892).
THEOREM BookmarksCorrect == Spec => []BookmarksWhenSupported
<1>1. ResourcesInv => BookmarksWhenSupported
  BY DEF ResourcesInv, WatchSound
<1> QED
  BY <1>1, ResourcesInvCorrect, PTL

=============================================================================

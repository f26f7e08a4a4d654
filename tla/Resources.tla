------------------------------ MODULE Resources ------------------------------
(***************************************************************************)
(* What a watchlist Reader reads: the types it is made to retrieve         *)
(* (types.go, New in watchlist.go), the watches each of them starts        *)
(* (spawn.go) and the bookmark each watch resumes from, the lists of a     *)
(* relist (relist.go, listers.go), the entries made of their objects       *)
(* (data.go) and what the scrubber takes out of them (safety.go).          *)
(*                                                                         *)
(* A type may need several watches, any of which may fail to start; Run is *)
(* called again then, and a closed Reader may be replaced by another one,  *)
(* made for other types, on the same bookmark store.  How a watch goes on  *)
(* once it has started is the subject of Watcher.                          *)
(***************************************************************************)
EXTENDS Naturals, Sequences, FiniteSets, SequencesExt

CONSTANTS
    Requests,   \* arguments retrieveTypes of New, as the sets of their bits
    Versions,   \* versions the server may have when New is called
    MaxReaders, \* bound: calls of New that succeed
    MaxRuns,    \* bound: calls of Run of one Reader
    MaxMarks    \* bound: bookmarks in the store

\* A character of a version string: a digit, or any other one.
Other == 10

\* A server's version, and what it reports behind the minor one, such as "+"
\* or "-alpha.1".
Version == [major : 1..9, minor : 0..99, suffix : Seq(0..Other)]

ASSUME ResourcesAssumption ==
    /\ \A r \in Requests : r \subseteq 0..31
    /\ \A v \in Versions :
        /\ v \in Version
        /\ v.suffix # <<>> => v.suffix[1] = Other
    /\ {MaxReaders, MaxRuns, MaxMarks} \subseteq Nat

VARIABLES
    reader,    \* the Reader, and its call of Run
    watchers,  \* the watches that are open
    mark,      \* the bookmark store: the kind whose watch wrote each key
    round,     \* the relist
    slot       \* the entry on its way through the scrubber

vars == <<reader, watchers, mark, round, slot>>

-----------------------------------------------------------------------------
(* Retrieve types and their resources.                                     *)

\* The bit of each type.
Bit == [Node |-> 0, Pod |-> 1, Namespace |-> 2, PersistentVolume |-> 3,
        RBAC |-> 4, Service |-> 5, Deployment |-> 6, IngressController |-> 7,
        Endpoint |-> 8]

Valid(bit) == bit \in 0..8

ListRetrieve == <<"Node", "Pod", "Namespace", "PersistentVolume", "RBAC",
                  "Service", "Deployment", "IngressController", "Endpoint">>

\* The types a request asks for.
Asked(bits) == {rt \in DOMAIN Bit : Bit[rt] \in bits}

\* The first of them at the i-th type or behind it, 10 if there is none.
FirstAsked(bits, i) ==
    Min({k \in i..9 : ListRetrieve[k] \in Asked(bits)} \cup {10})

\* A watch: the resource it is for, and the kind its client delivers.
Spec1(group, resource, kind) ==
    [gvr |-> <<group, resource>>, kind |-> kind]

\* The watches of each type.
Specs ==
    [Node |-> <<Spec1("", "nodes", "Node")>>,
     Pod |-> <<Spec1("", "pods", "Pod")>>,
     Namespace |-> <<Spec1("", "namespaces", "Namespace")>>,
     PersistentVolume |->
        <<Spec1("", "persistentvolumes", "PersistentVolume")>>,
     RBAC |-> <<Spec1("rbac", "roles", "Role"),
                Spec1("rbac", "rolebindings", "RoleBinding"),
                Spec1("rbac", "clusterroles", "ClusterRole"),
                Spec1("rbac", "clusterrolebindings", "ClusterRoleBinding")>>,
     Service |-> <<Spec1("", "services", "Service")>>,
     Deployment |-> <<Spec1("apps", "deployments", "Deployment")>>,
     IngressController |-> <<Spec1("networking", "ingresses", "Ingress")>>,
     Endpoint |-> <<Spec1("", "endpoints", "Endpoints")>>]

\* The kinds that the listers of each type deliver.
PagersRight ==
    [Node |-> <<"Node">>, Pod |-> <<"Pod">>, Namespace |-> <<"Namespace">>,
     PersistentVolume |-> <<"PersistentVolume">>,
     RBAC |-> <<"Role", "RoleBinding", "ClusterRole", "ClusterRoleBinding">>,
     Service |-> <<"Service">>, Deployment |-> <<"Deployment">>,
     IngressController |-> <<"Ingress">>, Endpoint |-> <<"Endpoints">>]

\* Mutant: a relist leaves the cluster's roles out.
PagersNamespaced == [PagersRight EXCEPT !.RBAC = <<"Role", "RoleBinding">>]

\* The listers of each type.
Pagers == PagersRight

\* A place in one of these tables: the j-th watch or lister of the i-th type.
\* The loops over a table go through the types that are asked for.
Place == (1..10) \X (1..4)

FirstPlace(bits, i) == <<FirstAsked(bits, i), 1>>

NextPlace(bits, table, p) ==
    IF p[2] < Len(table[ListRetrieve[p[1]]]) THEN <<p[1], p[2] + 1>>
    ELSE FirstPlace(bits, p[1] + 1)

At(table, p) == table[ListRetrieve[p[1]]][p[2]]

Kinds == UNION {ToSet(PagersRight[rt]) : rt \in DOMAIN Bit}

\* Mutant: the resources of a group share a bookmark.
CmKeyOfGroup(gvr) == <<IF gvr[1] = "" THEN "core" ELSE gvr[1], "v1">>

\* The key of a resource in the bookmark store.  Every version is v1.
CmKey(gvr) == <<IF gvr[1] = "" THEN "core" ELSE gvr[1], "v1", gvr[2]>>

SpecsOf(types) == UNION {ToSet(Specs[rt]) : rt \in types}

AllSpecs == SpecsOf(DOMAIN Bit)

Keys == {CmKey(s.gvr) : s \in AllSpecs}

-----------------------------------------------------------------------------
(* The server's version.                                                   *)

\* What the server reports for a number, and behind it.
Reported(n, suffix) ==
    (IF n < 10 THEN <<n>> ELSE <<n \div 10, n % 10>>) \o suffix

\* Mutant: characters that are no digits are skipped.
DigitsOf(s) ==
    FoldLeft(LAMBDA n, c : IF c = Other THEN n ELSE n * 10 + c, 0, s)

\* The number that the first k characters of s make.
Number(s, k) ==
    LET n[i \in 0..k] == IF i = 0 THEN 0 ELSE n[i - 1] * 10 + s[i] IN n[k]

\* The number at the beginning of s: the loop breaks at the first character
\* that is no digit.
ConvertToDecimal(s) ==
    Number(s, Min({i \in 1..Len(s) : s[i] = Other} \cup {Len(s) + 1}) - 1)

MajorMinor(v) == <<ConvertToDecimal(Reported(v.major, <<>>)),
                   ConvertToDecimal(Reported(v.minor, v.suffix))>>

\* The server streams bookmarks and initial events, as of 1.29.
Bookmarks(v) ==
    LET ver == MajorMinor(v) IN ver[1] # 1 \/ ver[2] >= 29

-----------------------------------------------------------------------------
(* Entries.                                                                *)

\* Where a pod spec may name a secret in an environment variable.
Containers == {"containers", "initContainers", "ephemeralContainers"}

\* An object.  env: the places of its pod spec, if it has one, that still
\* name a secret.
Objects == {o \in [kind : Kinds, env : SUBSET Containers] :
                o.env # {} => o.kind \in {"Pod", "Deployment"}}

\* The ObjectType that NewEntry finds for each kind.
ObjectTypeRight ==
    [Node |-> "OTNode", Pod |-> "OTPod", Namespace |-> "OTNamespace",
     PersistentVolume |-> "OTPersistentVolume",
     ClusterRole |-> "OTClusterRole",
     ClusterRoleBinding |-> "OTClusterRoleBinding",
     Role |-> "OTRole", RoleBinding |-> "OTRoleBinding",
     Service |-> "OTService", Deployment |-> "OTDeployment",
     Ingress |-> "OTIngressController", Endpoints |-> "OTEndpoint"]

\* Mutant: the roles of a namespace and of the cluster are mixed up.
ObjectTypeSwapped ==
    [ObjectTypeRight EXCEPT !["Role"] = "OTClusterRole",
                            !["ClusterRole"] = "OTRole"]

\* The ObjectType of each kind.
ObjectTypeOf == ObjectTypeRight

\* The kind that the accessor for each ObjectType returns.
Accessor ==
    [OTNode |-> "Node", OTPod |-> "Pod", OTNamespace |-> "Namespace",
     OTPersistentVolume |-> "PersistentVolume",
     OTClusterRole |-> "ClusterRole",
     OTClusterRoleBinding |-> "ClusterRoleBinding",
     OTRole |-> "Role", OTRoleBinding |-> "RoleBinding",
     OTService |-> "Service", OTDeployment |-> "Deployment",
     OTIngressController |-> "Ingress", OTEndpoint |-> "Endpoints"]

\* The entry made of an object, before the scrubber has seen it.
NewEntry(o, ct) ==
    [obj |-> o, type |-> ObjectTypeOf[o.kind], change |-> ct, at |-> "in"]

Entry == [obj : Objects, type : DOMAIN Accessor,
          change : {"CTAdd", "CTUpdate", "CTDelete", "CTSnapshot"},
          at : {"in", "out"}]

\* The change that a watch event is.  Other events are not made entries.
ChangeOf == [ADDED |-> "CTAdd", MODIFIED |-> "CTUpdate",
             DELETED |-> "CTDelete"]

\* Mutant: debugging containers are forgotten.
ScrubPodSpecOld(env) == env \ {"containers", "initContainers"}

\* The secrets left in a pod spec: every kind of container is scrubbed.
ScrubPodSpec(env) ==
    env \ {"containers", "initContainers", "ephemeralContainers"}

-----------------------------------------------------------------------------
(* State.                                                                  *)

\* There is no Reader, it is new, in Run at a watch, has started, or
\* is closed.
Reader == [pc : {"none", "new", "run", "started", "closed"}, n : 0..MaxReaders,
           bits : SUBSET (0..8), version : Versions, store : BOOLEAN,
           bookmarking : BOOLEAN, run : 0..MaxRuns, at : Place]

\* An open watch, the Run that opened it, and whose bookmark it resumed from.
Watcher == [spec : AllSpecs, run : 1..MaxRuns, from : Kinds \cup {"none"}]

\* Every variable has its type: a Reader is made for types that exist.
TypeOK ==
    /\ reader \in Reader
    /\ reader.pc # "none" => reader.bits # {}
    /\ watchers \subseteq Watcher
    /\ mark \in [Keys -> Kinds \cup {"none"}]
    /\ round \in [pc : {"idle", "list", "done"}, at : Place,
                  listed : Seq(Kinds), failed : BOOLEAN]
    /\ slot \subseteq Entry /\ Cardinality(slot) <= 1

NoRound == [pc |-> "idle", at |-> <<1, 1>>, listed |-> <<>>, failed |-> FALSE]

Init ==
    /\ reader \in [pc : {"none"}, n : {0}, bits : {{}}, version : Versions,
                   store : BOOLEAN, bookmarking : {FALSE}, run : {0},
                   at : {<<1, 1>>}]
    /\ watchers = {}
    /\ mark = [k \in Keys |-> "none"]
    /\ round = NoRound
    /\ slot = {}

-----------------------------------------------------------------------------
(* New, Run and Close.                                                     *)

\* Mutant: bits that are no type are ignored.
NewForAny(bits, v, store) ==
    /\ reader.pc \in {"none", "closed"}
    /\ reader.n < MaxReaders
    /\ bits # {}
    /\ reader' = [pc |-> "new", n |-> reader.n + 1, bits |-> bits,
                  version |-> v, store |-> store,
                  bookmarking |-> Bookmarks(v), run |-> 0, at |-> <<1, 1>>]
    /\ UNCHANGED <<watchers, mark, round, slot>>

\* New, for at least one type, and nothing but types.
New(bits, v, store) ==
    /\ reader.pc \in {"none", "closed"}
    /\ reader.n < MaxReaders
    /\ bits # {} /\ \A b \in bits : Valid(b)
    /\ reader' = [pc |-> "new", n |-> reader.n + 1, bits |-> bits,
                  version |-> v, store |-> store,
                  bookmarking |-> Bookmarks(v), run |-> 0, at |-> <<1, 1>>]
    /\ UNCHANGED <<watchers, mark, round, slot>>

CallRun ==
    /\ reader.pc = "new"
    /\ reader.run < MaxRuns
    /\ reader' = [reader EXCEPT !.pc = "run", !.run = @ + 1,
                                !.at = FirstPlace(reader.bits, 1)]
    /\ UNCHANGED <<watchers, mark, round, slot>>

\* The bookmark of the next watch is loaded, if it can be, and the watch is
\* opened at it.
StartWatch ==
    /\ reader.pc = "run"
    /\ reader.at[1] < 10
    /\ LET sp == At(Specs, reader.at)
           loaded == IF reader.bookmarking /\ reader.store
                     THEN {mark[CmKey(sp.gvr)], "none"} ELSE {"none"}
       IN \E from \in loaded :
            watchers' = watchers \cup
                {[spec |-> sp, run |-> reader.run, from |-> from]}
    /\ reader' = [reader EXCEPT !.at = NextPlace(reader.bits, Specs, @)]
    /\ UNCHANGED <<mark, round, slot>>

\* Mutant: what a failed Run has started goes on.
StartFailsLeaves ==
    /\ reader.pc = "run"
    /\ reader.at[1] < 10
    /\ reader' = [reader EXCEPT !.pc = "new"]
    /\ UNCHANGED <<watchers, mark, round, slot>>

\* It cannot be opened: Run stops those it has opened, of every type.
StartFails ==
    /\ reader.pc = "run"
    /\ reader.at[1] < 10
    /\ reader' = [reader EXCEPT !.pc = "new"]
    /\ watchers' = {}
    /\ UNCHANGED <<mark, round, slot>>

Started ==
    /\ reader.pc = "run"
    /\ reader.at[1] = 10
    /\ reader' = [reader EXCEPT !.pc = "started"]
    /\ UNCHANGED <<watchers, mark, round, slot>>

Close ==
    /\ reader.pc = "started"
    /\ reader' = [reader EXCEPT !.pc = "closed"]
    /\ watchers' = {}
    /\ round' = NoRound
    /\ UNCHANGED <<mark, slot>>

-----------------------------------------------------------------------------
(* Watches, relists and the scrubber.                                      *)

\* A watch stores a bookmark, which the server only sends if asked to.
StoreBookmark(w) ==
    LET key == CmKey(w.spec.gvr) IN
    /\ reader.bookmarking /\ reader.store
    /\ Cardinality({k \in Keys \ {key} : mark[k] # "none"}) < MaxMarks
    /\ mark' = [mark EXCEPT ![key] = w.spec.kind]
    /\ UNCHANGED <<reader, watchers, round, slot>>

\* A watch reads an event.
Event(w) ==
    /\ slot = {}
    /\ \E o \in Objects, e \in DOMAIN ChangeOf :
          /\ o.kind = w.spec.kind
          /\ slot' = {NewEntry(o, ChangeOf[e])}
    /\ UNCHANGED <<reader, watchers, mark, round>>

\* performRelist() starts with the first type.
RelistBegins ==
    /\ reader.pc = "started"
    /\ round.pc # "list"
    /\ round' = [NoRound EXCEPT !.pc = "list",
                                !.at = FirstPlace(reader.bits, 1)]
    /\ UNCHANGED <<reader, watchers, mark, slot>>

\* The relist goes on at p.
GoOn(p, listed, failed) ==
    round' = [pc |-> IF p[1] < 10 THEN "list" ELSE "done", at |-> p,
              listed |-> listed, failed |-> failed]

\* The lister delivers an object.
Snapshot ==
    /\ round.pc = "list"
    /\ slot = {}
    /\ \E o \in Objects :
          /\ o.kind = At(Pagers, round.at)
          /\ slot' = {NewEntry(o, "CTSnapshot")}
    /\ UNCHANGED <<reader, watchers, mark, round>>

\* The lister is done.
ListerEnds ==
    /\ round.pc = "list"
    /\ GoOn(NextPlace(reader.bits, Pagers, round.at),
            IF round.failed THEN <<>>
            ELSE Append(round.listed, At(Pagers, round.at)),
            round.failed)
    /\ UNCHANGED <<reader, watchers, mark, slot>>

\* It fails for good: the other listers of its type are left out.
ListerFails ==
    /\ round.pc = "list"
    /\ GoOn(FirstPlace(reader.bits, round.at[1] + 1), <<>>, TRUE)
    /\ UNCHANGED <<reader, watchers, mark, slot>>

\* The scrubber takes an entry; one whose accessor fails goes no further.
Scrub ==
    \E e \in slot :
        /\ e.at = "in"
        /\ slot' =
              IF e.type \notin {"OTPod", "OTDeployment"}
              THEN {[e EXCEPT !.at = "out"]}
              ELSE IF Accessor[e.type] # e.obj.kind THEN {}
              ELSE {[e EXCEPT !.at = "out",
                              !.obj.env = ScrubPodSpec(@)]}
        /\ UNCHANGED <<reader, watchers, mark, round>>

\* The router takes it from there.
Routed ==
    /\ \E e \in slot : e.at = "out"
    /\ slot' = {}
    /\ UNCHANGED <<reader, watchers, mark, round>>

Next ==
    \/ \E bits \in Requests, v \in Versions, store \in BOOLEAN :
          New(bits, v, store)
    \/ CallRun \/ StartWatch \/ StartFails \/ Started \/ Close
    \/ \E w \in watchers : StoreBookmark(w) \/ Event(w)
    \/ RelistBegins \/ Snapshot \/ ListerEnds \/ ListerFails
    \/ Scrub \/ Routed

Spec == Init /\ [][Next]_vars

-----------------------------------------------------------------------------

\* No kind is watched twice, after any number of Runs that failed at any of
\* their watches, and a Run that succeeds has started every watch of every
\* type (watchlist.go:330-345).
OneWatcherEach ==
    /\ \A v, w \in watchers : v.spec.kind = w.spec.kind => v = w
    /\ reader.pc = "started" =>
          {w.spec : w \in watchers} = SpecsOf(Asked(reader.bits))

\* A watch only resumes from a bookmark of its own kind, whichever types the
\* Readers that shared the store were made for (configmap.go:169-178).
ResumesOwn == \A w \in watchers : w.from \in {"none", w.spec.kind}

\* A relist that reports no error lists each kind that is watched once, and
\* nothing else (relist.go:54-70, spawn.go:32-87).
RelistsWatched ==
    round.pc = "done" /\ ~round.failed =>
        /\ IsInjective(round.listed)
        /\ ToSet(round.listed) = {w.spec.kind : w \in watchers}

\* The accessor for an entry's ObjectType returns its object, whether a watch
\* or a list delivered it (data.go:195-198).
Decodable == \A e \in slot : Accessor[e.type] = e.obj.kind

\* Nothing leaves the scrubber with a secret in it (safety.go:37-39).
Redacted == \A e \in slot : e.at = "out" => e.obj.env = {}

\* Bookmarks are used from Kubernetes 1.29 on, however the server writes its
\* version, and on older servers no watch resumes from one
\* (watchlist.go:96-100, 879-892).
BookmarksWhenSupported ==
    reader.pc # "none" =>
        LET v == reader.version
            supported == v.major > 1 \/ v.minor >= 29
        IN /\ reader.bookmarking = supported
           /\ ~supported => \A w \in watchers : w.from = "none"

=============================================================================

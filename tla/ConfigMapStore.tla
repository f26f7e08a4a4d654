--------------------------- MODULE ConfigMapStore ---------------------------
(***************************************************************************)
(* The bookmark store in a Kubernetes ConfigMap (configmap.go): Readers    *)
(* that share one ConfigMap, each resource under its own key.  Load, Store *)
(* and Delete read the whole object and, for the last two, write it back   *)
(* if its resourceVersion has not moved, with a bounded number of attempts.*)
(* A request that times out is not taken back: it may still reach the API  *)
(* server after the caller has retried, given up, or moved on.             *)
(***************************************************************************)
EXTENDS Naturals, FiniteSets

CONSTANTS
    Clients,       \* callers of the store: the watchers of every Reader
    Keys,          \* the ConfigMap's keys, one for each resource type
    Values,        \* bookmark resourceVersions
    MaxAttempts,   \* maxAttempts
    MaxCalls       \* bound: calls made in all

ASSUME StoreAssumption ==
    /\ Keys # {}
    /\ Values \subseteq Nat \ {0}
    /\ MaxAttempts \in Nat \ {0}
    /\ MaxCalls \in Nat

VARIABLES
    cm,     \* the ConfigMap on the server
    wire,   \* update requests on their way to the server
    call,   \* the current or last call of each client
    calls,  \* calls made so far
    seen    \* history: values the call's key has had since it began

cmVars == <<cm, wire, call, calls, seen>>

-----------------------------------------------------------------------------

Absent == 0

Contents == [Keys -> Values \cup {Absent}]

ConfigMap == [exists : BOOLEAN, ver : Nat, data : Contents]

Ops == {"load", "store", "delete"}

\* One call.  pc: about to Get, about to Update, waiting for the answer to
\* an Update, or returned with res and, for a Load, got.
Call == [op : Ops, key : Keys, val : Values \cup {Absent},
         pc : {"get", "update", "wait", "done"}, attempt : 0..MaxAttempts,
         read : ConfigMap, res : {"none", "ok", "changed", "error"},
         got : Values \cup {Absent}]

\* An update request: the object as it was read and changed, whose it is,
\* and whether its sender still waits for the answer.
Request == [from : Clients, waiting : BOOLEAN, op : Ops, key : Keys,
            val : Values, ver : Nat, data : Contents]

Empty == [exists |-> TRUE, ver |-> 0, data |-> [k \in Keys |-> Absent]]

\* Every variable has its type, and no call makes more attempts than allowed
\* (configmap.go:151-160).
StoreTypeOK ==
    /\ cm \in ConfigMap
    /\ wire \subseteq Request
    /\ call \in [Clients -> Call]
    /\ calls \in 0..MaxCalls
    /\ seen \in [Clients -> SUBSET (Values \cup {Absent})]

Init ==
    /\ cm = Empty
    /\ wire = {}
    /\ call = [c \in Clients |->
                  [op |-> "load", key |-> CHOOSE k \in Keys : TRUE,
                   val |-> Absent, pc |-> "done", attempt |-> 0,
                   read |-> Empty, res |-> "none", got |-> Absent]]
    /\ calls = 0
    /\ seen = [c \in Clients |-> {}]

-----------------------------------------------------------------------------

ValueAt(m, k) == IF m.exists THEN m.data[k] ELSE Absent

\* History: every call in progress sees the values its key takes.
Witness(m) ==
    seen' = [c \in Clients |->
                IF call[c].pc = "done" THEN seen[c]
                ELSE seen[c] \cup {ValueAt(m, call[c].key)}]

Return(c, res) ==
    call' = [call EXCEPT ![c].pc = "done", ![c].res = res, ![c].read = Empty]

\* Mutant: an operation is retried without end.
RetryForever(c) ==
    call' = [call EXCEPT ![c].pc = "get", ![c].attempt = @ + 1,
                         ![c].read = Empty]

\* retryAPIServer: the next attempt starts over with a Get; after
\* maxAttempts the last error is returned.
Retry(c) ==
    IF call[c].attempt < MaxAttempts
    THEN call' = [call EXCEPT ![c].pc = "get", ![c].attempt = @ + 1,
                              ![c].read = Empty]
    ELSE Return(c, "error")

-----------------------------------------------------------------------------
(* The clients.                                                            *)

\* Load takes a key; Store and Delete also a bookmark.
Begin(c, op, k, v) ==
    /\ call[c].pc = "done"
    /\ calls < MaxCalls
    /\ op = "load" <=> v = Absent
    /\ call' = [call EXCEPT ![c] =
                  [op |-> op, key |-> k, val |-> v, pc |-> "get",
                   attempt |-> 1, read |-> Empty, res |-> "none",
                   got |-> Absent]]
    /\ calls' = calls + 1
    /\ seen' = [seen EXCEPT ![c] = {ValueAt(cm, k)}]
    /\ UNCHANGED <<cm, wire>>

\* The object was read: what each operation makes of it.
GetLoad(c) ==
    /\ call[c].op = "load"
    /\ call' = [call EXCEPT ![c].pc = "done", ![c].res = "ok",
                            ![c].got = cm.data[call[c].key]]

GetStore(c) ==
    /\ call[c].op = "store"
    /\ IF cm.data[call[c].key] = call[c].val
       THEN Return(c, "ok")
       ELSE call' = [call EXCEPT ![c].pc = "update", ![c].read = cm]

\* Mutant: Delete does not compare the value it finds.
GetDeleteAny(c) ==
    /\ call[c].op = "delete"
    /\ IF cm.data[call[c].key] = Absent
       THEN Return(c, "ok")
       ELSE call' = [call EXCEPT ![c].pc = "update", ![c].read = cm]

\* Mutant: a bookmark that has changed is reported as deleted.
GetDeleteQuiet(c) ==
    /\ call[c].op = "delete"
    /\ IF cm.data[call[c].key] # call[c].val
       THEN Return(c, "ok")
       ELSE call' = [call EXCEPT ![c].pc = "update", ![c].read = cm]

GetDelete(c) ==
    /\ call[c].op = "delete"
    /\ LET found == cm.data[call[c].key] IN
       \/ found = Absent /\ Return(c, "ok")
       \/ found \notin {Absent, call[c].val} /\ Return(c, "changed")
       \/ /\ found = call[c].val
          /\ call' = [call EXCEPT ![c].pc = "update", ![c].read = cm]

Get(c) ==
    /\ call[c].pc = "get"
    /\ cm.exists
    /\ GetLoad(c) \/ GetStore(c) \/ GetDelete(c)
    /\ UNCHANGED <<cm, wire, calls, seen>>

\* The ConfigMap is gone: nothing to delete, an error for the others.
GetNotFound(c) ==
    /\ call[c].pc = "get"
    /\ ~cm.exists
    /\ Return(c, IF call[c].op = "delete" THEN "ok" ELSE "error")
    /\ UNCHANGED <<cm, wire, calls, seen>>

\* The Get fails, for now or for good.
GetFails(c) ==
    /\ call[c].pc = "get"
    /\ Retry(c) \/ Return(c, "error")
    /\ UNCHANGED <<cm, wire, calls, seen>>

\* Update: the object as read, with the one key changed.
Update(c) ==
    LET t == call[c]
        new == IF t.op = "store" THEN t.val ELSE Absent IN
    /\ t.pc = "update"
    /\ wire' = wire \cup
          {[from |-> c, waiting |-> TRUE, op |-> t.op, key |-> t.key,
            val |-> t.val, ver |-> t.read.ver,
            data |-> [t.read.data EXCEPT ![t.key] = new]]}
    /\ call' = [call EXCEPT ![c].pc = "wait"]
    /\ UNCHANGED <<cm, calls, seen>>

\* The caller stops waiting for the answer; the request may be delayed or
\* its answer lost.  A done context makes the error final.
Timeout(c) ==
    /\ call[c].pc = "wait"
    /\ wire' = {IF u.from = c THEN [u EXCEPT !.waiting = FALSE] ELSE u :
                u \in wire}
    /\ Retry(c) \/ Return(c, "error")
    /\ UNCHANGED <<cm, calls, seen>>

-----------------------------------------------------------------------------
(* The API server.                                                         *)

\* Mutant: the object is written whatever version it was read at.
AcceptsAny(u) == cm.exists

\* Optimistic concurrency: Update carries the version the object was read at.
Accepts(u) == cm.exists /\ cm.ver = u.ver

Applied(u) == [cm EXCEPT !.ver = @ + 1, !.data = u.data]

\* A request arrives and is applied; its answer reaches a caller that waits.
Apply(u) ==
    /\ u \in wire
    /\ Accepts(u)
    /\ cm' = Applied(u)
    /\ wire' = wire \ {u}
    /\ IF u.waiting THEN Return(u.from, "ok") ELSE UNCHANGED call
    /\ Witness(Applied(u))
    /\ UNCHANGED calls

\* A request arrives and is refused: a conflict is retried, a missing
\* ConfigMap is a permanent error.
Refuse(u) ==
    /\ u \in wire
    /\ ~Accepts(u)
    /\ wire' = wire \ {u}
    /\ IF ~u.waiting THEN UNCHANGED call
       ELSE IF cm.exists THEN Retry(u.from)
       ELSE Return(u.from, "error")
    /\ UNCHANGED <<cm, calls, seen>>

\* A request is applied, but the answer is lost: the caller still waits.
ApplyUnanswered(u) ==
    /\ u \in wire
    /\ u.waiting
    /\ Accepts(u)
    /\ cm' = Applied(u)
    /\ wire' = wire \ {u}
    /\ Witness(Applied(u))
    /\ UNCHANGED <<call, calls>>

\* Somebody deletes the ConfigMap the Readers were given.
Remove ==
    /\ cm.exists
    /\ cm' = [Empty EXCEPT !.exists = FALSE, !.ver = cm.ver]
    /\ Witness(cm')
    /\ UNCHANGED <<wire, call, calls>>

-----------------------------------------------------------------------------

ClientNext(c) ==
    \/ \E op \in Ops, k \in Keys, v \in Values \cup {Absent} :
          Begin(c, op, k, v)
    \/ Get(c) \/ GetNotFound(c) \/ GetFails(c) \/ Update(c) \/ Timeout(c)

Next ==
    \/ \E c \in Clients : ClientNext(c)
    \/ \E u \in wire : Apply(u) \/ Refuse(u) \/ ApplyUnanswered(u)
    \/ Remove

Spec == Init /\ [][Next]_cmVars

-----------------------------------------------------------------------------

\* No Store or Delete ever changes another resource's bookmark, and a Delete
\* only removes the bookmark it was given, however requests of several
\* clients interleave and however late they arrive (configmap.go:76,
\* "without changing other keys"; configmap.go:108, "only if it still
\* matches").
OnlyOwnBookmark ==
    [][cm.exists /\ cm'.exists =>
         \A k \in Keys : cm'.data[k] # cm.data[k] =>
            \E u \in wire : /\ u.key = k
                            /\ u.op = "store" => cm'.data[k] = u.val
                            /\ u.op = "delete" => /\ cm.data[k] = u.val
                                                  /\ cm'.data[k] = Absent
                            /\ \A j \in Keys \ {k} : cm'.data[j] = cm.data[j]
      ]_cmVars

\* The bookmarks of key k that requests made from the present object ask for.
Outstanding(k) ==
    {IF u.op = "store" THEN u.val ELSE Absent :
        u \in {w \in wire : w.key = k /\ w.ver = cm.ver}}

KeyStore(k) ==
    INSTANCE BookmarkStore WITH store <- cm.data[k], late <- Outstanding(k)

\* As long as the ConfigMap is there, every key of it is a bookmark store as
\* the Readers rely on it: a delayed or repeated request, for whichever key,
\* only takes effect when nothing was written since its object was read
\* (configmap.go:88-104, 122-137, 151-160).
ImplementsStore ==
    /\ \A k \in Keys : KeyStore(k)!StoreInit
    /\ [][cm.exists /\ cm'.exists =>
            \A k \in Keys :
                KeyStore(k)!StoreNext \/ UNCHANGED KeyStore(k)!storeVars]_cmVars

\* What the last call of c returned was true while it ran.
ResultHolds(c) ==
    LET t == call[c] IN
    /\ t.res = "ok" /\ t.op = "store" => t.val \in seen[c]
    /\ t.res = "ok" /\ t.op = "load" => t.got \in seen[c]
    /\ t.res = "ok" /\ t.op = "delete" => Absent \in seen[c]
    /\ t.res = "changed" => \E v \in seen[c] : v \notin {Absent, t.val}

\* What a call returns was true at some moment while it ran: a stored
\* bookmark was there, a loaded one too, a deleted one was not, a changed one
\* had another value (store.go:14-20).
ResultsHold == \A c \in Clients : ResultHolds(c)

=============================================================================

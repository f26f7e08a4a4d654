------------------------ MODULE ConfigMapStoreProofs ------------------------
(***************************************************************************)
(* What the run of MCConfigMapStore checks on a small instance, proved for *)
(* every number of clients, keys, bookmarks, attempts and calls: no call   *)
(* touches another resource's bookmark, what a call returns was true while *)
(* it ran, and each key of the ConfigMap is a bookmark store as the        *)
(* Readers rely on it.                                                     *)
(***************************************************************************)
EXTENDS ConfigMapStore, TLAPS

-----------------------------------------------------------------------------
(* The inductive invariant.                                                *)

\* What a request, or the call about to send it, writes to its key.
NewValue(op, v) == IF op = "store" THEN v ELSE Absent

\* Why op is worth a write of v to the object m.
Needed(op, v, m, k) ==
    /\ op \in {"store", "delete"}
    /\ v \in Values
    /\ op = "store" => m.data[k] # v
    /\ op = "delete" => m.data[k] = v

\* A call: it has the bookmark its operation needs, and no result before it
\* returns.  One about to write has read an object that makes the write
\* necessary, and knows the present object if it knows its version.  While it
\* runs it has seen the present value of its key.
CallSound(c) ==
    LET t == call[c] IN
    /\ t.op # "load" => t.val \in Values
    /\ t.pc # "done" => /\ t.res = "none"
                        /\ ValueAt(cm, t.key) \in seen[c]
    /\ t.pc = "update" =>
          /\ t.read.ver <= cm.ver
          /\ Needed(t.op, t.val, t.read, t.key)
          /\ cm.exists /\ t.read.ver = cm.ver => t.read.data = cm.data
    /\ ResultHolds(c)

\* A request: one of the present version changes its own key, and has a
\* reason to.
RequestFresh(u) ==
    /\ u.ver <= cm.ver
    /\ u.op \in {"store", "delete"}
    /\ cm.exists /\ u.ver = cm.ver =>
          /\ u.data = [cm.data EXCEPT ![u.key] = NewValue(u.op, u.val)]
          /\ Needed(u.op, u.val, cm, u.key)

\* A request whose sender waits for it is the only one the sender waits for,
\* and says what the sender's call says.
RequestOwned(u) ==
    u.waiting =>
        /\ call[u.from].pc = "wait"
        /\ u.op = call[u.from].op
        /\ u.key = call[u.from].key
        /\ u.val = call[u.from].val
        /\ u.data[u.key] = NewValue(u.op, u.val)
        /\ \A w \in wire : w.waiting /\ w.from = u.from => w = u

StoreInv ==
    /\ StoreTypeOK
    /\ \A c \in Clients : CallSound(c)
    /\ \A u \in wire : RequestFresh(u)
    /\ \A u \in wire : RequestOwned(u)

-----------------------------------------------------------------------------
(* Type correctness.                                                       *)

\* The empty config map has its type.
LEMMA EmptyType == Empty \in ConfigMap
BY DEF Empty, ConfigMap, Contents

\* A call that returns or is tried again keeps what it was asked to do, and
\* only a call that returns has a result.
LEMMA Finished ==
    ASSUME StoreTypeOK, NEW c \in Clients,
           NEW res \in {"ok", "changed", "error"},
           Return(c, res) \/ (res = "error" /\ Retry(c))
    PROVE  /\ call' \in [Clients -> Call]
           /\ \A d \in Clients : d # c => call'[d] = call[d]
           /\ call'[c].op = call[c].op
           /\ call'[c].key = call[c].key
           /\ call'[c].val = call[c].val
           /\ \/ call'[c].pc = "done" /\ call'[c].res = res
              \/ call'[c].pc = "get" /\ call'[c].res = call[c].res
           /\ Return(c, res) => call'[c].pc = "done" /\ call'[c].res = res
<1> USE EmptyType, StoreAssumption
<1>1. call \in [Clients -> Call] /\ call[c] \in Call
  BY DEF StoreTypeOK
<1>2. CASE Return(c, res)
  BY <1>1, <1>2 DEF Return, Call
<1>3. CASE Retry(c) /\ ~Return(c, res) /\ res = "error"
  BY <1>1, <1>3 DEF Retry, Call
<1> QED
  BY <1>2, <1>3

\* A call that goes on to write keeps what it was asked to do.
LEMMA Updating ==
    ASSUME StoreTypeOK, NEW c \in Clients,
           call' = [call EXCEPT ![c].pc = "update", ![c].read = cm]
    PROVE  /\ call' \in [Clients -> Call]
           /\ \A d \in Clients : d # c => call'[d] = call[d]
           /\ call'[c].op = call[c].op
           /\ call'[c].key = call[c].key
           /\ call'[c].val = call[c].val
           /\ call'[c].res = call[c].res
           /\ call'[c].pc = "update" /\ call'[c].read = cm
BY ZenonT(60) DEF StoreTypeOK, Call

\* A load returns what it read.
LEMMA Loaded ==
    ASSUME StoreTypeOK, NEW c \in Clients,
           call' = [call EXCEPT ![c].pc = "done", ![c].res = "ok",
                                ![c].got = cm.data[call[c].key]]
    PROVE  /\ call' \in [Clients -> Call]
           /\ \A d \in Clients : d # c => call'[d] = call[d]
           /\ call'[c].op = call[c].op
           /\ call'[c].key = call[c].key
           /\ call'[c].val = call[c].val
           /\ call'[c].pc = "done" /\ call'[c].res = "ok"
           /\ call'[c].got = cm.data[call[c].key]
<1>1. PICK v \in Values \cup {Absent} : v = cm.data[call[c].key]
  BY DEF StoreTypeOK, ConfigMap, Contents, Call
<1>2. call' = [call EXCEPT ![c].pc = "done", ![c].res = "ok", ![c].got = v]
  BY <1>1
<1>3. call \in [Clients -> Call] /\ call[c] \in Call
  BY DEF StoreTypeOK
<1>4. [call[c] EXCEPT !.pc = "done", !.res = "ok", !.got = v] \in Call
  BY <1>3 DEF Call
<1>5. call' = [call EXCEPT ![c] = [call[c] EXCEPT !.pc = "done", !.res = "ok",
                                                !.got = v]]
  BY <1>2
<1> QED
  BY <1>1, <1>3, <1>4, <1>5 DEF Call

\* A client's record of the values it may have seen stays one.
LEMMA WitnessType ==
    ASSUME StoreTypeOK, NEW m \in ConfigMap, Witness(m)
    PROVE  /\ seen' \in [Clients -> SUBSET (Values \cup {Absent})]
           /\ \A c \in Clients : seen[c] \subseteq seen'[c]
           /\ \A c \in Clients :
                call[c].pc # "done" => ValueAt(m, call[c].key) \in seen'[c]
<1>1. \A c \in Clients : ValueAt(m, call[c].key) \in Values \cup {Absent}
  BY DEF StoreTypeOK, ValueAt, ConfigMap, Contents, Call
<1> QED
  BY <1>1 DEF Witness, StoreTypeOK

\* An update makes a config map of a config map.
LEMMA AppliedType ==
    ASSUME StoreTypeOK, NEW u \in wire
    PROVE  Applied(u) \in ConfigMap
<1>1. u.data \in Contents
  BY DEF StoreTypeOK, Request
<1>2. cm \in ConfigMap /\ cm.ver + 1 \in Nat
  BY DEF StoreTypeOK, ConfigMap
<1> QED
  BY <1>1, <1>2 DEF Applied, ConfigMap

\* Every action keeps the types.
LEMMA TypeStep == StoreInv /\ [Next]_cmVars => StoreTypeOK'
<1> SUFFICES ASSUME StoreInv, [Next]_cmVars PROVE StoreTypeOK'
  OBVIOUS
<1>0. StoreTypeOK
  BY DEF StoreInv
<1> USE <1>0
<1> USE StoreAssumption
<1>1. ASSUME NEW c \in Clients, NEW op \in Ops, NEW k \in Keys,
             NEW v \in Values \cup {Absent}, Begin(c, op, k, v)
      PROVE  StoreTypeOK'
  <2>1. [op |-> op, key |-> k, val |-> v, pc |-> "get", attempt |-> 1,
         read |-> Empty, res |-> "none", got |-> Absent] \in Call
    BY EmptyType DEF Call
  <2>2. ValueAt(cm, k) \in Values \cup {Absent}
    BY DEF StoreTypeOK, ValueAt, ConfigMap, Contents
  <2> QED
    BY <1>1, <2>1, <2>2 DEF Begin, StoreTypeOK
<1>2. ASSUME NEW c \in Clients, Get(c) PROVE StoreTypeOK'
  <2>1. call' \in [Clients -> Call]
    <3>1. CASE GetLoad(c)
      BY <3>1, Loaded DEF GetLoad
    <3>2. CASE GetStore(c)
      BY <3>2, Finished, Updating DEF GetStore
    <3>3. CASE GetDelete(c)
      BY <3>3, Finished, Updating DEF GetDelete
    <3> QED
      BY <1>2, <3>1, <3>2, <3>3 DEF Get
  <2> QED
    BY <1>2, <2>1 DEF Get, StoreTypeOK
<1>3. ASSUME NEW c \in Clients, GetNotFound(c) \/ GetFails(c)
      PROVE  StoreTypeOK'
  <2>1. call' \in [Clients -> Call]
    BY <1>3, Finished DEF GetNotFound, GetFails
  <2> QED
    BY <1>3, <2>1 DEF GetNotFound, GetFails, StoreTypeOK
<1>4. ASSUME NEW c \in Clients, Update(c) PROVE StoreTypeOK'
  <2> DEFINE t == call[c]
             new == IF t.op = "store" THEN t.val ELSE Absent
  <2>1. t \in Call /\ t.op # "load" /\ t.val \in Values
    BY <1>4 DEF StoreTypeOK, Update, StoreInv, CallSound, Needed
  <2>2. [t.read.data EXCEPT ![t.key] = new] \in Contents
    BY <2>1 DEF Call, ConfigMap, Contents
  <2>3. [from |-> c, waiting |-> TRUE, op |-> t.op, key |-> t.key,
         val |-> t.val, ver |-> t.read.ver,
         data |-> [t.read.data EXCEPT ![t.key] = new]] \in Request
    BY <2>1, <2>2 DEF Call, ConfigMap, Request
  <2>4. wire' \subseteq Request
    BY <1>4, <2>3 DEF Update, StoreTypeOK
  <2>5. call' \in [Clients -> Call]
    BY <1>4 DEF Update, StoreTypeOK, Call
  <2> QED
    BY <1>4, <2>4, <2>5 DEF Update, StoreTypeOK
<1>5. ASSUME NEW c \in Clients, Timeout(c) PROVE StoreTypeOK'
  <2>1. call' \in [Clients -> Call]
    BY <1>5, Finished DEF Timeout
  <2>2. \A u \in Request : [u EXCEPT !.waiting = FALSE] \in Request
    BY DEF Request
  <2>3. wire' \subseteq Request
    BY <1>5, <2>2 DEF Timeout, StoreTypeOK
  <2> QED
    BY <1>5, <2>1, <2>3 DEF Timeout, StoreTypeOK
<1>6. ASSUME NEW u \in wire, Apply(u) PROVE StoreTypeOK'
  <2>1. u.from \in Clients
    BY DEF StoreTypeOK, Request
  <2>2. call' \in [Clients -> Call]
    BY <1>6, <2>1, Finished DEF Apply, StoreTypeOK
  <2> QED
    BY <1>6, <2>2, AppliedType, WitnessType DEF Apply, StoreTypeOK
<1>7. ASSUME NEW u \in wire, Refuse(u) PROVE StoreTypeOK'
  <2>1. u.from \in Clients
    BY DEF StoreTypeOK, Request
  <2>2. call' \in [Clients -> Call]
    BY <1>7, <2>1, Finished DEF Refuse, StoreTypeOK
  <2> QED
    BY <1>7, <2>2 DEF Refuse, StoreTypeOK
<1>8. ASSUME NEW u \in wire, ApplyUnanswered(u) PROVE StoreTypeOK'
  BY <1>8, AppliedType, WitnessType DEF ApplyUnanswered, StoreTypeOK
<1>9. CASE Remove
  <2>1. cm' \in ConfigMap
    BY <1>9, EmptyType DEF Remove, StoreTypeOK, ConfigMap
  <2> QED
    BY <1>9, <2>1, WitnessType DEF Remove, StoreTypeOK
<1>10. CASE UNCHANGED cmVars
  BY <1>10 DEF cmVars, StoreTypeOK
<1> QED
  BY <1>1, <1>2, <1>3, <1>4, <1>5, <1>6, <1>7, <1>8, <1>9, <1>10
     DEF Next, ClientNext

-----------------------------------------------------------------------------
(* The invariant is inductive.                                             *)

\* A step of client c that is neither an update nor the end of one.
LEMMA CallFrame ==
    ASSUME StoreInv, StoreTypeOK', NEW c \in Clients,
           UNCHANGED <<cm, wire>>,
           \A d \in Clients : d # c => call'[d] = call[d] /\ seen'[d] = seen[d],
           call[c].pc # "wait",
           CallSound(c)'
    PROVE  StoreInv'
<1>1. \A d \in Clients : d # c => CallSound(d)'
  BY DEF StoreInv, CallSound, ResultHolds
<1>2. \A u \in wire' : RequestFresh(u)'
  BY DEF StoreInv, RequestFresh
<1>3. ASSUME NEW u \in wire PROVE RequestOwned(u)'
  <2>1. RequestOwned(u) /\ u.from \in Clients
    BY DEF StoreInv, StoreTypeOK, Request
  <2> QED
    BY <2>1 DEF RequestOwned
<1> QED
  BY <1>1, <1>2, <1>3 DEF StoreInv

\* Each action keeps StoreInv.  A call begins with nothing seen but the
\* value of its key.
LEMMA BeginKeeps ==
    ASSUME StoreInv, StoreTypeOK', NEW c \in Clients, NEW op \in Ops,
           NEW k \in Keys, NEW v \in Values \cup {Absent}, Begin(c, op, k, v)
    PROVE  StoreInv'
<1>1. /\ call \in [Clients -> Call]
      /\ seen \in [Clients -> SUBSET (Values \cup {Absent})]
  BY DEF StoreInv, StoreTypeOK
<1>2. /\ call'[c].op = op /\ call'[c].key = k /\ call'[c].val = v
      /\ call'[c].pc = "get" /\ call'[c].res = "none"
      /\ seen'[c] = {ValueAt(cm, k)}
  BY <1>1 DEF Begin
<1>3. CallSound(c)'
  BY <1>2, StoreAssumption DEF Begin, CallSound, ResultHolds, ValueAt
<1> QED
  BY <1>1, <1>3, CallFrame DEF Begin

\* A get, for any of the calls, answers with what there is.
LEMMA GetKeeps ==
    ASSUME StoreInv, StoreTypeOK', NEW c \in Clients,
           Get(c) \/ GetNotFound(c) \/ GetFails(c)
    PROVE  StoreInv'
<1>1. /\ StoreTypeOK /\ CallSound(c) /\ call[c].pc = "get"
      /\ UNCHANGED <<cm, wire, calls, seen>>
  BY DEF StoreInv, Get, GetNotFound, GetFails
<1>2. /\ cm.ver \in Nat /\ call[c].op \in Ops
      /\ call[c].op # "load" => call[c].val \in Values
      /\ call[c].res = "none"
      /\ ValueAt(cm, call[c].key) \in seen[c]
  BY <1>1 DEF StoreTypeOK, ConfigMap, Call, CallSound
<1> DEFINE Sound == /\ \A d \in Clients : d # c => call'[d] = call[d]
                    /\ CallSound(c)'
<1>3. ASSUME Get(c) PROVE Sound
  <2>1. cm.exists /\ ValueAt(cm, call[c].key) = cm.data[call[c].key]
    BY <1>3 DEF Get, ValueAt
  <2>2. CASE GetLoad(c)
    <3>1. /\ \A d \in Clients : d # c => call'[d] = call[d]
          /\ call'[c].op = "load" /\ call'[c].pc = "done"
          /\ call'[c].res = "ok" /\ call'[c].got = cm.data[call[c].key]
      BY <1>1, <2>2, Loaded DEF GetLoad
    <3> QED
      BY <1>1, <1>2, <2>1, <3>1 DEF CallSound, ResultHolds, ValueAt
  <2>3. CASE GetStore(c) /\ Return(c, "ok") /\ cm.data[call[c].key] = call[c].val
    BY <1>1, <1>2, <2>1, <2>3, Finished
       DEF GetStore, CallSound, ResultHolds, ValueAt
  <2>4. CASE /\ GetStore(c)
             /\ cm.data[call[c].key] # call[c].val
             /\ call' = [call EXCEPT ![c].pc = "update", ![c].read = cm]
    <3>1. /\ \A d \in Clients : d # c => call'[d] = call[d]
          /\ call'[c].op = call[c].op /\ call'[c].key = call[c].key
          /\ call'[c].val = call[c].val /\ call'[c].res = "none"
          /\ call'[c].pc = "update" /\ call'[c].read = cm
      BY <1>1, <1>2, <2>4, Updating
    <3>2. Needed(call[c].op, call[c].val, cm, call[c].key)
      BY <1>2, <2>4 DEF GetStore, Needed
    <3>3. ResultHolds(c)'
      BY <3>1 DEF ResultHolds
    <3> QED
      BY <1>1, <1>2, <3>1, <3>2, <3>3 DEF CallSound
  <2>5. CASE GetDelete(c) /\ Return(c, "ok") /\ cm.data[call[c].key] = Absent
    BY <1>1, <1>2, <2>1, <2>5, Finished
       DEF GetDelete, CallSound, ResultHolds, ValueAt
  <2>6. CASE /\ GetDelete(c) /\ Return(c, "changed")
             /\ cm.data[call[c].key] \notin {Absent, call[c].val}
    BY <1>1, <1>2, <2>1, <2>6, Finished
       DEF GetDelete, CallSound, ResultHolds, ValueAt
  <2>7. CASE /\ GetDelete(c)
             /\ cm.data[call[c].key] = call[c].val
             /\ call' = [call EXCEPT ![c].pc = "update", ![c].read = cm]
    <3>1. /\ \A d \in Clients : d # c => call'[d] = call[d]
          /\ call'[c].op = call[c].op /\ call'[c].key = call[c].key
          /\ call'[c].val = call[c].val /\ call'[c].res = "none"
          /\ call'[c].pc = "update" /\ call'[c].read = cm
      BY <1>1, <1>2, <2>7, Updating
    <3>2. Needed(call[c].op, call[c].val, cm, call[c].key)
      BY <1>2, <2>7 DEF GetDelete, Needed
    <3>3. ResultHolds(c)'
      BY <3>1 DEF ResultHolds
    <3> QED
      BY <1>1, <1>2, <3>1, <3>2, <3>3 DEF CallSound
  <2> QED
    BY <1>3, <2>2, <2>3, <2>4, <2>5, <2>6, <2>7 DEF Get, GetStore, GetDelete
<1>4. ASSUME GetNotFound(c) PROVE Sound
  <2>1. ValueAt(cm, call[c].key) = Absent
    BY <1>4 DEF GetNotFound, ValueAt
  <2> QED
    BY <1>1, <1>2, <1>4, <2>1, Finished
       DEF GetNotFound, CallSound, ResultHolds, ValueAt
<1>5. ASSUME GetFails(c) PROVE Sound
  BY <1>1, <1>2, <1>5, Finished DEF GetFails, CallSound, ResultHolds, ValueAt
<1>6. Sound
  BY <1>3, <1>4, <1>5
<1> QED
  BY <1>1, <1>6, CallFrame

\* An update is sent with the version the client has read.
LEMMA UpdateKeeps ==
    ASSUME StoreInv, StoreTypeOK', NEW c \in Clients, Update(c)
    PROVE  StoreInv'
<1> DEFINE t == call[c]
<1>a. PICK u : u = [from |-> c, waiting |-> TRUE, op |-> t.op, key |-> t.key,
                    val |-> t.val, ver |-> t.read.ver,
                    data |-> [t.read.data EXCEPT ![t.key] =
                                 IF t.op = "store" THEN t.val ELSE Absent]]
  OBVIOUS
<1>0. /\ StoreTypeOK /\ t \in Call /\ call \in [Clients -> Call]
      /\ t.pc = "update" /\ CallSound(c)
      /\ t.read.data \in Contents /\ t.key \in Keys
  BY DEF StoreInv, StoreTypeOK, Update, Call, ConfigMap
<1>1. /\ wire' = wire \cup {u}
      /\ UNCHANGED <<cm, calls, seen>>
  BY <1>a DEF Update
<1>b. /\ u.from = c /\ u.ver = t.read.ver /\ u.op = t.op /\ u.key = t.key
      /\ u.val = t.val
      /\ u.data = [t.read.data EXCEPT ![t.key] = NewValue(t.op, t.val)]
  BY <1>a DEF NewValue
<1>2. /\ \A d \in Clients : d # c => call'[d] = call[d]
      /\ call'[c].op = t.op /\ call'[c].key = t.key /\ call'[c].val = t.val
      /\ call'[c].res = t.res /\ call'[c].got = t.got
      /\ call'[c].pc = "wait"
  BY <1>0 DEF Update, Call
<1>3. ASSUME NEW d \in Clients PROVE CallSound(d)'
  <2>1. CASE d = c
    BY <1>0, <1>1, <1>2, <2>1 DEF CallSound, ResultHolds
  <2>2. CASE d # c
    BY <1>1, <1>2, <2>2 DEF StoreInv, CallSound, ResultHolds
  <2> QED
    BY <2>1, <2>2
<1>4. RequestFresh(u)'
  <2>1. /\ t.read.ver <= cm.ver
        /\ Needed(t.op, t.val, t.read, t.key)
        /\ cm.exists /\ t.read.ver = cm.ver => t.read.data = cm.data
    BY <1>0 DEF CallSound
  <2> QED
    BY <1>1, <1>b, <2>1 DEF RequestFresh, Needed
<1>5. \A w \in wire' : RequestFresh(w)'
  BY <1>1, <1>4 DEF StoreInv, RequestFresh
<1>6. \A w \in wire : w.waiting => w.from \in Clients /\ w.from # c
  BY <1>0 DEF StoreInv, RequestOwned, StoreTypeOK, Request
<1>7. RequestOwned(u)'
  <2>1. u.data[u.key] = NewValue(u.op, u.val)
    BY <1>0, <1>b DEF Contents
  <2> QED
    BY <1>1, <1>2, <1>6, <1>b, <2>1 DEF RequestOwned
<1>8. ASSUME NEW w \in wire PROVE RequestOwned(w)'
  BY <1>1, <1>2, <1>6, <1>b DEF StoreInv, RequestOwned
<1> QED
  BY <1>1, <1>3, <1>5, <1>7, <1>8 DEF StoreInv

\* A client that gives up leaves its request on the wire.
LEMMA TimeoutKeeps ==
    ASSUME StoreInv, StoreTypeOK', NEW c \in Clients, Timeout(c)
    PROVE  StoreInv'
<1> DEFINE Left(u) == IF u.from = c THEN [u EXCEPT !.waiting = FALSE] ELSE u
<1>0. StoreTypeOK /\ call[c].pc = "wait" /\ CallSound(c)
  BY DEF StoreInv, Timeout
<1>1. UNCHANGED <<cm, calls, seen>> /\ wire' = {Left(u) : u \in wire}
  BY DEF Timeout
<1>2. /\ \A d \in Clients : d # c => call'[d] = call[d]
      /\ call'[c].op = call[c].op /\ call'[c].key = call[c].key
      /\ call'[c].val = call[c].val
      /\ \/ call'[c].pc = "done" /\ call'[c].res = "error"
         \/ call'[c].pc = "get" /\ call'[c].res = call[c].res
  BY <1>0, Finished DEF Timeout
<1>3. ASSUME NEW d \in Clients PROVE CallSound(d)'
  <2>1. CASE d = c
    BY <1>0, <1>1, <1>2, <2>1 DEF CallSound, ResultHolds
  <2>2. CASE d # c
    BY <1>1, <1>2, <2>2 DEF StoreInv, CallSound, ResultHolds
  <2> QED
    BY <2>1, <2>2
<1>4. ASSUME NEW u \in wire
      PROVE  /\ Left(u).from = u.from /\ Left(u).op = u.op
             /\ Left(u).key = u.key /\ Left(u).val = u.val
             /\ Left(u).ver = u.ver /\ Left(u).data = u.data
             /\ Left(u).waiting <=> u.waiting /\ u.from # c
  <2>1. u \in Request
    BY <1>0 DEF StoreTypeOK
  <2> QED
    BY <2>1 DEF Request
<1>5. ASSUME NEW w \in wire' PROVE RequestFresh(w)' /\ RequestOwned(w)'
  <2>1. PICK u \in wire : w = Left(u)
    BY <1>1
  <2>2. RequestFresh(u) /\ RequestOwned(u) /\ u.from \in Clients
    BY <1>0 DEF StoreInv, StoreTypeOK, Request
  <2>3. RequestFresh(w)'
    BY <1>1, <1>4, <2>1, <2>2 DEF RequestFresh
  <2>4. ASSUME w.waiting, NEW x \in wire', x.waiting, x.from = w.from
        PROVE  x = w
    <3>1. PICK y \in wire : x = Left(y)
      BY <1>1
    <3>2. y.waiting /\ y.from # c /\ y.from = u.from /\ u.waiting
      BY <1>4, <2>1, <2>4, <3>1
    <3> QED
      BY <2>1, <2>2, <3>1, <3>2 DEF RequestOwned
  <2>5. RequestOwned(w)'
    <3> HIDE DEF Left
    <3> QED
      BY <1>2, <1>4, <2>1, <2>2, <2>4 DEF RequestOwned
  <2> QED
    BY <2>3, <2>5
<1> QED
  BY <1>3, <1>5 DEF StoreInv

\* A request that has arrived is not on its way any more.  Its sender's call,
\* if it waits, ends or starts over; no other call is touched.
LEMMA ArrivedOwned ==
    ASSUME StoreInv, NEW u \in wire, wire' = wire \ {u},
           \A d \in Clients : d # u.from => call'[d] = call[d],
           ~u.waiting => call' = call
    PROVE  \A w \in wire' : RequestOwned(w)'
<1> SUFFICES ASSUME NEW w \in wire', w.waiting PROVE RequestOwned(w)'
  BY DEF RequestOwned
<1>1. RequestOwned(w) /\ w.from \in Clients
  BY DEF StoreInv, StoreTypeOK, Request
<1>2. u.waiting => w.from # u.from
  BY <1>1 DEF RequestOwned
<1> QED
  BY <1>1, <1>2 DEF RequestOwned

\* The object has been written or removed: no request and no call about to
\* write knows the present one.
LEMMA Overtaken ==
    ASSUME StoreInv, cm'.ver >= cm.ver, cm'.ver \in Nat,
           cm'.exists => cm'.ver > cm.ver
    PROVE  /\ \A w \in wire : RequestFresh(w)'
           /\ \A d \in Clients :
                /\ call'[d] = call[d]
                /\ seen[d] \subseteq seen'[d]
                /\ call[d].pc # "done" => ValueAt(cm', call[d].key) \in seen'[d]
                => CallSound(d)'
<1>0. StoreTypeOK /\ cm.ver \in Nat
  BY DEF StoreInv, StoreTypeOK, ConfigMap
<1>1. ASSUME NEW w \in wire PROVE RequestFresh(w)'
  <2>1. RequestFresh(w) /\ w.ver \in Nat
    BY <1>0 DEF StoreInv, StoreTypeOK, Request
  <2> QED
    BY <1>0, <2>1 DEF RequestFresh
<1>2. ASSUME NEW d \in Clients, call'[d] = call[d], seen[d] \subseteq seen'[d],
             call[d].pc # "done" => ValueAt(cm', call[d].key) \in seen'[d]
      PROVE  CallSound(d)'
  <2>1. CallSound(d) /\ call[d].read.ver \in Nat
    BY <1>0 DEF StoreInv, StoreTypeOK, Call, ConfigMap
  <2>2. ResultHolds(d)'
    BY <1>2, <2>1 DEF CallSound, ResultHolds
  <2> QED
    BY <1>0, <1>2, <2>1, <2>2 DEF CallSound
<1> QED
  BY <1>1, <1>2

\* An update that arrives in time is applied, waited for or not.
LEMMA ApplyKeeps ==
    ASSUME StoreInv, StoreTypeOK', NEW u \in wire,
           Apply(u) \/ ApplyUnanswered(u)
    PROVE  StoreInv'
<1>0. /\ StoreTypeOK /\ u \in Request /\ u.from \in Clients
      /\ cm \in ConfigMap /\ cm.ver \in Nat /\ RequestOwned(u)
  BY DEF StoreInv, StoreTypeOK, Request, ConfigMap
<1>1. /\ cm' = Applied(u) /\ wire' = wire \ {u} /\ Witness(Applied(u))
      /\ cm.exists
  BY DEF Apply, ApplyUnanswered, Accepts
<1>2. cm'.ver = cm.ver + 1 /\ cm'.data = u.data /\ cm'.exists = cm.exists
  BY <1>0, <1>1 DEF Applied, ConfigMap
<1>3. /\ \A d \in Clients : seen[d] \subseteq seen'[d]
      /\ \A d \in Clients :
            call[d].pc # "done" => ValueAt(cm', call[d].key) \in seen'[d]
  BY <1>0, <1>1, AppliedType, WitnessType DEF ValueAt
<1>4. /\ \A d \in Clients : d # u.from => call'[d] = call[d]
      /\ ~u.waiting => call' = call
      /\ \/ call'[u.from] = call[u.from]
         \/ /\ u.waiting
            /\ call'[u.from].op = call[u.from].op
            /\ call'[u.from].key = call[u.from].key
            /\ call'[u.from].val = call[u.from].val
            /\ call'[u.from].pc = "done" /\ call'[u.from].res = "ok"
  <2>1. CASE Apply(u) /\ u.waiting
    BY <1>0, <2>1, Finished DEF Apply
  <2>2. CASE ~(Apply(u) /\ u.waiting)
    BY <2>2 DEF Apply, ApplyUnanswered
  <2> QED
    BY <2>1, <2>2
<1>5. \A w \in wire' : RequestFresh(w)' /\ RequestOwned(w)'
  BY <1>0, <1>1, <1>2, <1>4, Overtaken, ArrivedOwned
<1>6. ASSUME NEW d \in Clients PROVE CallSound(d)'
  <2>1. CASE call'[d] = call[d]
    BY <1>0, <1>2, <1>3, <2>1, Overtaken
  <2>2. CASE call'[d] # call[d]
    <3>1. d = u.from /\ u.waiting
      BY <1>4, <2>2
    <3>2. /\ call[d].pc = "wait" /\ CallSound(d)
          /\ u.op = call[d].op /\ u.key = call[d].key /\ u.val = call[d].val
          /\ u.data[u.key] = NewValue(u.op, u.val)
      BY <1>0, <3>1 DEF RequestOwned, StoreInv
    <3>3. NewValue(u.op, u.val) \in seen'[d]
      BY <1>1, <1>2, <1>3, <3>2 DEF ValueAt
    <3>4. u.op \in {"store", "delete"}
      BY DEF StoreInv, RequestFresh
    <3>5. ResultHolds(d)'
      BY <1>4, <2>2, <3>1, <3>2, <3>3, <3>4 DEF ResultHolds, NewValue
    <3> QED
      BY <1>4, <2>2, <3>1, <3>2, <3>5 DEF CallSound
  <2> QED
    BY <2>1, <2>2
<1> QED
  BY <1>5, <1>6 DEF StoreInv

\* One that is stale is refused.
LEMMA RefuseKeeps ==
    ASSUME StoreInv, StoreTypeOK', NEW u \in wire, Refuse(u)
    PROVE  StoreInv'
<1>0. /\ StoreTypeOK /\ u \in Request /\ u.from \in Clients
      /\ RequestOwned(u)
  BY DEF StoreInv, StoreTypeOK, Request
<1>1. wire' = wire \ {u} /\ UNCHANGED <<cm, calls, seen>>
  BY DEF Refuse
<1>2. /\ \A d \in Clients : d # u.from => call'[d] = call[d]
      /\ ~u.waiting => call' = call
      /\ u.waiting =>
            /\ call'[u.from].op = call[u.from].op
            /\ call'[u.from].key = call[u.from].key
            /\ call'[u.from].val = call[u.from].val
            /\ \/ call'[u.from].pc = "done" /\ call'[u.from].res = "error"
               \/ /\ call'[u.from].pc = "get"
                  /\ call'[u.from].res = call[u.from].res
  BY <1>0, Finished DEF Refuse
<1>3. \A w \in wire' : RequestFresh(w)' /\ RequestOwned(w)'
  BY <1>1, <1>2, ArrivedOwned DEF StoreInv, RequestFresh
<1>4. ASSUME NEW d \in Clients PROVE CallSound(d)'
  <2>1. CASE d = u.from /\ u.waiting
    <3>1. CallSound(d) /\ call[d].pc = "wait"
      BY <1>0, <2>1 DEF StoreInv, RequestOwned
    <3> QED
      BY <1>1, <1>2, <2>1, <3>1 DEF CallSound, ResultHolds
  <2>2. CASE ~(d = u.from /\ u.waiting)
    BY <1>1, <1>2, <2>2 DEF StoreInv, CallSound, ResultHolds
  <2> QED
    BY <2>1, <2>2
<1> QED
  BY <1>3, <1>4 DEF StoreInv

\* Somebody removes the config map.
LEMMA RemoveKeeps ==
    ASSUME StoreInv, StoreTypeOK', Remove
    PROVE  StoreInv'
<1>0. StoreTypeOK /\ cm.ver \in Nat
  BY DEF StoreInv, StoreTypeOK, ConfigMap
<1>1. ~cm'.exists /\ cm'.ver = cm.ver /\ UNCHANGED <<wire, call>>
  BY DEF Remove, Empty
<1>2. cm' \in ConfigMap /\ Witness(cm')
  BY DEF StoreTypeOK, Remove
<1>3. /\ \A d \in Clients : seen[d] \subseteq seen'[d]
      /\ \A d \in Clients :
            call[d].pc # "done" => ValueAt(cm', call[d].key) \in seen'[d]
  <2>1. PICK m \in ConfigMap : m = cm'
    BY <1>2
  <2> QED
    BY <1>0, <1>2, <2>1, WitnessType DEF ValueAt
<1>4. /\ \A w \in wire' : RequestFresh(w)'
      /\ \A d \in Clients : CallSound(d)'
  BY <1>0, <1>1, <1>3, Overtaken
<1>5. \A w \in wire' : RequestOwned(w)'
  BY <1>1 DEF StoreInv, RequestOwned
<1> QED
  BY <1>4, <1>5 DEF StoreInv

\* Every action keeps StoreInv.
LEMMA StoreInvStep == StoreInv /\ [Next]_cmVars => StoreInv'
<1> SUFFICES ASSUME StoreInv, [Next]_cmVars PROVE StoreInv'
  OBVIOUS
<1>0. StoreTypeOK'
  BY TypeStep
<1>1. ASSUME NEW c \in Clients, ClientNext(c) PROVE StoreInv'
  BY <1>0, <1>1, BeginKeeps, GetKeeps, UpdateKeeps, TimeoutKeeps
     DEF ClientNext
<1>2. ASSUME NEW u \in wire, Apply(u) \/ Refuse(u) \/ ApplyUnanswered(u)
      PROVE  StoreInv'
  BY <1>0, <1>2, ApplyKeeps, RefuseKeeps
<1>3. CASE Remove
  BY <1>0, <1>3, RemoveKeeps
<1>4. CASE UNCHANGED cmVars
  <2>1. /\ \A c \in Clients : CallSound(c)'
        /\ \A u \in wire' : RequestFresh(u)' /\ RequestOwned(u)'
    BY <1>4 DEF cmVars, StoreInv, CallSound, ResultHolds, RequestFresh,
                RequestOwned
  <2> QED
    BY <1>0, <2>1 DEF StoreInv
<1> QED
  BY <1>1, <1>2, <1>3, <1>4 DEF Next

\* StoreInv holds at first.
LEMMA StoreInvInit == Init => StoreInv
<1> SUFFICES ASSUME Init PROVE StoreInv
  OBVIOUS
<1>1. (CHOOSE k \in Keys : TRUE) \in Keys
  BY StoreAssumption
<1>2. \A k \in Keys :
          [op |-> "load", key |-> k, val |-> Absent, pc |-> "done",
           attempt |-> 0, read |-> Empty, res |-> "none", got |-> Absent]
              \in Call
  BY EmptyType, StoreAssumption DEF Call, Ops
<1>3. call \in [Clients -> Call]
  BY <1>1, <1>2 DEF Init
<1>4. StoreTypeOK
  BY <1>3, EmptyType, StoreAssumption DEF Init, StoreTypeOK
<1>5. \A c \in Clients : CallSound(c)
  BY DEF Init, CallSound, ResultHolds
<1> QED
  BY <1>4, <1>5 DEF Init, StoreInv

-----------------------------------------------------------------------------
(* What follows from it.                                                   *)

\* The invariant holds in every reachable state.
THEOREM StoreInvCorrect == Spec => []StoreInv
BY StoreInvInit, StoreInvStep, PTL DEF Spec

\* Every variable has its type, and no call is tried more often than allowed.
THEOREM StoreTypeCorrect == Spec => []StoreTypeOK
<1>1. StoreInv => StoreTypeOK
  BY DEF StoreInv
<1> QED
  BY <1>1, StoreInvCorrect, PTL

\* What a call returns was true at some moment while it ran, however late its
\* own and other clients' requests arrive.
THEOREM ResultsCorrect == Spec => []ResultsHold
<1>1. StoreInv => ResultsHold
  BY DEF StoreInv, CallSound, ResultsHold
<1> QED
  BY <1>1, StoreInvCorrect, PTL

\* What each step does to the object and to the requests for it: it is left
\* alone, or a request of its present version writes its own key.
LEMMA ObjectStep ==
    ASSUME StoreInv, [Next]_cmVars, cm.exists, cm'.exists
    PROVE  \/ UNCHANGED cm
           \/ \E u \in wire : /\ u.ver = cm.ver
                              /\ cm' = Applied(u)
                              /\ wire' = wire \ {u}
<1>1. ASSUME NEW c \in Clients, ClientNext(c) PROVE UNCHANGED cm
  BY <1>1 DEF ClientNext, Begin, Get, GetNotFound, GetFails, Update, Timeout
<1>2. ASSUME NEW u \in wire, Apply(u) \/ ApplyUnanswered(u)
      PROVE  u.ver = cm.ver /\ cm' = Applied(u) /\ wire' = wire \ {u}
  BY <1>2 DEF Apply, ApplyUnanswered, Accepts
<1>3. ASSUME NEW u \in wire, Refuse(u) PROVE UNCHANGED cm
  BY <1>3 DEF Refuse
<1>4. ~Remove
  BY DEF Remove, Empty
<1>5. CASE UNCHANGED cmVars
  BY <1>5 DEF cmVars
<1> QED
  BY <1>1, <1>2, <1>3, <1>4, <1>5 DEF Next

\* An update that is applied changes the value of its key only.
LEMMA AppliedValue ==
    ASSUME StoreInv, NEW u \in wire, u.ver = cm.ver, cm.exists,
           cm' = Applied(u)
    PROVE  /\ cm'.ver = cm.ver + 1 /\ cm'.exists /\ u.key \in Keys
           /\ cm'.data[u.key] = NewValue(u.op, u.val)
           /\ \A k \in Keys \ {u.key} : cm'.data[k] = cm.data[k]
           /\ Needed(u.op, u.val, cm, u.key)
<1>1. RequestFresh(u) /\ u \in Request /\ cm \in ConfigMap
  BY DEF StoreInv, StoreTypeOK
<1>2. u.data = [cm.data EXCEPT ![u.key] = NewValue(u.op, u.val)]
      /\ Needed(u.op, u.val, cm, u.key)
  BY <1>1 DEF RequestFresh
<1>3. cm'.ver = cm.ver + 1 /\ cm'.exists /\ cm'.data = u.data
  BY <1>1 DEF Applied, ConfigMap
<1>4. cm.data \in [Keys -> Values \cup {Absent}] /\ u.key \in Keys
  BY <1>1 DEF ConfigMap, Contents, Request
<1> QED
  BY <1>2, <1>3, <1>4

\* No Store or Delete ever changes another resource's bookmark, and a Delete
\* removes no bookmark but the one it was given.
THEOREM OnlyOwnBookmarkCorrect == Spec => OnlyOwnBookmark
<1> DEFINE Own ==
      cm.exists /\ cm'.exists =>
         \A k \in Keys : cm'.data[k] # cm.data[k] =>
            \E u \in wire : /\ u.key = k
                            /\ u.op = "store" => cm'.data[k] = u.val
                            /\ u.op = "delete" => /\ cm.data[k] = u.val
                                                  /\ cm'.data[k] = Absent
                            /\ \A j \in Keys \ {k} : cm'.data[j] = cm.data[j]
<1>1. StoreInv /\ [Next]_cmVars => [Own]_cmVars
  <2> SUFFICES ASSUME StoreInv, [Next]_cmVars, cm.exists, cm'.exists,
                      NEW k \in Keys, cm'.data[k] # cm.data[k]
               PROVE  \E u \in wire :
                        /\ u.key = k
                        /\ u.op = "store" => cm'.data[k] = u.val
                        /\ u.op = "delete" => /\ cm.data[k] = u.val
                                              /\ cm'.data[k] = Absent
                        /\ \A j \in Keys \ {k} : cm'.data[j] = cm.data[j]
    OBVIOUS
  <2>1. PICK u \in wire : u.ver = cm.ver /\ cm' = Applied(u)
    BY ObjectStep
  <2> QED
    BY <2>1, AppliedValue DEF NewValue, Needed
<1> QED
  BY <1>1, StoreInvCorrect, PTL DEF Spec, OnlyOwnBookmark

-----------------------------------------------------------------------------
(* The refinement: each key is a bookmark store.                           *)

\* What the steps do to the requests of the present version.
LEMMA OutstandingStep ==
    ASSUME StoreInv, [Next]_cmVars, cm.exists, cm'.exists, cm' = cm,
           NEW k \in Keys
    PROVE  \/ Outstanding(k)' = Outstanding(k)
           \/ \E v : /\ v # cm.data[k]
                     /\ Outstanding(k)' = Outstanding(k) \cup {v}
<1> DEFINE W(u) == IF u.op = "store" THEN u.val ELSE Absent
<1>0. cm.ver \in Nat /\ StoreTypeOK
  BY DEF StoreInv, StoreTypeOK, ConfigMap
<1>1. CASE wire' = wire
  BY <1>1 DEF Outstanding
<1>2. ASSUME NEW c \in Clients, Update(c)
      PROVE  \/ Outstanding(k)' = Outstanding(k)
             \/ \E v : /\ v # cm.data[k]
                       /\ Outstanding(k)' = Outstanding(k) \cup {v}
  <2> DEFINE t == call[c]
  <2>0. PICK u : u = [from |-> c, waiting |-> TRUE, op |-> t.op,
                      key |-> t.key, val |-> t.val, ver |-> t.read.ver,
                      data |-> [t.read.data EXCEPT ![t.key] =
                                   IF t.op = "store" THEN t.val ELSE Absent]]
    OBVIOUS
  <2>1. /\ wire' = wire \cup {u}
        /\ u.op = t.op /\ u.key = t.key /\ u.val = t.val
        /\ u.ver = t.read.ver
    BY <1>2, <2>0 DEF Update
  <2>2. CASE u.key = k /\ u.ver = cm.ver
    <3>1. Outstanding(k)' = Outstanding(k) \cup {W(u)}
      BY <2>1, <2>2 DEF Outstanding
    <3>2. Needed(t.op, t.val, cm, k)
      BY <1>2, <2>1, <2>2 DEF StoreInv, CallSound, Update, Needed
    <3>3. W(u) # cm.data[k]
      BY <2>1, <3>2, StoreAssumption DEF Needed, Absent
    <3> QED
      BY <3>1, <3>3
  <2>3. CASE ~(u.key = k /\ u.ver = cm.ver)
    BY <2>1, <2>3 DEF Outstanding
  <2> QED
    BY <2>2, <2>3
<1>3. ASSUME NEW c \in Clients, Timeout(c)
      PROVE  Outstanding(k)' = Outstanding(k)
  <2> DEFINE Left(u) == IF u.from = c THEN [u EXCEPT !.waiting = FALSE] ELSE u
  <2>1. wire' = {Left(u) : u \in wire}
    BY <1>3 DEF Timeout
  <2>2. ASSUME NEW u \in wire
        PROVE  /\ Left(u).op = u.op /\ Left(u).key = u.key
               /\ Left(u).val = u.val /\ Left(u).ver = u.ver
    <3>1. u \in Request
      BY <1>0 DEF StoreTypeOK
    <3> QED
      BY <3>1 DEF Request
  <2> HIDE DEF Left
  <2> QED
    BY <2>1, <2>2 DEF Outstanding
<1>4. ASSUME NEW u \in wire, Apply(u) \/ ApplyUnanswered(u) PROVE FALSE
  BY <1>0, <1>4, AppliedValue DEF Apply, ApplyUnanswered, Accepts
<1>5. ASSUME NEW u \in wire, Refuse(u)
      PROVE  Outstanding(k)' = Outstanding(k)
  <2>1. u.ver # cm.ver /\ wire' = wire \ {u}
    BY <1>5 DEF Refuse, Accepts
  <2> QED
    BY <2>1 DEF Outstanding
<1>6. ASSUME NEW c \in Clients, ClientNext(c), ~Update(c), ~Timeout(c)
      PROVE  wire' = wire
  BY <1>6 DEF ClientNext, Begin, Get, GetNotFound, GetFails
<1>7. CASE Remove \/ UNCHANGED cmVars
  BY <1>7, <1>1 DEF Remove, Empty, cmVars
<1> QED
  BY <1>1, <1>2, <1>3, <1>4, <1>5, <1>6, <1>7 DEF Next, ClientNext

\* As long as the ConfigMap is there, every step is, for each key, a step of
\* the bookmark store that the Readers rely on, or none.
THEOREM ImplementsStoreCorrect == Spec => ImplementsStore
<1> DEFINE Step == cm.exists /\ cm'.exists =>
                     \A k \in Keys : KeyStore(k)!StoreNext
                                       \/ UNCHANGED KeyStore(k)!storeVars
<1>1. Init => \A k \in Keys : KeyStore(k)!StoreInit
  BY DEF Init, Empty, Absent, Outstanding, KeyStore!StoreInit
<1>2. StoreInv /\ [Next]_cmVars => [Step]_cmVars
  <2> SUFFICES ASSUME StoreInv, [Next]_cmVars, cm.exists, cm'.exists,
                      NEW k \in Keys
               PROVE  KeyStore(k)!StoreNext \/ UNCHANGED KeyStore(k)!storeVars
    OBVIOUS
  <2>1. CASE cm' = cm
    BY <2>1, OutstandingStep
       DEF KeyStore!StoreNext, KeyStore!Asked, KeyStore!storeVars
  <2>2. CASE cm' # cm
    <3>1. PICK u \in wire : /\ u.ver = cm.ver /\ cm' = Applied(u)
                            /\ wire' = wire \ {u}
      BY <2>2, ObjectStep
    <3>2. /\ cm'.ver = cm.ver + 1 /\ u.key \in Keys
          /\ cm'.data[u.key] = NewValue(u.op, u.val)
          /\ \A j \in Keys \ {u.key} : cm'.data[j] = cm.data[j]
      BY <3>1, AppliedValue
    <3>3. Outstanding(k)' = {}
      <4>1. ASSUME NEW w \in wire PROVE w.ver # cm'.ver
        <5>1. w.ver <= cm.ver /\ w.ver \in Nat /\ cm.ver \in Nat
          BY DEF StoreInv, RequestFresh, StoreTypeOK, Request, ConfigMap
        <5> QED
          BY <3>2, <5>1
      <4> QED
        BY <3>1, <4>1 DEF Outstanding
    <3>4. CASE k = u.key
      <4>1. NewValue(u.op, u.val) \in Outstanding(k)
        BY <3>1, <3>4 DEF Outstanding, NewValue
      <4> QED
        BY <3>2, <3>3, <3>4, <4>1
           DEF KeyStore!StoreNext, KeyStore!Land, KeyStore!Written
    <3>5. CASE k # u.key
      BY <3>2, <3>3, <3>5 DEF KeyStore!StoreNext, KeyStore!Forget
    <3> QED
      BY <3>4, <3>5
  <2> QED
    BY <2>1, <2>2
<1> QED
  BY <1>1, <1>2, StoreInvCorrect, PTL DEF Spec, ImplementsStore

=============================================================================

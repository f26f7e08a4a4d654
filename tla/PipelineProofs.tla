---------------------------- MODULE PipelineProofs ----------------------------
(***************************************************************************)
(* What becomes of every entry on its way through the pipeline, for any    *)
(* number of Readers, entries and processors and any capacities.           *)
(*                                                                         *)
(* The way an entry takes is a row of places, 1 the input channel and 6    *)
(* the hand of the router.  The entries of one Reader lie on it in the     *)
(* order they were sent, the oldest first to come out, and a step moves    *)
(* one entry past empty places only.                                       *)
(***************************************************************************)
EXTENDS Pipeline, FiniteSetTheorems, SequenceTheorems, TLAPS

Elems(s) == {s[i] : i \in 1..Len(s)}

\* The places, last to first.
At == [k \in 1..6 |->
         CASE k = 1 -> Elems(chan["in"].buf)
           [] k = 2 -> hand["preprocess"]
           [] k = 3 -> Elems(chan["secrets"].buf)
           [] k = 4 -> hand["safety"]
           [] k = 5 -> Elems(chan["router"].buf)
           [] k = 6 -> hand["router"]]

\* d was sent before e, if they are of the same Reader.
Before(d, e) == d.from = e.from => d.n < e.n

Increasing(s) == \A i, j \in 1..Len(s) : i < j => Before(s[i], s[j])

Routes == Elems(router.routes)

\* The router has dealt with p, as to the entry in its hand.
Done(p) == \E i \in 1..Len(router.routes) :
              i < router.i /\ router.routes[i] = p

Pair(e) == <<e.from, e.n>>

SentPairs == {q \in Readers \X (1..MaxEntries) : q[2] <= sent[q[1]]}

\* The router runs once Start has succeeded, with the routes there were then,
\* each of them once; it holds an entry exactly while it pushes one.
RouterSound ==
    /\ router.pc = "new" <=> start.pc # "started"
    /\ router.pc # "new" => router.routes # <<>>
    /\ \A i, j \in 1..Len(router.routes) :
          router.routes[i] = router.routes[j] => i = j
    /\ router.i \in Nat \ {0}
    /\ router.pc = "push" => /\ router.i \in 1..Len(router.routes)
                             /\ hand["router"] # Nothing
    /\ router.pc # "push" => hand["router"] = Nothing
    /\ start.pc = "run" => start.i \in Nat \ {0}
    /\ router.pc = "new" => \A p \in Processors : got[p] = <<>>
                                                  /\ chan[p].buf = <<>>
                                                  /\ dropped[p] = 0
                                                  /\ ~chan[p].closed

\* A stage holds one entry at most.
OneInHand ==
    \A s \in Stages : hand[s] = Nothing \/ \E e \in Entry : hand[s] = {e}

BaseInv == TypeOK /\ OneInHand /\ RouterSound

\* Past the scrubber, entries are scrubbed.
Scrubbed ==
    /\ \A e \in At[5] \cup At[6] : e.scrubbed
    /\ \A p \in Processors : \A e \in Elems(Delivered(p)) : e.scrubbed

\* The entries of a Reader lie on the way in the order it sent them, ...
FlowOrdered ==
    /\ \A k, l \in 1..6 : k < l =>
          \A e \in At[k], d \in At[l] : Before(d, e)
    /\ \A c \in {"in", "secrets", "router"} : Increasing(chan[c].buf)
    /\ \A k \in 1..6 : \A e \in At[k] : e.n <= sent[e.from]
    /\ ~opts.pre => At[2] = {} /\ At[3] = {}

\* ... those that have come out before those that have not.
OutOrdered ==
    \A p \in Processors :
        /\ Increasing(Delivered(p))
        /\ \A d \in Elems(Delivered(p)) :
              /\ d.n <= sent[d.from]
              /\ \A k \in 1..5 : \A e \in At[k] : Before(d, e)
              /\ ~Done(p) => \A e \in At[6] : Before(d, e)

OrderInv == BaseInv /\ Scrubbed /\ FlowOrdered /\ OutOrdered

\* The first n places are empty.
Idle(n) == \A k \in 1..n : At[k] = {}

\* Nothing is left before a channel that is closed.
ClosedDrained ==
    /\ chan["in"].closed =>
          /\ start.pc = "started"
          /\ \A r \in Readers : reader[r] \notin {"running", "again"}
    /\ chan["secrets"].closed => chan["in"].closed /\ Idle(2)
    /\ chan["router"].closed => chan["in"].closed /\ Idle(4)
    /\ \A p \in Processors : chan[p].closed =>
          p \in Routes /\ router.pc = "ended" /\ chan["in"].closed /\ Idle(5)

PairsIn(A, n) == {Pair(e) : e \in UNION {A[m] : m \in 1..n}}

\* The entries still on their way to p.
FlowTo(p) == PairsIn(At, IF Done(p) THEN 5 ELSE 6)

DeliveredTo(p) == {Pair(e) : e \in Elems(Delivered(p))}

\* What was sent and is not accounted for in another way.
Missed(p) ==
    SentPairs \ (rejected \cup Stolen \cup (DeliveredTo(p) \cup FlowTo(p)))

\* The preprocessors of a failed New hold no entry twice.
LeakedApart ==
    \A e \in hand["leaked"], d \in Elems(chan["leaked"].buf) : Pair(e) # Pair(d)

\* An entry that was refused or stolen is nowhere else; the others p has not
\* got and will not get are those that were dropped.
Accounted ==
    /\ rejected \cup Stolen \subseteq SentPairs
    /\ rejected \cap Stolen = {}
    /\ PairsIn(At, 6) \cap (rejected \cup Stolen) = {}
    /\ ~opts.leaked => Stolen = {}
    /\ LeakedApart
    /\ opts.blocking => \A p \in Processors : dropped[p] = 0
    /\ \A p \in Processors : DeliveredTo(p) \cap (rejected \cup Stolen) = {}
    /\ \A p \in Processors : p \in Routes \/ router.pc = "new" =>
          IsFiniteSet(Missed(p)) /\ Cardinality(Missed(p)) = dropped[p]

PipelineInv == OrderInv /\ ClosedDrained /\ Accounted

-----------------------------------------------------------------------------
(* Sequences of entries.                                                   *)

\* The elements of a sequence of entries.
LEMMA ElemsOf ==
    ASSUME NEW s \in Seq(Entry)
    PROVE  Elems(s) \subseteq Entry /\ (Elems(s) = {} <=> s = <<>>)
  BY DEF Elems

\* The head of a channel in order is sent before what is behind it.
LEMMA TailElems ==
    ASSUME NEW s \in Seq(Entry), s # <<>>, Increasing(s)
    PROVE  /\ Head(s) \in Elems(s)
           /\ Tail(s) \in Seq(Entry)
           /\ Elems(Tail(s)) = Elems(s) \ {Head(s)}
           /\ Increasing(Tail(s))
           /\ \A d \in Elems(s) : d # Head(s) => Before(Head(s), d)
           /\ Len(Tail(s)) = Len(s) - 1
<1>1. /\ Len(s) \in Nat \ {0} /\ Head(s) = s[1]
      /\ Tail(s) \in Seq(Entry) /\ Len(Tail(s)) = Len(s) - 1
      /\ \A i \in 1..Len(Tail(s)) : Tail(s)[i] = s[i + 1]
  BY HeadTailProperties, EmptySeq
<1>2. \A i \in 1..Len(s) : i # 1 => s[i] # s[1] /\ Before(s[1], s[i])
  <2> SUFFICES ASSUME NEW i \in 1..Len(s), i # 1
               PROVE  s[i] # s[1] /\ Before(s[1], s[i])
    OBVIOUS
  <2>1. Before(s[1], s[i])
    BY <1>1 DEF Increasing
  <2>2. s[1].n \in Nat
    <3>1. s[1] \in Entry
      BY <1>1
    <3> QED
      BY <3>1, PipelineAssumption DEF Entry
  <2> QED
    BY <2>1, <2>2 DEF Before
<1>3. Elems(Tail(s)) \subseteq Elems(s) \ {Head(s)}
  BY <1>1, <1>2 DEF Elems
<1>4. ASSUME NEW d \in Elems(s), d # Head(s)
      PROVE  d \in Elems(Tail(s)) /\ Before(Head(s), d)
  <2>1. PICK i \in 1..Len(s) : s[i] = d
    BY <1>4 DEF Elems
  <2>2. i # 1 /\ i - 1 \in 1..Len(Tail(s)) /\ Tail(s)[i - 1] = s[i]
    BY <1>1, <1>4, <2>1
  <2> QED
    BY <1>1, <1>2, <2>1, <2>2 DEF Elems
<1>5. Increasing(Tail(s))
  BY <1>1 DEF Increasing
<1>6. Head(s) \in Elems(s)
  BY <1>1 DEF Elems
<1> QED
  BY <1>1, <1>3, <1>4, <1>5, <1>6

\* An entry sent after all others keeps a channel in order.
LEMMA AppendElems ==
    ASSUME NEW s \in Seq(Entry), NEW e \in Entry
    PROVE  /\ Append(s, e) \in Seq(Entry)
           /\ Len(Append(s, e)) = Len(s) + 1
           /\ Elems(Append(s, e)) = Elems(s) \cup {e}
           /\ Increasing(s) /\ (\A d \in Elems(s) : Before(d, e)) =>
                 Increasing(Append(s, e))
<1> DEFINE t == Append(s, e)
<1>1. /\ t \in Seq(Entry) /\ Len(t) = Len(s) + 1 /\ Len(s) \in Nat
      /\ \A i \in 1..Len(s) : t[i] = s[i]
      /\ t[Len(s) + 1] = e
  OBVIOUS
<1> HIDE DEF t
<1>2. \A i \in 1..Len(t) : i \in 1..Len(s) \/ i = Len(s) + 1
  BY <1>1
<1>3. Len(s) + 1 \in 1..Len(t) /\ 1..Len(s) \subseteq 1..Len(t)
  BY <1>1
<1>4. Elems(t) = Elems(s) \cup {e}
  BY <1>1, <1>2, <1>3 DEF Elems
<1>5. ASSUME Increasing(s), \A d \in Elems(s) : Before(d, e)
      PROVE  Increasing(t)
  <2>1. ASSUME NEW i \in 1..Len(t), NEW j \in 1..Len(t), i < j
        PROVE  Before(t[i], t[j])
    <3>1. i \in 1..Len(s)
      BY <1>1, <2>1
    <3>2. CASE j \in 1..Len(s)
      BY <1>1, <1>5, <2>1, <3>1, <3>2 DEF Increasing
    <3>3. CASE j = Len(s) + 1
      BY <1>1, <1>5, <3>1, <3>3 DEF Elems
    <3> QED
      BY <1>2, <3>2, <3>3
  <2> QED
    BY <2>1 DEF Increasing
<1> QED
  BY <1>1, <1>4, <1>5 DEF t

\* A processor that reads its channel does not change what it was given.
LEMMA ConsumedSame ==
    ASSUME NEW g \in Seq(Entry), NEW b \in Seq(Entry), b # <<>>
    PROVE  Append(g, Head(b)) \o Tail(b) = g \o b
<1> DEFINE h == Append(g, Head(b))
<1>1. /\ Len(b) \in Nat \ {0} /\ Head(b) = b[1] /\ Head(b) \in Entry
      /\ Tail(b) \in Seq(Entry) /\ Len(Tail(b)) = Len(b) - 1
      /\ \A i \in 1..Len(Tail(b)) : Tail(b)[i] = b[i + 1]
  BY HeadTailProperties, EmptySeq
<1>2. /\ h \in Seq(Entry) /\ Len(h) = Len(g) + 1
      /\ \A i \in 1..Len(g) : h[i] = g[i]
      /\ h[Len(g) + 1] = b[1]
  BY <1>1
<1> HIDE DEF h
<1>3. /\ h \o Tail(b) \in Seq(Entry) /\ g \o b \in Seq(Entry)
      /\ Len(h \o Tail(b)) = Len(g) + Len(b)
      /\ Len(g \o b) = Len(g) + Len(b)
  <2>1. Len(g) \in Nat /\ Len(h) + Len(Tail(b)) = Len(g) + Len(b)
    BY <1>1, <1>2
  <2>2. h \o Tail(b) \in Seq(Entry) /\ Len(h \o Tail(b)) = Len(h) + Len(Tail(b))
    BY <1>1, <1>2, ConcatProperties
  <2>3. g \o b \in Seq(Entry) /\ Len(g \o b) = Len(g) + Len(b)
    BY ConcatProperties
  <2> QED
    BY <2>1, <2>2, <2>3
<1>4. ASSUME NEW i \in 1..(Len(g) + Len(b))
      PROVE  (h \o Tail(b))[i] = (g \o b)[i]
  <2>1. /\ (h \o Tail(b))[i] = IF i <= Len(h) THEN h[i] ELSE Tail(b)[i - Len(h)]
        /\ (g \o b)[i] = IF i <= Len(g) THEN g[i] ELSE b[i - Len(g)]
    BY <1>1, <1>2, <1>3, ConcatProperties
  <2>2. CASE i <= Len(g)
    BY <1>2, <2>1, <2>2
  <2>3. CASE i = Len(g) + 1
    BY <1>2, <2>1, <2>3
  <2>4. CASE i > Len(g) + 1
    <3>1. /\ ~(i <= Len(h)) /\ ~(i <= Len(g))
          /\ i - Len(h) \in 1..Len(Tail(b))
          /\ (i - Len(h)) + 1 = i - Len(g)
      BY <1>1, <1>2, <2>4
    <3> QED
      BY <1>1, <2>1, <3>1
  <2> QED
    <3>1. i <= Len(g) \/ i = Len(g) + 1 \/ i > Len(g) + 1
      OBVIOUS
    <3> QED
      BY <2>2, <2>3, <2>4, <3>1
<1> QED
  BY <1>3, <1>4, SeqEqual DEF h

\* ... and a route that takes an entry appends it.
LEMMA PushedAppends ==
    ASSUME NEW g \in Seq(Entry), NEW b \in Seq(Entry), NEW e \in Entry
    PROVE  g \o Append(b, e) = Append(g \o b, e)
<1>1. Append(b, e) = b \o <<e>> /\ Append(g \o b, e) = (g \o b) \o <<e>>
  OBVIOUS
<1> QED
  BY <1>1, ConcatAssociative

-----------------------------------------------------------------------------
(* The way.                                                                *)

Way == [1..6 -> SUBSET Entry]

InRow(A) == \A k, l \in 1..6 : k < l =>
               \A e \in A[k], d \in A[l] : Before(d, e)

\* From A to B, the entry e of place k, which the others there follow, goes on
\* to place l, past empty places, and is f there.
Moved(A, B, k, l, e, f) ==
    /\ k < l
    /\ e \in A[k] /\ f \in Entry /\ f.from = e.from /\ f.n = e.n
    /\ \A d \in A[k] : d # e => Before(e, d)
    /\ \A m \in 1..6 : k < m /\ m < l => A[m] = {}
    /\ B[k] = A[k] \ {e}
    /\ B[l] = A[l] \cup {f}
    /\ \A m \in 1..6 \ {k, l} : B[m] = A[m]

\* An entry that moves on past empty places keeps its turn.
LEMMA MovedInRow ==
    ASSUME NEW A \in Way, NEW B \in Way, InRow(A),
           NEW k \in 1..6, NEW l \in 1..6, NEW e, NEW f, Moved(A, B, k, l, e, f)
    PROVE  InRow(B)
<1> SUFFICES ASSUME NEW i \in 1..6, NEW j \in 1..6, i < j,
                    NEW x \in B[i], NEW y \in B[j]
             PROVE  Before(y, x)
  BY DEF InRow
<1>1. \A m \in 1..6 : m # l => B[m] \subseteq A[m]
  BY DEF Moved
<1>2. CASE x = f /\ i = l
  <2>1. k < j /\ y \in A[j]
    BY <1>1, <1>2 DEF Moved
  <2>2. Before(y, e)
    BY <2>1 DEF InRow, Moved
  <2> QED
    BY <1>2, <2>2 DEF Before, Moved
<1>3. CASE y = f /\ j = l
  <2>1. x \in A[i] /\ (i = k => x # e) /\ (i < k \/ i = k)
    BY <1>1, <1>3 DEF Moved
  <2>2. Before(e, x)
    <3>1. CASE i = k
      BY <2>1, <3>1 DEF Moved
    <3>2. CASE i < k
      BY <2>1, <3>2 DEF InRow, Moved
    <3> QED
      BY <2>1, <3>1, <3>2
  <2> QED
    BY <1>3, <2>2 DEF Before, Moved
<1>4. CASE ~(x = f /\ i = l) /\ ~(y = f /\ j = l)
  <2>1. x \in A[i] /\ y \in A[j]
    BY <1>1, <1>4 DEF Moved
  <2> QED
    BY <2>1 DEF InRow
<1> QED
  BY <1>2, <1>3, <1>4

\* An entry that leaves the way disturbs nobody.
LEMMA LessInRow ==
    ASSUME NEW A \in Way, NEW B \in Way, InRow(A),
           \A m \in 1..6 : B[m] \subseteq A[m]
    PROVE  InRow(B)
  BY DEF InRow

\* The places by number.
LEMMA AtFacts ==
    /\ At[1] = Elems(chan["in"].buf)
    /\ At[2] = hand["preprocess"]
    /\ At[3] = Elems(chan["secrets"].buf)
    /\ At[4] = hand["safety"]
    /\ At[5] = Elems(chan["router"].buf)
    /\ At[6] = hand["router"]
    /\ At = [k \in 1..6 |-> At[k]]
  BY DEF At

\* Each place holds entries.
LEMMA AtType == ASSUME TypeOK PROVE At \in Way
<1>1. \A c \in Links : chan[c].buf \in Seq(Entry)
  BY DEF TypeOK, Channel
<1>2. \A c \in Links : Elems(chan[c].buf) \subseteq Entry
  BY <1>1, ElemsOf
<1>3. \A k \in 1..6 : At[k] \subseteq Entry
  BY <1>2 DEF At, TypeOK, Links, Stages
<1> QED
  BY <1>3 DEF At, Way

\* The same, one step later.
LEMMA AtTypeNext == ASSUME TypeOK' PROVE At' \in Way
<1>1. \A c \in Links : chan'[c].buf \in Seq(Entry)
  BY DEF TypeOK, Channel
<1>2. \A c \in Links : Elems(chan'[c].buf) \subseteq Entry
  BY <1>1, ElemsOf
<1>3. \A k \in 1..6 : At'[k] \subseteq Entry
  BY <1>2 DEF At, TypeOK, Links, Stages
<1> QED
  BY <1>3 DEF At, Way

\* The buffer of one channel changes.
LEMMA BufStep ==
    ASSUME TypeOK, NEW c \in Links \cup Processors, NEW b \in Seq(Entry),
           chan' = [chan EXCEPT ![c].buf = b], Len(b) <= Cap(c)
    PROVE  /\ chan' \in [Links \cup Processors -> Channel]
           /\ \A d \in DOMAIN chan' : Len(chan'[d].buf) <= Cap(d)
           /\ chan'[c].buf = b /\ chan'[c].closed = chan[c].closed
           /\ \A d \in Links \cup Processors : d # c => chan'[d] = chan[d]
           /\ \A d \in Links \cup Processors : chan'[d].closed = chan[d].closed
<1>1. chan \in [Links \cup Processors -> Channel]
  BY DEF TypeOK
<1>2. chan[c] \in Channel /\ chan'[c] = [chan[c] EXCEPT !.buf = b]
  BY <1>1
<1>3. chan'[c] \in Channel /\ chan'[c].buf = b /\ chan'[c].closed = chan[c].closed
  BY <1>2 DEF Channel
<1>4. \A d \in Links \cup Processors : d # c => chan'[d] = chan[d]
  BY <1>1
<1>5. DOMAIN chan' = Links \cup Processors /\ DOMAIN chan = Links \cup Processors
  BY <1>1
<1>6. chan' \in [Links \cup Processors -> Channel]
  BY <1>1, <1>3, <1>4
<1>7. \A d \in DOMAIN chan' : Len(chan'[d].buf) <= Cap(d)
  <2> SUFFICES ASSUME NEW d \in DOMAIN chan' PROVE Len(chan'[d].buf) <= Cap(d)
    OBVIOUS
  <2>1. Cap(d)' = Cap(d)
    BY DEF Cap
  <2> QED
    BY <1>3, <1>4, <1>5 DEF TypeOK
<1> QED
  BY <1>3, <1>4, <1>6, <1>7

-----------------------------------------------------------------------------
(* Types, hands and the router: each action keeps BaseInv.                 *)

\* A hand holds one entry at most.
LEMMA HandCardinality ==
    ASSUME NEW H, H = {} \/ \E e \in Entry : H = {e}
    PROVE  Cardinality(H) <= 1
<1>1. CASE H = {}
  BY <1>1, FS_EmptySet
<1>2. CASE \E e \in Entry : H = {e}
  BY <1>2, FS_Singleton
<1> QED
  BY <1>1, <1>2

\* Every channel has room for an entry.
LEMMA CapNat == ASSUME NEW c PROVE Cap(c) \in Nat \ {0}
  BY PipelineAssumption DEF Cap

\* The set-up calls and those that touch no channel.
LEMMA CallsBase ==
    ASSUME BaseInv,
           \/ \E r \in Readers : AddReader(r) \/ CloseReader(r)
           \/ \E p \in Processors : AddProcessor(p)
           \/ CallStart \/ StartReader \/ StartRouter
    PROVE  BaseInv'
<1> USE PipelineAssumption DEF BaseInv, OneInHand, RouterSound
<1>0. /\ Links \cup Processors = DOMAIN chan
      /\ chan \in [Links \cup Processors -> Channel]
      /\ reader \in [Readers -> {"new", "out", "running", "again", "closed"}]
      /\ added \in Seq(Readers)
      /\ start \in [pc : {"idle", "run", "started"}, i : Nat, n : 0..MaxStarts]
      /\ router \in Router
  BY DEF TypeOK
<1>1. ASSUME UNCHANGED <<opts, chan, hand, dropped, sent, rejected, got>>,
             reader' \in [Readers -> {"new", "out", "running", "again", "closed"}],
             added' \in Seq(Readers),
             start' \in [pc : {"idle", "run", "started"}, i : Nat,
                         n : 0..MaxStarts],
             router' \in Router
      PROVE  TypeOK'
  BY <1>1 DEF TypeOK, Cap
<1>2. ASSUME NEW r \in Readers, AddReader(r) PROVE BaseInv'
  <2>1. /\ reader' \in [Readers -> {"new", "out", "running", "again", "closed"}]
        /\ added' \in Seq(Readers)
        /\ UNCHANGED <<opts, flowVars, start, sent>>
    <3>1. CASE start.pc = "started"
      <4>1. PICK ok \in BOOLEAN :
               /\ reader' = [reader EXCEPT ![r] = IF ok THEN "running" ELSE "out"]
               /\ added' = IF ok THEN Append(added, r) ELSE added
        BY <1>2, <3>1 DEF AddReader
      <4> QED
        BY <1>0, <1>2, <4>1 DEF AddReader
    <3>2. CASE start.pc # "started"
      <4>1. /\ reader' = [reader EXCEPT ![r] = "out"]
            /\ added' = Append(added, r)
        BY <1>2, <3>2 DEF AddReader
      <4> QED
        BY <1>0, <1>2, <4>1 DEF AddReader
    <3> QED
      BY <3>1, <3>2
  <2> QED
    BY <1>0, <1>1, <2>1 DEF flowVars
<1>3. ASSUME NEW r \in Readers, CloseReader(r) PROVE BaseInv'
  <2>1. /\ reader' \in [Readers -> {"new", "out", "running", "again", "closed"}]
        /\ UNCHANGED <<opts, flowVars, added, start, sent>>
    BY <1>0, <1>3 DEF CloseReader
  <2> QED
    BY <1>0, <1>1, <2>1 DEF flowVars
<1>4. ASSUME NEW p \in Processors, AddProcessor(p) PROVE BaseInv'
  <2>1. /\ router' \in Router /\ router'.pc = router.pc /\ router'.i = router.i
        /\ router'.routes = Append(router.routes, p)
        /\ router.pc = "new"
        /\ \A i \in 1..Len(router.routes) : router.routes[i] # p
        /\ router.routes \in Seq(Processors)
        /\ UNCHANGED <<opts, chan, hand, dropped, callVars, sent, rejected, got>>
    <3>1. /\ router' = [router EXCEPT !.routes = Append(router.routes, p)]
          /\ router.routes \in Seq(Processors)
          /\ Append(router.routes, p) \in Seq(Processors)
      BY <1>0, <1>4 DEF AddProcessor, Router
    <3>2. /\ router' \in Router /\ router'.pc = router.pc /\ router'.i = router.i
          /\ router'.routes = Append(router.routes, p)
      BY <1>0, <3>1 DEF Router
    <3> QED
      BY <1>4, <3>1, <3>2 DEF AddProcessor
  <2>2. \A i, j \in 1..Len(router'.routes) :
           router'.routes[i] = router'.routes[j] => i = j
    BY <2>1
  <2> QED
    BY <1>0, <1>1, <2>1, <2>2 DEF callVars
<1>5. CASE CallStart
  <2>1. /\ start' \in [pc : {"idle", "run", "started"}, i : Nat, n : 0..MaxStarts]
        /\ start.pc = "idle" /\ start'.pc = "run" /\ start'.i = 1
        /\ UNCHANGED <<opts, flowVars, reader, added, sent>>
    <3>1. PICK k \in 0..MaxStarts : k = start.n + 1
      BY <1>0, <1>5 DEF CallStart
    <3> QED
      BY <1>0, <1>5, <3>1 DEF CallStart
  <2> QED
    BY <1>0, <1>1, <2>1 DEF flowVars
<1>6. CASE StartReader
  <2>1. /\ start' \in [pc : {"idle", "run", "started"}, i : Nat, n : 0..MaxStarts]
        /\ start.pc = "run" /\ start'.pc \in {"idle", "run"}
        /\ start'.pc = "run" => start'.i = start.i + 1
        /\ reader' \in [Readers -> {"new", "out", "running", "again", "closed"}]
        /\ UNCHANGED <<opts, flowVars, added, sent>>
    <3>1. PICK k \in Nat : k = start.i + 1
      BY <1>0
    <3>2. added[start.i] \in Readers
      BY <1>0, <1>6 DEF StartReader
    <3> QED
      BY <1>0, <1>6, <3>1, <3>2 DEF StartReader, RunReader
  <2> QED
    BY <1>0, <1>1, <2>1 DEF flowVars
<1>7. CASE StartRouter
  <2>1. /\ start' \in [pc : {"idle", "run", "started"}, i : Nat, n : 0..MaxStarts]
        /\ router' \in Router /\ router'.routes = router.routes
        /\ router'.i = router.i /\ start.pc = "run"
        /\ \/ router' = router /\ start'.pc = "idle"
           \/ router'.pc = "range" /\ start'.pc = "started"
                                    /\ router.routes # <<>>
        /\ UNCHANGED <<opts, chan, hand, dropped, reader, added, sent, rejected,
                       got>>
    BY <1>0, <1>7 DEF StartRouter, Router
  <2> QED
    BY <1>0, <1>1, <2>1
<1> QED
  BY <1>2, <1>3, <1>4, <1>5, <1>6, <1>7

\* What every other action leaves alone, and what is left to be shown of it.
LEMMA FlowBase ==
    ASSUME BaseInv, UNCHANGED <<opts, callVars>>,
           chan' \in [Links \cup Processors -> Channel],
           \A c \in DOMAIN chan' : Len(chan'[c].buf) <= Cap(c),
           hand' \in [Stages -> SUBSET Entry], OneInHand',
           router' \in Router, RouterSound',
           dropped' \in [Processors -> Nat],
           sent' \in [Readers -> 0..MaxEntries],
           rejected' \subseteq Readers \X (1..MaxEntries),
           got' \in [Processors -> Seq(Entry)]
    PROVE  BaseInv'
<1>1. \A s \in Stages : Cardinality(hand'[s]) <= 1
  BY HandCardinality DEF OneInHand, Nothing
<1> QED
  BY <1>1 DEF BaseInv, TypeOK, Cap, callVars

\* What BaseInv says of each variable.
LEMMA BaseTypes ==
    ASSUME BaseInv
    PROVE  /\ opts \in [blocking : BOOLEAN, pre : BOOLEAN, leaked : BOOLEAN]
           /\ chan \in [Links \cup Processors -> Channel]
           /\ \A c \in Links \cup Processors : /\ chan[c] \in Channel
                                             /\ chan[c].buf \in Seq(Entry)
                                             /\ chan[c].closed \in BOOLEAN
                                             /\ Len(chan[c].buf) <= Cap(c)
           /\ hand \in [Stages -> SUBSET Entry]
           /\ router \in Router
           /\ router.routes \in Seq(Processors) /\ router.i \in Nat \ {0}
           /\ dropped \in [Processors -> Nat]
           /\ sent \in [Readers -> 0..MaxEntries]
           /\ rejected \subseteq Readers \X (1..MaxEntries)
           /\ got \in [Processors -> Seq(Entry)]
           /\ Links \cap Processors = {}
  BY PipelineAssumption
     DEF BaseInv, TypeOK, Channel, Router, RouterSound, Links

\* What Produce does.
LEMMA ProduceEffect ==
    ASSUME BaseInv, NEW r \in Readers, Produce(r)
    PROVE  \E e \in Entry :
             /\ e.from = r /\ e.n = sent[r] + 1
             /\ sent' = [sent EXCEPT ![r] = sent[r] + 1]
             /\ chan'["in"].buf = Append(chan["in"].buf, e)
             /\ \A c \in Links \cup Processors : c # "in" => chan'[c] = chan[c]
             /\ chan'["in"].closed = chan["in"].closed
             /\ BaseInv'
<1>1. PICK k \in 1..MaxEntries : k = sent[r] + 1
  BY BaseTypes, PipelineAssumption DEF Produce
<1>2. PICK e : e = [from |-> r, n |-> k, scrubbed |-> FALSE]
  OBVIOUS
<1>3. e \in Entry /\ e.from = r /\ e.n = k
  BY <1>2 DEF Entry
<1>4. /\ chan' = [chan EXCEPT !["in"].buf = Append(chan["in"].buf, e)]
      /\ sent' = [sent EXCEPT ![r] = k]
      /\ Len(chan["in"].buf) < Cap("in")
      /\ UNCHANGED <<opts, hand, router, dropped, callVars, rejected, got>>
  BY <1>1, <1>2 DEF Produce, Room
<1>5. /\ Append(chan["in"].buf, e) \in Seq(Entry)
      /\ Len(Append(chan["in"].buf, e)) <= Cap("in")
      /\ "in" \in Links
  BY <1>3, <1>4, BaseTypes, AppendElems, CapNat DEF Links
<1>6. /\ chan' \in [Links \cup Processors -> Channel]
      /\ \A d \in DOMAIN chan' : Len(chan'[d].buf) <= Cap(d)
      /\ chan'["in"].buf = Append(chan["in"].buf, e)
      /\ chan'["in"].closed = chan["in"].closed
      /\ \A d \in Links \cup Processors : d # "in" => chan'[d] = chan[d]
  BY <1>4, <1>5, BufStep DEF BaseInv
<1>7. sent' \in [Readers -> 0..MaxEntries]
  BY <1>1, <1>4, BaseTypes
<1>8. OneInHand' /\ RouterSound'
  BY <1>4, <1>6, BaseTypes DEF BaseInv, OneInHand, RouterSound, callVars, Links
<1>9. BaseInv'
  BY <1>4, <1>6, <1>7, <1>8, BaseTypes, FlowBase
<1> QED
  BY <1>1, <1>3, <1>4, <1>6, <1>9

\* What Consume does: the processor has been given the same entries.
LEMMA ConsumeEffect ==
    ASSUME BaseInv, NEW p \in Processors, Consume(p)
    PROVE  /\ \A c \in Links \cup Processors : c # p => chan'[c] = chan[c]
           /\ \A c \in Links \cup Processors : chan'[c].closed = chan[c].closed
           /\ \A q \in Processors : Delivered(q)' = Delivered(q)
           /\ BaseInv'
<1>1. /\ chan' = [chan EXCEPT ![p].buf = Tail(chan[p].buf)]
      /\ got' = [got EXCEPT ![p] = Append(got[p], Head(chan[p].buf))]
      /\ chan[p].buf # <<>>
      /\ UNCHANGED <<opts, hand, router, dropped, callVars, sent, rejected>>
  BY DEF Consume
<1>2. /\ Head(chan[p].buf) \in Entry
      /\ Tail(chan[p].buf) \in Seq(Entry)
      /\ Len(Tail(chan[p].buf)) <= Cap(p)
  BY <1>1, BaseTypes, HeadTailProperties, CapNat
<1>3. /\ chan' \in [Links \cup Processors -> Channel]
      /\ \A d \in DOMAIN chan' : Len(chan'[d].buf) <= Cap(d)
      /\ chan'[p].buf = Tail(chan[p].buf)
      /\ \A d \in Links \cup Processors : d # p => chan'[d] = chan[d]
      /\ \A d \in Links \cup Processors : chan'[d].closed = chan[d].closed
  BY <1>1, <1>2, BufStep DEF BaseInv
<1>4. got' \in [Processors -> Seq(Entry)]
  BY <1>1, <1>2, BaseTypes
<1>5. \A q \in Processors : Delivered(q)' = Delivered(q)
  <2>1. Delivered(p)' = Delivered(p)
    <3>1. /\ got[p] \in Seq(Entry) /\ chan[p].buf \in Seq(Entry)
          /\ got'[p] = Append(got[p], Head(chan[p].buf))
      BY <1>1, BaseTypes
    <3>2. Append(got[p], Head(chan[p].buf)) \o Tail(chan[p].buf)
            = got[p] \o chan[p].buf
      BY <1>1, <3>1, ConsumedSame
    <3> QED
      BY <1>3, <3>1, <3>2 DEF Delivered
  <2>2. \A q \in Processors : q # p => Delivered(q)' = Delivered(q)
    BY <1>1, <1>3, BaseTypes DEF Delivered
  <2> QED
    BY <2>1, <2>2
<1>6. router.pc # "new"
  BY <1>1 DEF BaseInv, RouterSound
<1>7. OneInHand' /\ RouterSound'
  BY <1>1, <1>6 DEF BaseInv, OneInHand, RouterSound, callVars
<1>8. BaseInv'
  BY <1>1, <1>3, <1>4, <1>7, BaseTypes, FlowBase
<1> QED
  BY <1>3, <1>5, <1>8

\* The channel a stage reads and the one it writes.
LEMMA LinksOf ==
    /\ \A s \in Stages : Source(s) \in Links
    /\ \A s \in {"preprocess", "leaked", "safety"} : s \in Stages /\ Sink(s) \in Links
  BY DEF Stages, Links, Source, Sink

\* What Take does.
LEMMA TakeEffect ==
    ASSUME BaseInv, NEW s \in Stages, Take(s)
    PROVE  LET c == Source(s) IN
           /\ chan[c].buf # <<>> /\ hand[s] = Nothing /\ Runs(s)
           /\ hand' = [hand EXCEPT ![s] = {Head(chan[c].buf)}]
           /\ chan'[c].buf = Tail(chan[c].buf)
           /\ \A d \in Links \cup Processors : d # c => chan'[d] = chan[d]
           /\ \A d \in Links \cup Processors : chan'[d].closed = chan[d].closed
           /\ s # "router" => router' = router
           /\ s = "router" => /\ router.pc = "range" /\ router'.pc = "push"
                              /\ router'.i = 1 /\ router'.routes = router.routes
           /\ BaseInv'
<1> DEFINE c == Source(s)
           e == Head(chan[c].buf)
<1>1. c \in Links
  BY LinksOf
<1>2. /\ chan[c].buf # <<>> /\ hand[s] = Nothing /\ Runs(s)
      /\ s = "router" => router.pc = "range"
      /\ hand' = [hand EXCEPT ![s] = {e}]
      /\ chan' = [chan EXCEPT ![c].buf = Tail(chan[c].buf)]
      /\ s # "router" => router' = router
      /\ s = "router" => router' = [router EXCEPT !.pc = "push", !.i = 1]
      /\ UNCHANGED <<opts, dropped, callVars, sent, rejected, got>>
  BY DEF Take
<1> HIDE DEF c
<1>3. /\ e \in Entry
      /\ Tail(chan[c].buf) \in Seq(Entry)
      /\ Len(Tail(chan[c].buf)) <= Cap(c)
  BY <1>1, <1>2, BaseTypes, HeadTailProperties, CapNat
<1> HIDE DEF e
<1>4. /\ chan' \in [Links \cup Processors -> Channel]
      /\ \A d \in DOMAIN chan' : Len(chan'[d].buf) <= Cap(d)
      /\ chan'[c].buf = Tail(chan[c].buf)
      /\ \A d \in Links \cup Processors : d # c => chan'[d] = chan[d]
      /\ \A d \in Links \cup Processors : chan'[d].closed = chan[d].closed
  BY <1>1, <1>2, <1>3, BufStep DEF BaseInv
<1>5. hand' \in [Stages -> SUBSET Entry] /\ OneInHand'
  BY <1>2, <1>3, BaseTypes DEF BaseInv, OneInHand
<1>6. /\ router' \in Router
      /\ s = "router" => /\ router'.pc = "push" /\ router'.i = 1
                         /\ router'.routes = router.routes
  <2>1. CASE s # "router"
    BY <1>2, <2>1, BaseTypes
  <2>2. CASE s = "router"
    <3>1. /\ router' = [router EXCEPT !.pc = "push", !.i = 1]
          /\ router \in Router /\ 1 \in Nat
      BY <1>2, <2>2, BaseTypes
    <3> QED
      BY <3>1 DEF Router
  <2> QED
    BY <2>1, <2>2
<1>7. RouterSound'
  <2>1. CASE s # "router"
    BY <1>1, <1>2, <1>4, <2>1, BaseTypes DEF BaseInv, RouterSound, callVars, Stages
  <2>2. CASE s = "router"
    <3>1. router.pc = "range" /\ start.pc = "started"
      BY <1>2, <2>2 DEF BaseInv, RouterSound
    <3>2. router.routes # <<>>
      BY <3>1 DEF BaseInv, RouterSound
    <3>3. 1 \in 1..Len(router.routes)
      BY <3>2, BaseTypes
    <3>4. hand'["router"] # Nothing
      BY <1>2, <2>2, BaseTypes DEF Nothing, Stages
    <3> QED
      BY <1>2, <1>6, <2>2, <3>1, <3>3, <3>4 DEF BaseInv, RouterSound, callVars
  <2> QED
    BY <2>1, <2>2
<1>8. BaseInv'
  BY <1>2, <1>4, <1>5, <1>6, <1>7, BaseTypes, FlowBase
<1> QED
  BY <1>2, <1>4, <1>6, <1>8 DEF c, e

\* What Reject does.
LEMMA RejectEffect ==
    ASSUME BaseInv, NEW s \in {"preprocess", "leaked"}, Reject(s)
    PROVE  \E e \in Entry :
             /\ hand[s] = {e}
             /\ hand' = [hand EXCEPT ![s] = {}]
             /\ rejected' = rejected \cup {Pair(e)}
             /\ BaseInv'
<1>1. s \in Stages
  BY DEF Stages
<1>2. PICK e \in Entry : hand[s] = {e}
  BY <1>1 DEF BaseInv, OneInHand, Reject
<1>3. /\ hand' = [hand EXCEPT ![s] = {}]
      /\ rejected' = rejected \cup {Pair(e)}
      /\ UNCHANGED <<opts, chan, router, dropped, callVars, sent, got>>
  BY <1>2 DEF Reject, Pair, Nothing
<1>4. hand' \in [Stages -> SUBSET Entry] /\ OneInHand'
  BY <1>3, BaseTypes DEF BaseInv, OneInHand, Nothing
<1>5. RouterSound'
  BY <1>3, BaseTypes DEF BaseInv, RouterSound, callVars, Stages
<1>6. rejected' \subseteq Readers \X (1..MaxEntries)
  BY <1>2, <1>3, BaseTypes DEF Pair, Entry
<1>7. UNCHANGED chan /\ DOMAIN chan' = Links \cup Processors
  BY <1>3, BaseTypes
<1>8. \A c \in DOMAIN chan' : Len(chan'[c].buf) <= Cap(c)
  BY <1>7, BaseTypes
<1>9. BaseInv'
  BY <1>3, <1>4, <1>5, <1>6, <1>8, BaseTypes, FlowBase
<1> QED
  BY <1>2, <1>3, <1>9

\* What Pass does.
LEMMA PassEffect ==
    ASSUME BaseInv, NEW s \in {"preprocess", "leaked", "safety"}, Pass(s)
    PROVE  \E e \in Entry, f \in Entry :
             /\ hand[s] = {e} /\ f.from = e.from /\ f.n = e.n
             /\ s = "safety" => f.scrubbed
             /\ hand' = [hand EXCEPT ![s] = {}]
             /\ chan'[Sink(s)].buf = Append(chan[Sink(s)].buf, f)
             /\ \A d \in Links \cup Processors : d # Sink(s) => chan'[d] = chan[d]
             /\ \A d \in Links \cup Processors : chan'[d].closed = chan[d].closed
             /\ Len(chan[Sink(s)].buf) < Cap(Sink(s))
             /\ BaseInv'
<1> DEFINE c == Sink(s)
<1>1. s \in Stages /\ c \in Links
  BY LinksOf
<1>2. PICK e \in hand[s] : chan' = [chan EXCEPT ![c].buf =
                                      Append(chan[c].buf, Result(s, e))]
  BY DEF Pass
<1>3. hand[s] = {e} /\ e \in Entry
  BY <1>1, <1>2 DEF BaseInv, OneInHand, Nothing
<1>4. PICK f : f = Result(s, e)
  OBVIOUS
<1>5. f \in Entry /\ f.from = e.from /\ f.n = e.n /\ (s = "safety" => f.scrubbed)
  BY <1>3, <1>4 DEF Result, Entry
<1>6. /\ Len(chan[c].buf) < Cap(c)
      /\ hand' = [hand EXCEPT ![s] = {}]
      /\ UNCHANGED <<opts, router, dropped, callVars, sent, rejected, got>>
  BY DEF Pass, Room, Nothing
<1> HIDE DEF c
<1>7. /\ Append(chan[c].buf, f) \in Seq(Entry)
      /\ Len(Append(chan[c].buf, f)) <= Cap(c)
  BY <1>1, <1>5, <1>6, BaseTypes, AppendElems, CapNat
<1>8. /\ chan' \in [Links \cup Processors -> Channel]
      /\ \A d \in DOMAIN chan' : Len(chan'[d].buf) <= Cap(d)
      /\ chan'[c].buf = Append(chan[c].buf, f)
      /\ \A d \in Links \cup Processors : d # c => chan'[d] = chan[d]
      /\ \A d \in Links \cup Processors : chan'[d].closed = chan[d].closed
  BY <1>1, <1>2, <1>4, <1>7, BufStep DEF BaseInv
<1>9. hand' \in [Stages -> SUBSET Entry] /\ OneInHand'
  BY <1>6, BaseTypes DEF BaseInv, OneInHand, Nothing
<1>10. RouterSound'
  BY <1>1, <1>6, <1>8, BaseTypes DEF BaseInv, RouterSound, callVars, Stages
<1>11. BaseInv'
  BY <1>6, <1>8, <1>9, <1>10, BaseTypes, FlowBase
<1> QED
  BY <1>3, <1>5, <1>6, <1>8, <1>11 DEF c

\* How the router goes on after a route.
LEMMA PushedEffect ==
    ASSUME BaseInv, router.pc = "push", Pushed, UNCHANGED start
    PROVE  /\ Route \in Processors /\ router.i \in 1..Len(router.routes)
           /\ \E e \in Entry : hand["router"] = {e}
           /\ router' \in Router /\ router'.routes = router.routes
           /\ \/ /\ router.i < Len(router.routes) /\ router'.pc = "push"
                 /\ router'.i = router.i + 1 /\ hand' = hand
              \/ /\ router.i = Len(router.routes) /\ router'.pc = "range"
                 /\ router'.i = 1
                 /\ hand' = [hand EXCEPT !["router"] = {}]
           /\ hand' \in [Stages -> SUBSET Entry] /\ OneInHand'
<1>1. /\ router.i \in 1..Len(router.routes)
      /\ hand["router"] # Nothing
      /\ router.routes \in Seq(Processors) /\ router \in Router
      /\ hand \in [Stages -> SUBSET Entry]
  BY BaseTypes DEF BaseInv, RouterSound
<1>2. \E e \in Entry : hand["router"] = {e}
  BY <1>1 DEF BaseInv, OneInHand, Stages
<1>3. CASE router.i < Len(router.routes)
  <2>1. PICK k \in Nat : k = router.i + 1
    BY <1>1
  <2>2. router' = [router EXCEPT !.i = k] /\ hand' = hand
    BY <1>3, <2>1 DEF Pushed
  <2>3. router' \in Router /\ router'.routes = router.routes
        /\ router'.pc = router.pc /\ router'.i = k
    BY <1>1, <2>1, <2>2 DEF Router
  <2>4. hand' \in [Stages -> SUBSET Entry] /\ OneInHand'
    BY <1>1, <2>2 DEF BaseInv, OneInHand
  <2> QED
    BY <1>1, <1>2, <1>3, <2>1, <2>2, <2>3, <2>4 DEF Route
<1>4. CASE ~(router.i < Len(router.routes))
  <2>1. router.i = Len(router.routes)
    BY <1>1, <1>4
  <2>2. /\ router' = [router EXCEPT !.pc = "range", !.i = 1] /\ 1 \in Nat
        /\ hand' = [hand EXCEPT !["router"] = {}]
    BY <1>4 DEF Pushed, Nothing
  <2>3. router' \in Router /\ router'.routes = router.routes
        /\ router'.pc = "range" /\ router'.i = 1
    BY <1>1, <2>2 DEF Router
  <2>4. hand' \in [Stages -> SUBSET Entry] /\ OneInHand'
    BY <1>1, <2>2 DEF BaseInv, OneInHand, Nothing
  <2> QED
    BY <1>1, <1>2, <2>1, <2>2, <2>3, <2>4 DEF Route
<1> QED
  BY <1>3, <1>4

\* The router goes on, or takes the next entry.
LEMMA PushedSound ==
    ASSUME BaseInv, router.pc = "push", Pushed, UNCHANGED start
    PROVE  RouterSound'
<1>1. /\ router'.routes = router.routes
      /\ \/ /\ router.i < Len(router.routes) /\ router'.pc = "push"
            /\ router'.i = router.i + 1 /\ hand' = hand
         \/ /\ router.i = Len(router.routes) /\ router'.pc = "range"
            /\ router'.i = 1
            /\ hand' = [hand EXCEPT !["router"] = {}]
      /\ router.i \in 1..Len(router.routes)
      /\ router.routes \in Seq(Processors)
      /\ hand \in [Stages -> SUBSET Entry]
  BY PushedEffect, BaseTypes
<1> QED
  BY <1>1 DEF BaseInv, RouterSound, Nothing, Stages

\* What Push does: the route has been given one entry more.
LEMMA PushEffect ==
    ASSUME BaseInv, Push
    PROVE  /\ \E e \in Entry, p \in Processors :
                /\ hand["router"] = {e} /\ p = Route
                /\ Delivered(p)' = Append(Delivered(p), e)
                /\ \A q \in Processors : q # p => Delivered(q)' = Delivered(q)
           /\ \A d \in Links : chan'[d] = chan[d]
           /\ \A d \in Links \cup Processors : chan'[d].closed = chan[d].closed
           /\ BaseInv'
<1>0. router.pc = "push" /\ Pushed /\ UNCHANGED start
  BY DEF Push, callVars
<1>1. /\ Route \in Processors
      /\ router' \in Router
      /\ hand' \in [Stages -> SUBSET Entry] /\ OneInHand'
  BY <1>0, PushedEffect
<1>2. PICK e \in Entry : hand["router"] = {e}
  BY <1>0, PushedEffect
<1>3. PICK p \in Processors : p = Route
  BY <1>1
<1>4. /\ chan' = [chan EXCEPT ![p].buf = Append(chan[p].buf, e)]
      /\ Len(chan[p].buf) < Cap(p)
      /\ UNCHANGED <<opts, dropped, callVars, sent, rejected, got>>
  BY <1>2, <1>3 DEF Push, Room
<1>5. /\ Append(chan[p].buf, e) \in Seq(Entry)
      /\ Len(Append(chan[p].buf, e)) <= Cap(p)
  BY <1>2, <1>4, BaseTypes, AppendElems, CapNat
<1>6. /\ chan' \in [Links \cup Processors -> Channel]
      /\ \A d \in DOMAIN chan' : Len(chan'[d].buf) <= Cap(d)
      /\ chan'[p].buf = Append(chan[p].buf, e)
      /\ \A d \in Links \cup Processors : d # p => chan'[d] = chan[d]
      /\ \A d \in Links \cup Processors : chan'[d].closed = chan[d].closed
  BY <1>4, <1>5, BufStep DEF BaseInv
<1>7. got'[p] \o chan'[p].buf = Append(Delivered(p), e)
  BY <1>2, <1>4, <1>6, BaseTypes, PushedAppends, SMTT(30) DEF Delivered
<1>8. \A q \in Processors : q # p => Delivered(q)' = Delivered(q)
  BY <1>4, <1>6 DEF Delivered
<1>9. BaseInv'
  BY <1>0, <1>1, <1>4, <1>6, BaseTypes, FlowBase, PushedSound
<1>10. \A d \in Links : d # p
  BY BaseTypes
<1> QED
  BY <1>2, <1>3, <1>6, <1>7, <1>8, <1>9, <1>10 DEF Delivered

\* What Drop does.
LEMMA DropEffect ==
    ASSUME BaseInv, Drop
    PROVE  /\ Route \in Processors
           /\ dropped' = [dropped EXCEPT ![Route] = dropped[Route] + 1]
           /\ UNCHANGED chan
           /\ BaseInv'
<1>0. /\ router.pc = "push" /\ Pushed /\ UNCHANGED start
      /\ dropped' = [dropped EXCEPT ![Route] = dropped[Route] + 1]
      /\ UNCHANGED <<opts, chan, callVars, sent, rejected, got>>
  BY DEF Drop, callVars
<1>1. /\ Route \in Processors
      /\ router' \in Router
      /\ hand' \in [Stages -> SUBSET Entry] /\ OneInHand'
  BY <1>0, PushedEffect
<1>2. dropped' \in [Processors -> Nat]
  <2>1. dropped[Route] \in Nat /\ dropped \in [Processors -> Nat]
    BY <1>1, BaseTypes
  <2>2. PICK k \in Nat : k = dropped[Route] + 1
    BY <2>1
  <2> QED
    BY <1>0, <2>1, <2>2
<1>3. \A c \in DOMAIN chan' : Len(chan'[c].buf) <= Cap(c)
  BY <1>0, BaseTypes
<1>4. BaseInv'
  BY <1>0, <1>1, <1>2, <1>3, BaseTypes, FlowBase, PushedSound
<1> QED
  BY <1>0, <1>1, <1>4

\* Channels are closed: what is in them stays.
LEMMA CloseEffect ==
    ASSUME BaseInv,
           \/ CloseInput
           \/ \E s \in {"preprocess", "leaked", "safety"} : Finish(s)
           \/ RouterEnds
    PROVE  /\ \A c \in Links \cup Processors : chan'[c].buf = chan[c].buf
           /\ hand' = hand /\ router'.i = router.i
           /\ router'.routes = router.routes
           /\ router'.pc = router.pc \/ RouterEnds
           /\ BaseInv'
<1>0. UNCHANGED <<opts, hand, dropped, callVars, sent, rejected, got>>
  BY DEF CloseInput, Finish, RouterEnds
<1>1. ASSUME NEW c \in Links, chan' = [chan EXCEPT ![c].closed = TRUE]
      PROVE  \A d \in Links \cup Processors :
                /\ chan'[d].buf = chan[d].buf
                /\ chan'[d] \in Channel
                /\ d \notin Links => chan'[d] = chan[d]
  <2>1. chan[c] \in Channel /\ chan'[c] = [chan[c] EXCEPT !.closed = TRUE]
    BY <1>1, BaseTypes
  <2>2. chan'[c] \in Channel /\ chan'[c].buf = chan[c].buf
    BY <2>1 DEF Channel
  <2> QED
    BY <1>1, <2>2, BaseTypes
<1>2. /\ \A d \in Links \cup Processors :
            /\ chan'[d].buf = chan[d].buf
            /\ chan'[d] \in Channel
            /\ router.pc = "new" /\ d \in Processors => chan'[d] = chan[d]
      /\ chan' = [d \in Links \cup Processors |-> chan'[d]]
  <2>1. CASE CloseInput
    BY <1>1, <2>1, BaseTypes DEF CloseInput, Links
  <2>2. ASSUME NEW s \in {"preprocess", "leaked", "safety"}, Finish(s)
        PROVE  /\ \A d \in Links \cup Processors :
                  /\ chan'[d].buf = chan[d].buf
                  /\ chan'[d] \in Channel
                  /\ router.pc = "new" /\ d \in Processors =>
                        chan'[d] = chan[d]
               /\ chan' = [d \in Links \cup Processors |-> chan'[d]]
    BY <1>1, <2>2, BaseTypes, LinksOf DEF Finish
  <2>3. CASE RouterEnds
    <3>1. \A d \in Links \cup Processors :
             chan'[d] = chan[d] \/ chan'[d] = [chan[d] EXCEPT !.closed = TRUE]
      BY <2>3, BaseTypes DEF RouterEnds
    <3>2. \A x \in Channel : LET y == [x EXCEPT !.closed = TRUE]
                             IN  y \in Channel /\ y.buf = x.buf
      BY DEF Channel
    <3> QED
      BY <2>3, <3>1, <3>2, BaseTypes DEF RouterEnds
  <2> QED
    BY <2>1, <2>2, <2>3
<1>3. /\ router' \in Router /\ router'.i = router.i
      /\ router'.routes = router.routes
      /\ router' = router \/ (RouterEnds /\ router.pc = "range"
                              /\ router'.pc = "ended")
  <2>1. CASE CloseInput \/ \E s \in {"preprocess", "leaked", "safety"} : Finish(s)
    BY <2>1, BaseTypes DEF CloseInput, Finish
  <2>2. CASE RouterEnds
    BY <2>2, BaseTypes DEF RouterEnds, Router
  <2> QED
    BY <2>1, <2>2
<1>4. chan' \in [Links \cup Processors -> Channel]
  BY <1>2
<1>5. \A c \in DOMAIN chan' : Len(chan'[c].buf) <= Cap(c)
  BY <1>2, <1>4, BaseTypes
<1>6. OneInHand' /\ RouterSound'
  BY <1>0, <1>2, <1>3 DEF BaseInv, OneInHand, RouterSound, callVars
<1>7. BaseInv'
  BY <1>0, <1>3, <1>4, <1>5, <1>6, BaseTypes, FlowBase
<1> QED
  BY <1>0, <1>2, <1>3, <1>7

\* Init has no entry anywhere.
LEMMA InitBase == Init => BaseInv
<1> SUFFICES ASSUME Init PROVE BaseInv
  OBVIOUS
<1>1. \A c \in Links \cup Processors :
         chan[c] = [buf |-> <<>>, closed |-> FALSE] /\ chan[c] \in Channel
  BY DEF Init, Channel
<1>2. chan \in [Links \cup Processors -> Channel]
  BY <1>1 DEF Init
<1>3. \A c \in DOMAIN chan : Len(chan[c].buf) <= Cap(c)
  BY <1>1, <1>2, CapNat
<1>4. hand \in [Stages -> SUBSET Entry] /\ OneInHand
  BY DEF Init, OneInHand, Nothing
<1>5. \A s \in Stages : Cardinality(hand[s]) <= 1
  BY <1>4, HandCardinality DEF OneInHand, Nothing
<1>6. router \in Router
  BY DEF Init, Router
<1>7. /\ dropped \in [Processors -> Nat] /\ sent \in [Readers -> 0..MaxEntries]
      /\ got \in [Processors -> Seq(Entry)] /\ added \in Seq(Readers)
      /\ start \in [pc : {"idle", "run", "started"}, i : Nat, n : 0..MaxStarts]
      /\ reader \in [Readers -> {"new", "out", "running", "again", "closed"}]
  BY PipelineAssumption DEF Init
<1>8. TypeOK
  BY <1>2, <1>3, <1>4, <1>5, <1>6, <1>7 DEF TypeOK, Init
<1>9. RouterSound
  BY <1>1, <1>4 DEF Init, RouterSound, Nothing, Stages
<1> QED
  BY <1>4, <1>8, <1>9 DEF BaseInv

\* Every step keeps BaseInv.
LEMMA NextBase == BaseInv /\ [Next]_vars => BaseInv'
<1> SUFFICES ASSUME BaseInv, [Next]_vars PROVE BaseInv'
  OBVIOUS
<1>1. CASE \/ \E r \in Readers : AddReader(r) \/ CloseReader(r)
           \/ \E p \in Processors : AddProcessor(p)
           \/ CallStart \/ StartReader \/ StartRouter
  BY <1>1, CallsBase
<1>2. ASSUME NEW r \in Readers, Produce(r) PROVE BaseInv'
  BY <1>2, ProduceEffect
<1>3. ASSUME NEW p \in Processors, Consume(p) PROVE BaseInv'
  BY <1>3, ConsumeEffect
<1>4. ASSUME NEW s \in Stages, Take(s) PROVE BaseInv'
  BY <1>4, TakeEffect
<1>5. ASSUME NEW s \in {"preprocess", "leaked"}, Reject(s) PROVE BaseInv'
  BY <1>5, RejectEffect
<1>6. ASSUME NEW s \in {"preprocess", "leaked", "safety"}, Pass(s)
      PROVE  BaseInv'
  BY <1>6, PassEffect
<1>7. CASE \/ CloseInput
           \/ \E s \in {"preprocess", "leaked", "safety"} : Finish(s)
           \/ RouterEnds
  BY <1>7, CloseEffect
<1>8. CASE Push
  BY <1>8, PushEffect
<1>9. CASE Drop
  BY <1>9, DropEffect
<1>10. CASE UNCHANGED vars
  BY <1>10 DEF vars, BaseInv, TypeOK, Cap, OneInHand, RouterSound
<1> QED
  BY <1>1, <1>2, <1>3, <1>4, <1>5, <1>6, <1>7, <1>8, <1>9, <1>10
     DEF Next, StageNext

\* Every variable has its type, no channel ever holds more than it can, no
\* stage more than one entry.
THEOREM PipelineTypeCorrect == Spec => []TypeOK
<1>1. Spec => []BaseInv
  BY InitBase, NextBase, PTL DEF Spec
<1>2. BaseInv => TypeOK
  BY DEF BaseInv
<1> QED
  BY <1>1, <1>2, PTL

-----------------------------------------------------------------------------
(* The order of the entries, and the scrubber.                             *)

\* A step on which no place gains an entry.
LEMMA LessOrder ==
    ASSUME OrderInv, BaseInv', UNCHANGED <<opts, sent>>,
           \A m \in 1..6 : At'[m] \subseteq At[m],
           \A c \in {"in", "secrets", "router"} : Increasing(chan'[c].buf),
           \A p \in Processors : Delivered(p)' = Delivered(p),
           At'[6] = {} \/ \A p \in Processors : Done(p) => Done(p)'
    PROVE  OrderInv'
<1>1. At \in Way /\ At' \in Way
  BY AtType, AtTypeNext DEF OrderInv, BaseInv
<1>2. InRow(At')
  BY <1>1, LessInRow DEF OrderInv, FlowOrdered, InRow
<1>3. Scrubbed'
  BY DEF OrderInv, Scrubbed
<1>4. FlowOrdered'
  <2>1. \A k \in 1..6 : \A e \in At'[k] : e.n <= sent'[e.from]
    BY DEF OrderInv, FlowOrdered
  <2>2. ~opts'.pre => At'[2] = {} /\ At'[3] = {}
    BY DEF OrderInv, FlowOrdered
  <2> QED
    BY <1>2, <2>1, <2>2 DEF FlowOrdered, InRow
<1>5. OutOrdered'
  BY DEF OrderInv, OutOrdered
<1> QED
  BY <1>3, <1>4, <1>5 DEF OrderInv

\* A step on which one entry moves on.
LEMMA MoveOrder ==
    ASSUME OrderInv, BaseInv', UNCHANGED <<opts, sent>>,
           NEW k \in 1..6, NEW l \in 1..6, NEW e, NEW f,
           Moved(At, At', k, l, e, f),
           l \in {5, 6} => f.scrubbed,
           opts.pre \/ l \in {4, 5, 6},
           \A c \in {"in", "secrets", "router"} : Increasing(chan'[c].buf),
           \A p \in Processors : Delivered(p)' = Delivered(p),
           At[6] = {} \/ \A p \in Processors : Done(p) => Done(p)'
    PROVE  OrderInv'
<1>1. At \in Way /\ At' \in Way
  BY AtType, AtTypeNext DEF OrderInv, BaseInv
<1>2. InRow(At')
  BY <1>1, MovedInRow DEF OrderInv, FlowOrdered, InRow
<1>3. \A m \in 1..6 : \A x \in At'[m] :
         x \in At[m] \/ (m = l /\ x = f /\ l \in 2..6)
  BY DEF Moved
<1>4. Scrubbed'
  BY <1>3 DEF OrderInv, Scrubbed
<1>5. f.from = e.from /\ f.n = e.n /\ e \in At[k] /\ k \in 1..5
  BY DEF Moved
<1>6. FlowOrdered'
  <2>1. \A m \in 1..6 : \A x \in At'[m] : x.n <= sent'[x.from]
    BY <1>3, <1>5 DEF OrderInv, FlowOrdered
  <2>2. ~opts'.pre => At'[2] = {} /\ At'[3] = {}
    BY <1>3 DEF OrderInv, FlowOrdered
  <2> QED
    BY <1>2, <2>1, <2>2 DEF FlowOrdered, InRow
<1>7. \A p \in Processors : \A d \in Elems(Delivered(p)) : Before(d, f)
  BY <1>5 DEF OrderInv, OutOrdered, Before
<1>8. OutOrdered'
  <2>1. \A p \in Processors : \A d \in Elems(Delivered(p)) :
           \A m \in 1..5 : \A x \in At'[m] : Before(d, x)
    BY <1>3, <1>7 DEF OrderInv, OutOrdered
  <2>2. \A p \in Processors : \A d \in Elems(Delivered(p)) :
           ~Done(p)' => \A x \in At'[6] : Before(d, x)
    BY <1>3, <1>7 DEF OrderInv, OutOrdered
  <2> QED
    BY <2>1, <2>2 DEF OrderInv, OutOrdered
<1> QED
  BY <1>4, <1>6, <1>8 DEF OrderInv

\* A Reader sends its next entry.
LEMMA ProduceOrder ==
    ASSUME OrderInv, NEW r \in Readers, Produce(r)
    PROVE  OrderInv'
<1>1. PICK e \in Entry :
         /\ e.from = r /\ e.n = sent[r] + 1
         /\ sent' = [sent EXCEPT ![r] = sent[r] + 1]
         /\ chan'["in"].buf = Append(chan["in"].buf, e)
         /\ \A c \in Links \cup Processors : c # "in" => chan'[c] = chan[c]
         /\ BaseInv'
  BY ProduceEffect DEF OrderInv
<1>2. BaseInv /\ UNCHANGED <<opts, hand, router, got>>
  BY DEF OrderInv, Produce
<1>3. \A d : d \in Entry => d.from \in Readers /\ d.n \in Nat
  BY PipelineAssumption DEF Entry
<1>4. \A d \in Entry : d.n <= sent[d.from] => Before(d, e) /\ d.n <= sent'[d.from]
  BY <1>1, <1>2, <1>3, BaseTypes, PipelineAssumption DEF Before
<1>5. e.n <= sent'[e.from]
  BY <1>1, <1>2, BaseTypes
<1>6. At \in Way /\ At' \in Way
  BY <1>1, <1>2, AtType, AtTypeNext DEF BaseInv
<1>7. /\ At'[1] = At[1] \cup {e}
      /\ \A m \in 2..6 : At'[m] = At[m]
      /\ Increasing(chan'["in"].buf)
  <2>1. At'[1] = At[1] \cup {e} /\ Increasing(chan'["in"].buf)
    <3>1. chan["in"].buf \in Seq(Entry) /\ Elems(chan["in"].buf) = At[1]
      BY <1>2, BaseTypes, AtFacts DEF Links
    <3>2. /\ Elems(Append(chan["in"].buf, e)) = Elems(chan["in"].buf) \cup {e}
          /\ Increasing(chan["in"].buf)
             /\ (\A d \in Elems(chan["in"].buf) : Before(d, e)) =>
                   Increasing(Append(chan["in"].buf, e))
      BY <3>1, AppendElems
    <3>3. Increasing(chan["in"].buf) /\ \A d \in At[1] : Before(d, e)
      BY <1>4, <1>6 DEF OrderInv, FlowOrdered, Way
    <3>4. At'[1] = Elems(chan'["in"].buf)
      BY DEF At
    <3> QED
      BY <1>1, <3>1, <3>2, <3>3, <3>4
  <2>2. \A m \in 2..6 : At'[m] = At[m]
    BY <1>1, <1>2 DEF At, Links
  <2> QED
    BY <2>1, <2>2
<1>8. \A p \in Processors : Delivered(p)' = Delivered(p)
                           /\ Done(p)' = Done(p)
                           /\ Elems(Delivered(p)) \subseteq Entry
  <2>1. \A p \in Processors : Delivered(p) \in Seq(Entry)
    BY <1>2, BaseTypes, ConcatProperties DEF Delivered
  <2>2. \A p \in Processors : Delivered(p)' = Delivered(p) /\ Done(p)' = Done(p)
    BY <1>1, <1>2, BaseTypes DEF Delivered, Done, Links
  <2> QED
    BY <2>1, <2>2, ElemsOf
<1>9. Scrubbed'
  BY <1>7, <1>8 DEF OrderInv, Scrubbed
<1>10. FlowOrdered'
  <2>1. \A k, l \in 1..6 : k < l => \A x \in At'[k], d \in At'[l] : Before(d, x)
    <3> SUFFICES ASSUME NEW k \in 1..6, NEW l \in 1..6, k < l,
                        NEW x \in At'[k], NEW d \in At'[l]
                 PROVE  Before(d, x)
      OBVIOUS
    <3>1. d \in At[l] /\ l \in 1..6
      BY <1>7
    <3>2. CASE x \in At[k]
      BY <3>1, <3>2 DEF OrderInv, FlowOrdered
    <3>3. CASE x = e
      BY <1>4, <1>6, <3>1, <3>3 DEF OrderInv, FlowOrdered, Way
    <3> QED
      BY <1>7, <3>2, <3>3
  <2>2. \A c \in {"in", "secrets", "router"} : Increasing(chan'[c].buf)
    BY <1>1, <1>7 DEF OrderInv, FlowOrdered, Links
  <2>3. \A k \in 1..6 : \A x \in At'[k] : x.n <= sent'[x.from]
    <3> SUFFICES ASSUME NEW k \in 1..6, NEW x \in At'[k]
                 PROVE  x.n <= sent'[x.from]
      OBVIOUS
    <3>1. x \in At[k] \/ x = e
      BY <1>7
    <3> QED
      BY <1>4, <1>5, <1>6, <3>1 DEF OrderInv, FlowOrdered, Way
  <2>4. ~opts'.pre => At'[2] = {} /\ At'[3] = {}
    BY <1>2, <1>7 DEF OrderInv, FlowOrdered
  <2> QED
    BY <2>1, <2>2, <2>3, <2>4 DEF FlowOrdered
<1>11. OutOrdered'
  <2> SUFFICES ASSUME NEW p \in Processors
               PROVE  /\ Increasing(Delivered(p))
                      /\ \A d \in Elems(Delivered(p)) :
                            /\ d.n <= sent'[d.from]
                            /\ \A k \in 1..5 : \A x \in At'[k] : Before(d, x)
                            /\ ~Done(p) => \A x \in At'[6] : Before(d, x)
    BY <1>8 DEF OutOrdered
  <2>1. Increasing(Delivered(p))
    BY DEF OrderInv, OutOrdered
  <2>2. ASSUME NEW d \in Elems(Delivered(p))
        PROVE  d.n <= sent'[d.from] /\ Before(d, e)
    BY <1>4, <1>8, <2>2 DEF OrderInv, OutOrdered
  <2>3. ASSUME NEW d \in Elems(Delivered(p))
        PROVE  /\ \A k \in 1..5 : \A x \in At'[k] : Before(d, x)
               /\ ~Done(p) => \A x \in At'[6] : Before(d, x)
    BY <1>7, <2>2, <2>3 DEF OrderInv, OutOrdered
  <2> QED
    BY <2>1, <2>2, <2>3
<1> QED
  BY <1>1, <1>9, <1>10, <1>11 DEF OrderInv

\* Steps that leave the way and the router as they are.
LEMMA SameOrder ==
    ASSUME OrderInv, BaseInv', UNCHANGED <<opts, sent>>,
           \A c \in Links \ {"leaked"} : chan'[c].buf = chan[c].buf,
           \A s \in Stages \ {"leaked"} : hand'[s] = hand[s],
           \A p \in Processors : Delivered(p)' = Delivered(p),
           router' = router \/ hand'["router"] = {}
    PROVE  OrderInv' /\ At' = At
<1>1. \A m \in 1..6 : At'[m] = At[m]
  BY DEF At, Links, Stages
<1>2. At' = At
  BY <1>1 DEF At
<1>3. \A c \in {"in", "secrets", "router"} : Increasing(chan'[c].buf)
  BY DEF OrderInv, FlowOrdered, Links
<1>4. At'[6] = {} \/ \A p \in Processors : Done(p) => Done(p)'
  BY DEF At, Done
<1>5. OrderInv'
  BY <1>1, <1>3, <1>4, LessOrder
<1> QED
  BY <1>2, <1>5

\* Each action keeps the order.  The set-up calls touch no entry, ...
LEMMA CallsOrder ==
    ASSUME OrderInv,
           \/ \E r \in Readers : AddReader(r) \/ CloseReader(r)
           \/ \E p \in Processors : AddProcessor(p)
           \/ CallStart \/ StartReader \/ StartRouter
    PROVE  OrderInv' /\ At' = At
<1>1. BaseInv /\ BaseInv'
  BY CallsBase DEF OrderInv
<1>2. /\ UNCHANGED <<opts, chan, hand, sent, got>>
      /\ router' = router \/ router.pc = "new"
  <2>1. ASSUME NEW r \in Readers, AddReader(r) \/ CloseReader(r)
        PROVE  UNCHANGED <<opts, chan, hand, sent, got, router>>
    BY <2>1 DEF AddReader, CloseReader, flowVars
  <2>2. ASSUME NEW p \in Processors, AddProcessor(p)
        PROVE  UNCHANGED <<opts, chan, hand, sent, got>> /\ router.pc = "new"
    BY <1>1, <2>2 DEF AddProcessor, BaseInv, RouterSound
  <2>3. CASE CallStart \/ StartReader
    BY <2>3 DEF CallStart, StartReader, flowVars
  <2>4. CASE StartRouter
    BY <1>1, <2>4 DEF StartRouter, BaseInv, RouterSound
  <2> QED
    BY <2>1, <2>2, <2>3, <2>4
<1>3. hand'["router"] = {} \/ router' = router
  BY <1>1, <1>2 DEF BaseInv, RouterSound, Nothing
<1>4. \A p \in Processors : Delivered(p)' = Delivered(p)
  BY <1>2 DEF Delivered
<1> QED
  BY <1>1, <1>2, <1>3, <1>4, SameOrder

\* ... a processor that reads takes entries it was given, ...
LEMMA ConsumeOrder ==
    ASSUME OrderInv, NEW p \in Processors, Consume(p)
    PROVE  OrderInv' /\ At' = At
<1>1. BaseInv /\ UNCHANGED <<opts, hand, router, sent>>
  BY DEF OrderInv, Consume
<1>2. /\ \A c \in Links : chan'[c] = chan[c]
      /\ \A q \in Processors : Delivered(q)' = Delivered(q)
      /\ BaseInv'
  BY <1>1, ConsumeEffect, BaseTypes
<1> QED
  BY <1>1, <1>2, SameOrder

\* ... and closing a channel leaves its entries in it.
LEMMA CloseOrder ==
    ASSUME OrderInv,
           \/ CloseInput
           \/ \E s \in {"preprocess", "leaked", "safety"} : Finish(s)
           \/ RouterEnds
    PROVE  OrderInv' /\ At' = At
<1>1. BaseInv /\ UNCHANGED <<opts, sent, got, hand>>
  BY DEF OrderInv, CloseInput, Finish, RouterEnds
<1>2. /\ \A c \in Links \cup Processors : chan'[c].buf = chan[c].buf
      /\ BaseInv'
  BY <1>1, CloseEffect
<1>3. router' = router \/ hand'["router"] = {}
  BY <1>1 DEF CloseInput, Finish, RouterEnds, BaseInv, RouterSound, Nothing
<1>4. \A p \in Processors : Delivered(p)' = Delivered(p)
  BY <1>1, <1>2 DEF Delivered
<1> QED
  BY <1>1, <1>2, <1>3, <1>4, SameOrder

\* A stage that takes the head of a channel makes it the next place's entry;
\* the preprocessors of a failed New take it off the way.
LEMMA TakeOrder ==
    ASSUME OrderInv, NEW s \in Stages, Take(s)
    PROVE  /\ OrderInv'
           /\ LET e == Head(chan[Source(s)].buf) IN
              /\ e \in Entry
              /\ s = "leaked" => /\ e \in At[1] /\ At'[1] = At[1] \ {e}
                                 /\ \A d \in At'[1] : Before(e, d)
                                 /\ \A m \in 2..6 : At'[m] = At[m]
              /\ s # "leaked" =>
                    \E k \in 1..6, l \in 2..6 :
                       /\ Moved(At, At', k, l, e, e)
                       /\ l = 6 <=> s = "router"
                       /\ At[l] = {}
           /\ \A p \in Processors : Delivered(p)' = Delivered(p)
<1>0. BaseInv /\ UNCHANGED <<opts, sent, got>>
  BY DEF OrderInv, Take
<1>1. PICK c \in {"in", "secrets", "router"} :
         /\ c = Source(s)
         /\ s \in {"preprocess", "leaked"} => c = "in"
         /\ s = "safety" => c = IF opts.pre THEN "secrets" ELSE "in"
         /\ s = "router" => c = "router"
  BY DEF Source, Stages
<1>2. c \in Links
  BY DEF Links
<1>3. /\ chan[c].buf # <<>> /\ hand[s] = {} /\ Runs(s)
      /\ hand' = [hand EXCEPT ![s] = {Head(chan[c].buf)}]
      /\ chan'[c].buf = Tail(chan[c].buf)
      /\ \A d \in Links \cup Processors : d # c => chan'[d] = chan[d]
      /\ s # "router" => router' = router
      /\ BaseInv'
  BY <1>0, <1>1, TakeEffect DEF Nothing
<1>4. PICK e : e = Head(chan[c].buf)
  OBVIOUS
<1>5. chan[c].buf \in Seq(Entry) /\ Increasing(chan[c].buf)
  BY <1>0, <1>2, BaseTypes DEF OrderInv, FlowOrdered
<1>6. /\ e \in Elems(chan[c].buf) /\ e \in Entry
      /\ Elems(chan'[c].buf) = Elems(chan[c].buf) \ {e}
      /\ Increasing(chan'[c].buf)
      /\ \A d \in Elems(chan[c].buf) : d # e => Before(e, d)
  BY <1>3, <1>4, <1>5, TailElems, ElemsOf
<1>7. \A d \in {"in", "secrets", "router"} : Increasing(chan'[d].buf)
  BY <1>3, <1>6 DEF OrderInv, FlowOrdered, Links
<1>8. hand'[s] = {e} /\ \A t \in Stages : t # s => hand'[t] = hand[t]
  BY <1>0, <1>3, <1>4, BaseTypes
<1>9. \A p \in Processors : Delivered(p)' = Delivered(p)
  BY <1>0, <1>2, <1>3, BaseTypes DEF Delivered
<1>10. CASE s = "leaked"
  <2>1. c = "in"
    BY <1>1, <1>10
  <2>2. /\ e \in At[1] /\ At'[1] = At[1] \ {e}
        /\ \A d \in At'[1] : Before(e, d)
    BY <1>6, <2>1 DEF At
  <2>3. \A m \in 2..6 : At'[m] = At[m]
    BY <1>3, <1>8, <1>10, <2>1 DEF At, Links, Stages
  <2>4. \A m \in 1..6 : At'[m] \subseteq At[m]
    BY <2>2, <2>3
  <2>5. \A p \in Processors : Done(p) => Done(p)'
    BY <1>3, <1>10 DEF Done
  <2>6. OrderInv'
    BY <1>0, <1>3, <1>7, <1>9, <2>4, <2>5, LessOrder
  <2> QED
    BY <1>1, <1>4, <1>6, <1>9, <1>10, <2>2, <2>3, <2>6
<1>11. CASE s # "leaked"
  <2>1. PICK k \in 1..6, l \in 2..6 :
           /\ s = "preprocess" => k = 1 /\ l = 2
           /\ s = "safety" /\ opts.pre => k = 3 /\ l = 4
           /\ s = "safety" /\ ~opts.pre => k = 1 /\ l = 4
           /\ s = "router" => k = 5 /\ l = 6
           /\ k < l
    <3>1. CASE s = "preprocess"
      BY <3>1
    <3>2. CASE s = "router"
      BY <3>2
    <3>3. CASE s = "safety" /\ opts.pre
      BY <3>3
    <3>4. CASE s = "safety" /\ ~opts.pre
      BY <3>4
    <3> QED
      BY <1>11, <3>1, <3>2, <3>3, <3>4 DEF Stages
  <2>2. s \in {"preprocess", "safety", "router"} /\ (opts.pre \/ s # "preprocess")
    BY <1>3, <1>11 DEF Stages, Runs
  <2>3. /\ At[k] = Elems(chan[c].buf) /\ At'[k] = Elems(chan'[c].buf)
        /\ At[l] = hand[s] /\ At'[l] = hand'[s]
    BY <1>1, <2>1, <2>2 DEF At
  <2>4. \A m \in 1..6 \ {k, l} : At'[m] = At[m]
    <3>1. CASE s = "preprocess"
      BY <1>1, <1>3, <1>8, <2>1, <3>1 DEF At, Links, Stages
    <3>2. CASE s = "router"
      BY <1>1, <1>3, <1>8, <2>1, <3>2 DEF At, Links, Stages
    <3>3. CASE s = "safety" /\ opts.pre
      BY <1>1, <1>3, <1>8, <2>1, <3>3 DEF At, Links, Stages
    <3>4. CASE s = "safety" /\ ~opts.pre
      BY <1>1, <1>3, <1>8, <2>1, <3>4 DEF At, Links, Stages
    <3> QED
      BY <2>2, <3>1, <3>2, <3>3, <3>4
  <2>5. \A m \in 1..6 : k < m /\ m < l => At[m] = {}
    BY <2>1, <2>2 DEF OrderInv, FlowOrdered
  <2>6. Moved(At, At', k, l, e, e) /\ At[l] = {}
    BY <1>3, <1>6, <1>8, <2>1, <2>3, <2>4, <2>5 DEF Moved
  <2>7. l \in {5, 6} => e.scrubbed
    BY <1>6, <2>1, <2>2, <2>3 DEF OrderInv, Scrubbed
  <2>8. At[6] = {} \/ \A p \in Processors : Done(p) => Done(p)'
    BY <1>3, AtFacts DEF Done
  <2>9. opts.pre \/ l \in {4, 5, 6}
    BY <2>1, <2>2
  <2>10. OrderInv'
    BY <1>0, <1>3, <1>7, <1>9, <2>6, <2>7, <2>8, <2>9, MoveOrder
  <2> QED
    BY <1>1, <1>4, <1>6, <1>9, <1>11, <2>1, <2>2, <2>6, <2>10
<1> QED
  BY <1>10, <1>11

\* A refused entry leaves the way.
LEMMA RejectOrder ==
    ASSUME OrderInv, NEW s \in {"preprocess", "leaked"}, Reject(s)
    PROVE  /\ OrderInv'
           /\ \A m \in 1..6 \ {2} : At'[m] = At[m]
           /\ At'[2] = IF s = "preprocess" THEN {} ELSE At[2]
<1>0. BaseInv /\ UNCHANGED <<opts, chan, router, sent, got>>
  BY DEF OrderInv, Reject
<1>1. hand' = [hand EXCEPT ![s] = {}] /\ BaseInv'
  BY <1>0, RejectEffect
<1>2. hand'[s] = {} /\ \A t \in Stages : t # s => hand'[t] = hand[t]
  BY <1>0, <1>1, BaseTypes DEF Stages
<1>3. /\ \A m \in 1..6 \ {2} : At'[m] = At[m]
      /\ At'[2] = IF s = "preprocess" THEN {} ELSE At[2]
  <2>1. CASE s = "preprocess"
    BY <1>0, <1>2, <2>1 DEF At, Stages
  <2>2. CASE s = "leaked"
    BY <1>0, <1>2, <2>2 DEF At, Stages
  <2> QED
    BY <2>1, <2>2
<1>4. \A p \in Processors : Delivered(p)' = Delivered(p) /\ Done(p)' = Done(p)
  BY <1>0 DEF Delivered, Done
<1>5. \A m \in 1..6 : At'[m] \subseteq At[m]
  BY <1>3
<1>6. \A c \in {"in", "secrets", "router"} : Increasing(chan'[c].buf)
  BY <1>0 DEF OrderInv, FlowOrdered
<1>7. OrderInv'
  BY <1>0, <1>1, <1>4, <1>5, <1>6, LessOrder
<1> QED
  BY <1>3, <1>7

\* A stage that is done with an entry makes it the next channel's last.
LEMMA PassOrder ==
    ASSUME OrderInv, NEW s \in {"preprocess", "leaked", "safety"}, Pass(s)
    PROVE  /\ OrderInv'
           /\ s = "leaked" => At' = At
           /\ s # "leaked" => \E k \in 1..6, l \in 2..5, e \in Entry, f \in Entry :
                                 Moved(At, At', k, l, e, f)
           /\ \A p \in Processors : Delivered(p)' = Delivered(p)
<1>0. BaseInv /\ UNCHANGED <<opts, router, sent, got>>
  BY DEF OrderInv, Pass
<1>1. PICK e \in Entry, f \in Entry :
         /\ hand[s] = {e} /\ f.from = e.from /\ f.n = e.n
         /\ s = "safety" => f.scrubbed
         /\ hand' = [hand EXCEPT ![s] = {}]
         /\ chan'[Sink(s)].buf = Append(chan[Sink(s)].buf, f)
         /\ \A d \in Links \cup Processors : d # Sink(s) => chan'[d] = chan[d]
         /\ BaseInv'
  BY <1>0, PassEffect
<1>2. hand'[s] = {} /\ \A t \in Stages : t # s => hand'[t] = hand[t]
  BY <1>0, <1>1, BaseTypes DEF Stages
<1>3. \A p \in Processors : Delivered(p)' = Delivered(p) /\ Done(p)' = Done(p)
  BY <1>0, <1>1, LinksOf, BaseTypes DEF Delivered, Done
<1>4. CASE s = "leaked"
  <2>1. \A c \in Links \ {"leaked"} : chan'[c].buf = chan[c].buf
    BY <1>1, <1>4 DEF Sink
  <2>2. \A t \in Stages \ {"leaked"} : hand'[t] = hand[t]
    BY <1>2, <1>4
  <2> QED
    BY <1>0, <1>1, <1>3, <1>4, <2>1, <2>2, SameOrder
<1>5. CASE s # "leaked"
  <2>1. PICK k \in 1..6, l \in 2..5, c \in {"secrets", "router"} :
           /\ c = Sink(s) /\ l = k + 1
           /\ s = "preprocess" => k = 2 /\ c = "secrets"
           /\ s = "safety" => k = 4 /\ c = "router"
    <3>1. CASE s = "preprocess"
      BY <3>1 DEF Sink
    <3>2. CASE s = "safety"
      BY <3>2 DEF Sink
    <3> QED
      BY <1>5, <3>1, <3>2
  <2>2. /\ At[k] = hand[s] /\ At'[k] = hand'[s]
        /\ At[l] = Elems(chan[c].buf) /\ At'[l] = Elems(chan'[c].buf)
    BY <1>5, <2>1 DEF At
  <2>3. chan[c].buf \in Seq(Entry) /\ Increasing(chan[c].buf) /\ c \in Links
    BY <1>0, BaseTypes DEF OrderInv, FlowOrdered, Links
  <2>4. \A d \in Elems(chan[c].buf) : Before(d, f)
    BY <1>1, <2>1, <2>2 DEF OrderInv, FlowOrdered, Before
  <2>5. /\ Elems(chan'[c].buf) = Elems(chan[c].buf) \cup {f}
        /\ Increasing(chan'[c].buf)
    BY <1>1, <2>1, <2>3, <2>4, AppendElems
  <2>6. \A d \in {"in", "secrets", "router"} : Increasing(chan'[d].buf)
    BY <1>1, <2>1, <2>5 DEF OrderInv, FlowOrdered, Links
  <2>7. \A m \in 1..6 \ {k, l} : At'[m] = At[m]
    <3>1. CASE s = "preprocess"
      BY <1>1, <1>2, <2>1, <3>1 DEF At, Links, Stages
    <3>2. CASE s = "safety"
      BY <1>1, <1>2, <2>1, <3>2 DEF At, Links, Stages
    <3> QED
      BY <1>5, <3>1, <3>2
  <2>8. Moved(At, At', k, l, e, f)
    BY <1>1, <1>2, <2>1, <2>2, <2>5, <2>7 DEF Moved
  <2>9. l \in {5, 6} => f.scrubbed
    BY <1>1, <1>5, <2>1
  <2>10. opts.pre \/ l \in {4, 5, 6}
    <3>1. ~opts.pre => At[2] = {}
      BY DEF OrderInv, FlowOrdered
    <3>2. s = "preprocess" => At[2] = {e}
      BY <1>1, <2>1, <2>2
    <3> QED
      BY <1>5, <2>1, <3>1, <3>2
  <2>11. OrderInv'
    BY <1>0, <1>1, <1>3, <2>6, <2>8, <2>9, <2>10, MoveOrder
  <2> QED
    BY <1>3, <1>5, <2>8, <2>11
<1> QED
  BY <1>4, <1>5

\* The router goes on to the next route, or lets go of its entry.
LEMMA RouterGoesOn ==
    ASSUME BaseInv, router.pc = "push", Pushed, UNCHANGED <<start>>,
           \A c \in Links : chan'[c] = chan[c]
    PROVE  /\ \A m \in 1..5 : At'[m] = At[m]
           /\ ~Done(Route)
           /\ \/ /\ At'[6] = At[6]
                 /\ \A p \in Processors : Done(p)' <=> (Done(p) \/ p = Route)
              \/ /\ At'[6] = {}
                 /\ \A p \in Processors : p \in Routes => Done(p) \/ p = Route
<1>1. /\ router.i \in 1..Len(router.routes)
      /\ router'.routes = router.routes
      /\ \/ /\ router.i < Len(router.routes) /\ router'.pc = "push"
            /\ router'.i = router.i + 1 /\ hand' = hand
         \/ /\ router.i = Len(router.routes) /\ router'.pc = "range"
            /\ hand' = [hand EXCEPT !["router"] = {}]
      /\ Len(router.routes) \in Nat
  BY PushedEffect, BaseTypes
<1>2. \A t \in Stages : t # "router" => hand'[t] = hand[t]
  BY <1>1, BaseTypes
<1>3. \A m \in 1..5 : At'[m] = At[m]
  BY <1>2 DEF At, Links, Stages
<1>4. ~Done(Route)
  BY <1>1 DEF BaseInv, RouterSound, Done, Route
<1>5. CASE router.i < Len(router.routes)
  <2>1. At'[6] = At[6] /\ router'.i = router.i + 1
    BY <1>1, <1>5 DEF At
  <2>2. \A j \in 1..Len(router.routes) : j < router.i + 1 <=> j < router.i \/ j = router.i
    BY <1>1
  <2>3. \A p \in Processors : Done(p)' <=> (Done(p) \/ p = Route)
    BY <1>1, <2>1, <2>2 DEF Done, Route
  <2> QED
    BY <1>3, <1>4, <2>1, <2>3
<1>6. CASE router.i = Len(router.routes)
  <2>1. At'[6] = {}
    BY <1>1, <1>6, BaseTypes DEF At, Stages
  <2>2. \A j \in 1..Len(router.routes) : j < router.i \/ j = router.i
    BY <1>1, <1>6
  <2>3. \A p \in Processors : p \in Routes => Done(p) \/ p = Route
    BY <2>2 DEF Done, Route, Routes, Elems
  <2> QED
    BY <1>3, <1>4, <2>1, <2>3
<1> QED
  BY <1>1, <1>5, <1>6

\* A route that is full is given nothing.
LEMMA DropOrder ==
    ASSUME OrderInv, Drop
    PROVE  OrderInv'
<1>1. /\ BaseInv /\ router.pc = "push" /\ Pushed
      /\ UNCHANGED <<opts, start, chan, sent, got>>
  BY DEF OrderInv, Drop, callVars
<1>2. BaseInv'
  BY <1>1, DropEffect
<1>3. /\ \A m \in 1..6 : At'[m] \subseteq At[m]
      /\ At'[6] = {} \/ \A p \in Processors : Done(p) => Done(p)'
  BY <1>1, RouterGoesOn
<1>4. \A p \in Processors : Delivered(p)' = Delivered(p)
  BY <1>1 DEF Delivered
<1>5. \A c \in {"in", "secrets", "router"} : Increasing(chan'[c].buf)
  BY <1>1 DEF OrderInv, FlowOrdered
<1> QED
  BY <1>1, <1>2, <1>3, <1>4, <1>5, LessOrder

\* A route is given an entry sent after those it was given before.
LEMMA PushOrder ==
    ASSUME OrderInv, Push
    PROVE  OrderInv'
<1>1. /\ BaseInv /\ router.pc = "push" /\ Pushed
      /\ UNCHANGED <<opts, start, sent>>
  BY DEF OrderInv, Push, callVars
<1>2. PICK e \in Entry, p \in Processors :
         /\ hand["router"] = {e} /\ p = Route
         /\ Delivered(p)' = Append(Delivered(p), e)
         /\ \A q \in Processors : q # p => Delivered(q)' = Delivered(q)
  BY <1>1, PushEffect
<1>3. BaseInv' /\ \A d \in Links : chan'[d] = chan[d]
  BY <1>1, PushEffect
<1>4. /\ \A m \in 1..5 : At'[m] = At[m]
      /\ ~Done(p)
      /\ \/ /\ At'[6] = At[6]
            /\ \A q \in Processors : Done(q)' <=> (Done(q) \/ q = p)
         \/ At'[6] = {}
  BY <1>1, <1>2, <1>3, RouterGoesOn
<1>5. /\ \A m \in 1..6 : At'[m] \subseteq At[m]
      /\ At[6] = {e}
      /\ \A q \in Processors : ~Done(q)' /\ At'[6] # {} => ~Done(q) /\ q # p
  BY <1>2, <1>4, AtFacts
<1>6. PICK D : D = Delivered(p)
  OBVIOUS
<1>7. D \in Seq(Entry)
  BY <1>1, <1>6, BaseTypes, ConcatProperties DEF Delivered
<1>8. /\ Increasing(D)
      /\ \A d \in Elems(D) : Before(d, e) /\ d.n <= sent[d.from]
      /\ \A d \in Elems(D) : \A k \in 1..5 : \A x \in At[k] : Before(d, x)
      /\ \A d \in Elems(D) : d.scrubbed
  BY <1>4, <1>5, <1>6 DEF OrderInv, OutOrdered, Scrubbed
<1>9. PICK E : E = Append(D, e)
  OBVIOUS
<1>10. Elems(E) = Elems(D) \cup {e} /\ Increasing(E) /\ Delivered(p)' = E
  BY <1>2, <1>6, <1>7, <1>8, <1>9, AppendElems
<1>11. /\ e.scrubbed /\ e.n <= sent[e.from]
       /\ \A k \in 1..5 : \A x \in At[k] : Before(e, x)
  BY <1>5 DEF OrderInv, Scrubbed, FlowOrdered
<1>12. /\ \A d \in Elems(E) : d.scrubbed /\ d.n <= sent[d.from]
       /\ \A d \in Elems(E) : \A k \in 1..5 : \A x \in At[k] : Before(d, x)
  BY <1>8, <1>10, <1>11
<1>13. Scrubbed'
  <2>1. \A x \in At'[5] \cup At'[6] : x.scrubbed
    BY <1>5 DEF OrderInv, Scrubbed
  <2>2. ASSUME NEW q \in Processors
        PROVE  \A d \in Elems(Delivered(q)') : d.scrubbed
    <3>1. CASE q = p
      BY <1>10, <1>12, <3>1
    <3>2. CASE q # p
      BY <1>2, <3>2 DEF OrderInv, Scrubbed
    <3> QED
      BY <3>1, <3>2
  <2> QED
    BY <2>1, <2>2 DEF Scrubbed
<1>14. FlowOrdered'
  <2>1. \A c \in {"in", "secrets", "router"} : Increasing(chan'[c].buf)
    BY <1>3 DEF OrderInv, FlowOrdered, Links
  <2>2. \A k, l \in 1..6 : k < l => \A x \in At'[k], d \in At'[l] : Before(d, x)
    BY <1>5 DEF OrderInv, FlowOrdered
  <2>3. /\ \A k \in 1..6 : \A x \in At'[k] : x.n <= sent'[x.from]
        /\ ~opts'.pre => At'[2] = {} /\ At'[3] = {}
    BY <1>1, <1>5 DEF OrderInv, FlowOrdered
  <2> QED
    BY <2>1, <2>2, <2>3 DEF FlowOrdered
<1>15. OutOrdered'
  <2>1. ASSUME NEW q \in Processors
        PROVE  /\ Increasing(Delivered(q)')
               /\ \A d \in Elems(Delivered(q)') :
                     /\ d.n <= sent'[d.from]
                     /\ \A k \in 1..5 : \A x \in At'[k] : Before(d, x)
                     /\ ~Done(q)' => \A x \in At'[6] : Before(d, x)
    <3>1. CASE q = p
      <4>1. At'[6] # {} => Done(q)'
        BY <1>4, <3>1
      <4> QED
        BY <1>1, <1>4, <1>10, <1>12, <3>1, <4>1
    <3>2. CASE q # p
      <4>1. Delivered(q)' = Delivered(q)
        BY <1>2, <3>2
      <4>2. At'[6] # {} /\ ~Done(q)' => At'[6] = At[6] /\ ~Done(q)
        BY <1>4
      <4> QED
        BY <1>1, <1>4, <4>1, <4>2 DEF OrderInv, OutOrdered
    <3> QED
      BY <3>1, <3>2
  <2> QED
    BY <2>1 DEF OutOrdered
<1> QED
  BY <1>3, <1>13, <1>14, <1>15 DEF OrderInv

\* At first there is no entry.
LEMMA InitOrder == Init => OrderInv
<1> SUFFICES ASSUME Init PROVE OrderInv
  OBVIOUS
<1>1. BaseInv
  BY InitBase
<1>2. \A m \in 1..6 : At[m] = {}
  BY DEF Init, At, Elems, Links, Stages, Nothing
<1>3. \A p \in Processors : Delivered(p) = <<>>
  BY DEF Init, Delivered
<1>4. \A p \in Processors : Len(Delivered(p)) = 0 /\ Elems(Delivered(p)) = {}
  BY <1>3 DEF Elems
<1>5. \A c \in {"in", "secrets", "router"} : Len(chan[c].buf) = 0
  BY DEF Init, Links
<1>6. Scrubbed
  BY <1>2, <1>4 DEF Scrubbed
<1>7. FlowOrdered
  BY <1>2, <1>5 DEF FlowOrdered, Increasing
<1>8. OutOrdered
  BY <1>2, <1>4 DEF OutOrdered, Increasing
<1> QED
  BY <1>1, <1>6, <1>7, <1>8 DEF OrderInv

\* Every step keeps the order.
LEMMA NextOrder == OrderInv /\ [Next]_vars => OrderInv'
<1> SUFFICES ASSUME OrderInv, [Next]_vars PROVE OrderInv'
  OBVIOUS
<1>1. CASE \/ \E r \in Readers : AddReader(r) \/ CloseReader(r)
           \/ \E p \in Processors : AddProcessor(p)
           \/ CallStart \/ StartReader \/ StartRouter
  BY <1>1, CallsOrder
<1>2. ASSUME NEW r \in Readers, Produce(r) PROVE OrderInv'
  BY <1>2, ProduceOrder
<1>3. ASSUME NEW p \in Processors, Consume(p) PROVE OrderInv'
  BY <1>3, ConsumeOrder
<1>4. ASSUME NEW s \in Stages, Take(s) PROVE OrderInv'
  BY <1>4, TakeOrder
<1>5. ASSUME NEW s \in {"preprocess", "leaked"}, Reject(s) PROVE OrderInv'
  BY <1>5, RejectOrder
<1>6. ASSUME NEW s \in {"preprocess", "leaked", "safety"}, Pass(s)
      PROVE  OrderInv'
  BY <1>6, PassOrder
<1>7. CASE \/ CloseInput
           \/ \E s \in {"preprocess", "leaked", "safety"} : Finish(s)
           \/ RouterEnds
  BY <1>7, CloseOrder
<1>8. CASE Push
  BY <1>8, PushOrder
<1>9. CASE Drop
  BY <1>9, DropOrder
<1>10. CASE UNCHANGED vars
  <2>1. /\ UNCHANGED <<opts, chan, hand, router, sent, got>>
    BY <1>10 DEF vars
  <2>2. BaseInv'
    BY NextBase DEF OrderInv
  <2>3. \A p \in Processors : Delivered(p)' = Delivered(p)
    BY <2>1 DEF Delivered
  <2> QED
    BY <2>1, <2>2, <2>3, SameOrder
<1> QED
  BY <1>1, <1>2, <1>3, <1>4, <1>5, <1>6, <1>7, <1>8, <1>9, <1>10
     DEF Next, StageNext

\* The entries of a Reader lie on the way, and come out of it, in the order
\* they were sent.
THEOREM OrderInvCorrect == Spec => []OrderInv
  BY InitOrder, NextOrder, PTL DEF Spec

\* No processor is ever given an entry that has not been scrubbed.
THEOREM OnlyScrubbedCorrect == Spec => []OnlyScrubbed
<1>1. OrderInv => OnlyScrubbed
  BY DEF OrderInv, Scrubbed, OnlyScrubbed, Elems
<1> QED
  BY <1>1, OrderInvCorrect, PTL

\* A processor sees the entries of one Reader in the order the Reader sent
\* them, and none of them twice.
THEOREM InOrderCorrect == Spec => []InOrder
<1>1. OrderInv => InOrder
  BY DEF OrderInv, OutOrdered, Increasing, Before, InOrder
<1> QED
  BY <1>1, OrderInvCorrect, PTL

-----------------------------------------------------------------------------
(* What is closed is drained.                                              *)

\* Nothing comes to places that are empty and that nothing is left before.
LEMMA ClosedKept ==
    ASSUME OrderInv, OrderInv', ClosedDrained,
           \A c \in Links \cup Processors : chan'[c].closed = chan[c].closed,
           \/ \A m \in 1..6 : At'[m] \subseteq At[m]
           \/ \E k \in 1..6, l \in 2..6, e \in Entry, f \in Entry :
                 Moved(At, At', k, l, e, f),
           chan["in"].closed => UNCHANGED <<start, reader>>,
           router.pc = "ended" => router'.pc = "ended" /\ At'[6] = At[6],
           Routes \subseteq Routes'
    PROVE  ClosedDrained'
<1>1. \A n \in {2, 4, 5} : Idle(n) => \A m \in 1..n : At'[m] = {}
  <2> SUFFICES ASSUME NEW n \in {2, 4, 5}, Idle(n), NEW m \in 1..n
               PROVE  At'[m] = {}
    OBVIOUS
  <2>1. At[m] = {} /\ m \in 1..6
    BY DEF Idle
  <2>2. CASE \A i \in 1..6 : At'[i] \subseteq At[i]
    BY <2>1, <2>2
  <2>3. ASSUME NEW k \in 1..6, NEW l \in 2..6,
               NEW e \in Entry, NEW f \in Entry,
               Moved(At, At', k, l, e, f)
        PROVE  At'[m] = {}
    <3>1. k \notin 1..n /\ k < l
      BY <2>3 DEF Moved, Idle
    <3>2. m \notin {k, l}
      BY <3>1
    <3> QED
      BY <2>1, <2>3, <3>2 DEF Moved
  <2> QED
    BY <2>2, <2>3
<1>2. \A n \in {2, 4, 5} : Idle(n) => Idle(n)'
  BY <1>1 DEF Idle
<1> QED
  BY <1>2 DEF ClosedDrained, Links

\* The same where nothing is closed, or nothing was.
LEMMA OpenKept ==
    ASSUME BaseInv, ClosedDrained, ~chan["in"].closed,
           \A c \in Links \cup Processors : chan'[c].closed = chan[c].closed
    PROVE  ClosedDrained'
  BY DEF ClosedDrained, Links

\* Each action keeps ClosedDrained.  Once the input is closed no Reader is
\* added or run.
LEMMA CallsClosed ==
    ASSUME OrderInv, OrderInv', ClosedDrained, At' = At,
           \/ \E r \in Readers : AddReader(r) \/ CloseReader(r)
           \/ \E p \in Processors : AddProcessor(p)
           \/ CallStart \/ StartReader \/ StartRouter
    PROVE  ClosedDrained'
<1>0. BaseInv
  BY DEF OrderInv
<1>1. /\ UNCHANGED <<chan>>
      /\ router.pc = "ended" => router'.pc = "ended"
      /\ Routes \subseteq Routes'
      /\ chan["in"].closed =>
            /\ start'.pc = "started"
            /\ \A r \in Readers : reader'[r] \notin {"running", "again"}
  <2>1. ASSUME NEW r \in Readers, AddReader(r)
        PROVE  UNCHANGED <<chan, router>> /\ ~chan["in"].closed
    BY <2>1 DEF AddReader, flowVars
  <2>2. ASSUME NEW r \in Readers, CloseReader(r)
        PROVE  /\ UNCHANGED <<chan, router, start>>
               /\ \A q \in Readers : reader'[q] \in {reader[q], "closed"}
    BY <1>0, <2>2 DEF CloseReader, flowVars, BaseInv, TypeOK
  <2>3. ASSUME NEW p \in Processors, AddProcessor(p)
        PROVE  /\ UNCHANGED <<chan, start, reader>> /\ router'.pc = router.pc
               /\ Routes \subseteq Routes'
    <3>1. /\ router.routes \in Seq(Processors)
          /\ router'.pc = router.pc
          /\ router'.routes = Append(router.routes, p)
      BY <1>0, <2>3, BaseTypes DEF AddProcessor, Router
    <3>2. /\ \A i \in 1..Len(router.routes) :
                router'.routes[i] = router.routes[i]
          /\ 1..Len(router.routes) \subseteq 1..Len(router'.routes)
      BY <3>1
    <3> QED
      BY <2>3, <3>1, <3>2 DEF AddProcessor, callVars, Routes, Elems
  <2>4. CASE CallStart \/ StartReader
    BY <2>4 DEF CallStart, StartReader, flowVars, Routes, ClosedDrained
  <2>5. CASE StartRouter
    <3>1. UNCHANGED <<chan, reader>> /\ start.pc = "run" /\ router.pc = "new"
      BY <1>0, <2>5 DEF StartRouter, BaseInv, RouterSound
    <3>2. router'.routes = router.routes
      BY <1>0, <2>5, BaseTypes DEF StartRouter, Router
    <3> QED
      BY <3>1, <3>2 DEF Routes, ClosedDrained
  <2> QED
    BY <2>1, <2>2, <2>3, <2>4, <2>5 DEF ClosedDrained, Routes
<1> QED
  BY <1>1 DEF ClosedDrained, Idle, Links

\* A stage closes its sink once its source is closed and empty.
LEMMA CloseClosed ==
    ASSUME OrderInv, OrderInv', ClosedDrained, At' = At,
           \/ CloseInput
           \/ \E s \in {"preprocess", "leaked", "safety"} : Finish(s)
           \/ RouterEnds
    PROVE  ClosedDrained'
<1>0. BaseInv
  BY DEF OrderInv
<1>1. \A n : Idle(n)' <=> Idle(n)
  BY DEF Idle
<1>2. UNCHANGED <<opts, start, reader>> /\ Routes' = Routes
  <2>1. router'.routes = router.routes
    BY <1>0, CloseEffect
  <2> QED
    BY <2>1 DEF CloseInput, Finish, RouterEnds, callVars, Routes
<1>3. CASE CloseInput
  <2>1. /\ \A c \in Links \cup Processors : c # "in" => chan'[c] = chan[c]
        /\ UNCHANGED router /\ start.pc = "started"
        /\ \A r \in Readers : reader[r] \notin {"running", "again"}
        /\ ~chan["in"].closed
    BY <1>0, <1>3, BaseTypes DEF CloseInput, Links
  <2> QED
    BY <1>0, <1>1, <1>2, <2>1, BaseTypes DEF ClosedDrained, Links
<1>4. ASSUME NEW s \in {"preprocess", "leaked", "safety"}, Finish(s)
      PROVE  ClosedDrained'
  <2>1. /\ \A c \in Links \cup Processors : c # Sink(s) => chan'[c] = chan[c]
        /\ UNCHANGED router /\ Runs(s)
        /\ hand[s] = {} /\ chan[Source(s)].closed /\ chan[Source(s)].buf = <<>>
    BY <1>0, <1>4, BaseTypes DEF Finish, Nothing
  <2>2. Elems(chan[Source(s)].buf) = {}
    BY <1>0, <2>1, BaseTypes, ElemsOf, LinksOf
  <2>3. CASE s = "leaked"
    <3>1. \A c \in Links \cup Processors : c # "leaked" => chan'[c] = chan[c]
      BY <2>1, <2>3 DEF Sink
    <3> QED
      BY <1>0, <1>1, <1>2, <2>1, <3>1, BaseTypes DEF ClosedDrained, Links
  <2>4. CASE s = "preprocess"
    <3>1. /\ \A c \in Links \cup Processors : c # "secrets" => chan'[c] = chan[c]
          /\ chan["in"].closed
      BY <2>1, <2>4 DEF Sink, Source
    <3>2. Idle(2)
      <4>1. At[1] = {} /\ At[2] = {}
        BY <2>1, <2>2, <2>4 DEF At, Source
      <4> QED
        BY <4>1 DEF Idle
    <3> QED
      BY <1>0, <1>1, <1>2, <2>1, <3>1, <3>2, BaseTypes DEF ClosedDrained, Links
  <2>5. CASE s = "safety"
    <3>1. \A c \in Links \cup Processors : c # "router" => chan'[c] = chan[c]
      BY <2>1, <2>5 DEF Sink
    <3>2. chan["in"].closed /\ Idle(4)
      <4>1. At[4] = {}
        BY <2>1, <2>5 DEF At
      <4>2. CASE opts.pre
        <5>1. chan["secrets"].closed /\ At[3] = {}
          BY <2>1, <2>2, <2>5, <4>2 DEF At, Source
        <5>2. chan["in"].closed /\ At[1] = {} /\ At[2] = {}
          BY <5>1 DEF ClosedDrained, Idle
        <5> QED
          BY <4>1, <5>1, <5>2 DEF Idle
      <4>3. CASE ~opts.pre
        <5>1. chan["in"].closed /\ At[1] = {}
          BY <2>1, <2>2, <2>5, <4>3 DEF At, Source
        <5>2. At[2] = {} /\ At[3] = {}
          BY <4>3 DEF OrderInv, FlowOrdered
        <5> QED
          BY <4>1, <5>1, <5>2 DEF Idle
      <4> QED
        BY <4>2, <4>3
    <3> QED
      BY <1>0, <1>1, <1>2, <2>1, <3>1, <3>2, BaseTypes DEF ClosedDrained, Links
  <2> QED
    BY <2>3, <2>4, <2>5
<1>5. CASE RouterEnds
  <2>1. /\ router'.pc = "ended" /\ chan["router"].closed
        /\ chan["router"].buf = <<>>
        /\ \A c \in Links : chan'[c] = chan[c]
        /\ \A p \in Processors : chan'[p].closed => chan[p].closed \/ p \in Routes
    <3>1. \A c \in Links \cup Processors :
             chan'[c] = IF c \in Routes THEN [chan[c] EXCEPT !.closed = TRUE]
                                        ELSE chan[c]
      <4>1. chan' = [c \in DOMAIN chan |->
                       IF \E i \in 1..Len(router.routes) : router.routes[i] = c
                       THEN [chan[c] EXCEPT !.closed = TRUE] ELSE chan[c]]
        BY <1>5 DEF RouterEnds
      <4>2. \A c : (\E i \in 1..Len(router.routes) : router.routes[i] = c)
                     <=> c \in Routes
        BY DEF Routes, Elems
      <4>3. DOMAIN chan = Links \cup Processors
        BY <1>0, BaseTypes
      <4> HIDE DEF Routes
      <4> QED
        BY <4>1, <4>2, <4>3
    <3>2. Routes \subseteq Processors
      BY <1>0, BaseTypes DEF Routes, Elems
    <3>3. router'.pc = "ended"
      BY <1>0, <1>5, BaseTypes DEF RouterEnds, Router
    <3> QED
      BY <1>0, <1>5, <3>1, <3>2, <3>3, BaseTypes, ZenonT(60) DEF RouterEnds
  <2>2. At[5] = {}
    BY <2>1 DEF At, Elems
  <2>3. chan["in"].closed /\ Idle(5)
    BY <2>1, <2>2 DEF ClosedDrained, Idle
  <2> QED
    BY <1>1, <1>2, <2>1, <2>3 DEF ClosedDrained, Links
<1> QED
  BY <1>3, <1>4, <1>5

\* Every step keeps ClosedDrained.
LEMMA NextClosed ==
    OrderInv /\ ClosedDrained /\ [Next]_vars => ClosedDrained'
<1> SUFFICES ASSUME OrderInv, ClosedDrained, [Next]_vars PROVE ClosedDrained'
  OBVIOUS
<1>0. BaseInv /\ OrderInv'
  BY NextOrder DEF OrderInv
<1>1. CASE \/ \E r \in Readers : AddReader(r) \/ CloseReader(r)
           \/ \E p \in Processors : AddProcessor(p)
           \/ CallStart \/ StartReader \/ StartRouter
  BY <1>0, <1>1, CallsOrder, CallsClosed
<1>2. ASSUME NEW r \in Readers, Produce(r) PROVE ClosedDrained'
  <2>1. ~chan["in"].closed
    BY <1>2 DEF Produce, ClosedDrained
  <2>2. \A c \in Links \cup Processors : chan'[c].closed = chan[c].closed
    BY <1>0, <1>2, ProduceEffect
  <2> QED
    BY <1>0, <2>1, <2>2, OpenKept
<1>3. ASSUME NEW p \in Processors, Consume(p) PROVE ClosedDrained'
  <2>1. /\ \A c \in Links \cup Processors : chan'[c].closed = chan[c].closed
        /\ At' = At
    BY <1>0, <1>3, ConsumeEffect, ConsumeOrder
  <2>2. UNCHANGED <<router, start, reader>>
    BY <1>3 DEF Consume, callVars
  <2> QED
    BY <1>0, <2>1, <2>2, ClosedKept DEF Routes
<1>4. ASSUME NEW s \in Stages, Take(s) PROVE ClosedDrained'
  <2>1. /\ \A c \in Links \cup Processors : chan'[c].closed = chan[c].closed
        /\ s # "router" => router' = router
        /\ s = "router" => router.pc = "range" /\ router'.routes = router.routes
    BY <1>0, <1>4, TakeEffect
  <2>2. UNCHANGED <<start, reader>>
    BY <1>4 DEF Take, callVars
  <2>3. \/ \A m \in 1..6 : At'[m] \subseteq At[m]
        \/ \E k \in 1..6, l \in 2..6, e \in Entry, f \in Entry :
              Moved(At, At', k, l, e, f)
    BY <1>4, TakeOrder
  <2>4. router.pc = "ended" => At'[6] = At[6] /\ router' = router
    <3>1. router.pc = "ended" => s # "router"
      BY <2>1
    <3>2. s # "router" => hand'["router"] = hand["router"]
      BY <1>0, <1>4, BaseTypes DEF Take, Stages
    <3> QED
      BY <2>1, <3>1, <3>2 DEF At
  <2>5. Routes' = Routes
    BY <2>1 DEF Routes
  <2> QED
    BY <1>0, <2>1, <2>2, <2>3, <2>4, <2>5, ClosedKept
<1>5. ASSUME NEW s \in {"preprocess", "leaked"}, Reject(s)
      PROVE  ClosedDrained'
  <2>1. /\ UNCHANGED <<chan, router, start, reader>>
        /\ \A m \in 1..6 : At'[m] \subseteq At[m]
        /\ At'[6] = At[6]
    <3>1. /\ \A m \in 1..6 \ {2} : At'[m] = At[m]
          /\ At'[2] = {} \/ At'[2] = At[2]
      BY <1>5, RejectOrder
    <3> QED
      BY <1>5, <3>1 DEF Reject, callVars
  <2> QED
    BY <1>0, <2>1, ClosedKept DEF Routes
<1>6. ASSUME NEW s \in {"preprocess", "leaked", "safety"}, Pass(s)
      PROVE  ClosedDrained'
  <2>1. \A c \in Links \cup Processors : chan'[c].closed = chan[c].closed
    BY <1>0, <1>6, PassEffect
  <2>2. UNCHANGED <<router, start, reader>> /\ hand'["router"] = hand["router"]
    BY <1>0, <1>6, BaseTypes DEF Pass, callVars, Stages
  <2>3. \/ \A m \in 1..6 : At'[m] \subseteq At[m]
        \/ \E k \in 1..6, l \in 2..6, e \in Entry, f \in Entry :
              Moved(At, At', k, l, e, f)
    <3>1. CASE s = "leaked"
      BY <1>6, <3>1, PassOrder
    <3>2. CASE s # "leaked"
      <4>1. PICK k \in 1..6, l \in 2..5, e \in Entry, f \in Entry :
               Moved(At, At', k, l, e, f)
        BY <1>6, <3>2, PassOrder
      <4> QED
        BY <4>1
    <3> QED
      BY <3>1, <3>2
  <2>4. At'[6] = At[6]
    BY <2>2 DEF At
  <2> QED
    BY <1>0, <2>1, <2>2, <2>3, <2>4, ClosedKept DEF Routes
<1>7. CASE \/ CloseInput
           \/ \E s \in {"preprocess", "leaked", "safety"} : Finish(s)
           \/ RouterEnds
  BY <1>0, <1>7, CloseOrder, CloseClosed
<1>8. CASE Push \/ Drop
  <2>1. /\ router.pc = "push" /\ Pushed /\ UNCHANGED <<start, reader>>
    BY <1>8 DEF Push, Drop, callVars
  <2>2. /\ \A c \in Links : chan'[c] = chan[c]
        /\ \A c \in Links \cup Processors : chan'[c].closed = chan[c].closed
    BY <1>0, <1>8, PushEffect, DropEffect
  <2>3. router'.routes = router.routes /\ \A m \in 1..6 : At'[m] \subseteq At[m]
    BY <1>0, <2>1, <2>2, PushedEffect, RouterGoesOn
  <2> QED
    BY <1>0, <2>1, <2>2, <2>3, ClosedKept DEF Routes
<1>9. CASE UNCHANGED vars
  BY <1>9 DEF vars, ClosedDrained, Idle, At, Routes
<1> QED
  BY <1>1, <1>2, <1>3, <1>4, <1>5, <1>6, <1>7, <1>8, <1>9
     DEF Next, StageNext

-----------------------------------------------------------------------------
(* Every entry is accounted for.                                           *)

\* Which entries are at the first n places.
LEMMA PairsIs ==
    ASSUME NEW A, NEW n, NEW q
    PROVE  q \in PairsIn(A, n) <=> \E m \in 1..n : \E x \in A[m] : q = Pair(x)
  BY DEF PairsIn

\* Places that hold the same hold the same entries.
LEMMA PairsSame ==
    ASSUME NEW A, NEW B, NEW n, \A m \in 1..n : B[m] = A[m]
    PROVE  PairsIn(B, n) = PairsIn(A, n)
<1>1. \A q : q \in PairsIn(B, n) <=> q \in PairsIn(A, n)
  BY PairsIs
<1> QED
  BY <1>1

\* The last place is empty.
LEMMA PairsFive ==
    ASSUME NEW A, A[6] = {}
    PROVE  PairsIn(A, 5) = PairsIn(A, 6)
<1>1. \A q : q \in PairsIn(A, 5) => q \in PairsIn(A, 6)
  <2>1. \A m \in 1..5 : m \in 1..6
    OBVIOUS
  <2> QED
    BY <2>1, PairsIs
<1>2. \A q : q \in PairsIn(A, 6) => q \in PairsIn(A, 5)
  <2>1. \A m \in 1..6 : m \in 1..5 \/ m = 6
    OBVIOUS
  <2> QED
    BY <2>1, PairsIs
<1> QED
  BY <1>1, <1>2

\* An entry that moves on is the same entry.
LEMMA PairsMoved ==
    ASSUME NEW A, NEW B, NEW n \in {5, 6}, NEW k \in 1..6, NEW l \in 1..n,
           NEW e, NEW f, Moved(A, B, k, l, e, f)
    PROVE  PairsIn(B, n) = PairsIn(A, n)
<1>1. /\ k \in 1..n /\ l \in 1..n /\ k # l /\ e \in A[k] /\ f \in B[l]
      /\ Pair(f) = Pair(e)
      /\ \A m \in 1..n : \A x \in B[m] : x \in A[m] \/ x = f
      /\ \A m \in 1..n : \A x \in A[m] : x \in B[m] \/ x = e
  BY DEF Moved, Pair
<1> HIDE DEF Moved
<1>2. ASSUME NEW q, q \in PairsIn(B, n) PROVE q \in PairsIn(A, n)
  <2>1. PICK m \in 1..n : \E x \in B[m] : q = Pair(x)
    BY <1>2, PairsIs
  <2>2. PICK x \in B[m] : q = Pair(x)
    BY <2>1
  <2>3. \E i \in 1..n : \E y \in A[i] : q = Pair(y)
    BY <1>1, <2>2
  <2> QED
    BY <2>3, PairsIs
<1>3. ASSUME NEW q, q \in PairsIn(A, n) PROVE q \in PairsIn(B, n)
  <2>1. PICK m \in 1..n : \E x \in A[m] : q = Pair(x)
    BY <1>3, PairsIs
  <2>2. PICK x \in A[m] : q = Pair(x)
    BY <2>1
  <2>3. \E i \in 1..n : \E y \in B[i] : q = Pair(y)
    BY <1>1, <2>2
  <2> QED
    BY <2>3, PairsIs
<1> QED
  BY <1>2, <1>3

\* What the preprocessors of a failed New hold, now and one step later.
LEMMA StolenIs ==
    /\ Stolen = {Pair(e) : e \in hand["leaked"] \cup Elems(chan["leaked"].buf)}
    /\ Stolen' = {Pair(e) : e \in hand'["leaked"] \cup Elems(chan'["leaked"].buf)}
  BY DEF Stolen, Elems, Pair

\* A step that refuses, steals, sends and drops nothing.
LEMMA SameAccount ==
    ASSUME Accounted, UNCHANGED <<opts, dropped, sent, rejected>>,
           Stolen' = Stolen, LeakedApart',
           PairsIn(At', 6) \subseteq PairsIn(At, 6),
           \A p \in Processors :
              /\ DeliveredTo(p)' \subseteq DeliveredTo(p) \cup PairsIn(At, 6)
              /\ p \in Routes' \/ router'.pc = "new" =>
                    /\ p \in Routes \/ router.pc = "new"
                    /\ DeliveredTo(p)' \cup FlowTo(p)'
                         = DeliveredTo(p) \cup FlowTo(p)
    PROVE  Accounted'
<1>1. SentPairs' = SentPairs
  BY DEF SentPairs
<1>2. \A p \in Processors : p \in Routes' \/ router'.pc = "new" =>
         /\ p \in Routes \/ router.pc = "new"
         /\ Missed(p)' = Missed(p)
  <2> SUFFICES ASSUME NEW p \in Processors, p \in Routes' \/ router'.pc = "new"
               PROVE  /\ p \in Routes \/ router.pc = "new"
                      /\ Missed(p)' = Missed(p)
    OBVIOUS
  <2>1. Missed(p)' = SentPairs' \ (rejected' \cup Stolen' \cup
                                     (DeliveredTo(p)' \cup FlowTo(p)'))
    BY DEF Missed
  <2>2. Missed(p) = SentPairs \ (rejected \cup Stolen \cup
                                     (DeliveredTo(p) \cup FlowTo(p)))
    BY DEF Missed
  <2> QED
    BY <1>1, <2>1, <2>2
<1>3. /\ rejected' \cup Stolen' \subseteq SentPairs'
      /\ rejected' \cap Stolen' = {}
      /\ PairsIn(At', 6) \cap (rejected' \cup Stolen') = {}
      /\ ~opts'.leaked => Stolen' = {}
      /\ opts'.blocking => \A p \in Processors : dropped'[p] = 0
  BY <1>1 DEF Accounted
<1>4. \A p \in Processors : DeliveredTo(p)' \cap (rejected' \cup Stolen') = {}
  BY DEF Accounted
<1>5. \A p \in Processors : p \in Routes' \/ router'.pc = "new" =>
         IsFiniteSet(Missed(p)') /\ Cardinality(Missed(p)') = dropped'[p]
  BY <1>2 DEF Accounted
<1> QED
  BY <1>3, <1>4, <1>5 DEF Accounted

\* Nor does one that leaves the way and the processors' entries alone.
LEMMA QuietAccount ==
    ASSUME OrderInv, OrderInv', Accounted, At' = At,
           UNCHANGED <<opts, dropped, sent, rejected, hand>>,
           chan'["leaked"].buf = chan["leaked"].buf,
           \A p \in Processors : Delivered(p)' = Delivered(p),
           \/ UNCHANGED router
           \/ router'.routes = router.routes /\ router'.pc # "new" /\ At[6] = {}
           \/ router.pc = "new" /\ At[6] = {}
    PROVE  Accounted'
<1>1. Stolen' = Stolen /\ LeakedApart'
  BY StolenIs DEF Accounted, LeakedApart
<1>2. \A p \in Processors : DeliveredTo(p)' = DeliveredTo(p)
  BY DEF DeliveredTo
<1>3. \A p \in Processors : FlowTo(p)' = FlowTo(p)
  <2>1. \A p \in Processors : FlowTo(p)' = PairsIn(At', IF Done(p)' THEN 5 ELSE 6)
    BY DEF FlowTo
  <2>2. CASE At[6] = {}
    BY <2>1, <2>2, PairsFive DEF FlowTo
  <2>3. CASE UNCHANGED router
    BY <2>1, <2>3 DEF FlowTo, Done
  <2> QED
    BY <2>2, <2>3
<1>4. \A p \in Processors : p \in Routes' \/ router'.pc = "new" =>
         p \in Routes \/ router.pc = "new"
  <2>1. CASE UNCHANGED router
    BY <2>1 DEF Routes
  <2>2. CASE router'.routes = router.routes /\ router'.pc # "new"
    BY <2>2 DEF Routes
  <2>3. CASE router.pc = "new"
    BY <2>3
  <2> QED
    BY <2>1, <2>2, <2>3
<1> QED
  BY <1>1, <1>2, <1>3, <1>4, SameAccount

\* Each action keeps Accounted.  The set-up calls touch no entry, ...
LEMMA CallsAccount ==
    ASSUME OrderInv, OrderInv', Accounted, At' = At,
           \/ \E r \in Readers : AddReader(r) \/ CloseReader(r)
           \/ \E p \in Processors : AddProcessor(p)
           \/ CallStart \/ StartReader \/ StartRouter
    PROVE  Accounted'
<1>0. BaseInv
  BY DEF OrderInv
<1>1. /\ UNCHANGED <<opts, chan, hand, dropped, sent, rejected, got>>
      /\ UNCHANGED router \/ router.pc = "new"
  <2>1. ASSUME NEW r \in Readers, AddReader(r) \/ CloseReader(r)
        PROVE  UNCHANGED <<opts, flowVars, sent>>
    BY <2>1 DEF AddReader, CloseReader
  <2>2. ASSUME NEW p \in Processors, AddProcessor(p)
        PROVE  /\ UNCHANGED <<opts, chan, hand, dropped, sent, rejected, got>>
               /\ router.pc = "new"
    BY <1>0, <2>2 DEF AddProcessor, BaseInv, RouterSound
  <2>3. CASE CallStart \/ StartReader
    BY <2>3 DEF CallStart, StartReader, flowVars
  <2>4. CASE StartRouter
    BY <1>0, <2>4 DEF StartRouter, BaseInv, RouterSound
  <2> QED
    BY <2>1, <2>2, <2>3, <2>4 DEF flowVars
<1>2. router.pc = "new" => At[6] = {}
  BY <1>0 DEF BaseInv, RouterSound, At, Nothing
<1>3. \A p \in Processors : Delivered(p)' = Delivered(p)
  BY <1>1 DEF Delivered
<1> QED
  BY <1>1, <1>2, <1>3, QuietAccount

\* ... nor does a processor that reads, ...
LEMMA ConsumeAccount ==
    ASSUME OrderInv, OrderInv', Accounted, NEW p \in Processors, Consume(p)
    PROVE  Accounted'
<1>1. BaseInv /\ At' = At
  BY ConsumeOrder DEF OrderInv
<1>2. UNCHANGED <<opts, dropped, sent, rejected, hand, router>>
  BY DEF Consume
<1>3. /\ \A q \in Processors : Delivered(q)' = Delivered(q)
      /\ chan'["leaked"].buf = chan["leaked"].buf
  BY <1>1, ConsumeEffect, BaseTypes DEF Links
<1> QED
  BY <1>1, <1>2, <1>3, QuietAccount

\* ... nor closing a channel.
LEMMA CloseAccount ==
    ASSUME OrderInv, OrderInv', Accounted,
           \/ CloseInput
           \/ \E s \in {"preprocess", "leaked", "safety"} : Finish(s)
           \/ RouterEnds
    PROVE  Accounted'
<1>1. BaseInv /\ At' = At
  BY CloseOrder DEF OrderInv
<1>2. UNCHANGED <<opts, dropped, sent, rejected, hand, got>>
  BY DEF CloseInput, Finish, RouterEnds
<1>3. \A c \in Links \cup Processors : chan'[c].buf = chan[c].buf
  BY <1>1, CloseEffect
<1>4. \/ UNCHANGED router
      \/ router'.routes = router.routes /\ router'.pc # "new" /\ At[6] = {}
  <2>1. CASE RouterEnds
    BY <1>1, <2>1, BaseTypes
       DEF RouterEnds, Router, BaseInv, RouterSound, At, Nothing
  <2>2. CASE ~RouterEnds
    BY <2>2 DEF CloseInput, Finish
  <2> QED
    BY <2>1, <2>2
<1>5. \A p \in Processors : Delivered(p)' = Delivered(p)
  BY <1>2, <1>3 DEF Delivered
<1>6. chan'["leaked"].buf = chan["leaked"].buf
  BY <1>3 DEF Links
<1> QED
  BY <1>1, <1>2, <1>4, <1>5, <1>6, QuietAccount

\* A Reader's next entry is on the way, and was nowhere before.
LEMMA ProduceAccount ==
    ASSUME OrderInv, OrderInv', Accounted, NEW r \in Readers, Produce(r)
    PROVE  Accounted'
<1>0. BaseInv /\ UNCHANGED <<opts, hand, router, dropped, rejected, got>>
  BY DEF OrderInv, Produce
<1>1. PICK e \in Entry :
         /\ e.from = r /\ e.n = sent[r] + 1
         /\ sent' = [sent EXCEPT ![r] = sent[r] + 1]
         /\ chan'["in"].buf = Append(chan["in"].buf, e)
         /\ \A c \in Links \cup Processors : c # "in" => chan'[c] = chan[c]
  BY <1>0, ProduceEffect
<1>2. PICK q : q = Pair(e)
  OBVIOUS
<1>3. SentPairs' = SentPairs \cup {q} /\ q \notin SentPairs
  <2>1. /\ q \in Readers \X (1..MaxEntries) /\ q[1] = r /\ q[2] = sent[r] + 1
        /\ q = <<q[1], q[2]>>
    BY <1>1, <1>2 DEF Pair, Entry
  <2>2. sent[r] \in Nat /\ sent'[r] = sent[r] + 1
        /\ \A t \in Readers : t # r => sent'[t] = sent[t]
    BY <1>0, <1>1, BaseTypes, PipelineAssumption
  <2>3. q \notin SentPairs
    BY <2>1, <2>2 DEF SentPairs
  <2>4. ASSUME NEW x \in Readers \X (1..MaxEntries)
        PROVE  x[2] <= sent'[x[1]] <=> x[2] <= sent[x[1]] \/ x = q
    <3>1. x[1] \in Readers /\ x[2] \in Nat /\ x = <<x[1], x[2]>>
      BY PipelineAssumption
    <3>2. CASE x[1] = r
      <4>1. x[2] <= sent[r] + 1 <=> x[2] <= sent[r] \/ x[2] = sent[r] + 1
        BY <2>2, <3>1
      <4>2. x[2] = sent[r] + 1 <=> x = q
        BY <2>1, <3>1, <3>2
      <4> QED
        BY <2>2, <3>2, <4>1, <4>2
    <3>3. CASE x[1] # r
      BY <2>1, <2>2, <3>1, <3>3
    <3> QED
      BY <3>2, <3>3
  <2> QED
    BY <2>1, <2>3, <2>4 DEF SentPairs
<1>4. At'[1] = At[1] \cup {e} /\ \A m \in 2..6 : At'[m] = At[m]
  <2>1. At'[1] = At[1] \cup {e}
    <3>1. chan["in"].buf \in Seq(Entry)
      BY <1>0, BaseTypes DEF Links
    <3>2. Elems(Append(chan["in"].buf, e)) = Elems(chan["in"].buf) \cup {e}
      BY <3>1, AppendElems
    <3>3. At'[1] = Elems(chan'["in"].buf) /\ At[1] = Elems(chan["in"].buf)
      BY DEF At
    <3> QED
      BY <1>1, <3>2, <3>3
  <2>2. \A m \in 2..6 : At'[m] = At[m]
    BY <1>0, <1>1 DEF At, Links
  <2> QED
    BY <2>1, <2>2
<1>5. \A n \in {5, 6} : PairsIn(At', n) = PairsIn(At, n) \cup {q}
  <2> SUFFICES ASSUME NEW n \in {5, 6}, NEW x
               PROVE  x \in PairsIn(At', n) <=> x \in PairsIn(At, n) \/ x = q
    OBVIOUS
  <2>1. /\ x \in PairsIn(At', n) <=> \E m \in 1..n : \E d \in At'[m] : x = Pair(d)
        /\ x \in PairsIn(At, n) <=> \E m \in 1..n : \E d \in At[m] : x = Pair(d)
    BY PairsIs
  <2>2. 1 \in 1..n /\ \A m \in 1..n : m = 1 \/ m \in 2..6
    OBVIOUS
  <2> QED
    BY <1>2, <1>4, <2>1, <2>2
<1>6. Stolen' = Stolen /\ LeakedApart'
  BY <1>0, <1>1, StolenIs DEF Accounted, LeakedApart, Links
<1>7. \A p \in Processors : /\ DeliveredTo(p)' = DeliveredTo(p)
                            /\ FlowTo(p)' = FlowTo(p) \cup {q}
  <2> SUFFICES ASSUME NEW p \in Processors
               PROVE  /\ DeliveredTo(p)' = DeliveredTo(p)
                      /\ FlowTo(p)' = FlowTo(p) \cup {q}
    OBVIOUS
  <2>1. Delivered(p)' = Delivered(p) /\ Done(p)' = Done(p)
    BY <1>0, <1>1, BaseTypes DEF Delivered, Done, Links
  <2>2. FlowTo(p)' = PairsIn(At', IF Done(p)' THEN 5 ELSE 6)
    BY DEF FlowTo
  <2> QED
    BY <1>5, <2>1, <2>2 DEF FlowTo, DeliveredTo
<1>8. /\ rejected' \cup Stolen' \subseteq SentPairs'
      /\ rejected' \cap Stolen' = {}
      /\ PairsIn(At', 6) \cap (rejected' \cup Stolen') = {}
      /\ ~opts'.leaked => Stolen' = {}
      /\ opts'.blocking => \A p \in Processors : dropped'[p] = 0
      /\ \A p \in Processors : DeliveredTo(p)' \cap (rejected' \cup Stolen') = {}
  BY <1>0, <1>3, <1>5, <1>6, <1>7 DEF Accounted
<1>9. \A p \in Processors : Missed(p)' = Missed(p)
  <2> SUFFICES ASSUME NEW p \in Processors PROVE Missed(p)' = Missed(p)
    OBVIOUS
  <2>1. Missed(p)' = SentPairs' \ (rejected' \cup Stolen' \cup
                                     (DeliveredTo(p)' \cup FlowTo(p)'))
    BY DEF Missed
  <2>2. Missed(p) = SentPairs \ (rejected \cup Stolen \cup
                                     (DeliveredTo(p) \cup FlowTo(p)))
    BY DEF Missed
  <2> QED
    BY <1>0, <1>3, <1>6, <1>7, <2>1, <2>2
<1>10. \A p \in Processors : p \in Routes' \/ router'.pc = "new" =>
         IsFiniteSet(Missed(p)') /\ Cardinality(Missed(p)') = dropped'[p]
  BY <1>0, <1>9 DEF Accounted, Routes
<1> QED
  BY <1>6, <1>8, <1>10 DEF Accounted

\* Entries of a Reader in order are different ones.
LEMMA BeforePairs ==
    ASSUME NEW d \in Entry, NEW e \in Entry, Before(d, e)
    PROVE  Pair(d) # Pair(e)
<1>1. d.n \in Nat /\ e.n \in Nat
  BY PipelineAssumption DEF Entry
<1> QED
  BY <1>1 DEF Before, Pair

\* An entry that moves on is still on its way.
LEMMA MoveAccount ==
    ASSUME OrderInv, Accounted, UNCHANGED <<opts, dropped, sent, rejected>>,
           Stolen' = Stolen, LeakedApart',
           NEW k \in 1..6, NEW l \in 1..6, NEW e, NEW f,
           Moved(At, At', k, l, e, f),
           \A p \in Processors : Delivered(p)' = Delivered(p),
           router'.routes = router.routes, router'.pc = router.pc \/ l = 6,
           l # 6 => router' = router,
           l = 6 => /\ At[6] = {} /\ router.pc # "new" /\ router'.pc # "new"
                    /\ \A p \in Processors : ~Done(p)'
    PROVE  Accounted'
<1>1. PairsIn(At', 6) = PairsIn(At, 6)
  BY PairsMoved
<1>2. \A p \in Processors : DeliveredTo(p)' = DeliveredTo(p)
  BY DEF DeliveredTo
<1>3. \A p \in Processors : FlowTo(p)' = FlowTo(p)
  <2> SUFFICES ASSUME NEW p \in Processors PROVE FlowTo(p)' = FlowTo(p)
    OBVIOUS
  <2>1. FlowTo(p)' = PairsIn(At', IF Done(p)' THEN 5 ELSE 6)
    BY DEF FlowTo
  <2>2. CASE l = 6
    BY <1>1, <2>1, <2>2, PairsFive DEF FlowTo
  <2>3. CASE l # 6
    <3>1. PairsIn(At', 5) = PairsIn(At, 5)
      <4>1. l \in 1..5
        BY <2>3
      <4> QED
        BY <4>1, PairsMoved
    <3>2. Done(p)' <=> Done(p)
      BY <2>3 DEF Done
    <3> QED
      BY <1>1, <2>1, <3>1, <3>2 DEF FlowTo
  <2> QED
    BY <2>2, <2>3
<1>4. \A p \in Processors : p \in Routes' \/ router'.pc = "new" =>
         p \in Routes \/ router.pc = "new"
  BY DEF Routes
<1> QED
  BY <1>1, <1>2, <1>3, <1>4, SameAccount

\* An entry that is taken up is still on its way, or is stolen.
LEMMA TakeAccount ==
    ASSUME OrderInv, OrderInv', Accounted, NEW s \in Stages, Take(s)
    PROVE  Accounted'
<1>0. BaseInv /\ UNCHANGED <<opts, dropped, sent, rejected, got>>
  BY DEF OrderInv, Take
<1>1. PICK e \in Entry : e = Head(chan[Source(s)].buf)
  BY TakeOrder
<1>2. /\ hand[s] = {} /\ hand'[s] = {e} /\ Runs(s)
      /\ \A t \in Stages : t # s => hand'[t] = hand[t]
      /\ \A c \in Links \cup Processors : c # Source(s) => chan'[c] = chan[c]
      /\ s # "router" => router' = router
      /\ s = "router" => /\ router.pc = "range" /\ router'.pc = "push"
                         /\ router'.i = 1 /\ router'.routes = router.routes
  <2>1. /\ hand' = [hand EXCEPT ![s] = {e}] /\ hand[s] = {} /\ Runs(s)
        /\ \A c \in Links \cup Processors : c # Source(s) => chan'[c] = chan[c]
        /\ s # "router" => router' = router
        /\ s = "router" => /\ router.pc = "range" /\ router'.pc = "push"
                           /\ router'.i = 1 /\ router'.routes = router.routes
    BY <1>0, <1>1, TakeEffect DEF Nothing
  <2> QED
    BY <1>0, <2>1, BaseTypes
<1>3. Source(s) # "leaked"
  BY DEF Source, Stages
<1>4. chan'["leaked"] = chan["leaked"]
  BY <1>2, <1>3 DEF Links
<1>5. \A p \in Processors : Delivered(p)' = Delivered(p)
  BY TakeOrder
<1>6. CASE s # "leaked"
  <2>1. PICK k \in 1..6, l \in 2..6 :
           /\ Moved(At, At', k, l, e, e)
           /\ l = 6 <=> s = "router"
           /\ At[l] = {}
    BY <1>1, <1>6, TakeOrder
  <2>2. Stolen' = Stolen /\ LeakedApart'
    BY <1>2, <1>4, <1>6, StolenIs DEF Accounted, LeakedApart, Stages
  <2>3. l = 6 => \A p \in Processors : ~Done(p)'
    BY <1>2, <2>1 DEF Done
  <2> QED
    BY <1>0, <1>2, <1>5, <2>1, <2>2, <2>3, MoveAccount
<1>7. CASE s = "leaked"
  <2>1. /\ e \in At[1] /\ At'[1] = At[1] \ {e}
        /\ \A d \in At'[1] : Before(e, d)
        /\ \A m \in 2..6 : At'[m] = At[m]
    BY <1>1, <1>7, TakeOrder
  <2>2. router' = router
    BY <1>2, <1>7
  <2>3. PICK q : q = Pair(e)
    OBVIOUS
  <2>4. Stolen' = Stolen \cup {q}
    BY <1>2, <1>4, <1>7, <2>3, StolenIs
  <2>5. At' \in Way /\ At \in Way
    BY <1>0, AtType, AtTypeNext DEF OrderInv, BaseInv
  <2>6. q \notin PairsIn(At', 6)
    <3> SUFFICES ASSUME NEW m \in 1..6, NEW d \in At'[m] PROVE Pair(d) # q
      BY PairsIs
    <3>1. Before(e, d) \/ Before(d, e)
      <4>1. CASE m = 1
        BY <2>1, <4>1
      <4>2. CASE m # 1
        <5>1. m \in 2..6 /\ d \in At[m]
          BY <2>1, <4>2
        <5> QED
          BY <2>1, <5>1 DEF OrderInv, FlowOrdered
      <4> QED
        BY <4>1, <4>2
    <3>2. d \in Entry
      BY <2>5 DEF Way
    <3> QED
      BY <2>3, <3>1, <3>2, BeforePairs
  <2>7. \A n \in {5, 6} : PairsIn(At, n) = PairsIn(At', n) \cup {q}
    <3> SUFFICES ASSUME NEW n \in {5, 6}, NEW x
                 PROVE  x \in PairsIn(At, n) <=> x \in PairsIn(At', n) \/ x = q
      OBVIOUS
    <3>1. /\ x \in PairsIn(At', n) <=>
                \E m \in 1..n : \E d \in At'[m] : x = Pair(d)
          /\ x \in PairsIn(At, n) <=> \E m \in 1..n : \E d \in At[m] : x = Pair(d)
      BY PairsIs
    <3>2. 1 \in 1..n /\ \A m \in 1..n : m = 1 \/ m \in 2..6
      OBVIOUS
    <3> QED
      BY <2>1, <2>3, <3>1, <3>2
  <2>8. q \notin rejected /\ q \notin Stolen /\ q \in SentPairs
    <3>1. q \notin rejected /\ q \notin Stolen
      BY <2>7 DEF Accounted
    <3>2. e.n <= sent[e.from]
      BY <2>1 DEF OrderInv, FlowOrdered
    <3> QED
      BY <2>3, <3>1, <3>2 DEF SentPairs, Pair, Entry
  <2>9. \A p \in Processors : q \notin DeliveredTo(p)
    <3> SUFFICES ASSUME NEW p \in Processors, NEW d \in Elems(Delivered(p))
                 PROVE  Pair(d) # q
      BY DEF DeliveredTo
    <3>1. Delivered(p) \in Seq(Entry)
      BY <1>0, BaseTypes, ConcatProperties DEF Delivered
    <3>2. d \in Entry
      BY <3>1, ElemsOf
    <3>3. Before(d, e)
      BY <2>1 DEF OrderInv, OutOrdered
    <3> QED
      BY <2>3, <3>2, <3>3, BeforePairs
  <2>10. LeakedApart'
    <3>1. \A d \in Elems(chan["leaked"].buf) : Pair(d) # q
      BY <2>8, StolenIs
    <3> QED
      BY <1>2, <1>4, <1>7, <2>3, <3>1 DEF LeakedApart
  <2>11. \A p \in Processors : /\ DeliveredTo(p)' = DeliveredTo(p)
                               /\ FlowTo(p) = FlowTo(p)' \cup {q}
    <3> SUFFICES ASSUME NEW p \in Processors
                 PROVE  /\ DeliveredTo(p)' = DeliveredTo(p)
                        /\ FlowTo(p) = FlowTo(p)' \cup {q}
      OBVIOUS
    <3>1. Delivered(p)' = Delivered(p) /\ Done(p)' = Done(p)
      BY <1>5, <2>2 DEF Done
    <3>2. FlowTo(p)' = PairsIn(At', IF Done(p)' THEN 5 ELSE 6)
      BY DEF FlowTo
    <3> QED
      BY <2>7, <3>1, <3>2 DEF FlowTo, DeliveredTo
  <2>12. SentPairs' = SentPairs
    BY <1>0 DEF SentPairs
  <2>13. \A p \in Processors : Missed(p)' = Missed(p)
    <3> SUFFICES ASSUME NEW p \in Processors PROVE Missed(p)' = Missed(p)
      OBVIOUS
    <3>1. Missed(p)' = SentPairs' \ (rejected' \cup Stolen' \cup
                                     (DeliveredTo(p)' \cup FlowTo(p)'))
      BY DEF Missed
    <3>2. Missed(p) = SentPairs \ (rejected \cup Stolen \cup
                                     (DeliveredTo(p) \cup FlowTo(p)))
      BY DEF Missed
    <3> QED
      BY <1>0, <2>4, <2>11, <2>12, <3>1, <3>2
  <2>14. /\ rejected' \cup Stolen' \subseteq SentPairs'
         /\ rejected' \cap Stolen' = {}
         /\ PairsIn(At', 6) \cap (rejected' \cup Stolen') = {}
         /\ opts'.leaked
         /\ opts'.blocking => \A p \in Processors : dropped'[p] = 0
    BY <1>0, <1>2, <1>7, <2>4, <2>6, <2>7, <2>8, <2>12 DEF Accounted, Runs
  <2>15. \A p \in Processors : DeliveredTo(p)' \cap (rejected' \cup Stolen') = {}
    BY <1>0, <2>4, <2>9, <2>11 DEF Accounted
  <2>16. \A p \in Processors : p \in Routes' \/ router'.pc = "new" =>
            IsFiniteSet(Missed(p)') /\ Cardinality(Missed(p)') = dropped'[p]
    BY <1>0, <2>2, <2>13 DEF Accounted, Routes
  <2> QED
    BY <2>10, <2>14, <2>15, <2>16 DEF Accounted
<1> QED
  BY <1>6, <1>7

\* An entry that is refused is no more on its way, nor stolen.
LEMMA RejectAccount ==
    ASSUME OrderInv, OrderInv', Accounted,
           NEW s \in {"preprocess", "leaked"}, Reject(s)
    PROVE  Accounted'
<1>0. /\ BaseInv /\ s \in Stages
      /\ UNCHANGED <<opts, chan, router, dropped, sent, got>>
  BY DEF OrderInv, Reject, Stages
<1>1. PICK e \in Entry : /\ hand[s] = {e} /\ hand' = [hand EXCEPT ![s] = {}]
                         /\ rejected' = rejected \cup {Pair(e)}
  BY <1>0, RejectEffect
<1>2. PICK q : q = Pair(e)
  OBVIOUS
<1>3. hand'[s] = {} /\ \A t \in Stages : t # s => hand'[t] = hand[t]
  BY <1>0, <1>1, BaseTypes
<1>4. /\ \A p \in Processors : DeliveredTo(p)' = DeliveredTo(p)
      /\ \A p \in Processors : Done(p)' = Done(p)
      /\ Routes' = Routes /\ SentPairs' = SentPairs
  BY <1>0 DEF DeliveredTo, Delivered, Done, Routes, SentPairs
<1>5. \A p \in Processors : FlowTo(p)' = PairsIn(At', IF Done(p) THEN 5 ELSE 6)
  BY <1>4 DEF FlowTo
<1>6. LeakedApart'
  BY <1>0, <1>3 DEF Accounted, LeakedApart, Stages
<1>7. ASSUME rejected' \cup Stolen' \subseteq SentPairs,
             rejected' \cap Stolen' = {},
             PairsIn(At', 6) \cap (rejected' \cup Stolen') = {},
             ~opts.leaked => Stolen' = {},
             \A p \in Processors :
                DeliveredTo(p) \cap (rejected' \cup Stolen') = {},
             \A p \in Processors :
                rejected' \cup Stolen' \cup FlowTo(p)'
                  = rejected \cup Stolen \cup FlowTo(p)
      PROVE  Accounted'
  <2>1. \A p \in Processors : Missed(p)' = Missed(p)
    <3> SUFFICES ASSUME NEW p \in Processors PROVE Missed(p)' = Missed(p)
      OBVIOUS
    <3>1. Missed(p)' = SentPairs' \ (rejected' \cup Stolen' \cup
                                     (DeliveredTo(p)' \cup FlowTo(p)'))
      BY DEF Missed
    <3>2. Missed(p) = SentPairs \ (rejected \cup Stolen \cup
                                     (DeliveredTo(p) \cup FlowTo(p)))
      BY DEF Missed
    <3>3. rejected' \cup Stolen' \cup FlowTo(p)'
             = rejected \cup Stolen \cup FlowTo(p)
      BY <1>7
    <3> QED
      BY <1>4, <3>1, <3>2, <3>3
  <2>2. \A p \in Processors : p \in Routes' \/ router'.pc = "new" =>
           IsFiniteSet(Missed(p)') /\ Cardinality(Missed(p)') = dropped'[p]
    BY <1>0, <1>4, <2>1 DEF Accounted
  <2>3. opts'.blocking => \A p \in Processors : dropped'[p] = 0
    BY <1>0 DEF Accounted
  <2> QED
    BY <1>0, <1>4, <1>6, <1>7, <2>2, <2>3 DEF Accounted
<1>8. CASE s = "preprocess"
  <2>1. /\ At[2] = {e} /\ At'[2] = {} /\ \A m \in 1..6 \ {2} : At'[m] = At[m]
    BY <1>1, <1>8, RejectOrder, AtFacts
  <2>2. Stolen' = Stolen
    BY <1>0, <1>3, <1>8, StolenIs DEF Stages
  <2>3. At \in Way
    BY <1>0, AtType DEF BaseInv
  <2>4. q \notin PairsIn(At', 6)
    <3> SUFFICES ASSUME NEW m \in 1..6, NEW d \in At'[m] PROVE Pair(d) # q
      BY PairsIs
    <3>1. m # 2 /\ d \in At[m] /\ e \in At[2]
      BY <2>1
    <3>2. m < 2 \/ 2 < m
      BY <3>1
    <3>3. Before(e, d) \/ Before(d, e)
      BY <3>1, <3>2 DEF OrderInv, FlowOrdered
    <3>4. d \in Entry
      BY <2>3, <3>1 DEF Way
    <3> QED
      BY <1>2, <3>3, <3>4, BeforePairs
  <2>5. \A n \in {5, 6} : PairsIn(At, n) = PairsIn(At', n) \cup {q}
    <3> SUFFICES ASSUME NEW n \in {5, 6}, NEW x
                 PROVE  x \in PairsIn(At, n) <=> x \in PairsIn(At', n) \/ x = q
      OBVIOUS
    <3>1. /\ x \in PairsIn(At', n) <=>
                \E m \in 1..n : \E d \in At'[m] : x = Pair(d)
          /\ x \in PairsIn(At, n) <=> \E m \in 1..n : \E d \in At[m] : x = Pair(d)
      BY PairsIs
    <3>2. 2 \in 1..n /\ \A m \in 1..n : m = 2 \/ m \in 1..6 \ {2}
      OBVIOUS
    <3> QED
      BY <1>2, <2>1, <3>1, <3>2
  <2>6. q \notin rejected /\ q \notin Stolen /\ q \in SentPairs
    <3>1. q \notin rejected /\ q \notin Stolen
      BY <2>5 DEF Accounted
    <3>2. e.n <= sent[e.from]
      BY <2>1 DEF OrderInv, FlowOrdered
    <3> QED
      BY <1>2, <3>1, <3>2 DEF SentPairs, Pair, Entry
  <2>7. \A p \in Processors : q \notin DeliveredTo(p)
    <3> SUFFICES ASSUME NEW p \in Processors, NEW d \in Elems(Delivered(p))
                 PROVE  Pair(d) # q
      BY DEF DeliveredTo
    <3>1. Delivered(p) \in Seq(Entry)
      BY <1>0, BaseTypes, ConcatProperties DEF Delivered
    <3>2. d \in Entry
      BY <3>1, ElemsOf
    <3>3. Before(d, e)
      BY <2>1 DEF OrderInv, OutOrdered
    <3> QED
      BY <1>2, <3>2, <3>3, BeforePairs
  <2>8. \A p \in Processors : FlowTo(p) = FlowTo(p)' \cup {q}
    BY <1>5, <2>5 DEF FlowTo
  <2>9. /\ rejected' \cup Stolen' \subseteq SentPairs
        /\ rejected' \cap Stolen' = {}
        /\ PairsIn(At', 6) \cap (rejected' \cup Stolen') = {}
        /\ ~opts.leaked => Stolen' = {}
    BY <1>1, <1>2, <2>2, <2>4, <2>5, <2>6 DEF Accounted
  <2>10. \A p \in Processors : DeliveredTo(p) \cap (rejected' \cup Stolen') = {}
    BY <1>1, <1>2, <2>2, <2>7 DEF Accounted
  <2>11. \A p \in Processors : rejected' \cup Stolen' \cup FlowTo(p)'
                                 = rejected \cup Stolen \cup FlowTo(p)
    BY <1>1, <1>2, <2>2, <2>8
  <2> QED
    BY <1>7, <2>9, <2>10, <2>11
<1>9. CASE s = "leaked"
  <2>1. At' = At
    <3>1. \A m \in 1..6 : At'[m] = At[m]
      BY <1>9, RejectOrder
    <3> QED
      BY <3>1 DEF At
  <2>2. \A d \in Elems(chan["leaked"].buf) : Pair(d) # q
    BY <1>1, <1>2, <1>9 DEF Accounted, LeakedApart
  <2>3. /\ Stolen = {Pair(d) : d \in hand["leaked"] \cup Elems(chan["leaked"].buf)}
        /\ Stolen' = {Pair(d) : d \in hand'["leaked"]
                                        \cup Elems(chan'["leaked"].buf)}
    BY StolenIs
  <2>4. Stolen' = Stolen \ {q} /\ q \in Stolen
    BY <1>0, <1>1, <1>2, <1>3, <1>9, <2>2, <2>3
  <2>5. rejected' \cup Stolen' = rejected \cup Stolen
    BY <1>1, <1>2, <2>4
  <2>6. rejected' \cap Stolen' = {} /\ (~opts.leaked => Stolen' = {})
    BY <1>1, <1>2, <2>4 DEF Accounted
  <2>7. \A p \in Processors : FlowTo(p)' = FlowTo(p)
    BY <1>5, <2>1 DEF FlowTo
  <2> QED
    BY <1>7, <2>1, <2>5, <2>6, <2>7 DEF Accounted
<1> QED
  BY <1>8, <1>9

\* An entry that a stage is done with is where it was counted.
LEMMA PassAccount ==
    ASSUME OrderInv, OrderInv', Accounted,
           NEW s \in {"preprocess", "leaked", "safety"}, Pass(s)
    PROVE  Accounted'
<1>0. BaseInv /\ UNCHANGED <<opts, router, dropped, sent, rejected, got>>
  BY DEF OrderInv, Pass
<1>1. \A p \in Processors : Delivered(p)' = Delivered(p)
  BY PassOrder
<1>2. PICK e \in Entry, f \in Entry :
         /\ hand[s] = {e} /\ f.from = e.from /\ f.n = e.n
         /\ hand' = [hand EXCEPT ![s] = {}]
         /\ chan'[Sink(s)].buf = Append(chan[Sink(s)].buf, f)
         /\ \A d \in Links \cup Processors : d # Sink(s) => chan'[d] = chan[d]
  BY <1>0, PassEffect
<1>3. hand'[s] = {} /\ \A t \in Stages : t # s => hand'[t] = hand[t]
  BY <1>0, <1>2, BaseTypes DEF Stages
<1>4. CASE s = "leaked"
  <2>1. chan'["leaked"].buf = Append(chan["leaked"].buf, f)
    BY <1>2, <1>4 DEF Sink
  <2>2. chan["leaked"].buf \in Seq(Entry)
    BY <1>0, BaseTypes DEF Links
  <2>3. Elems(chan'["leaked"].buf) = Elems(chan["leaked"].buf) \cup {f}
    BY <2>1, <2>2, AppendElems
  <2>4. Pair(f) = Pair(e)
    BY <1>2 DEF Pair
  <2>5. Stolen' = Stolen /\ LeakedApart'
    BY <1>2, <1>3, <1>4, <2>3, <2>4, StolenIs DEF LeakedApart
  <2>6. At' = At
    BY <1>4, PassOrder
  <2>7. \A p \in Processors : /\ DeliveredTo(p)' = DeliveredTo(p)
                              /\ FlowTo(p)' = FlowTo(p)
    BY <1>0, <1>1, <2>6 DEF DeliveredTo, FlowTo, Done
  <2> QED
    BY <1>0, <2>5, <2>6, <2>7, SameAccount DEF Routes
<1>5. CASE s # "leaked"
  <2>1. PICK k \in 1..6, l \in 2..5, d \in Entry, g \in Entry :
           Moved(At, At', k, l, d, g)
    BY <1>5, PassOrder
  <2>2. Sink(s) # "leaked"
    BY <1>5 DEF Sink
  <2>3. Stolen' = Stolen /\ LeakedApart'
    BY <1>2, <1>3, <1>5, <2>2, StolenIs DEF Accounted, LeakedApart, Stages, Links
  <2>4. l \in 1..6 /\ l # 6
    OBVIOUS
  <2> QED
    BY <1>0, <1>1, <2>1, <2>3, <2>4, MoveAccount
<1> QED
  BY <1>4, <1>5

\* A route that takes the entry has it; one that the router was done with had
\* it before.
LEMMA PushAccount ==
    ASSUME OrderInv, OrderInv', Accounted, Push
    PROVE  Accounted'
<1>0. /\ BaseInv /\ router.pc = "push" /\ Pushed
      /\ UNCHANGED <<opts, start, dropped, sent, rejected>>
  BY DEF OrderInv, Push, callVars
<1>1. PICK e \in Entry, p \in Processors :
         /\ hand["router"] = {e} /\ p = Route
         /\ Delivered(p)' = Append(Delivered(p), e)
         /\ \A q \in Processors : q # p => Delivered(q)' = Delivered(q)
  BY <1>0, PushEffect
<1>2. \A d \in Links : chan'[d] = chan[d]
  BY <1>0, PushEffect
<1>3. /\ \A m \in 1..5 : At'[m] = At[m]
      /\ ~Done(p)
      /\ \/ /\ At'[6] = At[6]
            /\ \A q \in Processors : Done(q)' <=> (Done(q) \/ q = p)
         \/ /\ At'[6] = {}
            /\ \A q \in Processors : q \in Routes => Done(q) \/ q = p
  BY <1>0, <1>1, <1>2, RouterGoesOn
<1>4. At[6] = {e}
  BY <1>1, AtFacts
<1>5. /\ router'.routes = router.routes
      /\ router'.pc # "new" /\ \A t \in Stages : t # "router" => hand'[t] = hand[t]
  BY <1>0, PushedEffect, BaseTypes
<1>6. Stolen' = Stolen /\ LeakedApart'
  BY <1>2, <1>5, StolenIs DEF Accounted, LeakedApart, Links, Stages
<1>7. PairsIn(At', 5) = PairsIn(At, 5)
  BY <1>3, PairsSame
<1>8. PairsIn(At, 6) = PairsIn(At, 5) \cup {Pair(e)}
  <2> SUFFICES ASSUME NEW x
               PROVE  x \in PairsIn(At, 6) <=> x \in PairsIn(At, 5) \/ x = Pair(e)
    OBVIOUS
  <2>1. /\ x \in PairsIn(At, 6) <=> \E m \in 1..6 : \E d \in At[m] : x = Pair(d)
        /\ x \in PairsIn(At, 5) <=> \E m \in 1..5 : \E d \in At[m] : x = Pair(d)
    BY PairsIs
  <2>2. 6 \in 1..6 /\ (\A m \in 1..6 : m = 6 \/ m \in 1..5)
        /\ \A m \in 1..5 : m \in 1..6
    OBVIOUS
  <2> QED
    BY <1>4, <2>1, <2>2
<1>9. \/ /\ PairsIn(At', 6) = PairsIn(At, 6)
         /\ \A q \in Processors : Done(q)' <=> (Done(q) \/ q = p)
      \/ /\ PairsIn(At', 6) = PairsIn(At, 5)
         /\ \A q \in Processors : q \in Routes => Done(q) \/ q = p
  <2>1. CASE At'[6] = At[6] /\ \A q \in Processors : Done(q)' <=> (Done(q) \/ q = p)
    <3>1. \A m \in 1..6 : At'[m] = At[m]
      BY <1>3, <2>1
    <3> QED
      BY <2>1, <3>1, PairsSame
  <2>2. CASE At'[6] = {} /\ \A q \in Processors : q \in Routes => Done(q) \/ q = p
    BY <1>7, <2>2, PairsFive
  <2> QED
    BY <1>3, <2>1, <2>2
<1>10. DeliveredTo(p)' = DeliveredTo(p) \cup {Pair(e)}
  <2>1. Delivered(p) \in Seq(Entry)
    BY <1>0, BaseTypes, ConcatProperties DEF Delivered
  <2>2. Elems(Append(Delivered(p), e)) = Elems(Delivered(p)) \cup {e}
    BY <2>1, AppendElems
  <2>3. DeliveredTo(p)' = {Pair(d) : d \in Elems(Append(Delivered(p), e))}
    BY <1>1 DEF DeliveredTo
  <2> QED
    BY <2>2, <2>3 DEF DeliveredTo
<1>11. \A q \in Processors : q # p => DeliveredTo(q)' = DeliveredTo(q)
  BY <1>1 DEF DeliveredTo
<1>12. \A q \in Processors :
          /\ FlowTo(q) = IF Done(q) THEN PairsIn(At, 5) ELSE PairsIn(At, 6)
          /\ FlowTo(q)' = IF Done(q)' THEN PairsIn(At', 5) ELSE PairsIn(At', 6)
  BY DEF FlowTo
<1>13. Routes' = Routes
  BY <1>5 DEF Routes
<1>14. ASSUME NEW q \in Processors
       PROVE  /\ DeliveredTo(q)' \subseteq DeliveredTo(q) \cup PairsIn(At, 6)
              /\ q \in Routes =>
                    DeliveredTo(q)' \cup FlowTo(q)' = DeliveredTo(q) \cup FlowTo(q)
  <2>1. CASE q = p
    <3>1. FlowTo(p) = PairsIn(At, 6) /\ FlowTo(p)' = PairsIn(At, 5)
      BY <1>3, <1>7, <1>9, <1>12
    <3> QED
      BY <1>8, <1>10, <2>1, <3>1
  <2>2. CASE q # p
    <3>1. q \in Routes => FlowTo(q)' = FlowTo(q)
      BY <1>7, <1>9, <1>12, <2>2
    <3> QED
      BY <1>11, <2>2, <3>1
  <2> QED
    BY <2>1, <2>2
<1>15. PairsIn(At', 6) \subseteq PairsIn(At, 6)
  BY <1>8, <1>9
<1> QED
  BY <1>0, <1>5, <1>6, <1>13, <1>14, <1>15, SameAccount

\* An entry that a full route loses is missed there, and counted.
LEMMA DropAccount ==
    ASSUME OrderInv, OrderInv', Accounted, Drop
    PROVE  Accounted'
<1>0. /\ BaseInv /\ router.pc = "push" /\ Pushed /\ ~opts.blocking
      /\ UNCHANGED <<opts, start, chan, sent, rejected, got>>
  BY DEF OrderInv, Drop, callVars
<1>1. PICK p \in Processors :
         p = Route /\ dropped' = [dropped EXCEPT ![p] = dropped[p] + 1]
  BY <1>0, DropEffect
<1>2. PICK e \in Entry : hand["router"] = {e}
  BY <1>0, PushedEffect
<1>3. /\ \A m \in 1..5 : At'[m] = At[m]
      /\ ~Done(p)
      /\ \/ /\ At'[6] = At[6]
            /\ \A q \in Processors : Done(q)' <=> (Done(q) \/ q = p)
         \/ /\ At'[6] = {}
            /\ \A q \in Processors : q \in Routes => Done(q) \/ q = p
  BY <1>0, <1>1, RouterGoesOn
<1>4. At[6] = {e}
  BY <1>2, AtFacts
<1>5. /\ router'.routes = router.routes
      /\ router'.pc # "new" /\ \A t \in Stages : t # "router" => hand'[t] = hand[t]
  BY <1>0, PushedEffect, BaseTypes
<1>6. Stolen' = Stolen /\ LeakedApart'
  BY <1>0, <1>5, StolenIs DEF Accounted, LeakedApart, Stages
<1>7. PairsIn(At', 5) = PairsIn(At, 5)
  BY <1>3, PairsSame
<1>8. PICK x : x = Pair(e)
  OBVIOUS
<1>9. PairsIn(At, 6) = PairsIn(At, 5) \cup {x}
  <2> SUFFICES ASSUME NEW y
               PROVE  y \in PairsIn(At, 6) <=> y \in PairsIn(At, 5) \/ y = x
    OBVIOUS
  <2>1. /\ y \in PairsIn(At, 6) <=> \E m \in 1..6 : \E d \in At[m] : y = Pair(d)
        /\ y \in PairsIn(At, 5) <=> \E m \in 1..5 : \E d \in At[m] : y = Pair(d)
    BY PairsIs
  <2>2. 6 \in 1..6 /\ (\A m \in 1..6 : m = 6 \/ m \in 1..5)
        /\ \A m \in 1..5 : m \in 1..6
    OBVIOUS
  <2> QED
    BY <1>4, <1>8, <2>1, <2>2
<1>10. At \in Way
  BY <1>0, AtType DEF BaseInv
<1>11. x \notin PairsIn(At, 5)
  <2> SUFFICES ASSUME NEW m \in 1..5, NEW d \in At[m] PROVE Pair(d) # x
    BY PairsIs
  <2>1. Before(e, d)
    BY <1>4 DEF OrderInv, FlowOrdered
  <2>2. d \in Entry
    BY <1>10 DEF Way
  <2> QED
    BY <1>8, <2>1, <2>2, BeforePairs
<1>12. x \notin DeliveredTo(p)
  <2> SUFFICES ASSUME NEW d \in Elems(Delivered(p)) PROVE Pair(d) # x
    BY DEF DeliveredTo
  <2>1. Delivered(p) \in Seq(Entry)
    BY <1>0, BaseTypes, ConcatProperties DEF Delivered
  <2>2. d \in Entry
    BY <2>1, ElemsOf
  <2>3. Before(d, e)
    BY <1>3, <1>4 DEF OrderInv, OutOrdered
  <2> QED
    BY <1>8, <2>2, <2>3, BeforePairs
<1>13. x \notin rejected /\ x \notin Stolen /\ x \in SentPairs
  <2>1. x \notin rejected /\ x \notin Stolen
    BY <1>9 DEF Accounted
  <2>2. e.n <= sent[e.from]
    BY <1>4 DEF OrderInv, FlowOrdered
  <2> QED
    BY <1>8, <2>1, <2>2 DEF SentPairs, Pair, Entry
<1>14. /\ SentPairs' = SentPairs /\ Routes' = Routes
       /\ \A q \in Processors : DeliveredTo(q)' = DeliveredTo(q)
  BY <1>0, <1>5 DEF SentPairs, Routes, DeliveredTo, Delivered
<1>15. \A q \in Processors :
          /\ FlowTo(q) = IF Done(q) THEN PairsIn(At, 5) ELSE PairsIn(At, 6)
          /\ FlowTo(q)' = IF Done(q)' THEN PairsIn(At', 5) ELSE PairsIn(At', 6)
  BY DEF FlowTo
<1>16. \/ /\ PairsIn(At', 6) = PairsIn(At, 6)
          /\ \A q \in Processors : Done(q)' <=> (Done(q) \/ q = p)
       \/ /\ PairsIn(At', 6) = PairsIn(At, 5)
          /\ \A q \in Processors : q \in Routes => Done(q) \/ q = p
  <2>1. CASE At'[6] = At[6] /\ \A q \in Processors : Done(q)' <=> (Done(q) \/ q = p)
    <3>1. \A m \in 1..6 : At'[m] = At[m]
      BY <1>3, <2>1
    <3> QED
      BY <2>1, <3>1, PairsSame
  <2>2. CASE At'[6] = {} /\ \A q \in Processors : q \in Routes => Done(q) \/ q = p
    BY <1>7, <2>2, PairsFive
  <2> QED
    BY <1>3, <2>1, <2>2
<1>17. FlowTo(p) = PairsIn(At, 5) \cup {x} /\ FlowTo(p)' = PairsIn(At, 5)
  BY <1>3, <1>7, <1>9, <1>15, <1>16
<1>18. \A q \in Processors : q # p /\ q \in Routes => FlowTo(q)' = FlowTo(q)
  BY <1>7, <1>15, <1>16
<1>19. /\ \A q \in Processors :
             Missed(q)' = SentPairs' \ (rejected' \cup Stolen' \cup
                                          (DeliveredTo(q)' \cup FlowTo(q)'))
       /\ \A q \in Processors :
             Missed(q) = SentPairs \ (rejected \cup Stolen \cup
                                          (DeliveredTo(q) \cup FlowTo(q)))
  BY DEF Missed
<1>20. Missed(p)' = Missed(p) \cup {x} /\ x \notin Missed(p)
  <2>1. Missed(p)' = SentPairs \ (rejected \cup Stolen \cup
                                    (DeliveredTo(p) \cup PairsIn(At, 5)))
    BY <1>0, <1>6, <1>14, <1>17, <1>19
  <2>2. Missed(p) = SentPairs \ (rejected \cup Stolen \cup
                                   (DeliveredTo(p) \cup (PairsIn(At, 5) \cup {x})))
    BY <1>17, <1>19
  <2> QED
    BY <1>11, <1>12, <1>13, <2>1, <2>2
<1>21. \A q \in Processors : q # p /\ q \in Routes => Missed(q)' = Missed(q)
  <2> SUFFICES ASSUME NEW q \in Processors, q # p, q \in Routes
               PROVE  Missed(q)' = Missed(q)
    OBVIOUS
  <2>1. FlowTo(q)' = FlowTo(q) /\ DeliveredTo(q)' = DeliveredTo(q)
    BY <1>14, <1>18
  <2> QED
    BY <1>0, <1>6, <1>14, <1>19, <2>1
<1>22. ASSUME NEW q \in Processors, q \in Routes
       PROVE  IsFiniteSet(Missed(q)') /\ Cardinality(Missed(q)') = dropped'[q]
  <2>1. IsFiniteSet(Missed(q)) /\ Cardinality(Missed(q)) = dropped[q]
    BY <1>22 DEF Accounted
  <2>2. CASE q = p
    <3>1. PICK M : M = Missed(p)
      OBVIOUS
    <3>2. IsFiniteSet(M) /\ Cardinality(M) = dropped[p] /\ x \notin M
      BY <1>20, <2>1, <2>2, <3>1
    <3>3. IsFiniteSet(M \cup {x}) /\ Cardinality(M \cup {x}) = dropped[p] + 1
      BY <3>2, FS_AddElement
    <3>4. dropped'[p] = dropped[p] + 1
      BY <1>0, <1>1, BaseTypes
    <3>5. Missed(p)' = M \cup {x}
      BY <1>20, <3>1
    <3> QED
      BY <2>2, <3>3, <3>4, <3>5
  <2>3. CASE q # p
    <3>1. dropped'[q] = dropped[q]
      BY <1>0, <1>1, <2>3, BaseTypes
    <3> QED
      BY <1>21, <1>22, <2>1, <2>3, <3>1
  <2> QED
    BY <2>2, <2>3
<1>23. /\ rejected' \cup Stolen' \subseteq SentPairs'
       /\ rejected' \cap Stolen' = {}
       /\ PairsIn(At', 6) \cap (rejected' \cup Stolen') = {}
       /\ ~opts'.leaked => Stolen' = {}
       /\ ~opts'.blocking
       /\ \A q \in Processors : DeliveredTo(q)' \cap (rejected' \cup Stolen') = {}
  BY <1>0, <1>6, <1>9, <1>14, <1>16 DEF Accounted
<1> QED
  BY <1>5, <1>6, <1>14, <1>22, <1>23 DEF Accounted

\* PipelineInv holds at first.
LEMMA InitPipeline == Init => PipelineInv
<1> SUFFICES ASSUME Init PROVE PipelineInv
  OBVIOUS
<1>1. OrderInv
  BY InitOrder
<1>2. ClosedDrained
  BY DEF Init, ClosedDrained, Links
<1>3. \A m \in 1..6 : At[m] = {}
  BY DEF Init, At, Elems, Links, Stages, Nothing
<1>4. Stolen = {} /\ LeakedApart
  BY DEF Init, Stolen, LeakedApart, Links, Stages, Nothing
<1>5. SentPairs = {}
  <2>1. \A q \in Readers \X (1..MaxEntries) :
           q[1] \in Readers /\ q[2] \in 1..MaxEntries
    OBVIOUS
  <2>2. \A q \in Readers \X (1..MaxEntries) : ~(q[2] <= sent[q[1]])
    BY <2>1, PipelineAssumption DEF Init
  <2> QED
    BY <2>2 DEF SentPairs
<1>6. PairsIn(At, 6) = {}
  BY <1>3, PairsIs
<1>7. \A p \in Processors : DeliveredTo(p) = {}
  BY DEF Init, DeliveredTo, Delivered, Elems
<1>8. \A p \in Processors : Missed(p) = {}
  BY <1>5 DEF Missed
<1>9. \A p \in Processors : IsFiniteSet(Missed(p)) /\ Cardinality(Missed(p)) = 0
  BY <1>8, FS_EmptySet
<1>10. rejected = {} /\ \A p \in Processors : dropped[p] = 0
  BY DEF Init
<1>11. Accounted
  BY <1>4, <1>6, <1>7, <1>9, <1>10 DEF Accounted
<1> QED
  BY <1>1, <1>2, <1>11 DEF PipelineInv

\* Every step keeps PipelineInv.
LEMMA NextPipeline == PipelineInv /\ [Next]_vars => PipelineInv'
<1> SUFFICES ASSUME PipelineInv, [Next]_vars PROVE PipelineInv'
  OBVIOUS
<1>0. OrderInv /\ OrderInv' /\ ClosedDrained' /\ Accounted
  BY NextOrder, NextClosed DEF PipelineInv
<1>1. CASE \/ \E r \in Readers : AddReader(r) \/ CloseReader(r)
           \/ \E p \in Processors : AddProcessor(p)
           \/ CallStart \/ StartReader \/ StartRouter
  <2>1. Accounted'
    BY <1>0, <1>1, CallsOrder, CallsAccount
  <2> QED
    BY <1>0, <2>1 DEF PipelineInv
<1>2. ASSUME NEW r \in Readers, Produce(r) PROVE Accounted'
  BY <1>0, <1>2, ProduceAccount
<1>3. ASSUME NEW p \in Processors, Consume(p) PROVE Accounted'
  BY <1>0, <1>3, ConsumeAccount
<1>4. ASSUME NEW s \in Stages, Take(s) PROVE Accounted'
  BY <1>0, <1>4, TakeAccount
<1>5. ASSUME NEW s \in {"preprocess", "leaked"}, Reject(s) PROVE Accounted'
  BY <1>0, <1>5, RejectAccount
<1>6. ASSUME NEW s \in {"preprocess", "leaked", "safety"}, Pass(s)
      PROVE  Accounted'
  BY <1>0, <1>6, PassAccount
<1>7. CASE \/ CloseInput
           \/ \E s \in {"preprocess", "leaked", "safety"} : Finish(s)
           \/ RouterEnds
  <2>1. Accounted'
    BY <1>0, <1>7, CloseAccount
  <2> QED
    BY <1>0, <2>1 DEF PipelineInv
<1>8. CASE Push
  BY <1>0, <1>8, PushAccount DEF PipelineInv
<1>9. CASE Drop
  BY <1>0, <1>9, DropAccount DEF PipelineInv
<1>10. CASE UNCHANGED vars
  <2>1. /\ UNCHANGED <<opts, dropped, sent, rejected, hand, router, chan, got>>
        /\ At' = At
    BY <1>10 DEF vars, At
  <2>2. \A p \in Processors : Delivered(p)' = Delivered(p)
    BY <2>1 DEF Delivered
  <2>3. Accounted'
    BY <1>0, <2>1, <2>2, QuietAccount
  <2> QED
    BY <1>0, <2>3 DEF PipelineInv
<1> QED
  BY <1>0, <1>1, <1>2, <1>3, <1>4, <1>5, <1>6, <1>7, <1>8, <1>9, <1>10
     DEF Next, StageNext, PipelineInv

\* Every entry a Reader has sent is on its way, delivered, refused, held by
\* the preprocessors of a failed New or counted as dropped, and nothing is
\* left before a channel that is closed.
THEOREM PipelineInvCorrect == Spec => []PipelineInv
  BY InitPipeline, NextPipeline, PTL DEF Spec

\* When a processor's channel is closed it has been given every entry but for
\* those that were refused, dropped or taken by the preprocessors of a failed
\* New, and these are as many as the counters say.
THEOREM DrainedWhenClosedCorrect == Spec => []DrainedWhenClosed
<1>1. PipelineInv => DrainedWhenClosed
  <2> SUFFICES ASSUME PipelineInv, NEW p \in Processors, chan[p].closed
               PROVE  LET lost == {q \in Readers \X (1..MaxEntries) :
                             /\ q[2] <= sent[q[1]]
                             /\ q \notin rejected
                             /\ \A i \in 1..Len(Delivered(p)) :
                                   <<Delivered(p)[i].from,
                                     Delivered(p)[i].n>> # q}
                      IN /\ Stolen \subseteq lost
                         /\ Cardinality(lost \ Stolen) = dropped[p]
                         /\ opts.blocking => lost = Stolen
                         /\ Cardinality(Stolen) <= IF opts.leaked THEN 2 ELSE 0
    BY DEF DrainedWhenClosed
  <2>0. /\ BaseInv /\ Accounted
        /\ p \in Routes /\ router.pc = "ended" /\ Idle(5)
    BY DEF PipelineInv, OrderInv, ClosedDrained
  <2>1. FlowTo(p) = {}
    <3>1. At[6] = {}
      BY <2>0 DEF BaseInv, RouterSound, At, Nothing
    <3>2. \A m \in 1..6 : At[m] = {}
      BY <2>0, <3>1 DEF Idle
    <3>3. PairsIn(At, 5) = {} /\ PairsIn(At, 6) = {}
      <4>1. \A m \in 1..5 : m \in 1..6
        OBVIOUS
      <4> QED
        BY <3>2, <4>1, PairsIs
    <3> QED
      BY <3>3 DEF FlowTo
  <2>2. PICK lost : lost = {q \in Readers \X (1..MaxEntries) :
                             /\ q[2] <= sent[q[1]]
                             /\ q \notin rejected
                             /\ \A i \in 1..Len(Delivered(p)) :
                                   <<Delivered(p)[i].from,
                                     Delivered(p)[i].n>> # q}
    OBVIOUS
  <2>3. lost = SentPairs \ (rejected \cup DeliveredTo(p))
    BY <2>2 DEF SentPairs, DeliveredTo, Elems, Pair
  <2>4. Stolen \subseteq lost
    BY <2>0, <2>3 DEF Accounted
  <2>5. lost \ Stolen = Missed(p)
    BY <2>1, <2>3 DEF Missed
  <2>6. IsFiniteSet(Missed(p)) /\ Cardinality(Missed(p)) = dropped[p]
    BY <2>0 DEF Accounted
  <2>7. opts.blocking => lost = Stolen
    <3> SUFFICES ASSUME opts.blocking PROVE lost = Stolen
      OBVIOUS
    <3>1. Cardinality(Missed(p)) = 0
      BY <2>0, <2>6 DEF Accounted
    <3>2. Missed(p) = {}
      BY <2>6, <3>1, FS_EmptySet
    <3> QED
      BY <2>4, <2>5, <3>2
  <2>8. Cardinality(Stolen) <= IF opts.leaked THEN 2 ELSE 0
    <3>1. CASE ~opts.leaked
      <4>1. Stolen = {}
        BY <2>0, <3>1 DEF Accounted
      <4>2. Cardinality(Stolen) = 0
        BY <4>1, FS_EmptySet
      <4> QED
        BY <3>1, <4>2
    <3>2. CASE opts.leaked
      <4>1. hand["leaked"] = {} \/ \E e \in Entry : hand["leaked"] = {e}
        BY <2>0 DEF BaseInv, OneInHand, Stages, Nothing
      <4>2. /\ chan["leaked"].buf \in Seq(Entry)
            /\ Len(chan["leaked"].buf) <= 1
        BY <2>0, BaseTypes DEF Links, Cap
      <4>3. \E a, b : Stolen \subseteq {a, b}
        <5>1. \E a : \A e \in hand["leaked"] : Pair(e) = a
          BY <4>1
        <5>2. \A i \in 1..Len(chan["leaked"].buf) : i = 1
          BY <4>2
        <5>3. \A e \in Elems(chan["leaked"].buf) :
                 Pair(e) = Pair(chan["leaked"].buf[1])
          BY <5>2 DEF Elems
        <5> QED
          BY <5>1, <5>3, StolenIs
      <4>4. PICK a, b : Stolen \subseteq {a, b}
        BY <4>3
      <4>5. IsFiniteSet({a, b}) /\ Cardinality({a, b}) <= 2
        <5>1. IsFiniteSet({a}) /\ Cardinality({a}) = 1
          BY FS_Singleton
        <5>2. /\ IsFiniteSet({a} \cup {b})
              /\ Cardinality({a} \cup {b}) =
                    IF b \in {a} THEN Cardinality({a}) ELSE Cardinality({a}) + 1
          BY <5>1, FS_AddElement
        <5>3. {a} \cup {b} = {a, b}
          OBVIOUS
        <5> QED
          BY <5>1, <5>2, <5>3
      <4>6. IsFiniteSet(Stolen) /\ Cardinality(Stolen) <= Cardinality({a, b})
        BY <4>4, <4>5, FS_Subset
      <4>7. Cardinality(Stolen) \in Nat /\ Cardinality({a, b}) \in Nat
        BY <4>5, <4>6, FS_CardinalityType
      <4> QED
        BY <3>2, <4>5, <4>6, <4>7
    <3> QED
      BY <3>1, <3>2
  <2> QED
    BY <2>2, <2>4, <2>5, <2>6, <2>7, <2>8
<1> QED
  BY <1>1, PipelineInvCorrect, PTL

=============================================================================

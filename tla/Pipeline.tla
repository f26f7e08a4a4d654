------------------------------- MODULE Pipeline -------------------------------
(***************************************************************************)
(* The pipeline of a Runner (tattler.go): Readers put entries on its input *)
(* channel; the preprocessors (preprocessing.go), if there are any, the    *)
(* scrubber (safety.go) and the router (routing.go) are goroutines joined  *)
(* by bounded channels; the router puts each entry on the channel of every *)
(* processor.  Closing the input stops the stages one after the other.     *)
(*                                                                         *)
(* The calls that set a Runner up, AddReader, AddProcessor and Start, run  *)
(* while entries may already flow.  A call of New that failed may have left*)
(* its preprocessors behind: their goroutine reads the input as well, and  *)
(* writes to a channel nobody reads.                                       *)
(***************************************************************************)
EXTENDS Naturals, Sequences, FiniteSets

CONSTANTS
    Readers,      \* Readers that may be added
    Processors,   \* processors that may be registered
    MaxEntries,   \* bound: entries each Reader sends
    InCap,        \* capacity of the Runner's input channel
    OutCap,       \* capacity of a processor's channel
    MaxStarts     \* bound: calls of Start

ASSUME PipelineAssumption ==
    /\ MaxEntries \in Nat
    /\ InCap \in Nat \ {0}
    /\ OutCap \in Nat \ {0}
    /\ MaxStarts \in Nat
    /\ Processors \cap {"in", "secrets", "leaked", "router"} = {}

VARIABLES
    opts,      \* New: WithBlocking, WithPreProcessor; a failed New before it
    chan,      \* the channels "in", "secrets" and "router", and each processor's
    hand,      \* the entry each stage is working on
    router,    \* the router's goroutine
    dropped,   \* entries dropped on each route
    reader,    \* what each Reader is doing
    added,     \* r.readers
    start,     \* the call of Start, and how many there were
    sent,      \* entries each Reader has put on the input
    rejected,  \* history: entries a preprocessor refused
    got        \* history: what each processor has received

vars == <<opts, chan, hand, router, dropped, reader, added, start, sent,
          rejected, got>>

flowVars == <<chan, hand, router, dropped, rejected, got>>

callVars == <<reader, added, start>>

-----------------------------------------------------------------------------

Stages == {"preprocess", "leaked", "safety", "router"}

Links == {"in", "secrets", "leaked", "router"}

\* The stages that run: "leaked" are the preprocessors of a failed New.
Runs(s) == CASE s = "preprocess" -> opts.pre
             [] s = "leaked" -> opts.leaked
             [] OTHER -> TRUE

\* The n-th entry of a Reader.  scrubbed: no secret is left in it.
Entry == [from : Readers, n : 1..MaxEntries, scrubbed : BOOLEAN]

Nothing == {}

Channel == [buf : Seq(Entry), closed : BOOLEAN]

Cap(c) == IF c = "in" THEN InCap ELSE IF c \in Links THEN 1 ELSE OutCap

\* Mutant: the router reads the input channel, too.
SourceShared(s) ==
    CASE s \in {"preprocess", "leaked"} -> "in"
      [] s = "safety" -> IF opts.pre THEN "secrets" ELSE "in"
      [] s = "router" -> "in"

\* Where each stage reads.
Source(s) ==
    CASE s \in {"preprocess", "leaked"} -> "in"
      [] s = "safety" -> IF opts.pre THEN "secrets" ELSE "in"
      [] s = "router" -> "router"

\* Where the stages but the last write.
Sink(s) == CASE s = "preprocess" -> "secrets"
             [] s = "leaked" -> "leaked"
             [] s = "safety" -> "router"

\* Mutant: a channel takes one entry too many.
RoomForOneMore(c) == Len(chan[c].buf) <= Cap(c)

Room(c) == Len(chan[c].buf) < Cap(c)

\* The router: not started, reading, pushing its entry to the routes left,
\* closing the routes, ended.
Router == [pc : {"new", "range", "push", "close", "ended"},
           routes : Seq(Processors), i : Nat]

\* Every variable has its type, and no channel holds more than it can.
TypeOK ==
    /\ opts \in [blocking : BOOLEAN, pre : BOOLEAN, leaked : BOOLEAN]
    /\ chan \in [Links \cup Processors -> Channel]
    /\ \A c \in DOMAIN chan : Len(chan[c].buf) <= Cap(c)
    /\ hand \in [Stages -> SUBSET Entry]
    /\ \A s \in Stages : Cardinality(hand[s]) <= 1
    /\ router \in Router
    /\ dropped \in [Processors -> Nat]
    /\ reader \in [Readers -> {"new", "out", "running", "again", "closed"}]
    /\ added \in Seq(Readers)
    /\ start \in [pc : {"idle", "run", "started"}, i : Nat, n : 0..MaxStarts]
    /\ sent \in [Readers -> 0..MaxEntries]
    /\ rejected \subseteq Readers \X (1..MaxEntries)
    /\ got \in [Processors -> Seq(Entry)]

\* New.
Init ==
    /\ opts \in [blocking : BOOLEAN, pre : BOOLEAN, leaked : BOOLEAN]
    /\ chan = [c \in Links \cup Processors |-> [buf |-> <<>>, closed |-> FALSE]]
    /\ hand = [s \in Stages |-> Nothing]
    /\ router = [pc |-> "new", routes |-> <<>>, i |-> 1]
    /\ dropped = [p \in Processors |-> 0]
    /\ reader = [r \in Readers |-> "new"]
    /\ added = <<>>
    /\ start = [pc |-> "idle", i |-> 1, n |-> 0]
    /\ sent = [r \in Readers |-> 0]
    /\ rejected = {}
    /\ got = [p \in Processors |-> <<>>]

-----------------------------------------------------------------------------
(* Setting the Runner up.  AddReader, AddProcessor and Start hold r.mu.    *)

MuFree == start.pc # "run"

\* reader.Run() for r: it may fail, and fails on a Reader that runs.
RunReader(r, ok) ==
    /\ ok => reader[r] = "out"
    /\ reader' = [reader EXCEPT ![r] = IF ok THEN "running"
                                       ELSE IF @ = "out" THEN "out"
                                       ELSE "again"]

\* AddReader before Start, or after it: then the Reader is run at once.
AddReader(r) ==
    /\ MuFree
    /\ ~chan["in"].closed
    /\ reader[r] \in {"new", "out"}
    /\ \A i \in 1..Len(added) : added[i] # r
    /\ IF start.pc = "started"
       THEN \E ok \in BOOLEAN :
              /\ reader' = [reader EXCEPT ![r] = IF ok THEN "running"
                                                       ELSE "out"]
              /\ added' = IF ok THEN Append(added, r) ELSE added
       ELSE /\ reader' = [reader EXCEPT ![r] = "out"]
            /\ added' = Append(added, r)
    /\ UNCHANGED <<opts, flowVars, start, sent>>

\* AddProcessor: Register appends a route, until the Runner has started.
AddProcessor(p) ==
    /\ start.pc = "idle"
    /\ \A i \in 1..Len(router.routes) : router.routes[i] # p
    /\ router' = [router EXCEPT !.routes = Append(@, p)]
    /\ UNCHANGED <<opts, chan, hand, dropped, callVars, sent, rejected, got>>

CallStart ==
    /\ start.pc = "idle"
    /\ start.n < MaxStarts
    /\ start' = [pc |-> "run", i |-> 1, n |-> start.n + 1]
    /\ UNCHANGED <<opts, flowVars, reader, added, sent>>

\* Start runs the next Reader; an error ends Start.
StartReader ==
    /\ start.pc = "run"
    /\ start.i <= Len(added)
    /\ \E ok \in BOOLEAN :
        /\ RunReader(added[start.i], ok)
        /\ start' = IF ok THEN [start EXCEPT !.i = @ + 1]
                          ELSE [start EXCEPT !.pc = "idle"]
    /\ UNCHANGED <<opts, flowVars, added, sent>>

\* Then the router, which needs a route.
StartRouter ==
    /\ start.pc = "run"
    /\ start.i > Len(added)
    /\ IF router.routes = <<>>
       THEN start' = [start EXCEPT !.pc = "idle"] /\ UNCHANGED router
       ELSE /\ start' = [start EXCEPT !.pc = "started"]
            /\ router' = [router EXCEPT !.pc = "range"]
    /\ UNCHANGED <<opts, chan, hand, dropped, reader, added, sent, rejected,
                   got>>

-----------------------------------------------------------------------------
(* Both ends of the pipeline.                                              *)

\* A Reader puts its next entry on the input, a secret in it.
Produce(r) ==
    /\ reader[r] \in {"running", "again"}
    /\ sent[r] < MaxEntries
    /\ Room("in")
    /\ sent' = [sent EXCEPT ![r] = @ + 1]
    /\ chan' = [chan EXCEPT !["in"].buf =
                   Append(@, [from |-> r, n |-> sent[r] + 1,
                              scrubbed |-> FALSE])]
    /\ UNCHANGED <<opts, hand, router, dropped, callVars, rejected, got>>

CloseReader(r) ==
    /\ start.pc = "started"
    /\ reader[r] \in {"running", "again"}
    /\ reader' = [reader EXCEPT ![r] = "closed"]
    /\ UNCHANGED <<opts, flowVars, added, start, sent>>

\* The input is closed once no Reader sends on it any more.
CloseInput ==
    /\ start.pc = "started"
    /\ ~chan["in"].closed
    /\ \A r \in Readers : reader[r] \notin {"running", "again"}
    /\ chan' = [chan EXCEPT !["in"].closed = TRUE]
    /\ UNCHANGED <<opts, hand, router, dropped, callVars, sent, rejected, got>>

\* A processor reads its channel.
Consume(p) ==
    /\ chan[p].buf # <<>>
    /\ got' = [got EXCEPT ![p] = Append(@, Head(chan[p].buf))]
    /\ chan' = [chan EXCEPT ![p].buf = Tail(@)]
    /\ UNCHANGED <<opts, hand, router, dropped, callVars, sent, rejected>>

-----------------------------------------------------------------------------
(* The stages.                                                             *)

\* Mutant: a stage takes up an entry its source still holds.
TakeAgain(s) ==
    LET c == Source(s) IN
    /\ Runs(s)
    /\ s = "router" => router.pc = "range"
    /\ hand[s] = Nothing
    /\ chan[c].buf # <<>>
    /\ hand' = [hand EXCEPT ![s] = {Head(chan[c].buf)}]
    /\ UNCHANGED chan
    /\ router' = IF s = "router" THEN [router EXCEPT !.pc = "push", !.i = 1]
                                 ELSE router
    /\ UNCHANGED <<opts, dropped, callVars, sent, rejected, got>>

\* Stage s takes the next entry of its source.
Take(s) ==
    LET c == Source(s) IN
    /\ Runs(s)
    /\ s = "router" => router.pc = "range"
    /\ hand[s] = Nothing
    /\ chan[c].buf # <<>>
    /\ hand' = [hand EXCEPT ![s] = {Head(chan[c].buf)}]
    /\ chan' = [chan EXCEPT ![c].buf = Tail(@)]
    /\ router' = IF s = "router" THEN [router EXCEPT !.pc = "push", !.i = 1]
                                 ELSE router
    /\ UNCHANGED <<opts, dropped, callVars, sent, rejected, got>>

\* A preprocessor refuses the entry: it goes no further.
Reject(s) ==
    /\ hand[s] # Nothing
    /\ rejected' = rejected \cup {<<e.from, e.n>> : e \in hand[s]}
    /\ hand' = [hand EXCEPT ![s] = Nothing]
    /\ UNCHANGED <<opts, chan, router, dropped, callVars, sent, got>>

\* The preprocessors or the scrubber are done with an entry.
Result(s, e) == IF s = "safety" THEN [e EXCEPT !.scrubbed = TRUE] ELSE e

Pass(s) ==
    LET c == Sink(s) IN
    /\ Room(c)
    /\ \E e \in hand[s] :
          chan' = [chan EXCEPT ![c].buf = Append(@, Result(s, e))]
    /\ hand' = [hand EXCEPT ![s] = Nothing]
    /\ UNCHANGED <<opts, router, dropped, callVars, sent, rejected, got>>

\* Mutant: a stage ends without closing its sink.
FinishOpen(s) ==
    /\ Runs(s)
    /\ hand[s] = Nothing
    /\ chan[Source(s)].closed /\ chan[Source(s)].buf = <<>>
    /\ UNCHANGED vars

\* Mutant: a stage ends as soon as its source is closed.
FinishEarly(s) ==
    LET c == Sink(s) IN
    /\ Runs(s)
    /\ hand[s] = Nothing
    /\ chan[Source(s)].closed
    /\ ~chan[c].closed
    /\ chan' = [chan EXCEPT ![c].closed = TRUE]
    /\ UNCHANGED <<opts, hand, router, dropped, callVars, sent, rejected, got>>

\* The source is closed and empty: the stage closes its sink.
Finish(s) ==
    LET c == Sink(s) IN
    /\ Runs(s)
    /\ hand[s] = Nothing
    /\ chan[Source(s)].closed /\ chan[Source(s)].buf = <<>>
    /\ ~chan[c].closed
    /\ chan' = [chan EXCEPT ![c].closed = TRUE]
    /\ UNCHANGED <<opts, hand, router, dropped, callVars, sent, rejected, got>>

\* The route the router is at.
Route == router.routes[router.i]

Pushed ==
    IF router.i < Len(router.routes)
    THEN router' = [router EXCEPT !.i = @ + 1] /\ UNCHANGED hand
    ELSE /\ router' = [router EXCEPT !.pc = "range", !.i = 1]
         /\ hand' = [hand EXCEPT !["router"] = Nothing]

\* push: the route takes the entry, ...
Push ==
    /\ router.pc = "push"
    /\ Room(Route)
    /\ \E e \in hand["router"] :
          chan' = [chan EXCEPT ![Route].buf = Append(@, e)]
    /\ Pushed
    /\ UNCHANGED <<opts, dropped, callVars, sent, rejected, got>>

\* Mutant: a full route is waited for.
DropWaits == Push

\* ... or is full, and loses it unless pushes block.
Drop ==
    /\ router.pc = "push"
    /\ ~opts.blocking
    /\ ~Room(Route)
    /\ dropped' = [dropped EXCEPT ![Route] = @ + 1]
    /\ Pushed
    /\ UNCHANGED <<opts, chan, callVars, sent, rejected, got>>

\* The router's input is closed and empty: every route is closed.
RouterEnds ==
    /\ router.pc = "range"
    /\ chan["router"].closed /\ chan["router"].buf = <<>>
    /\ router' = [router EXCEPT !.pc = "ended"]
    /\ chan' = [c \in DOMAIN chan |->
                  IF \E i \in 1..Len(router.routes) : router.routes[i] = c
                  THEN [chan[c] EXCEPT !.closed = TRUE] ELSE chan[c]]
    /\ UNCHANGED <<opts, hand, dropped, callVars, sent, rejected, got>>

-----------------------------------------------------------------------------

StageNext ==
    \/ \E s \in Stages : Take(s)
    \/ \E s \in {"preprocess", "leaked"} : Reject(s)
    \/ \E s \in {"preprocess", "leaked", "safety"} : Pass(s) \/ Finish(s)
    \/ Push \/ Drop \/ RouterEnds

Next ==
    \/ \E r \in Readers : AddReader(r) \/ Produce(r) \/ CloseReader(r)
    \/ \E p \in Processors : AddProcessor(p) \/ Consume(p)
    \/ CallStart \/ StartReader \/ StartRouter \/ CloseInput
    \/ StageNext

Spec == Init /\ [][Next]_vars

-----------------------------------------------------------------------------

Delivered(p) == got[p] \o chan[p].buf

\* No processor is ever given an entry that has not been scrubbed, whatever
\* options the Runner was made with (tattler.go:122 "The router must only see
\* entries that have passed through the scrubber").
OnlyScrubbed ==
    \A p \in Processors : \A i \in 1..Len(Delivered(p)) :
        Delivered(p)[i].scrubbed

\* A processor sees the entries of one Reader in the order the Reader sent
\* them, none of them twice: events of an object are not reordered.
InOrder ==
    \A p \in Processors : \A i, j \in 1..Len(Delivered(p)) :
        i < j /\ Delivered(p)[i].from = Delivered(p)[j].from =>
            Delivered(p)[i].n < Delivered(p)[j].n

\* The entries that the preprocessors of a failed New hold for ever.
Stolen == {<<e.from, e.n>> : e \in hand["leaked"]} \cup
          {<<chan["leaked"].buf[i].from, chan["leaked"].buf[i].n>> :
              i \in 1..Len(chan["leaked"].buf)}

\* When a processor's channel is closed, every entry the Readers sent was
\* delivered to it, but for those a preprocessor refused, those counted as
\* dropped and at most two that a failed New has cost: closing the input
\* drains the pipeline, and blocking pushes drop nothing
\* (routing.go:159-160, safety.go:51, tattler.go:107-135).
DrainedWhenClosed ==
    \A p \in Processors : chan[p].closed =>
        LET lost == {q \in Readers \X (1..MaxEntries) :
                        /\ q[2] <= sent[q[1]]
                        /\ q \notin rejected
                        /\ \A i \in 1..Len(Delivered(p)) :
                              <<Delivered(p)[i].from, Delivered(p)[i].n>> # q}
        IN /\ Stolen \subseteq lost
           /\ Cardinality(lost \ Stolen) = dropped[p]
           /\ opts.blocking => lost = Stolen
           /\ Cardinality(Stolen) <= IF opts.leaked THEN 2 ELSE 0

\* A Reader that runs is not run again (tattler.go:33 "You may only call this
\* once if Run() does not return an error").
RunOnce == \A r \in Readers : reader[r] # "again"

-----------------------------------------------------------------------------
(* Liveness.  The stages' goroutines run.  Processors that pushes block on *)
(* keep reading; others may stop.                                          *)

Fairness ==
    /\ WF_vars(StageNext)
    /\ WF_vars(StartReader \/ StartRouter)
    /\ \A p \in Processors : WF_vars(opts.blocking /\ Consume(p))

LiveSpec == Spec /\ Fairness

\* Closing the input closes every processor's channel, whatever is still in
\* the pipeline (safety.go:50-51 "Closing in will close out").
CloseReachesRoutes == chan["in"].closed ~> router.pc = "ended"

\* The entries between the input and the routes.
InFlight(r, n) ==
    \/ \E c \in Links \ {"leaked"} : \E i \in 1..Len(chan[c].buf) :
          chan[c].buf[i].from = r /\ chan[c].buf[i].n = n
    \/ \E s \in Stages \ {"leaked"} : \E e \in hand[s] : e.from = r /\ e.n = n

\* Every entry a Reader sends gets through to the routes: without blocking
\* pushes a processor that has stopped reading holds up nobody
\* (routing.go:153-156).
SlowRouteHoldsNobody ==
    \A r \in Readers, n \in 1..MaxEntries :
        start.pc = "started" /\ sent[r] >= n ~> ~InFlight(r, n)

=============================================================================

---------------------------- MODULE ReaderLifecycle ----------------------------
(***************************************************************************)
(* The goroutines of one watchlist Reader (watchlist.go) and the calls     *)
(* that start and stop them: Run, with a startup watchdog for each         *)
(* resource type, Close, the spawner that opens every watch, a watcher for *)
(* each type, and the relist task.  What a watcher reads is the subject of *)
(* Watcher; here it is when each of them starts, blocks and ends.          *)
(*                                                                         *)
(* The API server may answer a watch request, refuse it, or hang until the *)
(* request's context is cancelled.  Whoever reads the output may stall.    *)
(* The callers of Run and Close may give up waiting for the watchers.      *)
(***************************************************************************)
EXTENDS Naturals, Sequences, FiniteSets

CONSTANTS
    NumTypes,     \* resource types to watch, started in this order
    MaxRuns,      \* bound: calls of Run
    Faults        \* see FaultKinds

FaultKinds ==
    {"refuse",        \* the server refuses a watch request, for now
     "permanent",     \* a reconnect fails with an error no retry can help
     "runExpires",    \* the caller of a failed Run stops waiting for it
     "closeExpires"}  \* Close's caller stops waiting for the watchers

ASSUME LifecycleAssumption ==
    /\ NumTypes \in Nat \ {0}
    /\ MaxRuns \in Nat \ {0}
    /\ Faults \subseteq FaultKinds

VARIABLES
    out,        \* SetOut was called
    started,    \* Run has succeeded
    mu,         \* who holds r.mu
    run,        \* the goroutine that calls Run
    ctx,        \* watchCtx of each Run
    fired,      \* Runs one of whose watchdogs has expired, but not yet cancelled
    watcher,    \* the watcher of each Run and type
    spawner,    \* connectWatcher, and who blocks on spawnCh, first come first
    reply,      \* what a spawn request's promise holds
    relist,     \* the relist task
    closer,     \* the goroutine that calls Close
    closeCh,    \* closeCh is closed
    spawnCh     \* "open"; "closed"; "panicked": somebody sent on it closed

vars == <<out, started, mu, run, ctx, fired, watcher, spawner, reply, relist,
          closer, closeCh, spawnCh>>

-----------------------------------------------------------------------------

Types == 1..NumTypes

Runs == 1..MaxRuns

\* Who sends spawn requests: a Run, for the type it is starting, and the
\* watcher of each type.
Requesters == (Runs \X {0}) \cup (Runs \X Types)

\* Run is not running, about to lock mu, in watch() for type t, sending its
\* spawn request, waiting for the promise, handing the watch to a watcher,
\* looking at ctx after watch(), stopping the watchdog, cancelling after an
\* error, waiting for the watchers, finishing.  dog: the watchdog is armed.
\* left (history): some failed Run has left watchers behind.
Run == [pc : {"idle", "lock", "watch", "put", "get", "go", "check", "disarm",
              "cancel", "wait", "finish"},
        n : 0..MaxRuns, t : 0..NumTypes, dog : BOOLEAN, err : BOOLEAN,
        left : BOOLEAN]

\* A watcher reads its stream, blocks on the output, is about to reconnect,
\* sends its spawn request, waits for the promise, has ended, or ended with
\* an error.
Watcher == {"none", "stream", "send", "connect", "put", "get", "ended",
            "failed"}

Alive == {"stream", "send", "connect", "put", "get"}

NoOne == <<0, 0>>

\* Every variable has its type, and mu is held by the call that locked it.
TypeOK ==
    /\ out \in BOOLEAN
    /\ started \in BOOLEAN
    /\ mu \in {"free", "run", "close"}
    /\ run \in Run
    /\ ctx \in [Runs -> {"none", "live", "cancelled"}]
    /\ fired \subseteq Runs
    /\ watcher \in [Runs \X Types -> Watcher]
    /\ spawner \in [pc : {"range", "call", "sleep", "ended"},
                    req : Requesters \cup {NoOne}, queue : Seq(Requesters)]
    /\ reply \in [Requesters -> {"none", "watch", "error", "permanent"}]
    /\ relist \in {"none", "wait", "list", "ended"}
    /\ closer \in {"idle", "lock", "close", "cancel", "wait", "closeSpawn",
                   "giveUp", "ok", "error", "expired", "panicked"}
    /\ closeCh \in BOOLEAN
    /\ spawnCh \in {"open", "closed", "panicked"}
    /\ mu = "run" <=> run.pc \notin {"idle", "lock"}
    /\ mu = "close" <=> closer \in {"close", "cancel", "wait", "closeSpawn",
                                    "giveUp"}

\* What New returns.
Init ==
    /\ out = FALSE
    /\ started = FALSE
    /\ mu = "free"
    /\ run = [pc |-> "idle", n |-> 0, t |-> 0, dog |-> FALSE, err |-> FALSE,
              left |-> FALSE]
    /\ ctx = [n \in Runs |-> "none"]
    /\ fired = {}
    /\ watcher = [w \in Runs \X Types |-> "none"]
    /\ spawner = [pc |-> "range", req |-> NoOne, queue |-> <<>>]
    /\ reply = [q \in Requesters |-> "none"]
    /\ relist = "none"
    /\ closer = "idle"
    /\ closeCh = FALSE
    /\ spawnCh = "open"

-----------------------------------------------------------------------------
(* Spawn requests: getWatcher() and connectWatcher().                      *)

CtxOf(q) == ctx[q[1]]

\* q blocks on spawnCh, behind those that already do.
Enqueue(q) == spawner' = [spawner EXCEPT !.queue = Append(@, q)]

\* The queue s without q, who is in it once at most.
Without(s, q) ==
    IF \E i \in 1..Len(s) : s[i] = q
    THEN LET i == CHOOSE j \in 1..Len(s) : s[j] = q
         IN  SubSeq(s, 1, i - 1) \o SubSeq(s, i + 1, Len(s))
    ELSE s

\* q waits no more, if it did.
Leave(q) == spawner' = [spawner EXCEPT !.queue = Without(@, q)]

\* q's send on spawnCh succeeds, or q goes on to pc.
Advance(q, pc) ==
    IF q[2] = 0
    THEN run' = [run EXCEPT !.pc = pc] /\ UNCHANGED watcher
    ELSE watcher' = [watcher EXCEPT ![q] = pc] /\ UNCHANGED run

\* The spawner takes the request that has waited longest.
TakeRequest ==
    LET q == Head(spawner.queue) IN
    /\ spawner.pc = "range"
    /\ spawnCh = "open"
    /\ spawner.queue # <<>>
    /\ spawner' = [pc |-> "call", req |-> q, queue |-> Tail(spawner.queue)]
    /\ Advance(q, "get")
    /\ UNCHANGED <<out, started, mu, ctx, fired, reply, relist, closer,
                   closeCh, spawnCh>>

\* A request is sent on a closed channel.  A done ctx does not prevent it:
\* a select may pick either.
SendOnClosed ==
    /\ spawnCh = "closed"
    /\ spawner.queue # <<>>
    /\ spawnCh' = "panicked"
    /\ UNCHANGED <<out, started, mu, run, ctx, fired, watcher, spawner, reply,
                   relist, closer, closeCh>>

Waiting(q) == IF q[2] = 0 THEN q[1] = run.n /\ run.pc = "get"
                          ELSE watcher[q] = "get"

\* Mutant: the spawner does not survive a refused request.
AnswerAndEnd(res) ==
    /\ spawner.pc = "call"
    /\ reply' = [reply EXCEPT ![spawner.req] =
                    IF Waiting(spawner.req) THEN res ELSE @]
    /\ spawner' = [spawner EXCEPT !.pc = IF res = "watch" THEN "sleep"
                                                          ELSE "ended",
                                  !.req = NoOne]
    /\ UNCHANGED <<out, started, mu, run, ctx, fired, watcher, relist, closer,
                   closeCh, spawnCh>>

\* The promise of the request is kept; nobody may be waiting for it any more.
Answer(res) ==
    /\ spawner.pc = "call"
    /\ reply' = [reply EXCEPT ![spawner.req] =
                    IF Waiting(spawner.req) THEN res ELSE @]
    /\ spawner' = [spawner EXCEPT !.pc = "sleep", !.req = NoOne]
    /\ UNCHANGED <<out, started, mu, run, ctx, fired, watcher, relist, closer,
                   closeCh, spawnCh>>

\* The server accepts the watch.
Accepted == Answer("watch")

\* The server refuses it.
Refused ==
    \/ "refuse" \in Faults /\ Answer("error")
    \/ "permanent" \in Faults /\ Answer("permanent")

\* The server had not answered when the request's ctx was cancelled.
RequestCancelled ==
    spawner.pc = "call" /\ CtxOf(spawner.req) = "cancelled" /\ Answer("error")

\* watcherSpawnDelay has passed.
Wake ==
    /\ spawner.pc = "sleep"
    /\ spawner' = [spawner EXCEPT !.pc = "range"]
    /\ UNCHANGED <<out, started, mu, run, ctx, fired, watcher, reply, relist,
                   closer, closeCh, spawnCh>>

SpawnerEnds ==
    /\ spawner.pc = "range"
    /\ spawnCh # "open"
    /\ spawner' = [spawner EXCEPT !.pc = "ended"]
    /\ UNCHANGED <<out, started, mu, run, ctx, fired, watcher, reply, relist,
                   closer, closeCh, spawnCh>>

SpawnerNext ==
    TakeRequest \/ Accepted \/ Refused \/ RequestCancelled \/ Wake
    \/ SpawnerEnds

-----------------------------------------------------------------------------
(* SetOut and Run.                                                         *)

SetOut ==
    /\ mu = "free"
    /\ ~started
    /\ out' = TRUE
    /\ UNCHANGED <<started, mu, run, ctx, fired, watcher, spawner, reply,
                   relist, closer, closeCh, spawnCh>>

CallRun ==
    /\ run.pc = "idle"
    /\ run.n < MaxRuns
    /\ run' = [run EXCEPT !.pc = "lock"]
    /\ UNCHANGED <<out, started, mu, ctx, fired, watcher, spawner, reply,
                   relist, closer, closeCh, spawnCh>>

\* Mutant: an early return leaves mu locked.
RunRefusedLocked ==
    /\ run.pc = "lock"
    /\ mu = "free"
    /\ started \/ ~out
    /\ mu' = "run"
    /\ run' = [run EXCEPT !.pc = "idle"]
    /\ UNCHANGED <<out, started, ctx, fired, watcher, spawner, reply, relist,
                   closer, closeCh, spawnCh>>

\* Run refuses to start twice, or without an output.
RunRefused ==
    /\ run.pc = "lock"
    /\ mu = "free"
    /\ started \/ ~out
    /\ run' = [run EXCEPT !.pc = "idle"]
    /\ UNCHANGED <<out, started, mu, ctx, fired, watcher, spawner, reply,
                   relist, closer, closeCh, spawnCh>>

\* Run starts the first type under a context of its own.
RunBegins ==
    /\ run.pc = "lock"
    /\ mu = "free"
    /\ ~started /\ out
    /\ mu' = "run"
    /\ run' = [run EXCEPT !.pc = "watch", !.n = @ + 1, !.t = 1, !.dog = TRUE,
                          !.err = FALSE]
    /\ ctx' = [ctx EXCEPT ![run.n + 1] = "live"]
    /\ UNCHANGED <<out, started, fired, watcher, spawner, reply, relist,
                   closer, closeCh, spawnCh>>

RunStep(r) ==
    /\ run' = r
    /\ UNCHANGED <<out, started, mu, ctx, fired, watcher, spawner, reply,
                   relist, closer, closeCh, spawnCh>>

\* watch(): nothing to do if ctx is done, otherwise getWatcher().
Watch ==
    /\ run.pc = "watch"
    /\ IF ctx[run.n] = "live"
       THEN run' = [run EXCEPT !.pc = "put"] /\ Enqueue(<<run.n, 0>>)
       ELSE run' = [run EXCEPT !.pc = "check"] /\ UNCHANGED spawner
    /\ UNCHANGED <<out, started, mu, ctx, fired, watcher, reply, relist,
                   closer, closeCh, spawnCh>>

\* getWatcher() returns: ctx is done, or the promise is kept.
GetWatcher ==
    LET q == <<run.n, 0>> IN
    /\ \/ /\ run.pc \in {"put", "get"}
          /\ ctx[run.n] = "cancelled"
          /\ run' = [run EXCEPT !.pc = "check", !.err = TRUE]
       \/ /\ run.pc = "get"
          /\ reply[q] # "none"
          /\ run' = IF reply[q] = "watch"
                    THEN [run EXCEPT !.pc = "go"]
                    ELSE [run EXCEPT !.pc = "check", !.err = TRUE]
    /\ Leave(q)
    /\ reply' = [reply EXCEPT ![q] = "none"]
    /\ UNCHANGED <<out, started, mu, ctx, fired, watcher, relist, closer,
                   closeCh, spawnCh>>

\* The watch is handed to a goroutine of the Group.
GoWatcher ==
    /\ run.pc = "go"
    /\ watcher' = [watcher EXCEPT ![<<run.n, run.t>>] = "stream"]
    /\ run' = [run EXCEPT !.pc = "check"]
    /\ UNCHANGED <<out, started, mu, ctx, fired, spawner, reply, relist,
                   closer, closeCh, spawnCh>>

\* startWatch(): a cancelled ctx is an error even if watch() reports none.
CheckCtx ==
    /\ run.pc = "check"
    /\ RunStep([run EXCEPT !.pc = "disarm",
                           !.err = @ \/ ctx[run.n] = "cancelled"])

\* Mutant: the watchdog of the first type is the only one.
DisarmForGood ==
    /\ run.pc = "disarm"
    /\ RunStep(IF run.err THEN [run EXCEPT !.pc = "cancel", !.dog = FALSE]
               ELSE IF run.t < NumTypes
               THEN [run EXCEPT !.pc = "watch", !.t = @ + 1, !.dog = FALSE]
               ELSE [run EXCEPT !.pc = "finish", !.dog = FALSE])

\* startWatch() stops its watchdog and returns: on to the next type, under a
\* watchdog of its own.
Disarm ==
    /\ run.pc = "disarm"
    /\ RunStep(IF run.err THEN [run EXCEPT !.pc = "cancel", !.dog = FALSE]
               ELSE IF run.t < NumTypes
               THEN [run EXCEPT !.pc = "watch", !.t = @ + 1, !.dog = TRUE]
               ELSE [run EXCEPT !.pc = "finish", !.dog = FALSE])

\* The deferred cleanup of a failed Run: cancel, ...
RunCancels ==
    /\ run.pc = "cancel"
    /\ ctx' = [ctx EXCEPT ![run.n] = "cancelled"]
    /\ run' = [run EXCEPT !.pc = "wait"]
    /\ UNCHANGED <<out, started, mu, fired, watcher, spawner, reply, relist,
                   closer, closeCh, spawnCh>>

AllEnded == \A w \in Runs \X Types : watcher[w] \notin Alive

\* Mutant: a failed Run does not wait for its watchers.
RunFailsAtOnce ==
    /\ run.pc = "wait"
    /\ mu' = "free"
    /\ run' = [run EXCEPT !.pc = "idle"]
    /\ UNCHANGED <<out, started, ctx, fired, watcher, spawner, reply, relist,
                   closer, closeCh, spawnCh>>

\* ... wait for the watchers as long as the caller does, return.
RunFails ==
    /\ run.pc = "wait"
    /\ AllEnded \/ "runExpires" \in Faults
    /\ mu' = "free"
    /\ run' = [run EXCEPT !.pc = "idle", !.left = @ \/ ~AllEnded]
    /\ UNCHANGED <<out, started, ctx, fired, watcher, spawner, reply, relist,
                   closer, closeCh, spawnCh>>

\* Run returns without an error.
RunSucceeds ==
    /\ run.pc = "finish"
    /\ relist' = "wait"
    /\ started' = TRUE
    /\ mu' = "free"
    /\ run' = [run EXCEPT !.pc = "idle"]
    /\ UNCHANGED <<out, ctx, fired, watcher, spawner, reply, closer, closeCh,
                   spawnCh>>

\* The deadline of the type being started passes.
Expire ==
    /\ run.dog
    /\ fired' = fired \cup {run.n}
    /\ run' = [run EXCEPT !.dog = FALSE]
    /\ UNCHANGED <<out, started, mu, ctx, watcher, spawner, reply, relist,
                   closer, closeCh, spawnCh>>

\* The expired watchdog's goroutine runs: too late for Stop to prevent it.
DogCancels ==
    /\ \E n \in fired : /\ ctx' = [ctx EXCEPT ![n] = "cancelled"]
                        /\ fired' = fired \ {n}
    /\ UNCHANGED <<out, started, mu, run, watcher, spawner, reply, relist,
                   closer, closeCh, spawnCh>>

RunNext ==
    \/ RunRefused \/ RunBegins \/ Watch \/ GetWatcher \/ GoWatcher \/ CheckCtx
    \/ Disarm \/ RunCancels \/ RunFails \/ RunSucceeds

-----------------------------------------------------------------------------
(* Watchers: handleWatcher() and watchEvents().                            *)

WatcherStep(w, pc) ==
    /\ watcher' = [watcher EXCEPT ![w] = pc]
    /\ UNCHANGED <<out, started, mu, run, ctx, fired, spawner, reply, relist,
                   closer, closeCh, spawnCh>>

\* An event is read and has to go to the output, ...
Event(w) == watcher[w] = "stream" /\ WatcherStep(w, "send")

\* ... which takes it.
Sent(w) == watcher[w] = "send" /\ WatcherStep(w, "stream")

\* Mutant: a watcher waits for the output whatever happens to ctx.
StreamEndsUnlessSending(w) ==
    /\ watcher[w] = "stream"
    /\ WatcherStep(w, "connect")

\* The stream ends: the server closes it, or ctx is done.
StreamEnds(w) ==
    /\ \/ watcher[w] = "stream"
       \/ watcher[w] = "send" /\ CtxOf(w) = "cancelled"
    /\ WatcherStep(w, "connect")

\* handleWatcher() ends with ctx, or asks for the next watch.
Reconnect(w) ==
    /\ watcher[w] = "connect"
    /\ IF CtxOf(w) = "cancelled"
       THEN watcher' = [watcher EXCEPT ![w] = "ended"] /\ UNCHANGED spawner
       ELSE watcher' = [watcher EXCEPT ![w] = "put"] /\ Enqueue(w)
    /\ UNCHANGED <<out, started, mu, run, ctx, fired, reply, relist, closer,
                   closeCh, spawnCh>>

GetReturns(w, pc) ==
    /\ watcher' = [watcher EXCEPT ![w] = pc]
    /\ Leave(w)
    /\ reply' = [reply EXCEPT ![w] = "none"]
    /\ UNCHANGED <<out, started, mu, run, ctx, fired, relist, closer, closeCh,
                   spawnCh>>

\* Retry: the next attempt, or the end.
Reconnected(w) ==
    /\ watcher[w] = "get"
    /\ reply[w] # "none"
    /\ GetReturns(w, CASE reply[w] = "watch" -> "stream"
                       [] reply[w] = "error" -> "connect"
                       [] reply[w] = "permanent" -> "failed")

ReconnectCancelled(w) ==
    /\ watcher[w] \in {"put", "get"}
    /\ CtxOf(w) = "cancelled"
    /\ GetReturns(w, "ended")

WatcherNext(w) ==
    \/ Event(w) \/ Sent(w) \/ StreamEnds(w) \/ Reconnect(w) \/ Reconnected(w)
    \/ ReconnectCancelled(w)

-----------------------------------------------------------------------------
(* The relist task: its work is the subject of Relist.                     *)

RelistStep(pc) ==
    /\ relist' = pc
    /\ UNCHANGED <<out, started, mu, run, ctx, fired, watcher, spawner, reply,
                   closer, closeCh, spawnCh>>

RelistStarts == relist = "wait" /\ RelistStep("list")

RelistReturns == relist = "list" /\ RelistStep("wait")

RelistEnds == relist = "wait" /\ closeCh /\ RelistStep("ended")

-----------------------------------------------------------------------------
(* Close.                                                                  *)

CloserStep(pc) ==
    /\ closer' = pc
    /\ UNCHANGED <<out, started, run, ctx, fired, watcher, spawner, reply,
                   relist, closeCh, spawnCh>>

CallClose == closer = "idle" /\ CloserStep("lock") /\ UNCHANGED mu

\* Close has nothing to do until Run has succeeded.
CloseRefused ==
    /\ closer = "lock"
    /\ mu = "free"
    /\ ~started
    /\ CloserStep("idle")
    /\ UNCHANGED mu

CloseBegins ==
    /\ closer = "lock"
    /\ mu = "free"
    /\ started
    /\ mu' = "close"
    /\ CloserStep("close")

\* closeCh is closed, ...
CloseSignals ==
    /\ closer = "close"
    /\ closeCh' = TRUE
    /\ closer' = "cancel"
    /\ UNCHANGED <<out, started, mu, run, ctx, fired, watcher, spawner, reply,
                   relist, spawnCh>>

\* ... the context of the Run that succeeded is cancelled, ...
CloseCancels ==
    /\ closer = "cancel"
    /\ ctx' = [ctx EXCEPT ![run.n] = "cancelled"]
    /\ closer' = "wait"
    /\ UNCHANGED <<out, started, mu, run, fired, watcher, spawner, reply,
                   relist, closeCh, spawnCh>>

\* Mutant: spawnCh is closed before the watchers have ended.
CloseWaitsNot ==
    /\ closer = "wait"
    /\ CloserStep("closeSpawn")
    /\ UNCHANGED mu

\* ... the watchers have ended ...
CloseWaits ==
    /\ closer = "wait"
    /\ AllEnded
    /\ CloserStep("closeSpawn")
    /\ UNCHANGED mu

\* ... or Close's caller has had enough, ...
CloseGivesUp ==
    /\ closer = "wait"
    /\ "closeExpires" \in Faults
    /\ CloserStep("giveUp")
    /\ UNCHANGED mu

CloseReturnsWith(res) ==
    /\ spawnCh' = "closed"
    /\ mu' = "free"
    /\ closer' = res
    /\ UNCHANGED <<out, started, run, ctx, fired, watcher, spawner, reply,
                   relist, closeCh>>

\* Mutant: the watchers' errors are forgotten.
CloseReturnsOk ==
    \/ closer = "giveUp" /\ CloseReturnsWith("expired")
    \/ closer = "closeSpawn" /\ CloseReturnsWith("ok")

\* The current Run's watcher of type t.
Of(t) == IF run.n = 0 THEN "none" ELSE watcher[<<run.n, t>>]

Failed == \E t \in Types : Of(t) = "failed"

\* ... and spawnCh is closed.
CloseReturns ==
    \/ closer = "giveUp" /\ CloseReturnsWith("expired")
    \/ closer = "closeSpawn" /\ Failed /\ CloseReturnsWith("error")
    \/ closer = "closeSpawn" /\ ~Failed /\ CloseReturnsWith("ok")

\* Close is called once more: started is still set, and closing closeCh again
\* panics.  mu is unlocked on the way out.
CloseAgain ==
    /\ closer \in {"ok", "error", "expired"}
    /\ mu = "free"
    /\ CloserStep("panicked")
    /\ UNCHANGED mu

CloseNext ==
    \/ CloseRefused \/ CloseBegins \/ CloseSignals \/ CloseCancels
    \/ CloseWaits \/ CloseGivesUp \/ CloseReturns

-----------------------------------------------------------------------------

Next ==
    \/ SetOut \/ CallRun \/ RunNext \/ Expire \/ DogCancels
    \/ SpawnerNext \/ SendOnClosed
    \/ \E w \in Runs \X Types : WatcherNext(w)
    \/ RelistStarts \/ RelistReturns \/ RelistEnds
    \/ CallClose \/ CloseNext \/ CloseAgain

Spec == Init /\ [][Next]_vars

-----------------------------------------------------------------------------

\* A watch request is never sent on the closed spawnCh, which would panic,
\* whichever watcher was reconnecting when Close was called
\* (watchlist.go:201-207), unless Close's caller gave up waiting for them.
NoPanic == spawnCh = "panicked" => closer \in {"expired", "panicked"}

\* The watchers of one Run only are at work: a Run that failed has stopped
\* the ones it had started before Run can be called again.  If its caller
\* gave up waiting, the ones it left behind are cancelled all the same
\* (watchlist.go:330-337).
OneGeneration ==
    \A v, w \in Runs \X Types :
        watcher[v] \in Alive /\ watcher[w] \in Alive /\ v[1] < w[1] =>
            run.left /\ CtxOf(v) = "cancelled"

\* A Close that reports success leaves no watcher behind, and none that had
\* stopped for good before (watchlist.go:203, README.md:128 "Close returns an
\* error if any resource's watcher stopped permanently").
ClosedIsClean ==
    closer = "ok" =>
        /\ AllEnded
        /\ \A t \in Types : Of(t) = "ended"

\* Once Run has succeeded its watchers keep running until Close: no watchdog
\* cancels them (watchlist.go:386-387 "it can never fire later and cancel
\* watchers that have nothing to do with this attempt").
NoLateWatchdog ==
    started /\ closer \in {"idle", "lock", "close", "cancel"} =>
        ctx[run.n] = "live"

-----------------------------------------------------------------------------
(* Liveness.  The goroutines run and the watchdog expires.  The server     *)
(* need not answer, nobody has to read the output, a stream need not end   *)
(* and nobody has to call Run or Close.  The relist timer does not fire    *)
(* again and again before the task looks at closeCh.  Senders that block   *)
(* on a channel are served in the order they came.                         *)

Fairness ==
    /\ WF_vars(RunNext) /\ WF_vars(CloseNext /\ ~CloseGivesUp)
    /\ WF_vars(Expire) /\ WF_vars(DogCancels)
    /\ WF_vars(TakeRequest) /\ WF_vars(RequestCancelled)
    /\ WF_vars(Wake) /\ WF_vars(SpawnerEnds)
    /\ SF_vars(RelistEnds) /\ WF_vars(RelistReturns)
    /\ \A w \in Runs \X Types :
        /\ WF_vars(StreamEnds(w) /\ CtxOf(w) = "cancelled")
        /\ WF_vars(Reconnect(w)) /\ WF_vars(Reconnected(w))
        /\ WF_vars(ReconnectCancelled(w))

LiveSpec == Spec /\ Fairness

\* Run returns even if the server hangs on a watch request, its own or that
\* of a watcher already started (watchlist.go:356-358).
RunReturns == run.pc = "watch" ~> run.pc = "idle"

\* Close returns even if the server hangs and the output is not read, and in
\* the end every goroutine of the Reader is gone (watchlist.go:763-765).
CloseEndsAll ==
    closer = "close" ~> /\ closer \in {"ok", "error", "expired", "panicked"}
                        /\ AllEnded
                        /\ spawner.pc = "ended"
                        /\ relist = "ended"

\* A watcher of the current Run that reconnects gets its answer or is
\* cancelled, whatever became of the requests before it, of other types,
\* failed Runs and callers that have gone, as long as no request hangs for
\* ever: one spawner serves all of them (watchlist.go:577-611).
EveryWatcherServed ==
    []<>(spawner.pc # "call") =>
        \A t \in Types :
            Of(t) = "put" ~> Of(t) \notin {"put", "get"}

=============================================================================

# Tattler in TLA+

Tattler delivers what happens to the objects of a Kubernetes cluster to data
processors. This directory holds TLA+ specifications of its concurrent and
failure-handling parts, the TLC configurations that check them on small
instances, and proofs checked by TLAPS. Paths are relative to the repository's
root; `W` stands for `readers/apiserver/watchlist/watchlist.go`.

    tlc -workers 2 -config MCWatcher_restart.cfg MCWatcher
    tlapm WatcherProofs.tla     # and the other modules *Proofs.tla

## The system

| part | state it keeps | operations | talks to |
|---|---|---|---|
| watch loop (`W` 410-769, `utils.go`) | resourceVersion, `gap`, the stream and its locals | start from a bookmark, follow a stream, persist bookmarks, recover, reconnect | API server, bookmark store, output channel, spawner |
| spawner (`W` 577-611) | `watchListEnabled`, the list options | open a watch, one at a time | API server, every watcher |
| bookmark store (`bookmarks/store/configmap`) | one ConfigMap, a key for each resource | Load, Store, Delete with bounded retries | API server |
| relist (`W` 771-867, `relist/`) | `seen`, the attempt, a channel for each attempt | list every object now and then | API server, output channel |
| reader lifecycle (`W` 112-402) | `started`, `mu`, contexts, `closeCh`, `spawnCh`, watchdogs | New, SetOut, Run, Close | all of the above |
| pipeline (`tattler.go`, `internal/`) | bounded channels, routes, drop counters | AddReader, AddProcessor, Start, the stages | Readers, processors |
| resources (`types/`, `spawn.go`, `relist/`, `data/data.go`, `safety/`) | the flags a Reader is made for, `bookmarking` | choose watches and listers, name bookmarks, make entries, scrub them | all Readers |
| metrics (`internal/metrics`) | counters | | |

Each Reader has one goroutine per watched resource, the spawner, and the relist
task; they share the output channel and `spawnCh`. Readers that run in several
processes share the ConfigMap. The pipeline is three goroutines behind the
channel all Readers write to.

What is hard about it:

* **crashes and restarts**: only the bookmark survives, and everything it covers
  must have been sent before it was stored (`Covered` below);
* **refusals**: an expired version is refused in the stream, an invalid one in the
  request, one from the future not at all;
* **recovery** by initial events or by a list and a watch, with the server free to
  switch WatchList off at any request, and to send ordinary bookmarks before the
  initial events of a stream are over;
* **sharing**: two Readers store, compare and delete the same bookmark;
* **late effects**: a request that timed out may still be carried out;
* **one spawner** for all watches: requests queue behind those of callers that have
  long gone;
* **half-made objects**: a Run or a New that fails after it has started goroutines,
  and is called again;
* **shutdown**: Close against a hanging server, a stalled output, a reconnecting
  watcher, a half-read relist; closing the pipeline with entries in every stage.

The hazards, each with its line and the properties that cover it, are listed in
`PROJECT.json`.

## Modules

| module | models |
|---|---|
| `APIServer` | the server: a log of changes, what a list returns, compaction, restores. External, as the Reader relies on it |
| `BookmarkStore` | abstract: one bookmark, and the updates that may still land. `Watcher` is built from its calls, `ConfigMapStore` implements it |
| `Feed` | abstract: a resumable feed of the server's changes. No code; what `Watcher` promises |
| `Watcher` | the watch loop for one resource type, any number of Readers, one store; composes `APIServer` and `BookmarkStore` |
| `ConfigMapStore` | the bookmark store, request by request |
| `Relist` | the relist task and its listers |
| `ReaderLifecycle` | Run, Close, watchdogs, spawner, watchers as goroutines |
| `Pipeline` | Runner, stages, routes |
| `Resources` | which kinds are watched, relisted, bookmarked, decoded and scrubbed, over Runs that fail and Readers that follow each other |
| `WatcherProofs`, `WatcherFeedProofs` | theorems about `Watcher`: its coverage; recovery, deletions, and the refinement of `Feed` |
| `ConfigMapStoreProofs`, `RelistProofs`, `ReaderLifecycleProofs`, `PipelineProofs`, `ResourcesProofs` | theorems about the module each is named for |
| `MC*` | constants for TLC |

Definitions marked "Mutant" are not part of a model. Each changes one action the way a
plausible bug would; put in the place of that action it makes one of the
properties fail, which shows that the property says something about the code.

### Watcher

A resourceVersion is a position in `log`, `""` is 0. `pc[r]` is where Reader r is
in `watch`, `recoverStartup`, `handleWatcher` or `watchEvents`; `rv`, `gap` and
`wl` are the Go variables `resourceVersion`, `gap` and `watchListEnabled`;
`stream[r]` holds the locals of `watchEvents` (`initialEvents`,
`resourceVersion`, `storedResourceVersion`, a list not yet delivered) and how far
the server has sent. Every call that leaves the process is a step of its own, so
the server and other Readers move between any two of them: Load, the ahead
check, each watch request, Delete, the first page of a recovery's list, the pages
after it, the watch that follows them, each event with the Store it causes. Retries within one call change nothing and
are stuttering steps.

What may go wrong is a set of faults (`FaultKinds`): a store that cannot be read,
an update that fails with or without having been done, or that is done after its
caller has gone on (`late`), lists that go on at another version than they began
(`pages`), requests that fail, are refused, or are forbidden, a server without
WatchList or one that loses it, streams that break, processes that die, ordinary
bookmarks that come before the initial events of a stream are over (`early`), and
restores of etcd. Compaction and writes are always possible.

What the server sends does not depend on what the Reader makes of it: with `early`, an
ordinary bookmark may come amid the initial events of a recovery, a first watch or
a reconnect without a version, which all make the same request (watchlist.go:586-588),
and amid the objects of a standard watch. `watchEvent` ignores it in a recovery
(731-737) and adopts and stores it on any other stream (699-702), where it then hides
the objects not yet sent: when the stream ends before they were, the reconnect, or a
restart, resumes after them. The code guards against `early` in one of these places only.
The run `live` has the fault and shows that this guard holds (`RecoveryComplete`), and
what needs a server without the fault elsewhere says so: `Coverage`, `StoredCovered` and
`ImplementsFeed`, by the faults of `restart` and `shared` and by `InitialEventsFirst`
in the theorems, and `CaughtUp`, which supposes that no version is `AdoptedEarly`. With
`early` allowed and nothing supposed, TLC finds each of `Coverage`, `StoredCovered` and
`CaughtUp` violated within a few steps: one object sent, a bookmark, a broken stream.
README.md:116-117 of the repository promises every existing object to a first watch, and
the comment at watchlist.go:732 speaks of recoveries alone. Whether a
server sends such bookmarks is not to be seen from this repository, so this is a
limit of what is shown and not a finding.

An event that `NewEntry` or `WatchEventToEntry` cannot convert is logged and
dropped (watchlist.go:757-760), and a later bookmark covers it. Typed clients deliver
none but the types of the table in `Resources`, whose run `resources` shows that all of them are
decoded (`Decodable`), so `Watcher` has no such step.

* `StoredCovered`: the bookmark hides no object; each object that existed at the
  bookmark's version is downstream in its state of that version (without `early`).
* `Coverage`: the same for every update that may still land, for the version every
  Reader holds in memory, and for what a stream has read. This is the inductive form.
* `NoChangeSkipped`: no change before the bookmark is missing downstream, unless
  a whole snapshot was taken after it. Coverage is about objects; this is about
  deletions and intermediate states. `base` is a history variable. It says
  nothing of what a snapshot steps over: a Reader that reconnects without a version is sent
  the objects there are and is not told of deletions it missed, and no text of the
  repository promises that it is.
* `RecoveryComplete`: a Reader that owes a recovery adopts no version before the
  whole snapshot is downstream, so that the version hides no object (with `early`).
* `OnlyUnusableCleared`: a bookmark is removed only when the server has forgotten
  its version.
* `ImplementsFeed`: with `mark <- store`, Readers and server implement `Feed`.
* `CaughtUp`, `NoSilentStream`: see liveness.

`out` collects what any Reader has sent. With a shared store one Reader's bookmark
covers what another has delivered, so the promise is about all Readers together: for one of
several Readers that share a store it does not hold, and the code does not claim it.

A restore of etcd gives versions out again. A bookmark that the server has
overtaken by then cannot be told from a good one, so the invariants speak of the
first history (`era = 0`), and so does `CaughtUp`; later ones are the subject of
`NoSilentStream` alone.

### ConfigMapStore

A call is a Get followed by an Update that carries the version read. A request
is put on `wire` and may be applied, refused, or stay there after its caller has
timed out. `ResultsHold` relates every result to the values the key had while the
call ran, `OnlyOwnBookmark` is an action property about every write, and
`StoreTypeOK` also bounds the attempts. `ImplementsStore` is a refinement: under
`KeyStore(k)`, which maps the ConfigMap's value of key k and the requests that are
outstanding for it to `store` and `late`, every step is a call of `BookmarkStore` that
takes effect, an update that lands late, one that is forgotten, or none. It holds
while the ConfigMap exists; nobody in the repository deletes it.

### Relist

Each attempt of `relistType` has a goroutine and a channel of its own, so a lister
that outlives its attempt stays visible. The exponential package is external: an
error that outlasted its retries may or may not be permanent for the caller.
`SentOnce`, `CompleteWhenOk` (success means that every object that existed
throughout was sent), `StaleListerHarmless`, and `StopsWhenClosed`: after Close
all of them end, even if nobody reads the output.

### ReaderLifecycle

The steps of Run, Close, the spawner and the watchers, with `mu`, the context of
each Run and the timers. A watchdog that has expired runs later (`fired`): that
Stop does not wait for it is what `NoLateWatchdog` is about. `spawner.queue` is who
blocks on `spawnCh`, in the order of Go's channels; a request that the spawner has taken
is carried out even if its sender has gone. The callers of a failed Run and of Close
may stop waiting for the watchers, and Close may be called again, which panics. So
the invariants say what remains: `NoPanic` (nothing is sent on the closed `spawnCh` unless
Close's caller gave up), `OneGeneration` (watchers of an older Run are gone, or left
behind by a caller that gave up, and then cancelled), `ClosedIsClean`. Liveness:
`RunReturns`, `CloseEndsAll`, and `EveryWatcherServed`: a watcher that reconnects is
answered whatever stands before it in the queue.

### Pipeline

Stages hold one entry and block on the next channel. The options of New are
chosen in `Init`, and so is whether an earlier New on the same input failed after it
had started its preprocessors: they still read the input (stage `leaked`) and
write to a channel nobody reads. `OnlyScrubbed`, `InOrder`, `DrainedWhenClosed` (what was
sent was delivered, refused by a preprocessor, counted as dropped, or is one of
at most two entries a failed New has cost),
`CloseReachesRoutes`, `SlowRouteHoldsNobody`. The input is closed when no Reader
sends any more. Casts in the scrubber cannot fail, as an entry's object type
comes from its object (`data.go` 121-147), so that error path is left out.
An unbuffered input or processor channel is not modelled. `docs/highlevel.md`
draws safety before preprocessing; the code, and the model, have it the other
way round, so preprocessors do see secrets.

### Resources

`Specs`, `Pagers`, `ObjectTypeOf` and `Accessor` are the tables that the code keeps in
parallel in `spawn.go`, `relist.go` and `data.go`; `CmKey`, `ConvertToDecimal` and
`ScrubPodSpec` are its pure functions. The loops of Run and of a relist over their types
are places in a table: `FirstPlace` and `NextPlace` skip the types that were not asked for. The actions put them to use: New with any flags, Run
watch by watch, each of which may fail, Close and a New for other flags on the
same store, bookmarks, events, relists lister by lister, the scrubber.
`OneWatcherEach`, `ResumesOwn`, `RelistsWatched`, `Decodable`, `Redacted` and
`BookmarksWhenSupported` relate one table to another through these steps. Stopping the
watches of a failed Run is one step here; `ReaderLifecycle` has its parts. An object is its
kind and the places of its pod spec that still hold a secret; a version string is
its digits and one other character.

## Runs

| run | question | instance |
|---|---|---|
| `restart` | does any crash, failure or refusal make a bookmark hide something? | 1 Reader, 2 objects, 4 versions, 2 after a restore |
| `shared` | do two Readers with one store keep the abstract promise, late updates included? | 2 Readers, 2 objects, 3 versions |
| `live` | do bookmarks amid initial events never cut a recovery short, does a Reader catch up as long as etcd is not restored, and is it never on a silent stream for good, after a restore while it was down either? | 1 Reader, 2 objects, 3 versions, 2 after a restore, 1 restore |
| `liverestore` | is a Reader never on a silent stream for good when etcd is restored under it? **violated** | 1 Reader, 3 versions, 1 restore |
| `configmap` | are concurrent and late store requests harmless, and does each key implement the abstract store? | 2 clients, 2 keys, 2 values, 2 attempts, 3 calls |
| `relist` | is a relist complete, free of duplicates, and never stranded? | 3 objects, 2 listers, page size 1, 2 attempts |
| `lifecycle` | are Run, its failures and Close safe together? | 2 types, 2 Runs, refusals, a Run's caller that gives up |
| `lifecycle_live` | do Run and Close always return, everything end, and every watcher get its answer? | 2 types, 2 Runs, permanent refusals, a Close that gives up |
| `watchdog` | can a watchdog hit a Run that succeeded? **violated** | 2 types, 1 Run |
| `pipeline` | scrubbing, order, draining, closing, slow processors | 1 Reader, 2 processors, 3 entries, all option values, a failed New before |
| `resources` | do flags, watches, bookmarks, listers, entries and scrubber agree? | all types and 2 other sets, 3 versions, 2 Readers, 2 Runs each, 1 bookmark |
| `rerun` | is a Reader ever run twice? **violated** | 2 Readers, 2 Starts |

Why the bounds are enough. Four versions allow a snapshot, a deletion the
snapshot hides, a change after it and a compaction between any two; two objects allow
one to be pending while another is done. A restored server accepts changes up
to version `MaxRestored`: all of them in `liverestore`, two in `restart` and `live`, so that a
version can name a second change and a bookmark may be overtaken by the server or stay
ahead of it for good (`shared` restores nothing). Two Readers are what a race for a
bookmark takes. Two attempts allow a retry after a lost answer and three calls one
between the two halves of another. One page of one object each makes every list of two
objects a continued one. Two types allow a failure after a success. Three entries
fill a processor's channel and drop one, or fill what a failed New has left and let one
through. One bookmark in the store is what a wrong key takes. The second client, key, object or Reader
plays the same part as the first, so symmetry is used where only safety is
checked.

The three violated runs are disagreements between the repository's text and its
code; `PROJECT.json` quotes both. In short: only a restart notices that a
bookmark is ahead of a restored server; a watchdog that expires as `watch`
returns leaves a Reader that reports success and is dead; and a Start
that failed runs its Readers again, which can never succeed.

## Fairness

* `Watcher`: weak fairness of each step by which the Reader or the server goes
  on with what was begun: goroutines run, the server answers, and an open stream delivers. No
  fairness for ordinary bookmarks, faults, writes or compaction. Both
  properties assume `EventuallyCalm`, that steps which undo progress and may be repeated
  for ever (breaking streams, stopping processes) cease; refusals, failed
  Deletes and lost WatchList support need not cease. `CaughtUp` also assumes that no
  ordinary bookmark was adopted amid initial events.
* `Relist`: weak fairness of the goroutines and of the server's answers, which may be
  errors. None for reading the output.
* `ReaderLifecycle`: the goroutines run and timers expire. None for the server's
  answers, for streams ending by themselves or for the output. Strong fairness for the task
  seeing `closeCh`: the timer of at least an hour does not win every `select`.
  `EveryWatcherServed` assumes that no watch request hangs for ever.
* `Pipeline`: the stages run; processors keep reading only where pushes block on
  them.

## Proofs

Every theorem below is proved for all values of the constants that satisfy the
module's named assumption: any number of Readers, objects, keys, types,
processors, entries and attempts, and, unless it is said otherwise, every set of
faults. The bounds of the models (`MaxVersion`, `MaxRuns`, `MaxEntries`, ...) are
among these constants, so they are arbitrary too. Each module of proofs
defines an inductive invariant as a conjunction of named parts, shows that
`Init` implies it and that every action keeps it, one step for each action, and
derives the invariants the runs check. TLC had checked these invariants on
instances like those of the runs before they were proved.

### Watcher

`WatcherProofs`: `TypeCorrect`, for every set of faults; `CoverageCorrect` and
`StoredCoveredCorrect`, for every set without `early`. That hypothesis is named
(`InitialEventsFirst`) and used in one place, where a bookmark is adopted: what it covers
must not be pending any more. Without it both fail, as said above.

`StoredCovered` is not inductive: a Store of a Reader's version keeps it only if that
version hides nothing, hence the conjuncts of `Coverage` about `rv` and `stream`, which need
that what was read and not yet sent is still pending, which needs `TypeOK` for the
idle stream. The proof first states what each server step does to `SnapshotAt`
(an append or a compaction leaves every earlier snapshot alone), that `out` only
grows, and then has a step for each action. An update that is still on its way is
covered like the bookmark itself, so one that lands late is no case of its own.

`WatcherFeedProofs` builds on it; all but its last theorem hold with `early`:

* `RecoveryCompleteCorrect`, from `RecoverySound`: what a Reader that owes a
  recovery reads is a recovery stream, its list, or a stream opened at the list's version;
  and `RecoveryCovered`: what such a stream has come to is downstream but for what is
  pending. This is the part of `Coverage` that a bookmark amid initial events cannot break.
* `NoChangeSkippedCorrect`, from `NoneSkipped`, which says it of late requests and
  of the versions that streams have come to as well. A version a list reports has
  stepped over what lies before `base`, and only over that. It needs `Placed`: no
  version anywhere is one that the server has not reached.
* `OnlyUnusableClearedCorrect`, an action property, from `ClearsForgotten`: whoever is
  on the way to a Delete, or reads a stream that will be rejected, holds a version
  below `floor`; by compare-and-delete so is the bookmark it removes. It
  assumes that the fault `invalid` does not occur: a server that calls a version
  invalid without having forgotten it makes the code delete a bookmark that was still good.
* `ImplementsFeedCorrect`: every step maps to a step of `Feed` or a stutter. It needs
  all of the above, and `PendingKnown` (what a stream owes are changes of the server).
  It assumes no `invalid`, `NoRestore`, since the promise of `Feed` is about one history,
  and `InitialEventsFirst`, since the mark of `Feed` hides nothing.

### ConfigMapStore

`StoreInv`: a call has seen the value its key has now as long as it runs
(`CallSound`); a request that carries the ConfigMap's present version differs from
it in its own key only, and has a reason to (`RequestFresh`); a request whose sender
waits is what the sender's call says (`RequestOwned`). A request of an older
version is refused, so nothing need be known of its contents, which is why
late requests are harmless. From it: `StoreTypeCorrect`, `ResultsCorrect`,
`OnlyOwnBookmarkCorrect`, and `ImplementsStoreCorrect`, the refinement of
`BookmarkStore` for every key, while the ConfigMap exists. It assumes `Keys # {}`.

### Relist

`RelistInv`: attempts are numbered in order and those to come have not begun
(`Counted`, `Unused`); a channel holds one value, and an error only as its last
(`ChannelSound`); what was sent was seen (`SentSound`); and an object that existed
throughout and has not been sent is still owed by the lister of the attempt that is
read, in its pages, its channel or an error to come (`Owed`, `AllAccounted`).
From it: `RelistTypeCorrect`, `SentOnceCorrect`, `CompleteWhenOkCorrect`,
`StaleListerHarmlessCorrect`.

### ReaderLifecycle

`LifecycleInv`: a Run that has not begun has no goroutines (`Begun`); who is in the
spawner's queue is putting, once (`QueueSound`); a watcher at work belongs to the Run that is
under way or has succeeded, or was left behind cancelled (`Current`); Run has a
watcher for each type it is done with and none for those ahead (`Launched`), and
Close gets past `mu` only after a Run that succeeded, which no other follows
(`CloserSound`). From it: `LifecycleTypeCorrect`, `NoPanicCorrect`,
`OneGenerationCorrect`, `ClosedIsCleanCorrect`.

### Pipeline

The way of an entry is a row of six places, from the input channel to the hand of the
router. `BaseInv` says who holds what when; `OrderInv` adds that entries past the
scrubber are scrubbed (`Scrubbed`) and that those of a Reader lie in the row, and
come out of it, in the order they were sent (`FlowOrdered`, `OutOrdered`), which a
step keeps because it moves an entry past empty places only; `PipelineInv` adds that
nothing is left before a closed channel (`ClosedDrained`) and that what was sent is on its
way, delivered, refused, stolen by a failed New, or one of those the counter
counts (`Accounted`, an equation between a cardinality and `dropped`). From
these: `PipelineTypeCorrect`, `OnlyScrubbedCorrect`, `InOrderCorrect`,
`DrainedWhenClosedCorrect`. It assumes that no processor has the name of an inner channel.

### Resources

The tables are finite, but not what is done with them: the requests, versions and
bounds are arbitrary. `Tables` says of each of the nine types that `Specs` and `Pagers`
have the same kinds in the same places, none of them twice; it is found by writing down a
number for each kind and the kind of each resource, so that two watches with one key
or of one kind are the same (`SpecKeys`). The loops over the tables are places in them:
`OnePassed` says that a step of a loop goes through the place it was at, past types
that were not asked for, and `AllPassed` what a loop that is through has gone
through. `ResourcesInv` has three parts. `WatchSound`: the open watches
are those of the places Run has gone through, one each, and none before a Run and
after one that failed (`RunSound`); a bookmark was stored by the only watch that
looks for it under its key (`MarkOwn`). `RelistSound`: the same for the kinds a relist
has listed. `SlotSound`: the entry. `BookmarksWhenSupported` rests on `Decimal`:
a number the server reports is read as it was meant, for one or two digits and
whatever stands behind them. From these: `ResourcesTypeCorrect`,
`OneWatcherEachCorrect`, `ResumesOwnCorrect`, `RelistsWatchedCorrect`,
`DecodableCorrect`, `RedactedCorrect`, `BookmarksCorrect`. They assume that a
major version is between 1 and 9, a minor one below 100, and that what stands behind
it begins with no digit; what `convertToDecimal` makes of a number of any length would
take an induction over its digits, which the installed provers cannot do.

### Model-checked only

* **Liveness**, which is out of the prover's reach: `CaughtUp`, `NoSilentStream`,
  `StopsWhenClosed`, `RunReturns`, `CloseEndsAll`, `EveryWatcherServed`,
  `CloseReachesRoutes`, `SlowRouteHoldsNobody`.
* The three violated runs, which are counterexamples.

## Plan

A run of `Watcher` without bookmarking (Kubernetes before 1.29); the drop log's
powers of two.

Not modelled: metrics (counters nothing reads back; `Init` takes effect once for
the process), logging, the strings `stringer` generates, the fake store (a test
double), the options' bounds on durations, and the contents of objects but for what
the scrubber changes.

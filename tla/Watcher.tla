------------------------------- MODULE Watcher -------------------------------
(***************************************************************************)
(* The watch loop of the watchlist Reader (watchlist.go, utils.go) for one *)
(* resource type: how a Reader starts from a persisted bookmark, follows   *)
(* the API server's watch stream, persists new bookmarks, and recovers     *)
(* with an ordered snapshot when the server refuses its resourceVersion.   *)
(* Several Readers may share one bookmark store.                           *)
(*                                                                         *)
(* What the program calls a resourceVersion is a version of APIServer, ""  *)
(* is 0.  A handler call is one action; the calls that leave the process   *)
(* (Load, the ahead check, a watch request, Delete, a list, each event of  *)
(* a stream) are the points where the server and the other Readers get to  *)
(* move.  Retries inside a call are stuttering steps.                      *)
(***************************************************************************)
EXTENDS APIServer, BookmarkStore

CONSTANTS
    Readers,          \* Readers watching the resource
    Bookmarking,      \* New: the server is Kubernetes 1.29 or later
    HasStore,         \* New: WithBookmarkStore was given
    Faults            \* what may go wrong, see FaultKinds

FaultKinds ==
    {"load",          \* the store cannot be read
     "check",         \* the bookmark cannot be compared with the server
     "request",       \* a watch or list request fails, or times out
     "invalid",       \* the server calls a resumed watch request invalid
     "forbidden",     \* a request fails with an error no retry can help
     "store",         \* Store or Delete reports an error, whatever it did
     "late",          \* a request to the store outlives the failed call
     "pages",         \* a list goes on at another version than it began
     "watchList",     \* the server has no WatchList, or loses it
     "stop",          \* the process dies, or the Reader is closed
     "break",         \* a watch stream ends
     "early",         \* ordinary bookmarks arrive amid initial events
     "rollback",      \* etcd is restored while no Reader runs
     "liveRollback"}  \* etcd is restored while Readers run

ASSUME WatcherAssumption ==
    /\ Bookmarking \in BOOLEAN
    /\ HasStore \in BOOLEAN
    /\ Faults \subseteq FaultKinds

VARIABLES
    pc,        \* where each Reader is, see Locations
    rv,        \* resourceVersion of watch() and of handleWatcher()
    gap,       \* gap of handleWatcher(): a recovery snapshot is still owed
    wl,        \* watchListEnabled of connectWatcher()
    stream,    \* the open watch, or the list taken for it, of each Reader
    out,       \* every entry some Reader has put on the output channel
    base       \* newest version a full snapshot was taken at (history)

vars == <<log, floor, era, pc, rv, gap, wl, stream, store, late, out, base>>

readerVars == <<pc, rv, gap, wl, stream>>

-----------------------------------------------------------------------------

Locations ==
    {"down",          \* not running: Run was not called, or has failed
     "check",         \* watch(): about to compare the bookmark
     "request",       \* watch(): about to open the first stream
     "startClear",    \* recoverStartup(): about to clear the bookmark
     "startRecover",  \* recoverStartup(): about to ask for initial events
     "stream",        \* watchEvents()
     "clear",         \* handleWatcher(): about to clear the bookmark
     "connect",       \* handleWatcher(): about to open the next stream
     "list",          \* listRecoveryObjects(): pages of the list are missing
     "listed",        \* getListRecoveryWatcher(): listed, no watch yet
     "dead"}          \* handleWatcher() returned a permanent error

(***************************************************************************)
(* A stream: the snapshot entries still to be read (pending), the version  *)
(* the server has sent up to (pos), the locals initialEvents (rec),        *)
(* resourceVersion (rv) and storedResourceVersion (stored) of              *)
(* watchEvents, the version of a list recovery not yet adopted (list).  On *)
(* the server's side: it still owes the annotated bookmark that ends the   *)
(* initial events (mark), the stream was opened at a version it had        *)
(* forgotten (doomed), the history it serves (era).                        *)
(***************************************************************************)
Stream == [pending : SUBSET Entry, pos : Nat, rec : BOOLEAN, mark : BOOLEAN,
           list : Nat, doomed : BOOLEAN, rv : Nat, stored : Nat, era : Nat]

Idle == [pending |-> {}, pos |-> 0, rec |-> FALSE, mark |-> FALSE,
         list |-> 0, doomed |-> FALSE, rv |-> 0, stored |-> 0, era |-> 0]

\* Every variable has its type; a Reader holds a stream only where it reads
\* or waits for one (watchlist.go:460-468: every watch is stopped), and it
\* never carries a version into a recovery (watchlist.go:511-512, 541-542).
TypeOK ==
    /\ ServerTypeOK
    /\ pc \in [Readers -> Locations]
    /\ rv \in [Readers -> Nat]
    /\ gap \in [Readers -> BOOLEAN]
    /\ wl \in [Readers -> BOOLEAN]
    /\ stream \in [Readers -> Stream]
    /\ store \in Nat
    /\ late \subseteq Nat
    /\ out \subseteq Entry
    /\ base \in Nat
    /\ \A r \in Readers :
        /\ pc[r] \notin {"stream", "list", "listed"} => stream[r] = Idle
        /\ (gap[r] /\ pc[r] # "clear") \/ pc[r] = "startRecover" => rv[r] = 0

Init ==
    /\ ServerInit
    /\ pc = [r \in Readers |-> "down"]
    /\ rv = [r \in Readers |-> 0]
    /\ gap = [r \in Readers |-> FALSE]
    /\ wl = [r \in Readers |-> Bookmarking]
    /\ stream = [r \in Readers |-> Idle]
    /\ StoreInit
    /\ out = {}
    /\ base = 0

-----------------------------------------------------------------------------
(* The bookmark store.  A call is one step here, whatever attempts it made *)
(* and other Readers did between them: a failed call that left a request   *)
(* may be made again by the next bookmark, which is the same to the store. *)

\* Whether a call may succeed, and whether it may fail.
Results == IF "store" \in Faults THEN BOOLEAN ELSE {TRUE}

\* Unless that fault happens, no request outlives its call.
InTime == "late" \in Faults \/ late' \subseteq late

\* watchEvents adopts version v; the bookmark is persisted unless this
\* stream already persisted it.  s is the stream but for rv and stored.
AdoptVersion(r, s, v) ==
    IF v = s.stored \/ ~HasStore
    THEN /\ stream' = [stream EXCEPT ![r] =
                            [s EXCEPT !.rv = v, !.stored = v]]
         /\ UNCHANGED storeVars
    ELSE \E ok \in Results :
         /\ Store(v, ok) /\ InTime
         /\ stream' = [stream EXCEPT ![r] =
                            [s EXCEPT !.rv = v,
                                      !.stored = IF ok THEN v ELSE @]]

\* Mutant: Delete does not compare the value with the rejected one.
ClearAny(r) ==
    IF rv[r] = 0 \/ ~HasStore
    THEN UNCHANGED storeVars
    ELSE \E ok \in Results : Delete(store, ok) /\ InTime

\* clearRejectedBookmark: the stored bookmark is deleted if it is still the
\* rejected one.  An error is only logged.
ClearRejected(r) ==
    IF rv[r] = 0 \/ ~HasStore
    THEN UNCHANGED storeVars
    ELSE \E ok \in Results : Delete(rv[r], ok) /\ InTime

-----------------------------------------------------------------------------
(* Opening a watch.                                                        *)

\* connectWatcher asks for WatchList until the server first refuses it, then
\* falls back to standard watches for good.
AskWatchList(r) ==
    \/ UNCHANGED wl
    \/ "watchList" \in Faults /\ wl' = [wl EXCEPT ![r] = FALSE]

\* Mutant: a resumed watch does not carry its version.
OpenAtLatest(v, watchList) ==
    [Idle EXCEPT !.pending = IF v = 0 THEN SnapshotAt(Version) ELSE {},
                 !.pos = Version,
                 !.mark = v = 0 /\ watchList,
                 !.era = era]

\* A watch resumed from v, or, for v = 0, one that starts with every object.
\* The server accepts a version it has forgotten, and one it has not reached.
OpenAt(v, watchList) ==
    [Idle EXCEPT !.pending = IF v = 0 THEN SnapshotAt(Version) ELSE {},
                 !.pos = IF v = 0 THEN Version ELSE v,
                 !.mark = v = 0 /\ watchList,
                 !.doomed = v # 0 /\ v < floor,
                 !.era = era]

\* newInitialEventsWatcher: the initial events are recovery snapshots.
OpenRecovery == [OpenAt(0, TRUE) EXCEPT !.rec = TRUE]

\* Mutant: the watch after a list does not carry the list's version.
OpenListedLate(s) == [s EXCEPT !.pos = Version, !.era = era]

\* newListRecoveryWatcher: a watch from the list's version, after the list.
OpenListed(s) == [s EXCEPT !.doomed = s.list < floor, !.era = era]

\* What listRecoveryObjects returns.
Listed == [Idle EXCEPT !.pending = SnapshotAt(Version), !.pos = Version,
                       !.list = Version, !.era = era]

\* History: a snapshot of every object was taken now.
SnapshotTaken == base' = Version

\* The server may refuse a request for the version it carries.
Refusable(r) ==
    /\ rv[r] # 0
    /\ (Bookmarking /\ rv[r] < floor) \/ "invalid" \in Faults

-----------------------------------------------------------------------------
(* Startup: watch().                                                       *)

\* Load the bookmark.
Load(r) ==
    /\ pc[r] = "down"
    /\ rv' = [rv EXCEPT ![r] = IF Bookmarking /\ HasStore THEN store ELSE 0]
    /\ pc' = [pc EXCEPT ![r] = IF rv'[r] = 0 THEN "request" ELSE "check"]
    /\ gap' = [gap EXCEPT ![r] = FALSE]
    /\ UNCHANGED <<serverVars, wl, stream, storeVars, out, base>>

\* The store cannot be read: the Reader starts without a bookmark.
LoadFails(r) ==
    /\ "load" \in Faults
    /\ pc[r] = "down"
    /\ Bookmarking /\ HasStore
    /\ rv' = [rv EXCEPT ![r] = 0]
    /\ pc' = [pc EXCEPT ![r] = "request"]
    /\ gap' = [gap EXCEPT ![r] = FALSE]
    /\ UNCHANGED <<serverVars, wl, stream, storeVars, out, base>>

\* Mutant: the bookmark is not compared with the server's version.
CheckSkipped(r) ==
    /\ pc[r] = "check"
    /\ pc' = [pc EXCEPT ![r] = "request"]
    /\ UNCHANGED <<serverVars, rv, gap, wl, stream, storeVars, out, base>>

\* bookmarkAhead: a bookmark newer than the server's version is not used.
Check(r) ==
    /\ pc[r] = "check"
    /\ pc' = [pc EXCEPT ![r] = IF rv[r] > Version THEN "startClear"
                                                  ELSE "request"]
    /\ UNCHANGED <<serverVars, rv, gap, wl, stream, storeVars, out, base>>

\* A check that cannot be made lets the Reader resume from the bookmark.
CheckFails(r) ==
    /\ "check" \in Faults
    /\ pc[r] = "check"
    /\ pc' = [pc EXCEPT ![r] = "request"]
    /\ UNCHANGED <<serverVars, rv, gap, wl, stream, storeVars, out, base>>

\* The first watch opens, resumed from the bookmark if there is one.
StartWatch(r) ==
    /\ pc[r] = "request"
    /\ AskWatchList(r)
    /\ stream' = [stream EXCEPT ![r] = OpenAt(rv[r], wl'[r])]
    /\ IF rv[r] = 0 THEN SnapshotTaken ELSE UNCHANGED base
    /\ pc' = [pc EXCEPT ![r] = "stream"]
    /\ UNCHANGED <<serverVars, rv, gap, storeVars, out>>

\* The request is refused for its resourceVersion.
StartRefused(r) ==
    /\ pc[r] = "request"
    /\ Refusable(r)
    /\ AskWatchList(r)
    /\ pc' = [pc EXCEPT ![r] = "startClear"]
    /\ UNCHANGED <<serverVars, rv, gap, stream, storeVars, out, base>>

\* Any other error at startup fails Run, which may be called again.
StartFails(r) ==
    /\ "request" \in Faults
    /\ pc[r] \in {"request", "startRecover"}
    /\ AskWatchList(r)
    /\ rv' = [rv EXCEPT ![r] = 0]
    /\ pc' = [pc EXCEPT ![r] = "down"]
    /\ UNCHANGED <<serverVars, gap, stream, storeVars, out, base>>

\* Mutant: a bookmark that cannot be cleared fails Run.
StartClearFails(r) ==
    /\ pc[r] = "startClear"
    /\ rv' = [rv EXCEPT ![r] = 0]
    /\ \/ /\ ClearRejected(r)
          /\ pc' = [pc EXCEPT ![r] = "startRecover"]
       \/ /\ "store" \in Faults
          /\ pc' = [pc EXCEPT ![r] = "down"]
          /\ UNCHANGED storeVars
    /\ UNCHANGED <<serverVars, gap, wl, stream, out, base>>

\* recoverStartup clears the bookmark and forgets it, ...
StartClear(r) ==
    /\ pc[r] = "startClear"
    /\ ClearRejected(r)
    /\ rv' = [rv EXCEPT ![r] = 0]
    /\ pc' = [pc EXCEPT ![r] = "startRecover"]
    /\ UNCHANGED <<serverVars, gap, wl, stream, out, base>>

\* ... then asks for the initial events, or leaves recovery to handleWatcher
\* when the server has no WatchList.
StartRecover(r) ==
    /\ pc[r] = "startRecover"
    /\ AskWatchList(r)
    /\ gap' = [gap EXCEPT ![r] = TRUE]
    /\ IF wl'[r]
       THEN /\ stream' = [stream EXCEPT ![r] = OpenRecovery]
            /\ pc' = [pc EXCEPT ![r] = "stream"]
            /\ SnapshotTaken
       ELSE /\ pc' = [pc EXCEPT ![r] = "connect"]
            /\ UNCHANGED <<stream, base>>
    /\ UNCHANGED <<serverVars, rv, storeVars, out>>

-----------------------------------------------------------------------------
(* A running stream: watchEvents() and watchEvent().                       *)

\* The server still serves this stream.
Served(s) == s.era = era /\ ~s.doomed

\* Every event up to a list recovery's version is read before the stream is.
Reading(r) == pc[r] = "stream" /\ stream[r].list = 0

\* An object of the list, or of the initial events, is sent downstream.
Snapshot(r) ==
    /\ pc[r] = "stream"
    /\ stream[r].list # 0 \/ Served(stream[r])
    /\ \E e \in stream[r].pending :
        /\ out' = out \cup {e}
        /\ stream' = [stream EXCEPT ![r].pending = @ \ {e}]
    /\ UNCHANGED <<serverVars, pc, rv, gap, wl, storeVars, base>>

\* Mutant: the list's version is adopted before its snapshots were sent.
AdoptListEarly(r) ==
    /\ pc[r] = "stream"
    /\ stream[r].list # 0
    /\ AdoptVersion(r, [stream[r] EXCEPT !.list = 0], stream[r].list)
    /\ UNCHANGED <<serverVars, pc, rv, gap, wl, out, base>>

\* A list's version is adopted once its snapshots were sent.
AdoptList(r) ==
    /\ pc[r] = "stream"
    /\ stream[r].list # 0
    /\ stream[r].pending = {}
    /\ AdoptVersion(r, [stream[r] EXCEPT !.list = 0], stream[r].list)
    /\ UNCHANGED <<serverVars, pc, rv, gap, wl, out, base>>

\* The next change is sent downstream.
Deliver(r) ==
    /\ Reading(r)
    /\ Served(stream[r])
    /\ stream[r].pending = {}
    /\ stream[r].pos < Version
    /\ out' = out \cup {EntryOf(stream[r].pos + 1)}
    /\ stream' = [stream EXCEPT ![r].pos = @ + 1]
    /\ UNCHANGED <<serverVars, pc, rv, gap, wl, storeVars, base>>

\* The annotated bookmark ends the initial events.
InitialEventsEnd(r) ==
    /\ Reading(r)
    /\ Served(stream[r])
    /\ stream[r].mark
    /\ stream[r].pending = {}
    /\ AdoptVersion(r, [stream[r] EXCEPT !.mark = FALSE, !.rec = FALSE],
                    stream[r].pos)
    /\ UNCHANGED <<serverVars, pc, rv, gap, wl, out, base>>

\* The server has yet to send all initial events of a stream.
InitialEventsOwed(s) == s.mark \/ s.pending # {}

\* Mutant: an ordinary bookmark is adopted in the middle of a recovery.
BookmarkAlways(r) ==
    /\ Bookmarking
    /\ Reading(r)
    /\ Served(stream[r])
    /\ stream[r].pos <= Version
    /\ "early" \in Faults \/ ~InitialEventsOwed(stream[r])
    /\ AdoptVersion(r, stream[r], stream[r].pos)
    /\ UNCHANGED <<serverVars, pc, rv, gap, wl, out, base>>

\* An ordinary bookmark, which the server sends after the initial events of
\* the stream, whatever the stream is for, or, with the fault, amid them.  It
\* is ignored until a recovery is complete; on any other stream it is adopted.
Bookmark(r) ==
    /\ Bookmarking
    /\ Reading(r)
    /\ Served(stream[r])
    /\ stream[r].pos <= Version
    /\ "early" \in Faults \/ ~InitialEventsOwed(stream[r])
    /\ IF stream[r].rec
       THEN UNCHANGED <<stream, storeVars>>
       ELSE AdoptVersion(r, stream[r], stream[r].pos)
    /\ UNCHANGED <<serverVars, pc, rv, gap, wl, out, base>>

\* The version watchEvents returns, or the previous one if it returns "".
Returned(r) == IF stream[r].rv # 0 THEN stream[r].rv ELSE rv[r]

\* watchEvents returns without an error.  A version it returns ends a gap.
EndStream(r) ==
    /\ Reading(r)
    /\ rv' = [rv EXCEPT ![r] = Returned(r)]
    /\ gap' = [gap EXCEPT ![r] = @ /\ stream[r].rv = 0]
    /\ stream' = [stream EXCEPT ![r] = Idle]
    /\ pc' = [pc EXCEPT ![r] = "connect"]
    /\ UNCHANGED <<serverVars, wl, storeVars, out, base>>

\* The connection of a healthy stream breaks, or the server closes it.
StreamBreaks(r) == "break" \in Faults /\ stream[r].era = era /\ EndStream(r)

\* The restored server no longer serves the streams of its past.
StreamLost(r) == stream[r].era # era /\ EndStream(r)

\* The server rejects the stream's version inside the stream.
StreamRefused(r) ==
    /\ Reading(r)
    /\ stream[r].era = era
    /\ stream[r].doomed
    /\ rv' = [rv EXCEPT ![r] = Returned(r)]
    /\ gap' = [gap EXCEPT ![r] = TRUE]
    /\ stream' = [stream EXCEPT ![r] = Idle]
    /\ pc' = [pc EXCEPT ![r] = "clear"]
    /\ UNCHANGED <<serverVars, wl, storeVars, out, base>>

-----------------------------------------------------------------------------
(* Reconnecting: the retry loop of handleWatcher().                        *)

\* The rejected bookmark is cleared and forgotten.
Clear(r) ==
    /\ pc[r] = "clear"
    /\ ClearRejected(r)
    /\ rv' = [rv EXCEPT ![r] = 0]
    /\ pc' = [pc EXCEPT ![r] = "connect"]
    /\ UNCHANGED <<serverVars, gap, wl, stream, out, base>>

\* The next watch opens where the last one left off.
Reconnect(r) ==
    LET v == IF Bookmarking THEN rv[r] ELSE 0 IN
    /\ pc[r] = "connect"
    /\ ~gap[r]
    /\ AskWatchList(r)
    /\ stream' = [stream EXCEPT ![r] = OpenAt(v, wl'[r])]
    /\ IF v = 0 THEN SnapshotTaken ELSE UNCHANGED base
    /\ pc' = [pc EXCEPT ![r] = "stream"]
    /\ UNCHANGED <<serverVars, rv, gap, storeVars, out>>

\* The request is refused for its resourceVersion.
ReconnectRefused(r) ==
    /\ pc[r] = "connect"
    /\ ~gap[r]
    /\ Refusable(r)
    /\ AskWatchList(r)
    /\ gap' = [gap EXCEPT ![r] = TRUE]
    /\ pc' = [pc EXCEPT ![r] = "clear"]
    /\ UNCHANGED <<serverVars, rv, stream, storeVars, out, base>>

\* A recovery is owed: it starts with the initial events of a new watch, or
\* with a list when the server has no WatchList.  Nothing is done with the
\* list's objects before its last page is there.
Recover(r) ==
    /\ pc[r] = "connect"
    /\ gap[r]
    /\ AskWatchList(r)
    /\ IF wl'[r]
       THEN /\ stream' = [stream EXCEPT ![r] = OpenRecovery]
            /\ pc' = [pc EXCEPT ![r] = "stream"]
       ELSE /\ stream' = [stream EXCEPT ![r] = Listed]
            /\ \E l \in {"list", "listed"} : pc' = [pc EXCEPT ![r] = l]
    /\ SnapshotTaken
    /\ UNCHANGED <<serverVars, rv, gap, storeVars, out>>

\* Mutant: a page of another version is taken for one of the list.
NextPageAny(r) ==
    /\ pc[r] = "list"
    /\ \/ UNCHANGED stream
       \/ /\ "pages" \in Faults
          /\ stream' = [stream EXCEPT ![r].pending = SnapshotAt(Version)]
    /\ pc' = [pc EXCEPT ![r] = "listed"]
    /\ UNCHANGED <<serverVars, rv, gap, wl, storeVars, out, base>>

\* The next pages, up to the last, are of the version of the first.
NextPage(r) ==
    /\ pc[r] = "list"
    /\ stream[r].era = era /\ stream[r].list >= floor
    /\ pc' = [pc EXCEPT ![r] = "listed"]
    /\ UNCHANGED <<serverVars, rv, gap, wl, stream, storeVars, out, base>>

\* A page cannot be had, or the version of the list has been forgotten: the
\* recovery starts over with a new list.
NextPageFails(r) ==
    /\ pc[r] = "list"
    /\ \/ "request" \in Faults
       \/ stream[r].era # era \/ stream[r].list < floor
    /\ stream' = [stream EXCEPT ![r] = Idle]
    /\ pc' = [pc EXCEPT ![r] = "connect"]
    /\ UNCHANGED <<serverVars, rv, gap, wl, storeVars, out, base>>

\* A page of another version is a permanent error: the watcher ends.
NextPageDiffers(r) ==
    /\ pc[r] = "list"
    /\ "pages" \in Faults
    /\ stream' = [stream EXCEPT ![r] = Idle]
    /\ pc' = [pc EXCEPT ![r] = "dead"]
    /\ UNCHANGED <<serverVars, rv, gap, wl, storeVars, out, base>>

\* The watch of a list recovery opens at the list's version.
WatchListed(r) ==
    /\ pc[r] = "listed"
    /\ stream' = [stream EXCEPT ![r] = OpenListed(@)]
    /\ pc' = [pc EXCEPT ![r] = "stream"]
    /\ UNCHANGED <<serverVars, rv, gap, wl, storeVars, out, base>>

\* It does not open: the recovery starts over with a new list.
WatchListedFails(r) ==
    /\ pc[r] = "listed"
    /\ "request" \in Faults \/ stream[r].list < floor
    /\ stream' = [stream EXCEPT ![r] = Idle]
    /\ pc' = [pc EXCEPT ![r] = "connect"]
    /\ UNCHANGED <<serverVars, rv, gap, wl, storeVars, out, base>>

\* Mutant: the watcher ends without stopping its stream.
ForbiddenLeaks(r) ==
    /\ "forbidden" \in Faults
    /\ pc[r] \in {"connect", "list", "listed"}
    /\ AskWatchList(r)
    /\ pc' = [pc EXCEPT ![r] = "dead"]
    /\ UNCHANGED <<serverVars, rv, gap, stream, storeVars, out, base>>

\* A permanent error ends the watcher: the Reader must be restarted.
Forbidden(r) ==
    /\ "forbidden" \in Faults
    /\ pc[r] \in {"connect", "list", "listed"}
    /\ AskWatchList(r)
    /\ stream' = [stream EXCEPT ![r] = Idle]
    /\ pc' = [pc EXCEPT ![r] = "dead"]
    /\ UNCHANGED <<serverVars, rv, gap, storeVars, out, base>>

\* The process dies, or the Reader is closed, and a new one takes its place.
Stop(r) ==
    /\ "stop" \in Faults
    /\ pc[r] # "down"
    /\ pc' = [pc EXCEPT ![r] = "down"]
    /\ rv' = [rv EXCEPT ![r] = 0]
    /\ gap' = [gap EXCEPT ![r] = FALSE]
    /\ wl' = [wl EXCEPT ![r] = Bookmarking]
    /\ stream' = [stream EXCEPT ![r] = Idle]
    /\ UNCHANGED <<serverVars, storeVars, out, base>>

-----------------------------------------------------------------------------

\* etcd is restored, while no Reader runs unless the fault says otherwise.
Restore ==
    /\ \/ "rollback" \in Faults /\ \A r \in Readers : pc[r] = "down"
       \/ "liveRollback" \in Faults
    /\ Rollback

ServerNext ==
    /\ \/ \E o \in Objs, d \in BOOLEAN : Write(o, d)
       \/ Compact
       \/ Restore
    /\ UNCHANGED <<readerVars, storeVars, out, base>>

\* A Store or Delete that has long been given up takes effect.
LateWrite == Land /\ UNCHANGED <<serverVars, readerVars, out, base>>

ReaderNext(r) ==
    \/ Load(r) \/ LoadFails(r) \/ Check(r) \/ CheckFails(r)
    \/ StartWatch(r) \/ StartRefused(r) \/ StartFails(r)
    \/ StartClear(r) \/ StartRecover(r)
    \/ Snapshot(r) \/ AdoptList(r) \/ Deliver(r)
    \/ InitialEventsEnd(r) \/ Bookmark(r)
    \/ StreamBreaks(r) \/ StreamLost(r) \/ StreamRefused(r)
    \/ Clear(r) \/ Reconnect(r) \/ ReconnectRefused(r) \/ Recover(r)
    \/ NextPage(r) \/ NextPageFails(r) \/ NextPageDiffers(r)
    \/ WatchListed(r) \/ WatchListedFails(r)
    \/ Forbidden(r) \/ Stop(r)

Next == ServerNext \/ LateWrite \/ \E r \in Readers : ReaderNext(r)

Spec == Init /\ [][Next]_vars

-----------------------------------------------------------------------------
(* Safety.  A restore gives versions out a second time, which the Reader   *)
(* cannot see when the server has caught up again, so the invariants speak *)
(* of the server's first history; the Readers' behaviour in later ones is  *)
(* the subject of NoSilentStream.                                          *)

\* Everything a Reader that resumes from v will not be told again has been
\* sent downstream: every object existing at v, in its state at v.
Covered(v) == v <= Version /\ SnapshotAt(v) \subseteq out

\* A persisted bookmark never hides an object from the Reader that resumes
\* from it, whatever crashed, failed or was overwritten before
\* (watchlist.go:680, "safe to persist only after all its snapshots"), as
\* long as the server sends no ordinary bookmark amid initial events: outside
\* a recovery, the code would persist it (watchlist.go:731-738, 699-702).
StoredCovered == era = 0 => Covered(store)

\* What has reached the output, or is about to, through one Reader: the
\* versions it holds in memory hide nothing, and all it has read from its
\* stream but the snapshot entries still pending is downstream.
ReaderCovered(r) ==
    /\ Covered(rv[r])
    /\ Covered(stream[r].rv)
    /\ stream[r].pos <= Version
    /\ SnapshotAt(stream[r].pos) \subseteq out \cup stream[r].pending
    /\ stream[r].list \in {0, stream[r].pos}

\* Neither the bookmark, nor one that a late request may still write, nor the
\* version any running Reader would reconnect at hides an object; this is the
\* inductive form of StoredCovered (watchlist.go:500-512, 530, 680-684,
\* 698-704), and assumes the same of the server.
Coverage ==
    era = 0 => /\ \A v \in {store} \cup late : Covered(v)
               /\ \A r \in Readers : ReaderCovered(r)

\* A change up to the bookmark, a deletion above all, that was never sent
\* downstream is one a full snapshot stepped over.  Ordinary reconnects and
\* restarts lose no change (watchlist.go:529-530, utils.go:114).
NoChangeSkipped ==
    era = 0 => \A v \in {store} \cup {rv[r] : r \in Readers} :
                 \A j \in 1..v : EntryOf(j) \in out \/ j <= base

\* A Reader that owes a recovery reads recovery streams only, and adopts no
\* version before the whole snapshot is downstream, even if the server sends
\* bookmarks amid the initial events of any stream: the version it comes to
\* hides no object (watchlist.go:494-496, 731-737, utils.go:82-90).
RecoveryComplete ==
    \A r \in Readers : gap[r] /\ pc[r] = "stream" =>
        /\ stream[r].rec \/ stream[r].list # 0 \/ stream[r].rv # 0
        /\ stream[r].pending # {} => stream[r].rv = 0
        /\ era = 0 => Covered(stream[r].rv)

\* No Reader removes a bookmark that could still be resumed from, such as
\* the one another Reader has just stored in place of a rejected one
\* (watchlist.go:300-302, configmap.go:132-135).
OnlyUnusableCleared ==
    [][era = 0 /\ store # 0 /\ store' = 0 => store < floor]_vars

-----------------------------------------------------------------------------
(* The watch loop implements a resumable feed whose mark is the bookmark.  *)

F == INSTANCE Feed WITH mark <- store

\* Every step of the Readers and the server is a step of the feed, or none:
\* only changes of the server go downstream, the bookmark only moves to a
\* version that hides no object, and it is only removed when the server has
\* forgotten it (watchlist.go:300-312, 480-560, 650-769).
ImplementsFeed == F!FeedSpec

-----------------------------------------------------------------------------
(* Liveness.  The Reader's goroutines run and the server answers, so each  *)
(* call returns and each stream is read.  Nothing forces the server to     *)
(* send ordinary bookmarks, and nothing forces a fault.                    *)

Fairness ==
    \A r \in Readers :
        /\ WF_vars(Load(r)) /\ WF_vars(Check(r))
        /\ WF_vars(StartWatch(r))
        /\ WF_vars(StartClear(r)) /\ WF_vars(StartRecover(r))
        /\ WF_vars(Snapshot(r)) /\ WF_vars(AdoptList(r))
        /\ WF_vars(Deliver(r)) /\ WF_vars(InitialEventsEnd(r))
        /\ WF_vars(StreamLost(r)) /\ WF_vars(StreamRefused(r))
        /\ WF_vars(Clear(r)) /\ WF_vars(Reconnect(r)) /\ WF_vars(Recover(r))
        /\ WF_vars(NextPage(r) \/ NextPageFails(r)) /\ WF_vars(WatchListed(r))

LiveSpec == Spec /\ Fairness

\* A step that undoes a Reader's progress, and may be taken again and again.
Disruption ==
    \E r \in Readers :
        \/ StartFails(r) \/ StreamBreaks(r)
        \/ NextPageFails(r) \/ NextPageDiffers(r) \/ WatchListedFails(r)
        \/ Forbidden(r) \/ Stop(r)

EventuallyCalm == <>[][~Disruption]_vars

\* Reader r adopted an ordinary bookmark amid the initial events of its
\* stream, which the code refuses in recoveries only (watchlist.go:731-738).
AdoptedEarly(r) == stream[r].rv # 0 /\ InitialEventsOwed(stream[r])

\* Once disruptions cease, every object's current state is downstream, as
\* long as etcd is not restored: no rejected, cleared, unclearable or lost
\* bookmark keeps a Reader from catching up (watchlist.go:566-575, "rejected
\* again and recovers"), and no ordinary bookmark amid the initial events of
\* a recovery.  Amid those of a first watch the server must send none.
CaughtUp ==
    [](\A r \in Readers : ~AdoptedEarly(r)) /\ EventuallyCalm =>
        <>[](era = 0 => SnapshotAt(Version) \subseteq out)

\* A Reader does not stay on a stream at a version the server has not
\* reached, which delivers nothing (utils.go:33-37).
NoSilentStream ==
    EventuallyCalm =>
        <>[](\A r \in Readers : pc[r] = "stream" => stream[r].pos <= Version)

=============================================================================

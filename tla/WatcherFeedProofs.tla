-------------------------- MODULE WatcherFeedProofs --------------------------
(***************************************************************************)
(* More about Watcher, for every number of Readers, objects and versions:  *)
(* recoveries are complete before anything is adopted; only a full         *)
(* snapshot steps over a change; only a bookmark the server has forgotten  *)
(* is removed; and the watch loop implements the resumable feed.  Only the *)
(* last needs Coverage, and with it that no ordinary bookmark comes amid   *)
(* initial events.                                                         *)
(***************************************************************************)
EXTENDS WatcherProofs

-----------------------------------------------------------------------------
(* The inductive invariants.                                               *)

\* A Reader that is starting owes no recovery.  An open stream, and the list
\* of a recovery, is at a version, and what a recovery reads before its whole
\* snapshot is downstream is a recovery stream.
SoundReader(r) ==
    LET s == stream[r] IN
    /\ pc[r] \in {"check", "request"} => ~gap[r]
    /\ pc[r] \in {"list", "listed"} => gap[r] /\ s.list # 0 /\ s.rv = 0
    /\ pc[r] \in {"stream", "list", "listed"} => s.pos # 0
    /\ gap[r] /\ pc[r] = "stream" =>
          /\ s.rec \/ s.list # 0 \/ s.rv # 0
          /\ s.pending # {} => s.rv = 0

RecoverySound == \A r \in Readers : SoundReader(r)

\* What a recovery has read is downstream but for what it has yet to send.
RecoveringReader(r) ==
    gap[r] /\ pc[r] \in {"stream", "list", "listed"} => ReaderCovered(r)

RecoveryCovered == era = 0 => \A r \in Readers : RecoveringReader(r)

\* Every version in the system is one the server has reached, and the version
\* of a list is the one the stream after it is opened at.
Placed ==
    era = 0 =>
        /\ \A v \in {store} \cup late : v <= Version
        /\ \A r \in Readers :
            LET s == stream[r] IN
            /\ rv[r] <= Version /\ s.rv <= Version /\ s.pos <= Version
            /\ s.list \in {0, s.pos}

\* Every change up to v was sent downstream, or a snapshot stepped over it.
Seen(v) == \A j \in 1..v : EntryOf(j) \in out \/ j <= base

\* Not only the bookmark and the versions to reconnect at, but those that
\* late requests may write and that streams have come to, step over nothing.
NoneSkipped ==
    era = 0 =>
        /\ base <= Version
        /\ \A v \in {store} \cup late : Seen(v)
        /\ \A r \in Readers : /\ Seen(rv[r])
                              /\ Seen(stream[r].rv)
                              /\ Seen(stream[r].pos)

\* A request that may still delete the bookmark was made because the server
\* had forgotten it; so had it the version of a Reader that is about to clear
\* the bookmark, or that reads a stream the server is going to reject.
ForgottenReader(r) ==
    LET s == stream[r] IN
    /\ pc[r] \in {"startClear", "clear"} => rv[r] < floor
    /\ s.doomed => rv[r] < floor /\ s.rv < floor /\ s.list < floor

ClearsForgotten ==
    era = 0 => /\ 0 \in late => store < floor
               /\ \A r \in Readers : ForgottenReader(r)

\* What a stream has yet to deliver of a snapshot are changes of the server.
PendingKnown ==
    era = 0 =>
        \A r \in Readers :
            stream[r].pending \subseteq {EntryOf(j) : j \in 1..Version}

-----------------------------------------------------------------------------
(* What every step of a Reader leaves alone.                               *)

\* A Reader's step leaves the server and the other Readers alone.
LEMMA ReaderFrame ==
    ASSUME TypeOK, NEW r \in Readers, ReaderNext(r)
    PROVE  /\ UNCHANGED serverVars
           /\ out \subseteq out'
           /\ out' = out \/ Snapshot(r) \/ Deliver(r)
           /\ base' \in {base, Version}
           /\ \A q \in Readers : q # r =>
                /\ pc'[q] = pc[q] /\ rv'[q] = rv[q] /\ gap'[q] = gap[q]
                /\ stream'[q] = stream[q]
<1> USE DEF TypeOK, SnapshotTaken
<1>1. CASE \/ Load(r) \/ LoadFails(r) \/ Check(r) \/ CheckFails(r)
           \/ StartRefused(r) \/ StartFails(r) \/ StartClear(r)
  BY <1>1 DEF Load, LoadFails, Check, CheckFails, StartRefused, StartFails,
              StartClear
<1>2. CASE StartWatch(r) \/ StartRecover(r) \/ Reconnect(r) \/ Recover(r)
  BY <1>2 DEF StartWatch, StartRecover, Reconnect, Recover
<1>3. CASE Snapshot(r) \/ Deliver(r)
  BY <1>3 DEF Snapshot, Deliver
<1>4. CASE AdoptList(r) \/ InitialEventsEnd(r) \/ Bookmark(r)
  BY <1>4 DEF AdoptList, InitialEventsEnd, Bookmark, AdoptVersion
<1>5. CASE StreamBreaks(r) \/ StreamLost(r) \/ StreamRefused(r)
  BY <1>5 DEF StreamBreaks, StreamLost, EndStream, StreamRefused
<1>6. CASE \/ Clear(r) \/ ReconnectRefused(r) \/ NextPage(r)
           \/ NextPageFails(r) \/ NextPageDiffers(r) \/ WatchListed(r)
           \/ WatchListedFails(r) \/ Forbidden(r) \/ Stop(r)
  BY <1>6 DEF Clear, ReconnectRefused, NextPage, NextPageFails,
              NextPageDiffers, WatchListed, WatchListedFails, Forbidden, Stop
<1> QED
  BY <1>1, <1>2, <1>3, <1>4, <1>5, <1>6 DEF ReaderNext

\* What the streams a Reader opens start with.
LEMMA Opened ==
    ASSUME TypeOK
    PROVE  /\ Version \in Nat \ {0}
           /\ \A v \in Nat, b \in BOOLEAN :
                /\ OpenAt(v, b).pos = IF v = 0 THEN Version ELSE v
                /\ OpenAt(v, b).rv = 0 /\ OpenAt(v, b).list = 0
                /\ OpenAt(v, b).pending = IF v = 0 THEN SnapshotAt(Version)
                                                   ELSE {}
                /\ OpenAt(v, b).doomed => v < floor
           /\ OpenRecovery.pos = Version /\ OpenRecovery.rv = 0
           /\ OpenRecovery.list = 0 /\ OpenRecovery.rec
           /\ OpenRecovery.pending = SnapshotAt(Version)
           /\ ~OpenRecovery.doomed
           /\ Listed.pos = Version /\ Listed.rv = 0 /\ Listed.list = Version
           /\ Listed.pending = SnapshotAt(Version) /\ ~Listed.doomed
<1>1. Version \in Nat \ {0}
  BY DEF TypeOK, ServerTypeOK, Version
<1> QED
  BY <1>1 DEF OpenAt, OpenRecovery, Listed, Idle

\* The step an adopting action of the Reader's amounts to.
LEMMA Adopted ==
    ASSUME TypeOK, TypeOK', NEW r \in Readers,
           AdoptList(r) \/ InitialEventsEnd(r) \/ Bookmark(r)
    PROVE  /\ UNCHANGED <<pc, rv, gap, wl, base, out>>
           /\ \/ UNCHANGED <<stream, store, late>>
              \/ LET v == stream'[r].rv IN
                 /\ v \in {stream[r].pos, stream[r].list}
                 /\ AdoptList(r) => v = stream[r].list
                 /\ ~AdoptList(r) => v = stream[r].pos
                 /\ store' \in {store, v} /\ late' \subseteq late \cup {v}
                 /\ store' = store \/ late' = {}
                 /\ stream'[r].pos = stream[r].pos
                 /\ stream'[r].list = 0
                 /\ stream'[r].pending = stream[r].pending
                 /\ \/ stream[r].pending = {}
                    \/ /\ ~InitialEventsFirst
                       /\ ~stream[r].rec /\ stream[r].list = 0
                 /\ pc[r] = "stream"
                 /\ stream'[r].doomed = stream[r].doomed
<1>0. /\ stream \in [Readers -> Stream] /\ stream[r] \in Stream
      /\ stream[r].pos \in Nat /\ stream[r].list \in Nat
  BY DEF TypeOK, Stream
<1>1. UNCHANGED <<pc, rv, gap, wl, base, out>>
  BY DEF AdoptList, InitialEventsEnd, Bookmark
<1>2. CASE AdoptList(r)
  <2>1. PICK s : s = [stream[r] EXCEPT !.list = 0]
    OBVIOUS
  <2>2. /\ s \in Stream /\ s.pos = stream[r].pos /\ s.list = 0
        /\ s.pending = stream[r].pending /\ s.doomed = stream[r].doomed
    BY <1>0, <2>1 DEF Stream
  <2>3. AdoptVersion(r, s, stream[r].list)
        /\ pc[r] = "stream" /\ stream[r].pending = {}
    BY <1>2, <2>1 DEF AdoptList
  <2> QED
    BY <1>0, <1>1, <1>2, <2>2, <2>3, AdoptResult
<1>3. CASE InitialEventsEnd(r) /\ ~AdoptList(r)
  <2>1. PICK s : s = [stream[r] EXCEPT !.mark = FALSE, !.rec = FALSE]
    OBVIOUS
  <2>2. /\ s \in Stream /\ s.pos = stream[r].pos /\ s.list = stream[r].list
        /\ s.pending = stream[r].pending /\ s.doomed = stream[r].doomed
    BY <1>0, <2>1 DEF Stream
  <2>3. AdoptVersion(r, s, stream[r].pos)
        /\ pc[r] = "stream" /\ stream[r].pending = {} /\ stream[r].list = 0
    BY <1>3, <2>1 DEF InitialEventsEnd, Reading
  <2> QED
    BY <1>0, <1>1, <1>3, <2>2, <2>3, AdoptResult
<1>4. CASE Bookmark(r) /\ ~AdoptList(r)
  <2>1. CASE stream[r].rec
    BY <1>1, <1>4, <2>1 DEF Bookmark, storeVars
  <2>2. CASE ~stream[r].rec
    <3>1. AdoptVersion(r, stream[r], stream[r].pos)
          /\ pc[r] = "stream" /\ stream[r].list = 0
      BY <1>4, <2>2 DEF Bookmark, Reading
    <3>2. InitialEventsFirst => stream[r].pending = {}
      BY <1>4 DEF Bookmark, InitialEventsFirst, InitialEventsOwed
    <3> QED
      BY <1>0, <1>1, <1>4, <2>2, <3>1, <3>2, AdoptResult
         DEF InitialEventsFirst
  <2> QED
    BY <2>1, <2>2
<1> QED
  BY <1>2, <1>3, <1>4

-----------------------------------------------------------------------------
(* Recoveries are complete.                                                *)

\* Every step keeps RecoverySound.
LEMMA SoundStep ==
    TypeOK /\ TypeOK' /\ RecoverySound /\ [Next]_vars => RecoverySound'
<1> SUFFICES ASSUME TypeOK, TypeOK', RecoverySound, [Next]_vars,
                    NEW q \in Readers
             PROVE  SoundReader(q)'
  BY DEF RecoverySound
<1>0. /\ SoundReader(q) /\ rv[q] \in Nat
      /\ pc \in [Readers -> Locations] /\ gap \in [Readers -> BOOLEAN]
      /\ stream \in [Readers -> Stream] /\ stream[q] \in Stream
      /\ stream[q].pos \in Nat /\ stream[q].list \in Nat
      /\ wl'[q] \in BOOLEAN
  BY DEF RecoverySound, TypeOK, Stream
<1> USE DEF SoundReader
<1>1. CASE UNCHANGED <<pc, gap, stream>>
  BY <1>0, <1>1
<1>2. ASSUME NEW r \in Readers, ReaderNext(r), r # q
      PROVE  SoundReader(q)'
  BY <1>0, <1>2, ReaderFrame
<1>3. CASE \/ Load(q) \/ LoadFails(q) \/ Check(q) \/ CheckFails(q)
           \/ StartRefused(q) \/ StartFails(q) \/ StartClear(q)
  BY <1>0, <1>3 DEF Load, LoadFails, Check, CheckFails, StartRefused,
                    StartFails, StartClear
<1>4. CASE StartWatch(q)
  BY <1>0, <1>4, Opened DEF StartWatch
<1>5. CASE StartRecover(q)
  BY <1>0, <1>5, Opened DEF StartRecover
<1>6. CASE Snapshot(q)
  <2>1. PICK e \in stream[q].pending :
          stream' = [stream EXCEPT ![q].pending = @ \ {e}]
    BY <1>6 DEF Snapshot
  <2>2. /\ stream'[q].pos = stream[q].pos /\ stream'[q].rv = stream[q].rv
        /\ stream'[q].rec = stream[q].rec /\ stream'[q].list = stream[q].list
    BY <1>0, <2>1 DEF Stream
  <2> QED
    BY <1>0, <1>6, <2>2 DEF Snapshot
<1>7. CASE Deliver(q)
  <2>1. /\ stream'[q].pos = stream[q].pos + 1 /\ stream'[q].rv = stream[q].rv
        /\ stream'[q].rec = stream[q].rec /\ stream'[q].list = stream[q].list
        /\ stream'[q].pending = {}
    BY <1>0, <1>7 DEF Deliver, Stream
  <2> QED
    BY <1>0, <1>7, <2>1 DEF Deliver, Reading
<1>8. CASE AdoptList(q) \/ InitialEventsEnd(q) \/ Bookmark(q)
  <2>1. UNCHANGED <<pc, gap>>
    BY <1>8, Adopted
  <2>2. AdoptList(q) => stream[q].list # 0
    BY DEF AdoptList
  <2>3. CASE UNCHANGED stream
    BY <1>0, <2>1, <2>3
  <2>4. CASE ~UNCHANGED stream
    <3>1. /\ stream'[q].rv # 0
          /\ stream'[q].pos # 0 /\ pc[q] = "stream"
      BY <1>0, <1>8, <2>2, <2>4, Adopted
    <3>2. gap[q] => stream'[q].pending = {}
      BY <1>0, <1>8, <2>4, <3>1, Adopted
    <3> QED
      BY <1>0, <2>1, <3>1, <3>2
  <2> QED
    BY <2>3, <2>4
<1>9. CASE StreamBreaks(q) \/ StreamLost(q) \/ StreamRefused(q)
  BY <1>0, <1>9 DEF StreamBreaks, StreamLost, EndStream, StreamRefused
<1>10. CASE Clear(q) \/ ReconnectRefused(q) \/ NextPage(q)
  BY <1>0, <1>10 DEF Clear, ReconnectRefused, NextPage
<1>11. CASE Reconnect(q)
  BY <1>0, <1>11, Opened DEF Reconnect
<1>12. CASE Recover(q)
  BY <1>0, <1>12, Opened DEF Recover
<1>13. CASE WatchListed(q)
  <2>1. /\ stream'[q].pos = stream[q].pos /\ stream'[q].rv = stream[q].rv
        /\ stream'[q].list = stream[q].list
    BY <1>0, <1>13 DEF WatchListed, OpenListed, Stream
  <2> QED
    BY <1>0, <1>13, <2>1 DEF WatchListed
<1>14. CASE \/ NextPageFails(q) \/ NextPageDiffers(q) \/ WatchListedFails(q)
            \/ Forbidden(q) \/ Stop(q)
  BY <1>0, <1>14 DEF NextPageFails, NextPageDiffers, WatchListedFails,
                     Forbidden, Stop
<1>15. ServerNext \/ LateWrite => UNCHANGED <<pc, gap, stream>>
  BY DEF ServerNext, LateWrite, readerVars
<1> QED
  BY <1>1, <1>2, <1>3, <1>4, <1>5, <1>6, <1>7, <1>8, <1>9, <1>10, <1>11,
     <1>12, <1>13, <1>14, <1>15 DEF Next, ReaderNext, vars

\* Wherever a Reader is, what its recovery flags, its stream and the list of a
\* recovery say about each other fits.
THEOREM RecoverySoundCorrect == Spec => []RecoverySound
<1>1. Init => RecoverySound
  BY DEF Init, RecoverySound, SoundReader
<1> QED
  BY <1>1, SoundStep, TypeCorrect, PTL DEF Spec

\* The types of the versions a Reader knows, and of the server's.
LEMMA VersionTypes ==
    ASSUME TypeOK, NEW r \in Readers
    PROVE  /\ Version \in Nat /\ rv[r] \in Nat /\ stream[r].rv \in Nat
           /\ stream[r].pos \in Nat /\ stream[r].list \in Nat
<1>1. Version \in Nat
  BY DEF TypeOK, ServerTypeOK, Version
<1>2. stream[r] \in Stream /\ rv[r] \in Nat
  BY DEF TypeOK
<1> QED
  BY <1>1, <1>2 DEF Stream

\* What a Reader does keeps what its own recovery has read covered, ...
LEMMA RecoveringOwn ==
    ASSUME TypeOK, TypeOK', RecoverySound, NEW r \in Readers,
           RecoveringReader(r), ReaderNext(r)
    PROVE  RecoveringReader(r)'
<1>0. /\ SoundReader(r) /\ rv \in [Readers -> Nat] /\ Version \in Nat
      /\ pc \in [Readers -> Locations] /\ gap \in [Readers -> BOOLEAN]
      /\ stream \in [Readers -> Stream] /\ stream[r] \in Stream
      /\ stream[r].pos \in Nat /\ stream[r].list \in Nat
      /\ (gap[r] /\ pc[r] # "clear") \/ pc[r] = "startRecover" => rv[r] = 0
  <2>1. SoundReader(r)
    BY DEF RecoverySound
  <2>2. /\ rv \in [Readers -> Nat] /\ pc \in [Readers -> Locations]
        /\ gap \in [Readers -> BOOLEAN] /\ stream \in [Readers -> Stream]
        /\ (gap[r] /\ pc[r] # "clear") \/ pc[r] = "startRecover" => rv[r] = 0
    BY DEF TypeOK
  <2>3. stream[r] \in Stream
    BY <2>2
  <2> QED
    BY <2>1, <2>2, <2>3, VersionTypes
<1>1. UNCHANGED serverVars /\ out \subseteq out'
  BY ReaderFrame
<1>2. \A v \in Nat : Covered(v) => Covered(v)'
  BY <1>1, CoveredStable
<1>3. Covered(0)'
  BY <1>2, NothingCovered
<1>4. Version' = Version /\ \A v : SnapshotAt(v)' = SnapshotAt(v)
  BY <1>1 DEF SnapshotAt, LiveAt, EntryOf, Version, serverVars
<1> DEFINE Owed(s) == /\ s.rv = 0 /\ s.pos <= Version
                      /\ s.list \in {0, s.pos}
                      /\ SnapshotAt(s.pos) \subseteq out \cup s.pending
<1>5. ASSUME Owed(stream'[r]), rv'[r] = 0 PROVE ReaderCovered(r)'
  BY <1>1, <1>3, <1>4, <1>5 DEF ReaderCovered, Covered
<1>6. Owed(OpenRecovery) /\ Owed(Listed)
  BY <1>0, OpenCovered
<1> USE DEF RecoveringReader
<1>7. CASE StartRecover(r) \/ Recover(r)
  <2>1. stream'[r] \in {OpenRecovery, Listed} \/ pc'[r] = "connect"
    BY <1>0, <1>7 DEF StartRecover, Recover
  <2>2. rv'[r] = 0
    BY <1>0, <1>7 DEF StartRecover, Recover
  <2> QED
    BY <1>5, <1>6, <2>1, <2>2
<1>8. CASE Snapshot(r) \/ Deliver(r)
  BY <1>8, ReaderCoveredRead DEF Snapshot, Deliver, Reading
<1>9. CASE AdoptList(r) \/ InitialEventsEnd(r) \/ Bookmark(r)
  <2>1. UNCHANGED <<pc, rv, gap, out>>
    BY <1>9, Adopted
  <2>2. CASE UNCHANGED stream
    BY <1>1, <2>1, <2>2, ReaderCoveredStable
  <2>3. CASE ~UNCHANGED stream /\ gap[r]
    <3> DEFINE v == stream[r].pos
    <3>1. /\ pc[r] = "stream" /\ stream'[r].pos = v
          /\ stream'[r].list = 0 /\ stream'[r].pending = stream[r].pending
          /\ stream'[r].rv \in {v, stream[r].list}
          /\ AdoptList(r) => stream'[r].rv = stream[r].list
          /\ ~AdoptList(r) => stream'[r].rv = v
      BY <1>9, <2>3, Adopted
    <3>2. stream[r].pending = {}
      BY <1>0, <1>9, <2>3, <3>1, Adopted DEF SoundReader
    <3>3. ReaderCovered(r)
      BY <2>3, <3>1
    <3>4. stream'[r].rv = v
      BY <3>1, <3>3 DEF ReaderCovered, AdoptList
    <3>5. Covered(v) /\ Covered(rv[r])
      BY <3>2, <3>3 DEF ReaderCovered, Covered
    <3>6. \A w \in {v, rv[r]} : Covered(w)'
      BY <1>0, <1>2, <3>5
    <3> QED
      BY <1>0, <2>1, <3>1, <3>4, <3>6 DEF ReaderCovered, Covered
  <2> QED
    BY <2>1, <2>2, <2>3
<1>10. CASE NextPage(r)
  BY <1>0, <1>1, <1>10, ReaderCoveredStable DEF NextPage
<1>11. CASE WatchListed(r)
  <2>1. /\ rv' = rv /\ gap' = gap /\ pc[r] = "listed" /\ out' = out
        /\ stream'[r].pos = stream[r].pos /\ stream'[r].rv = stream[r].rv
        /\ stream'[r].list = stream[r].list
        /\ stream'[r].pending = stream[r].pending
    BY <1>0, <1>11 DEF WatchListed, OpenListed, Stream
  <2>2. gap[r] /\ stream[r].rv = 0 /\ rv[r] = 0
    BY <1>0, <2>1 DEF SoundReader
  <2>3. Owed(stream'[r])
    BY <2>1, <2>2 DEF ReaderCovered
  <2> QED
    BY <1>5, <2>1, <2>2, <2>3
<1>12. CASE StartWatch(r) \/ Reconnect(r)
  BY <1>0, <1>12 DEF StartWatch, Reconnect, SoundReader
<1>13. CASE \/ Load(r) \/ LoadFails(r) \/ Check(r) \/ CheckFails(r)
            \/ StartRefused(r) \/ StartFails(r) \/ StartClear(r)
            \/ Clear(r) \/ ReconnectRefused(r)
  BY <1>0, <1>13 DEF Load, LoadFails, Check, CheckFails, StartRefused,
                     StartFails, StartClear, Clear, ReconnectRefused
<1>14. CASE \/ StreamBreaks(r) \/ StreamLost(r) \/ StreamRefused(r)
            \/ NextPageFails(r) \/ NextPageDiffers(r) \/ WatchListedFails(r)
            \/ Forbidden(r) \/ Stop(r)
  BY <1>0, <1>14 DEF StreamBreaks, StreamLost, EndStream, StreamRefused,
       NextPageFails, NextPageDiffers, WatchListedFails, Forbidden, Stop
<1> QED
  BY <1>7, <1>8, <1>9, <1>10, <1>11, <1>12, <1>13, <1>14 DEF ReaderNext

\* ... and so does every other step.
LEMMA RecoveryCoveredStep ==
    TypeOK /\ TypeOK' /\ RecoverySound /\ RecoveryCovered /\ [Next]_vars
      => RecoveryCovered'
<1> SUFFICES ASSUME TypeOK, TypeOK', RecoverySound, RecoveryCovered,
                    [Next]_vars, era' = 0, NEW q \in Readers
             PROVE  RecoveringReader(q)'
  BY DEF RecoveryCovered
<1>1. CASE ServerNext
  <2>1. ~Restore
    BY DEF Restore, Rollback, TypeOK, ServerTypeOK
  <2>2. /\ era' = era /\ pc' = pc /\ gap' = gap
        /\ ReaderCovered(q) => ReaderCovered(q)'
    BY <1>1, <2>1, CoveredServer DEF readerVars
  <2> QED
    BY <2>2 DEF RecoveryCovered, RecoveringReader
<1>2. ASSUME NEW r \in Readers, ReaderNext(r) PROVE RecoveringReader(q)'
  <2>1. /\ UNCHANGED serverVars /\ out \subseteq out'
        /\ r # q => /\ pc'[q] = pc[q] /\ gap'[q] = gap[q]
                    /\ rv'[q] = rv[q] /\ stream'[q] = stream[q]
    BY <1>2, ReaderFrame
  <2>2. RecoveringReader(q)
    BY <2>1 DEF RecoveryCovered, serverVars
  <2>3. CASE r = q
    BY <1>2, <2>2, <2>3, RecoveringOwn
  <2>4. CASE r # q
    BY <2>1, <2>2, <2>4, ReaderCoveredStable DEF RecoveringReader
  <2> QED
    BY <2>3, <2>4
<1>3. CASE LateWrite \/ UNCHANGED vars
  <2>1. UNCHANGED <<serverVars, readerVars, out>>
    BY <1>3 DEF LateWrite, vars, serverVars, readerVars
  <2>2. ReaderCovered(q) => ReaderCovered(q)'
    BY <2>1, ReaderCoveredStable DEF readerVars
  <2> QED
    BY <2>1, <2>2 DEF RecoveryCovered, RecoveringReader, serverVars, readerVars
<1> QED
  BY <1>1, <1>2, <1>3 DEF Next

\* A Reader that owes a recovery reads recovery streams only, and adopts no
\* version before the whole snapshot is downstream, so that none it comes to
\* hides an object, whatever the server sends early on whichever stream and
\* wherever the recovery is interrupted.
THEOREM RecoveryCompleteCorrect == Spec => []RecoveryComplete
<1>1. Init => RecoveryCovered
  BY DEF Init, RecoveryCovered, RecoveringReader
<1>2. RecoverySound /\ RecoveryCovered => RecoveryComplete
  <2> SUFFICES ASSUME RecoverySound, RecoveryCovered, NEW r \in Readers,
                      gap[r], pc[r] = "stream"
               PROVE  /\ \/ stream[r].rec \/ stream[r].list # 0
                         \/ stream[r].rv # 0
                      /\ stream[r].pending # {} => stream[r].rv = 0
                      /\ era = 0 => Covered(stream[r].rv)
    BY DEF RecoveryComplete
  <2>1. SoundReader(r)
    BY DEF RecoverySound
  <2>2. era = 0 => ReaderCovered(r)
    BY DEF RecoveryCovered, RecoveringReader
  <2> QED
    BY <2>1, <2>2 DEF SoundReader, ReaderCovered, Covered
<1> QED
  BY <1>1, <1>2, RecoveryCoveredStep, RecoverySoundCorrect, TypeCorrect, PTL
  DEF Spec

-----------------------------------------------------------------------------
(* Only a snapshot steps over a change.                                    *)

\* Where the versions that a step of a Reader leaves behind come from.
LEMMA VersionsMove ==
    ASSUME TypeOK, TypeOK', NEW r \in Readers, ReaderNext(r)
    PROVE  /\ store' \in {store, 0, stream'[r].rv}
           /\ late' \subseteq late \cup {0, stream'[r].rv}
           /\ rv'[r] \in {0, store, rv[r], stream[r].rv}
           /\ stream'[r].rv \in
                 {0, stream[r].rv, stream[r].pos, stream[r].list}
           /\ \/ stream'[r].pos \in {0, rv[r], stream[r].pos}
              \/ stream'[r].pos = Version /\ base' = Version
              \/ Deliver(r)
           /\ \/ stream'[r].list \in {0, stream'[r].pos}
              \/ /\ stream'[r].list = stream[r].list
                 /\ stream'[r].pos = stream[r].pos
<1>0. /\ rv \in [Readers -> Nat] /\ stream \in [Readers -> Stream]
      /\ stream[r] \in Stream /\ rv[r] \in Nat
      /\ wl'[r] \in BOOLEAN
  BY DEF TypeOK
<1> USE <1>0 DEF storeVars, SnapshotTaken
<1>1. CASE \/ Load(r) \/ LoadFails(r) \/ Check(r) \/ CheckFails(r)
           \/ StartRefused(r) \/ StartFails(r)
  BY <1>1 DEF Load, LoadFails, Check, CheckFails, StartRefused, StartFails
<1>2. CASE StartClear(r) \/ Clear(r)
  BY <1>2, ClearType DEF StartClear, Clear
<1>3. CASE StartWatch(r) \/ Reconnect(r)
  BY <1>3, Opened DEF StartWatch, Reconnect
<1>4. CASE StartRecover(r) \/ Recover(r)
  BY <1>4, Opened DEF StartRecover, Recover
<1>5. CASE Snapshot(r)
  <2>1. PICK e \in stream[r].pending :
          stream' = [stream EXCEPT ![r].pending = @ \ {e}]
    BY <1>5 DEF Snapshot
  <2>2. /\ stream'[r].pos = stream[r].pos /\ stream'[r].rv = stream[r].rv
        /\ stream'[r].list = stream[r].list
    BY <2>1 DEF Stream
  <2> QED
    BY <1>5, <2>2 DEF Snapshot
<1>6. CASE Deliver(r)
  <2>1. stream'[r].rv = stream[r].rv /\ stream'[r].list = 0
    BY <1>6 DEF Deliver, Reading, Stream
  <2> QED
    BY <1>6, <2>1 DEF Deliver
<1>7. CASE AdoptList(r) \/ InitialEventsEnd(r) \/ Bookmark(r)
  BY <1>7, Adopted
<1>8. CASE StreamBreaks(r) \/ StreamLost(r) \/ StreamRefused(r)
  BY <1>8 DEF StreamBreaks, StreamLost, EndStream, StreamRefused, Returned,
              Idle
<1>9. CASE ReconnectRefused(r) \/ NextPage(r)
  BY <1>9 DEF ReconnectRefused, NextPage
<1>10. CASE WatchListed(r)
  <2>1. /\ stream'[r].pos = stream[r].pos /\ stream'[r].rv = stream[r].rv
        /\ stream'[r].list = stream[r].list
    BY <1>10 DEF WatchListed, OpenListed, Stream
  <2> QED
    BY <1>10, <2>1 DEF WatchListed
<1>11. CASE \/ NextPageFails(r) \/ NextPageDiffers(r) \/ WatchListedFails(r)
            \/ Forbidden(r) \/ Stop(r)
  BY <1>11 DEF NextPageFails, NextPageDiffers, WatchListedFails, Forbidden,
               Stop, Idle
<1> QED
  BY <1>1, <1>2, <1>3, <1>4, <1>5, <1>6, <1>7, <1>8, <1>9, <1>10, <1>11
  DEF ReaderNext

\* Every step keeps Placed.
LEMMA PlacedStep ==
    TypeOK /\ TypeOK' /\ Placed /\ [Next]_vars => Placed'
<1> SUFFICES ASSUME TypeOK, TypeOK', Placed, [Next]_vars, era' = 0
             PROVE  Placed'
  BY DEF Placed
<1>0. /\ Version \in Nat /\ store \in Nat /\ late \subseteq Nat
      /\ \A r \in Readers :
            /\ rv[r] \in Nat /\ stream[r].rv \in Nat
            /\ stream[r].pos \in Nat /\ stream[r].list \in Nat
  <2>1. Version \in Nat /\ store \in Nat /\ late \subseteq Nat
    BY DEF TypeOK, ServerTypeOK, Version
  <2> QED
    BY <2>1, VersionTypes
<1>1. CASE ServerNext
  <2>1. ~Restore
    BY DEF Restore, Rollback, TypeOK, ServerTypeOK
  <2>2. /\ UNCHANGED <<readerVars, store, late, era>>
        /\ Version' \in Nat /\ Version <= Version'
    BY <1>1, <2>1, CoveredServer
  <2> QED
    BY <1>0, <2>2 DEF Placed, readerVars
<1>2. CASE LateWrite \/ UNCHANGED vars
  BY <1>2 DEF LateWrite, Land, Written, vars, serverVars, readerVars, Version,
              Placed
<1>3. ASSUME NEW r \in Readers, ReaderNext(r) PROVE Placed'
  <2>1. /\ Version' = Version /\ era = 0
        /\ \A q \in Readers : q # r => rv'[q] = rv[q] /\ stream'[q] = stream[q]
    BY <1>3, ReaderFrame DEF serverVars, Version
  <2>2. /\ \A v \in {store} \cup late : v <= Version
        /\ \A q \in Readers :
             /\ rv[q] <= Version /\ stream[q].rv <= Version
             /\ stream[q].pos <= Version
             /\ stream[q].list \in {0, stream[q].pos}
    BY <2>1 DEF Placed
  <2>3. stream'[r].rv \in {0, stream[r].rv, stream[r].pos}
    BY <1>3, <2>2, VersionsMove
  <2>4. stream'[r].rv <= Version
    BY <1>0, <2>2, <2>3
  <2>5. /\ \A v \in {store'} \cup late' : v <= Version
        /\ rv'[r] <= Version
    <3>1. /\ store' \in {store, 0, stream'[r].rv}
          /\ late' \subseteq late \cup {0, stream'[r].rv}
          /\ rv'[r] \in {0, store, rv[r], stream[r].rv}
      BY <1>3, VersionsMove
    <3>2. \A v \in {0, store, rv[r], stream[r].rv, stream'[r].rv} :
             v <= Version
      BY <1>0, <2>2, <2>4
    <3>3. \A v \in late : v <= Version
      BY <2>2
    <3> QED
      BY <3>1, <3>2, <3>3
  <2>6. stream'[r].pos <= Version
    <3>1. CASE Deliver(r)
      <4>1. stream'[r].pos = stream[r].pos + 1 /\ stream[r].pos < Version
        BY <3>1 DEF Deliver, Stream, TypeOK
      <4> QED
        BY <1>0, <4>1
    <3>2. CASE ~Deliver(r)
      BY <1>0, <1>3, <2>2, <3>2, VersionsMove
    <3> QED
      BY <3>1, <3>2
  <2>7. stream'[r].list \in {0, stream'[r].pos}
    BY <1>3, <2>2, VersionsMove
  <2>8. \A q \in Readers :
          /\ rv'[q] <= Version /\ stream'[q].rv <= Version
          /\ stream'[q].pos <= Version
          /\ stream'[q].list \in {0, stream'[q].pos}
    BY <2>1, <2>2, <2>4, <2>5, <2>6, <2>7
  <2> QED
    BY <2>1, <2>5, <2>8 DEF Placed
<1> QED
  BY <1>1, <1>2, <1>3 DEF Next

\* As long as etcd is not restored, nobody holds, stores or is about to store
\* a version that the server has not reached.
THEOREM PlacedCorrect == Spec => []Placed
<1>1. Init => Placed
  <2> SUFFICES ASSUME Init PROVE Placed
    OBVIOUS
  <2>1. Version \in Nat
    BY DEF Init, ServerInit, Version
  <2> QED
    BY <2>1 DEF Init, StoreInit, Placed, Idle
<1> QED
  BY <1>1, PlacedStep, TypeCorrect, PTL DEF Spec

\* What was seen stays seen: the output and the stepped-over part only grow.
LEMMA SeenStable ==
    ASSUME log' = log, out \subseteq out', base \in Nat, base' \in Nat,
           base <= base', NEW v \in Nat, Seen(v)
    PROVE  Seen(v)'
<1>1. \A j : EntryOf(j)' = EntryOf(j)
  BY DEF EntryOf
<1>2. \A j \in 1..v : EntryOf(j) \in out \/ j <= base
  BY DEF Seen
<1>3. \A j \in 1..v : EntryOf(j)' \in out' \/ j <= base'
  BY <1>1, <1>2
<1> QED
  BY <1>3 DEF Seen

\* A Reader's step, with what it reports, keeps NoneSkipped, ...
LEMMA NoneSkippedReader ==
    ASSUME TypeOK, TypeOK', era = 0, Placed, NoneSkipped,
           NEW r \in Readers, ReaderNext(r)
    PROVE  NoneSkipped'
<1>1. /\ log' = log /\ out \subseteq out' /\ Version' = Version
      /\ base \in Nat /\ base' \in Nat /\ base <= base' /\ base' <= Version'
      /\ Version \in Nat
  BY ReaderFrame DEF serverVars, TypeOK, ServerTypeOK, NoneSkipped, Version
<1>2. /\ store \in Nat /\ late \subseteq Nat
      /\ \A q \in Readers : /\ rv[q] \in Nat /\ stream[q].rv \in Nat
                            /\ stream[q].pos \in Nat
                            /\ stream[q].list \in {0, stream[q].pos}
  BY DEF TypeOK, Stream, Placed
<1> DEFINE SeenNext(v) == \A j \in 1..v : EntryOf(j)' \in out' \/ j <= base'
<1>3. ASSUME NEW v \in Nat, Seen(v) PROVE SeenNext(v)
  <2>1. Seen(v)'
    BY <1>1, <1>3, SeenStable
  <2> QED
    BY <2>1 DEF Seen
<1> DEFINE Held == {store, 0} \cup late
                     \cup {rv[q] : q \in Readers}
                     \cup {stream[q].rv : q \in Readers}
                     \cup {stream[q].pos : q \in Readers}
<1>4. \A v \in Held : v \in Nat /\ Seen(v)
  <2> HIDE DEF SeenNext
  <2>1. Seen(0)
    BY DEF Seen
  <2>2. /\ \A v \in {store} \cup late : Seen(v)
        /\ \A q \in Readers : /\ Seen(rv[q])
                              /\ Seen(stream[q].rv)
                              /\ Seen(stream[q].pos)
    BY DEF NoneSkipped
  <2>3. ASSUME NEW v \in {store} \cup late PROVE v \in Nat /\ Seen(v)
    BY <1>2, <2>2
  <2>4. ASSUME NEW q \in Readers,
               NEW v \in {rv[q], stream[q].rv, stream[q].pos}
        PROVE  v \in Nat /\ Seen(v)
    BY <1>2, <2>2
  <2> QED
    BY <2>1, <2>3, <2>4
<1>5. \A v \in Held : SeenNext(v)
  BY <1>3, <1>4
<1>6. /\ store' \in Held /\ late' \subseteq Held
      /\ rv'[r] \in Held /\ stream'[r].rv \in Held
  BY <1>2, VersionsMove
<1>7. SeenNext(stream'[r].pos)
  <2>1. CASE stream'[r].pos \in {0, rv[r], stream[r].pos}
    <3>1. stream'[r].pos \in Held
      BY <2>1
    <3> QED
      BY <1>5, <3>1
  <2>2. CASE stream'[r].pos = Version /\ base' = Version
    BY <1>1, <2>2
  <2>3. CASE Deliver(r)
    <3> DEFINE p == stream[r].pos
    <3>1. stream'[r].pos = p + 1 /\ EntryOf(p + 1) \in out'
      <4>1. stream[r] \in Stream
        BY DEF TypeOK
      <4>2. stream' = [stream EXCEPT ![r] = [stream[r] EXCEPT !.pos = p + 1]]
            /\ out' = out \cup {EntryOf(p + 1)}
        BY <2>3 DEF Deliver
      <4>3. [stream[r] EXCEPT !.pos = p + 1].pos = p + 1
        BY <4>1 DEF Stream
      <4> QED
        BY <4>2, <4>3 DEF TypeOK
    <3>2. p \in Nat /\ SeenNext(p)
      BY <1>2, <1>5
    <3>3. \A j \in 1..(p + 1) : j \in 1..p \/ j = p + 1
      BY <3>2
    <3> QED
      BY <1>1, <3>1, <3>2, <3>3 DEF EntryOf
  <2> QED
    BY <2>1, <2>2, <2>3, VersionsMove
<1>8. ASSUME NEW q \in Readers
      PROVE  /\ SeenNext(rv'[q]) /\ SeenNext(stream'[q].rv)
             /\ SeenNext(stream'[q].pos)
  <2>1. q # r => rv'[q] = rv[q] /\ stream'[q] = stream[q]
    BY ReaderFrame
  <2> QED
    BY <1>5, <1>6, <1>7, <2>1
<1>9. \A v \in {store'} \cup late' : SeenNext(v)
  BY <1>5, <1>6
<1> QED
  BY <1>1, <1>8, <1>9 DEF NoneSkipped, Seen

\* ... and so does every other one.
LEMMA NoneSkippedStep ==
    TypeOK /\ TypeOK' /\ Placed /\ NoneSkipped /\ [Next]_vars
      => NoneSkipped'
<1> SUFFICES ASSUME TypeOK, TypeOK', Placed, NoneSkipped, [Next]_vars
             PROVE  NoneSkipped'
  OBVIOUS
<1>1. CASE ServerNext
  <2>1. UNCHANGED <<readerVars, store, late, out, base>>
    BY <1>1 DEF ServerNext, storeVars
  <2>2. log \in Seq(Change) /\ base \in Nat
    BY DEF TypeOK, ServerTypeOK
  <2>3. CASE \E o \in Objs, d \in BOOLEAN : Write(o, d)
    <3> SUFFICES ASSUME era = 0 PROVE NoneSkipped'
      BY <2>3 DEF NoneSkipped, Write
    <3>1. PICK c : log' = Append(log, c)
      BY <2>3 DEF Write
    <3>2. /\ Version' = Version + 1 /\ Version \in Nat
          /\ \A j \in 1..Version : EntryOf(j)' = EntryOf(j)
      BY <2>2, <3>1 DEF Version, EntryOf
    <3>3. \A v \in Nat : v <= Version /\ Seen(v) => Seen(v)'
      BY <2>1, <3>2 DEF Seen
    <3>4. \A v \in {store} \cup late : v \in Nat /\ v <= Version /\ Seen(v)
      BY DEF TypeOK, Placed, NoneSkipped
    <3>5. \A r \in Readers :
            /\ rv[r] \in Nat /\ rv[r] <= Version /\ Seen(rv[r])
            /\ stream[r].rv \in Nat /\ stream[r].rv <= Version
            /\ Seen(stream[r].rv)
            /\ stream[r].pos \in Nat /\ stream[r].pos <= Version
            /\ Seen(stream[r].pos)
      BY DEF TypeOK, Stream, Placed, NoneSkipped
    <3>6. /\ \A v \in {store} \cup late : Seen(v)'
          /\ \A r \in Readers : \A v \in {rv[r], stream[r].rv, stream[r].pos} :
                 Seen(v)'
      BY <3>3, <3>4, <3>5
    <3>7. base <= Version'
      BY <2>2, <3>2 DEF NoneSkipped
    <3> QED
      BY <2>1, <3>6, <3>7 DEF NoneSkipped, Seen, readerVars
  <2>4. CASE Compact
    BY <2>1, <2>4 DEF Compact, NoneSkipped, Seen, EntryOf, Version, readerVars
  <2>5. CASE Restore
    <3>1. era' # 0
      BY <2>5 DEF Restore, Rollback, TypeOK, ServerTypeOK
    <3> QED
      BY <3>1 DEF NoneSkipped
  <2> QED
    BY <1>1, <2>3, <2>4, <2>5 DEF ServerNext
<1>2. CASE LateWrite
  BY <1>2 DEF LateWrite, Land, Written, NoneSkipped, Seen, EntryOf, Version,
              serverVars, readerVars
<1>3. CASE \E r \in Readers : ReaderNext(r)
  <2>1. era' = era
    BY <1>3, ReaderFrame DEF serverVars
  <2> QED
    BY <1>3, <2>1, NoneSkippedReader DEF NoneSkipped
<1>4. CASE UNCHANGED vars
  BY <1>4 DEF vars, NoneSkipped, Seen, EntryOf, Version
<1> QED
  BY <1>1, <1>2, <1>3, <1>4 DEF Next

\* No version anywhere in the system, in a Reader, on its stream, in the store
\* or in a late request, stands after a change that was lost.
THEOREM NoneSkippedCorrect == Spec => []NoneSkipped
<1>1. Init => NoneSkipped
  BY DEF Init, ServerInit, StoreInit, NoneSkipped, Seen, Idle, Version
<1> QED
  BY <1>1, NoneSkippedStep, PlacedCorrect, TypeCorrect, PTL DEF Spec

\* As long as etcd is not restored, a change up to the bookmark, or to the
\* version a Reader resumes from, that was never sent downstream is one a
\* full snapshot stepped over.
THEOREM NoChangeSkippedCorrect == Spec => []NoChangeSkipped
<1>1. NoneSkipped => NoChangeSkipped
  BY DEF NoneSkipped, Seen, NoChangeSkipped
<1> QED
  BY <1>1, NoneSkippedCorrect, PTL

-----------------------------------------------------------------------------
(* Only forgotten bookmarks are cleared.  A server that may call any resumed *)
(* watch invalid can make a Reader clear a bookmark that could still be      *)
(* resumed from: the results assume that it does not.                        *)

\* What clearRejectedBookmark does, it does to the rejected bookmark only.
LEMMA Cleared ==
    ASSUME TypeOK, NEW r \in Readers, ClearRejected(r)
    PROVE  \/ UNCHANGED <<store, late>>
           \/ /\ store = rv[r]
              /\ \/ store' = 0 /\ late' = {}
                 \/ store' = store /\ late' = late \cup {0}
BY DEF ClearRejected, Delete, Written, Asked, storeVars

\* A Reader only decides to clear versions that the server has forgotten.
LEMMA ForgottenStep ==
    ASSUME "invalid" \notin Faults, TypeOK, TypeOK', era = 0,
           Placed, RecoverySound, ClearsForgotten,
           NEW r \in Readers, ReaderNext(r)
    PROVE  ForgottenReader(r)'
<1>0. /\ pc \in [Readers -> Locations] /\ rv \in [Readers -> Nat]
      /\ stream \in [Readers -> Stream] /\ stream[r] \in Stream
      /\ floor \in Nat \ {0} /\ wl'[r] \in BOOLEAN
      /\ pc[r] \notin {"stream", "list", "listed"} => stream[r] = Idle
  BY DEF TypeOK, ServerTypeOK
<1>1. /\ SoundReader(r) /\ ForgottenReader(r) /\ rv[r] <= Version
      /\ Version \in Nat
      /\ stream[r].list \in {0, stream[r].pos}
  BY DEF RecoverySound, ClearsForgotten, Placed, TypeOK, ServerTypeOK, Version
<1>2. /\ floor' = floor /\ Idle.doomed = FALSE
  BY ReaderFrame DEF serverVars, Idle
<1> USE DEF ForgottenReader
<1>3. CASE Load(r) \/ LoadFails(r)
  BY <1>0, <1>1, <1>2, <1>3 DEF Load, LoadFails
<1>4. CASE Check(r) \/ CheckFails(r)
  BY <1>0, <1>1, <1>2, <1>4 DEF Check, CheckFails
<1>5. CASE StartRefused(r) \/ ReconnectRefused(r)
  BY <1>0, <1>1, <1>2, <1>5 DEF StartRefused, ReconnectRefused, Refusable
<1>6. CASE StartFails(r) \/ StartClear(r) \/ Clear(r)
  <2>1. /\ stream' = stream /\ stream[r] = Idle
        /\ pc'[r] \notin {"startClear", "clear"}
    BY <1>0, <1>6 DEF StartFails, StartClear, Clear
  <2> QED
    BY <1>2, <2>1
<1>7. CASE StartWatch(r) \/ Reconnect(r)
  <2>1. PICK v \in {0, rv[r]} : stream'[r] = OpenAt(v, wl'[r])
    BY <1>0, <1>7 DEF StartWatch, Reconnect
  <2>2. /\ v \in Nat /\ v <= rv[r] /\ rv'[r] = rv[r] /\ pc'[r] = "stream"
        /\ OpenAt(v, wl'[r]).rv = 0 /\ OpenAt(v, wl'[r]).list = 0
    BY <1>0, <1>7, Opened DEF StartWatch, Reconnect
  <2>3. stream'[r].doomed => v # 0 /\ v < floor
    BY <2>1 DEF OpenAt, Idle
  <2> QED
    BY <1>0, <1>2, <2>1, <2>2, <2>3
<1>8. CASE Snapshot(r)
  <2>1. PICK e \in stream[r].pending :
          stream' = [stream EXCEPT ![r].pending = @ \ {e}]
    BY <1>8 DEF Snapshot
  <2>2. /\ stream'[r].doomed = stream[r].doomed
        /\ stream'[r].rv = stream[r].rv /\ stream'[r].list = stream[r].list
    BY <1>0, <2>1 DEF Stream
  <2> QED
    BY <1>0, <1>1, <1>2, <1>8, <2>2 DEF Snapshot
<1>9. CASE Deliver(r)
  <2>1. stream'[r].doomed = stream[r].doomed
    BY <1>0, <1>9 DEF Deliver, Stream
  <2> QED
    BY <1>0, <1>1, <1>2, <1>9, <2>1 DEF Deliver, Reading, Served
<1>10. CASE AdoptList(r) \/ InitialEventsEnd(r) \/ Bookmark(r)
  <2>1. UNCHANGED <<pc, rv>>
    BY <1>10, Adopted
  <2>2. CASE UNCHANGED stream
    BY <1>1, <1>2, <2>1, <2>2
  <2>3. CASE ~UNCHANGED stream
    <3>1. /\ stream'[r].doomed = stream[r].doomed /\ stream'[r].list = 0
          /\ AdoptList(r) => stream'[r].rv = stream[r].list
          /\ pc[r] = "stream"
      BY <1>10, <2>3, Adopted
    <3>2. ~AdoptList(r) => ~stream[r].doomed
      BY <1>10 DEF InitialEventsEnd, Bookmark, Served
    <3> QED
      BY <1>0, <1>1, <1>2, <2>1, <3>1, <3>2
  <2> QED
    BY <2>2, <2>3
<1>11. CASE StreamBreaks(r) \/ StreamLost(r) \/ StreamRefused(r)
  BY <1>0, <1>1, <1>2, <1>11
     DEF StreamBreaks, StreamLost, EndStream, StreamRefused, Returned
<1>12. CASE WatchListed(r)
  <2>1. /\ rv[r] = 0 /\ stream[r].rv = 0
    BY <1>1, <1>12 DEF WatchListed, SoundReader, TypeOK
  <2>2. /\ stream'[r].doomed => stream[r].list < floor
        /\ stream'[r].rv = stream[r].rv /\ stream'[r].list = stream[r].list
    BY <1>0, <1>12 DEF WatchListed, OpenListed, Stream
  <2> QED
    BY <1>0, <1>2, <1>12, <2>1, <2>2 DEF WatchListed
<1>13. CASE \/ NextPage(r) \/ NextPageFails(r) \/ NextPageDiffers(r)
            \/ WatchListedFails(r) \/ Forbidden(r) \/ Stop(r)
  BY <1>0, <1>1, <1>2, <1>13
     DEF NextPage, NextPageFails, NextPageDiffers, WatchListedFails,
         Forbidden, Stop
<1>14. CASE StartRecover(r) \/ Recover(r)
  BY <1>0, <1>1, <1>2, <1>14, Opened DEF StartRecover, Recover
<1> QED
  BY <1>3, <1>4, <1>5, <1>6, <1>7, <1>8, <1>9, <1>10, <1>11, <1>12, <1>13,
     <1>14
  DEF ReaderNext

\* What the calls of a Reader do to the bookmark.
LEMMA StoreMoves ==
    ASSUME TypeOK, TypeOK', era = 0, Placed, RecoverySound, ClearsForgotten,
           NEW r \in Readers, ReaderNext(r)
    PROVE  \/ UNCHANGED <<store, late>>
           \/ /\ store < floor
              /\ \/ store' = 0 /\ late' = {}
                 \/ store' = store
              /\ UNCHANGED <<serverVars, out>>
           \/ \E v \in 1..Version :
              /\ v = stream'[r].rv
              /\ \/ store' = v /\ late' = {}
                 \/ store' = store /\ late' \subseteq late \cup {v}
              /\ UNCHANGED <<serverVars, out>>
<1>1. CASE \/ Load(r) \/ LoadFails(r) \/ Check(r) \/ CheckFails(r)
           \/ StartWatch(r) \/ StartRefused(r) \/ StartFails(r)
           \/ StartRecover(r) \/ Snapshot(r) \/ Deliver(r)
  BY <1>1 DEF Load, LoadFails, Check, CheckFails, StartWatch, StartRefused,
       StartFails, StartRecover, Snapshot, Deliver, storeVars
<1>2. CASE \/ StreamBreaks(r) \/ StreamLost(r) \/ StreamRefused(r)
           \/ Reconnect(r) \/ ReconnectRefused(r) \/ Recover(r)
           \/ NextPage(r) \/ NextPageFails(r) \/ NextPageDiffers(r)
           \/ WatchListed(r) \/ WatchListedFails(r)
           \/ Forbidden(r) \/ Stop(r)
  BY <1>2 DEF StreamBreaks, StreamLost, EndStream, StreamRefused, Reconnect,
       ReconnectRefused, Recover, NextPage, NextPageFails, NextPageDiffers,
       WatchListed, WatchListedFails, Forbidden, Stop, storeVars
<1>3. CASE StartClear(r) \/ Clear(r)
  <2>1. /\ ClearRejected(r) /\ UNCHANGED <<serverVars, out>>
        /\ pc[r] \in {"startClear", "clear"}
    BY <1>3 DEF StartClear, Clear
  <2>2. rv[r] < floor
    BY <2>1 DEF ClearsForgotten, ForgottenReader
  <2> QED
    BY <2>1, <2>2, Cleared
<1>4. CASE AdoptList(r) \/ InitialEventsEnd(r) \/ Bookmark(r)
  <2>1. UNCHANGED <<serverVars, out>>
    BY <1>4, ReaderFrame, Adopted
  <2>2. CASE ~UNCHANGED <<store, late>>
    <3> DEFINE v == stream'[r].rv
    <3>1. /\ pc[r] = "stream"
          /\ v \in {stream[r].pos, stream[r].list}
          /\ AdoptList(r) => v = stream[r].list
          /\ ~AdoptList(r) => v = stream[r].pos
          /\ store' \in {store, v} /\ late' \subseteq late \cup {v}
          /\ store' = store \/ late' = {}
      BY <1>4, <2>2, Adopted
    <3>2. stream[r].pos # 0 /\ (AdoptList(r) => stream[r].list # 0)
      BY <3>1 DEF RecoverySound, SoundReader, AdoptList
    <3>3. /\ stream[r].pos \in Nat /\ stream[r].pos <= Version
          /\ stream[r].list \in {0, stream[r].pos} /\ Version \in Nat
      BY VersionTypes DEF Placed
    <3>4. v \in 1..Version
      BY <3>1, <3>2, <3>3
    <3> QED
      BY <2>1, <3>1, <3>4
  <2> QED
    BY <2>2
<1> QED
  BY <1>1, <1>2, <1>3, <1>4 DEF ReaderNext

\* Every step keeps ClearsForgotten.
LEMMA ClearsForgottenStep ==
    ASSUME "invalid" \notin Faults, TypeOK, TypeOK', Placed, RecoverySound,
           ClearsForgotten, [Next]_vars
    PROVE  ClearsForgotten'
<1>0. floor \in Nat \ {0} /\ store \in Nat /\ era \in Nat
  BY DEF TypeOK, ServerTypeOK
<1>1. CASE ServerNext
  <2>1. UNCHANGED <<readerVars, store, late>>
    BY <1>1 DEF ServerNext, storeVars
  <2>2. era' = 0 => era = 0 /\ floor' \in Nat /\ floor <= floor'
    <3>1. CASE \E o \in Objs, d \in BOOLEAN : Write(o, d)
      BY <1>0, <3>1 DEF Write
    <3>2. CASE Compact
      BY <1>0, <3>2 DEF Compact, TypeOK, ServerTypeOK
    <3>3. CASE Restore
      BY <1>0, <3>3 DEF Restore, Rollback
    <3> QED
      BY <1>1, <3>1, <3>2, <3>3 DEF ServerNext
  <2>3. \A r \in Readers : rv[r] \in Nat /\ stream[r].rv \in Nat
                           /\ stream[r].list \in Nat
    BY DEF TypeOK, Stream
  <2> QED
    BY <1>0, <2>1, <2>2, <2>3
       DEF ClearsForgotten, ForgottenReader, readerVars
<1>2. CASE LateWrite
  BY <1>2 DEF LateWrite, Land, Written, ClearsForgotten, ForgottenReader,
              serverVars, readerVars
<1>3. ASSUME NEW r \in Readers, ReaderNext(r) PROVE ClearsForgotten'
  <2>1. UNCHANGED serverVars
    BY <1>3, ReaderFrame
  <2> SUFFICES ASSUME era = 0 PROVE ClearsForgotten'
    BY <2>1 DEF serverVars, ClearsForgotten
  <2>2. ASSUME NEW q \in Readers, q # r PROVE ForgottenReader(q)'
    BY <1>3, <2>1, <2>2, ReaderFrame
       DEF ClearsForgotten, ForgottenReader, serverVars
  <2>3. ForgottenReader(r)'
    BY <1>3, ForgottenStep
  <2>4. 0 \in late' => store' < floor'
    BY <1>0, <1>3, <2>1, StoreMoves DEF ClearsForgotten, serverVars
  <2> QED
    BY <2>2, <2>3, <2>4 DEF ClearsForgotten
<1>4. CASE UNCHANGED vars
  BY <1>4 DEF vars, ClearsForgotten, ForgottenReader
<1> QED
  BY <1>1, <1>2, <1>3, <1>4 DEF Next

\* Whoever is about to delete the bookmark has been refused a version that
\* the server forgot.
THEOREM ClearsForgottenCorrect ==
    ASSUME "invalid" \notin Faults
    PROVE  Spec => []ClearsForgotten
<1>1. Init => ClearsForgotten
  BY DEF Init, StoreInit, ClearsForgotten, ForgottenReader, Idle
<1>2. TypeOK /\ TypeOK' /\ Placed /\ RecoverySound /\ ClearsForgotten
        /\ [Next]_vars => ClearsForgotten'
  BY ClearsForgottenStep
<1> QED
  BY <1>1, <1>2, TypeCorrect, PlacedCorrect, RecoverySoundCorrect, PTL
  DEF Spec

\* A step of the system only removes a bookmark that the server has forgotten.
LEMMA OnlyUnusableStep ==
    ASSUME "invalid" \notin Faults, TypeOK, TypeOK', Placed, RecoverySound,
           ClearsForgotten, [Next]_vars
    PROVE  era = 0 /\ store # 0 /\ store' = 0 => store < floor
<1> SUFFICES ASSUME era = 0, store # 0, store' = 0 PROVE store < floor
  OBVIOUS
<1>1. CASE ServerNext \/ UNCHANGED vars
  BY <1>1 DEF ServerNext, storeVars, vars
<1>2. CASE LateWrite
  BY <1>2 DEF LateWrite, Land, Written, ClearsForgotten
<1>3. ASSUME NEW r \in Readers, ReaderNext(r) PROVE store < floor
  BY <1>3, StoreMoves
<1> QED
  BY <1>1, <1>2, <1>3 DEF Next

\* No Reader, whatever the others, crashes, failed and late requests do,
\* removes a bookmark that could still be resumed from.
THEOREM OnlyUnusableClearedCorrect ==
    ASSUME "invalid" \notin Faults
    PROVE  Spec => OnlyUnusableCleared
<1>1. TypeOK /\ TypeOK' /\ Placed /\ RecoverySound /\ ClearsForgotten
        /\ [Next]_vars
        => [era = 0 /\ store # 0 /\ store' = 0 => store < floor]_vars
  BY OnlyUnusableStep
<1> QED
  BY <1>1, TypeCorrect, PlacedCorrect, RecoverySoundCorrect,
     ClearsForgottenCorrect, PTL DEF Spec, OnlyUnusableCleared

-----------------------------------------------------------------------------
(* The watch loop implements the feed, in a history of the server that no   *)
(* restore ends.                                                            *)

\* etcd is never restored from a backup.
NoRestore ==
    \/ MaxRollbacks = 0
    \/ "rollback" \notin Faults /\ "liveRollback" \notin Faults

\* Without a restore the server stays in its first history.
LEMMA FirstHistory == ASSUME NoRestore PROVE Spec => [](era = 0)
<1>1. Init => era = 0
  BY DEF Init, ServerInit
<1>2. TypeOK /\ TypeOK' /\ era = 0 /\ [Next]_vars => (era = 0)'
  <2> SUFFICES ASSUME TypeOK', era = 0, [Next]_vars, TypeOK PROVE era' = 0
    OBVIOUS
  <2>1. CASE MaxRollbacks = 0
    BY <2>1 DEF TypeOK, ServerTypeOK
  <2>2. CASE "rollback" \notin Faults /\ "liveRollback" \notin Faults
    <3>1. CASE ServerNext
      BY <2>2, <3>1 DEF ServerNext, Write, Compact, Restore
    <3>2. CASE LateWrite \/ UNCHANGED vars
      BY <3>2 DEF LateWrite, vars, serverVars
    <3>3. CASE \E r \in Readers : ReaderNext(r)
      BY <3>3, ReaderFrame DEF serverVars
    <3> QED
      BY <3>1, <3>2, <3>3 DEF Next
  <2> QED
    BY <2>1, <2>2 DEF NoRestore
<1> QED
  BY <1>1, <1>2, TypeCorrect, PTL DEF Spec

\* What a snapshot holds are changes of the server.
LEMMA SnapshotKnown ==
    ASSUME NEW v \in Nat, v <= Version, Version \in Nat
    PROVE  SnapshotAt(v) \subseteq {EntryOf(j) : j \in 1..Version}
<1>1. \A j \in 1..v : j \in 1..Version
  OBVIOUS
<1> QED
  BY <1>1 DEF SnapshotAt, LiveAt

\* What a Reader has yet to read of a snapshot is one the server took.
LEMMA PendingStep ==
    ASSUME TypeOK, TypeOK', NEW r \in Readers, ReaderNext(r)
    PROVE  stream'[r].pending \subseteq
             stream[r].pending \cup SnapshotAt(Version)
<1>0. /\ stream \in [Readers -> Stream] /\ stream[r] \in Stream
      /\ rv[r] \in Nat /\ wl'[r] \in BOOLEAN /\ Idle.pending = {}
  BY DEF TypeOK, Idle
<1>1. CASE \/ Load(r) \/ LoadFails(r) \/ Check(r) \/ CheckFails(r)
           \/ StartRefused(r) \/ StartFails(r) \/ StartClear(r)
           \/ Clear(r) \/ ReconnectRefused(r) \/ NextPage(r)
  BY <1>1 DEF Load, LoadFails, Check, CheckFails, StartRefused, StartFails,
              StartClear, Clear, ReconnectRefused, NextPage
<1>2. CASE StartWatch(r) \/ Reconnect(r)
  BY <1>0, <1>2, Opened DEF StartWatch, Reconnect
<1>3. CASE StartRecover(r) \/ Recover(r)
  BY <1>0, <1>3, Opened DEF StartRecover, Recover
<1>4. CASE Snapshot(r)
  <2>1. PICK e \in stream[r].pending :
          stream' = [stream EXCEPT ![r].pending = @ \ {e}]
    BY <1>4 DEF Snapshot
  <2> QED
    BY <1>0, <2>1 DEF Stream
<1>5. CASE Deliver(r)
  BY <1>0, <1>5 DEF Deliver, Stream
<1>6. CASE AdoptList(r) \/ InitialEventsEnd(r) \/ Bookmark(r)
  BY <1>0, <1>6, Adopted
<1>7. CASE WatchListed(r)
  BY <1>0, <1>7 DEF WatchListed, OpenListed, Stream
<1>8. CASE \/ StreamBreaks(r) \/ StreamLost(r) \/ StreamRefused(r)
           \/ NextPageFails(r) \/ NextPageDiffers(r) \/ WatchListedFails(r)
           \/ Forbidden(r) \/ Stop(r)
  BY <1>0, <1>8 DEF StreamBreaks, StreamLost, EndStream, StreamRefused,
       NextPageFails, NextPageDiffers, WatchListedFails, Forbidden, Stop
<1> QED
  BY <1>1, <1>2, <1>3, <1>4, <1>5, <1>6, <1>7, <1>8 DEF ReaderNext

\* Every step keeps PendingKnown.
LEMMA PendingKnownStep ==
    TypeOK /\ TypeOK' /\ PendingKnown /\ [Next]_vars => PendingKnown'
<1> SUFFICES ASSUME TypeOK, TypeOK', PendingKnown, [Next]_vars
             PROVE  PendingKnown'
  OBVIOUS
<1>0. log \in Seq(Change) /\ Version \in Nat
  BY DEF TypeOK, ServerTypeOK, Version
<1>1. CASE ServerNext
  <2>1. stream' = stream
    BY <1>1 DEF ServerNext, readerVars
  <2>2. CASE \E o \in Objs, d \in BOOLEAN : Write(o, d)
    <3>1. PICK c : log' = Append(log, c)
      BY <2>2 DEF Write
    <3>2. \A j \in 1..Version : EntryOf(j)' = EntryOf(j) /\ j \in 1..Version'
      BY <1>0, <3>1 DEF Version, EntryOf
    <3> QED
      BY <2>1, <2>2, <3>2 DEF PendingKnown, Write
  <2>3. CASE Compact
    BY <2>1, <2>3 DEF PendingKnown, Compact, EntryOf, Version
  <2>4. CASE Restore
    BY <2>4 DEF PendingKnown, Restore, Rollback, TypeOK, ServerTypeOK
  <2> QED
    BY <1>1, <2>2, <2>3, <2>4 DEF ServerNext
<1>2. ASSUME NEW r \in Readers, ReaderNext(r) PROVE PendingKnown'
  <2>1. /\ UNCHANGED serverVars
        /\ \A q \in Readers : q # r => stream'[q] = stream[q]
    BY <1>2, ReaderFrame
  <2>2. SnapshotAt(Version) \subseteq {EntryOf(j) : j \in 1..Version}
    BY <1>0, SnapshotKnown
  <2>3. stream'[r].pending \subseteq stream[r].pending \cup SnapshotAt(Version)
    BY <1>2, PendingStep
  <2>4. Version' = Version /\ \A j : EntryOf(j)' = EntryOf(j)
    BY <2>1 DEF serverVars, Version, EntryOf
  <2> QED
    BY <2>1, <2>2, <2>3, <2>4 DEF PendingKnown, serverVars
<1>3. CASE LateWrite \/ UNCHANGED vars
  BY <1>3 DEF LateWrite, vars, serverVars, readerVars, PendingKnown, EntryOf,
              Version
<1> QED
  BY <1>1, <1>2, <1>3 DEF Next

\* What a stream still owes of its snapshot is part of the server's history.
THEOREM PendingKnownCorrect == Spec => []PendingKnown
<1>1. Init => PendingKnown
  BY DEF Init, PendingKnown, Idle
<1> QED
  BY <1>1, PendingKnownStep, TypeCorrect, PTL DEF Spec

\* The steps that send something downstream.
LEMMA EmitStep ==
    ASSUME TypeOK, era = 0, PendingKnown, NEW r \in Readers,
           Snapshot(r) \/ Deliver(r)
    PROVE  F!Emit
<1>1. UNCHANGED <<serverVars, store>>
  BY DEF Snapshot, Deliver, storeVars
<1>2. \E j \in 1..Version : out' = out \cup {EntryOf(j)}
  <2>1. CASE Snapshot(r)
    BY <2>1 DEF Snapshot, PendingKnown
  <2>2. CASE Deliver(r)
    <3>1. stream[r].pos \in Nat /\ Version \in Nat
      BY VersionTypes
    <3> QED
      BY <2>2, <3>1 DEF Deliver
  <2> QED
    BY <2>1, <2>2
<1> QED
  BY <1>1, <1>2 DEF F!Emit, F!Version, F!EntryOf, F!serverVars, Version,
                    EntryOf, serverVars

\* The steps that move the bookmark, now or when a late request lands.
LEMMA MarkStep ==
    ASSUME TypeOK, UNCHANGED <<serverVars, out>>,
           \/ store < floor /\ store' = 0
           \/ \E v \in Nat \ {0} : Covered(v) /\ store' = v
    PROVE  F!SetMark \/ F!ClearMark
<1>1. CASE store < floor /\ store' = 0
  BY <1>1 DEF F!ClearMark, F!serverVars, serverVars
<1>2. CASE \E v \in Nat \ {0} : Covered(v) /\ store' = v
  <2>1. PICK v \in Nat \ {0} : Covered(v) /\ store' = v
    BY <1>2
  <2>2. v \in 1..Version /\ SnapshotAt(v) \subseteq out
    BY <2>1 DEF Covered, Version, TypeOK, ServerTypeOK
  <2> QED
    BY <2>1, <2>2 DEF F!SetMark, F!serverVars, serverVars, F!Version, Version,
      F!SnapshotAt, SnapshotAt, F!LiveAt, LiveAt, F!EntryOf, EntryOf
<1> QED
  BY <1>1, <1>2

\* Every step of the system is a step of the feed, or leaves it alone.
LEMMA FeedStep ==
    ASSUME TypeOK, TypeOK', era = 0, era' = 0, Coverage, Coverage', Placed,
           RecoverySound, ClearsForgotten, PendingKnown, [Next]_vars
    PROVE  [F!FeedNext]_F!feedVars
<1> USE DEF F!FeedNext, F!feedVars
<1>1. CASE ServerNext
  <2>1. ~Restore
    BY DEF Restore, Rollback
  <2> QED
    <3>1. CASE \E o \in Objs, d \in BOOLEAN : Write(o, d)
      BY <1>1, <3>1 DEF ServerNext, F!FeedServer, storeVars, F!Write, Write,
           F!Version, Version, F!Exists, Exists, F!LiveAt, LiveAt
    <3>2. CASE Compact
      BY <1>1, <3>2 DEF ServerNext, F!FeedServer, storeVars, F!Compact,
           Compact, F!Version, Version
    <3> QED
      BY <1>1, <2>1, <3>1, <3>2 DEF ServerNext
<1>2. CASE LateWrite
  <2>1. PICK v \in late : store' = v
    BY <1>2 DEF LateWrite, Land, Written
  <2>2. UNCHANGED <<serverVars, out>>
    BY <1>2 DEF LateWrite
  <2>3. v \in Nat /\ Covered(v)
    BY DEF TypeOK, Coverage
  <2>4. v = 0 => store < floor
    BY DEF ClearsForgotten
  <2> QED
    BY <2>1, <2>2, <2>3, <2>4, MarkStep
<1>3. ASSUME NEW r \in Readers, ReaderNext(r)
      PROVE  [F!FeedNext]_F!feedVars
  <2>1. CASE Snapshot(r) \/ Deliver(r)
    BY <2>1, EmitStep
  <2>2. CASE ~(Snapshot(r) \/ Deliver(r))
    <3>1. UNCHANGED <<serverVars, out>>
      BY <1>3, <2>2, ReaderFrame
    <3>2. CASE store' = store
      BY <3>1, <3>2 DEF serverVars
    <3>3. CASE store' # store
      <4>1. CASE store < floor /\ store' = 0
        BY <3>1, <4>1, MarkStep
      <4>2. CASE \E v \in 1..Version : v = stream'[r].rv /\ store' = v
        <5>1. PICK v \in 1..Version : v = stream'[r].rv /\ store' = v
          BY <4>2
        <5>2. SnapshotAt(v) \subseteq out
          <6>1. Covered(store)'
            BY DEF Coverage
          <6>2. SnapshotAt(store)' = SnapshotAt(v)
            BY <3>1, <5>1 DEF SnapshotAt, LiveAt, EntryOf, serverVars
          <6> QED
            BY <3>1, <6>1, <6>2 DEF Covered
        <5>3. v \in Nat \ {0} /\ Covered(v)
          BY <5>2 DEF Covered, TypeOK, ServerTypeOK, Version
        <5> QED
          BY <3>1, <5>1, <5>3, MarkStep
      <4> QED
        BY <1>3, <3>3, <4>1, <4>2, StoreMoves
    <3> QED
      BY <3>2, <3>3
  <2> QED
    BY <2>1, <2>2
<1>4. CASE UNCHANGED vars
  BY <1>4 DEF vars
<1> QED
  BY <1>1, <1>2, <1>3, <1>4 DEF Next

\* The Readers, their faults and the store together implement the resumable
\* feed: only changes of the server go downstream, the bookmark only moves to
\* a version that hides no object, and is only removed when the server has
\* forgotten it.  Etcd is not restored, the server calls no version invalid
\* that it still has, and sends no ordinary bookmark amid initial events.
THEOREM ImplementsFeedCorrect ==
    ASSUME "invalid" \notin Faults, NoRestore, InitialEventsFirst
    PROVE  Spec => ImplementsFeed
<1>1. Init => F!FeedInit
  BY DEF Init, F!FeedInit, ServerInit, F!ServerInit, StoreInit
<1>2. TypeOK /\ TypeOK' /\ era = 0 /\ (era = 0)' /\ Coverage /\ Coverage'
        /\ Placed /\ RecoverySound /\ ClearsForgotten /\ PendingKnown
        /\ [Next]_vars
        => [F!FeedNext]_F!feedVars
  BY FeedStep
<1> QED
  BY <1>1, <1>2, TypeCorrect, FirstHistory, CoverageCorrect, PlacedCorrect,
     RecoverySoundCorrect, ClearsForgottenCorrect, PendingKnownCorrect, PTL
  DEF Spec, ImplementsFeed, F!FeedSpec

=============================================================================

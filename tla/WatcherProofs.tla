---------------------------- MODULE WatcherProofs ----------------------------
(***************************************************************************)
(* What the runs of MCWatcher check on small instances, proved for every   *)
(* number of Readers, objects and versions: type correctness, and that no  *)
(* bookmark or in-memory resourceVersion ever hides an object, if no       *)
(* ordinary bookmark comes amid initial events.                            *)
(***************************************************************************)
EXTENDS Watcher, TLAPS

-----------------------------------------------------------------------------
(* The log.                                                                *)

\* The entry made of a change has its type.
LEMMA EntryType ==
    ASSUME log \in Seq(Change), NEW j \in 1..Len(log)
    PROVE  EntryOf(j) \in Entry
<1>1. j \in Nat /\ log[j] \in Change
  OBVIOUS
<1>2. log[j].era \in Nat
  BY <1>1 DEF Change
<1> QED
  BY <1>1, <1>2 DEF EntryOf, Entry

\* The objects that live at a version have entries.
LEMMA SnapshotType ==
    ASSUME log \in Seq(Change), NEW v \in Nat, v <= Len(log)
    PROVE  SnapshotAt(v) \subseteq Entry
<1> SUFFICES ASSUME NEW j \in LiveAt(v) PROVE EntryOf(j) \in Entry
  BY DEF SnapshotAt
<1>1. j \in 1..Len(log)
  BY DEF LiveAt
<1> QED
  BY <1>1, EntryType

\* At version 0 nothing lives.
LEMMA SnapshotOfNothing == SnapshotAt(0) = {}
BY DEF SnapshotAt, LiveAt

\* One more change makes at most that change live.
LEMMA SnapshotStep ==
    ASSUME log \in Seq(Change), NEW v \in Nat, v < Len(log)
    PROVE  SnapshotAt(v + 1) \subseteq SnapshotAt(v) \cup {EntryOf(v + 1)}
<1> SUFFICES ASSUME NEW j \in LiveAt(v + 1), j # v + 1
             PROVE  j \in LiveAt(v)
  BY DEF SnapshotAt
<1>1. j \in 1..v
  BY DEF LiveAt
<1>2. \A k \in (j + 1)..v : k \in (j + 1)..(v + 1)
  OBVIOUS
<1> QED
  BY <1>1, <1>2 DEF LiveAt

\* A new change leaves the snapshots of older versions as they were.
LEMMA SnapshotStable ==
    ASSUME log \in Seq(Change), NEW c, log' = Append(log, c),
           NEW v \in Nat, v <= Len(log)
    PROVE  /\ SnapshotAt(v)' = SnapshotAt(v)
           /\ Len(log') = Len(log) + 1
<1>1. \A j \in 1..v : log'[j] = log[j]
  OBVIOUS
<1>2. LiveAt(v)' = LiveAt(v)
  BY <1>1 DEF LiveAt
<1>3. \A j \in LiveAt(v) : EntryOf(j)' = EntryOf(j)
  BY <1>1 DEF LiveAt, EntryOf
<1> QED
  BY <1>2, <1>3 DEF SnapshotAt

-----------------------------------------------------------------------------
(* What the helpers return.                                                *)

\* A stream that is not open has the type of a stream.
LEMMA IdleType == Idle \in Stream
BY DEF Idle, Stream

\* Every way of opening a stream gives one at a version the server has, or
\* at the version asked for.
LEMMA OpenType ==
    ASSUME TypeOK
    PROVE  /\ \A v \in Nat, b \in BOOLEAN : OpenAt(v, b) \in Stream
           /\ OpenRecovery \in Stream
           /\ Listed \in Stream
           /\ \A s \in Stream : OpenListed(s) \in Stream
<1> USE DEF Stream
<1>1. /\ log \in Seq(Change) /\ Version \in Nat /\ Version <= Len(log)
      /\ floor \in Nat /\ era \in Nat
  BY ServerAssumption DEF TypeOK, ServerTypeOK, Version
<1>2. SnapshotAt(Version) \subseteq Entry
  BY <1>1, SnapshotType
<1>3. ASSUME NEW v \in Nat, NEW b \in BOOLEAN PROVE OpenAt(v, b) \in Stream
  BY <1>1, <1>2 DEF OpenAt, Idle
<1>4. OpenRecovery \in Stream
  <2>1. OpenAt(0, TRUE) \in Stream
    BY <1>3
  <2> QED
    BY <2>1 DEF OpenRecovery
<1>5. Listed \in Stream
  BY <1>1, <1>2 DEF Listed, Idle
<1>6. ASSUME NEW s \in Stream PROVE OpenListed(s) \in Stream
  <2>1. ASSUME NEW d \in BOOLEAN
        PROVE  [s EXCEPT !.doomed = d, !.era = era] \in Stream
    BY <1>1
  <2>2. (s.list < floor) \in BOOLEAN
    OBVIOUS
  <2> QED
    BY <2>1, <2>2, Zenon DEF OpenListed
<1> QED
  BY <1>3, <1>4, <1>5, <1>6

\* Asking for initial events is a choice of yes or no.
LEMMA AskType ==
    ASSUME TypeOK, NEW r \in Readers, AskWatchList(r)
    PROVE  wl' \in [Readers -> BOOLEAN]
BY DEF TypeOK, AskWatchList

\* What clearing the bookmark leaves.
LEMMA ClearType ==
    ASSUME TypeOK, NEW r \in Readers, ClearRejected(r)
    PROVE  /\ store' \in {store, 0} /\ late' \subseteq late \cup {0}
           /\ store' \in Nat /\ late' \subseteq Nat
<1>1. store' \in {store, 0} /\ late' \subseteq late \cup {0}
  BY DEF ClearRejected, Delete, Written, Asked, storeVars
<1>2. store \in Nat /\ late \subseteq Nat
  BY DEF TypeOK
<1> QED
  BY <1>1, <1>2

\* Adopting a version changes the stream's rv and stored, nothing else of
\* it, and the bookmark to that version at most.
LEMMA AdoptResult ==
    ASSUME TypeOK, NEW r \in Readers, NEW s \in Stream, NEW v \in Nat,
           AdoptVersion(r, s, v)
    PROVE  /\ store' \in {store, v} /\ late' \subseteq late \cup {v}
           /\ store' = store \/ late' = {}
           /\ store' \in Nat /\ late' \subseteq Nat
           /\ stream' \in [Readers -> Stream]
           /\ \A q \in Readers : q # r => stream'[q] = stream[q]
           /\ stream'[r].rv = v
           /\ stream'[r].pending = s.pending
           /\ stream'[r].pos = s.pos
           /\ stream'[r].list = s.list
           /\ stream'[r].doomed = s.doomed
<1>1. stream \in [Readers -> Stream]
  BY DEF TypeOK
<1>2. PICK n \in Nat : /\ stream' = [stream EXCEPT ![r] =
                               [s EXCEPT !.rv = v, !.stored = n]]
                       /\ store' \in {store, v}
                       /\ late' \subseteq late \cup {v}
                       /\ store' = store \/ late' = {}
  <2>1. CASE v = s.stored \/ ~HasStore
    BY <2>1 DEF AdoptVersion, storeVars
  <2>2. CASE ~(v = s.stored \/ ~HasStore)
    <3>1. PICK ok \in Results :
            /\ Store(v, ok)
            /\ stream' = [stream EXCEPT ![r] =
                   [s EXCEPT !.rv = v,
                             !.stored = IF ok THEN v ELSE @]]
      BY <2>2 DEF AdoptVersion
    <3>2. (IF ok THEN v ELSE s.stored) \in Nat
      BY DEF Stream
    <3>3. /\ store' \in {store, v} /\ late' \subseteq late \cup {v}
          /\ store' = store \/ late' = {}
      BY <3>1 DEF Store, Written, Asked, storeVars
    <3> QED
      BY <3>1, <3>2, <3>3
  <2> QED
    BY <2>1, <2>2
<1>3. [s EXCEPT !.rv = v, !.stored = n] \in Stream
  BY DEF Stream
<1>4. store' \in Nat /\ late' \subseteq Nat
  BY <1>2 DEF TypeOK
<1> QED
  BY <1>1, <1>2, <1>3, <1>4 DEF Stream

-----------------------------------------------------------------------------
(* Type correctness.                                                       *)

\* The server's actions keep the types.
LEMMA ServerTypeStep ==
    ASSUME ServerTypeOK,
           (\E o \in Objs, d \in BOOLEAN : Write(o, d)) \/ Compact \/ Restore
    PROVE  ServerTypeOK'
<1> USE ServerAssumption DEF ServerTypeOK, Version
<1>1. ASSUME NEW o \in Objs, NEW d \in BOOLEAN, Write(o, d)
      PROVE  ServerTypeOK'
  <2>1. [obj |-> o, del |-> d, era |-> era] \in Change
    BY DEF Change
  <2> QED
    BY <1>1, <2>1 DEF Write
<1>2. CASE Compact
  BY <1>2 DEF Compact
<1>3. CASE Restore
  <2>1. PICK n \in floor..(Len(log) - 1) : log' = SubSeq(log, 1, n)
    BY <1>3 DEF Restore, Rollback
  <2>2. log' \in Seq(Change) /\ Len(log') = n
    BY <2>1
  <2> QED
    BY <1>3, <2>1, <2>2 DEF Restore, Rollback
<1> QED
  BY <1>1, <1>2, <1>3

\* Every action keeps the types.
LEMMA TypeStep == TypeOK /\ [Next]_vars => TypeOK'
<1> SUFFICES ASSUME TypeOK, [Next]_vars PROVE TypeOK'
  OBVIOUS
<1> USE DEF serverVars, storeVars
<1>1. ASSUME NEW r \in Readers, Load(r) PROVE TypeOK'
  BY <1>1 DEF TypeOK, Load, Locations, ServerTypeOK
<1>2. ASSUME NEW r \in Readers, LoadFails(r) PROVE TypeOK'
  BY <1>2 DEF TypeOK, LoadFails, Locations, ServerTypeOK
<1>3. ASSUME NEW r \in Readers, Check(r) PROVE TypeOK'
  BY <1>3 DEF TypeOK, Check, Locations, ServerTypeOK
<1>4. ASSUME NEW r \in Readers, CheckFails(r) PROVE TypeOK'
  BY <1>4 DEF TypeOK, CheckFails, Locations, ServerTypeOK
<1>5. ASSUME NEW r \in Readers, StartWatch(r) PROVE TypeOK'
  BY <1>5, OpenType, AskType DEF TypeOK, StartWatch, Locations, ServerTypeOK, SnapshotTaken, Version
<1>6. ASSUME NEW r \in Readers, StartRefused(r) PROVE TypeOK'
  BY <1>6, AskType DEF TypeOK, StartRefused, Locations, ServerTypeOK
<1>7. ASSUME NEW r \in Readers, StartFails(r) PROVE TypeOK'
  BY <1>7, AskType DEF TypeOK, StartFails, Locations, ServerTypeOK
<1>8. ASSUME NEW r \in Readers, StartClear(r) PROVE TypeOK'
  <2>1. store' \in Nat /\ late' \subseteq Nat
    BY <1>8, ClearType DEF StartClear
  <2> QED
    BY <1>8, <2>1 DEF TypeOK, StartClear, Locations, ServerTypeOK
<1>9. ASSUME NEW r \in Readers, StartRecover(r) PROVE TypeOK'
  <2>1. /\ wl' \in [Readers -> BOOLEAN]
        /\ OpenRecovery \in Stream /\ Listed \in Stream
        /\ Version \in Nat
    BY <1>9, OpenType, AskType
       DEF StartRecover, TypeOK, ServerTypeOK, Version
  <2>2. CASE wl'[r]
    BY <1>9, <2>1, <2>2
       DEF TypeOK, StartRecover, Locations, ServerTypeOK, SnapshotTaken
  <2>3. CASE ~wl'[r]
    BY <1>9, <2>1, <2>3
       DEF TypeOK, StartRecover, Locations, ServerTypeOK, SnapshotTaken
  <2> QED
    BY <2>2, <2>3
<1>10. ASSUME NEW r \in Readers, Clear(r) PROVE TypeOK'
  <2>1. store' \in Nat /\ late' \subseteq Nat
    BY <1>10, ClearType DEF Clear
  <2> QED
    BY <1>10, <2>1 DEF TypeOK, Clear, Locations, ServerTypeOK
<1>11. ASSUME NEW r \in Readers, Reconnect(r) PROVE TypeOK'
  BY <1>11, OpenType, AskType DEF TypeOK, Reconnect, Locations, ServerTypeOK, SnapshotTaken, Version
<1>12. ASSUME NEW r \in Readers, ReconnectRefused(r) PROVE TypeOK'
  BY <1>12, AskType DEF TypeOK, ReconnectRefused, Locations, ServerTypeOK
<1>13. ASSUME NEW r \in Readers, Recover(r) PROVE TypeOK'
  <2>1. /\ wl' \in [Readers -> BOOLEAN]
        /\ OpenRecovery \in Stream /\ Listed \in Stream
        /\ Version \in Nat
    BY <1>13, OpenType, AskType
       DEF Recover, TypeOK, ServerTypeOK, Version
  <2>2. CASE wl'[r]
    BY <1>13, <2>1, <2>2
       DEF TypeOK, Recover, Locations, ServerTypeOK, SnapshotTaken
  <2>3. CASE ~wl'[r]
    BY <1>13, <2>1, <2>3
       DEF TypeOK, Recover, Locations, ServerTypeOK, SnapshotTaken
  <2> QED
    BY <2>2, <2>3
<1>14. ASSUME NEW r \in Readers, WatchListed(r) PROVE TypeOK'
  BY <1>14, OpenType DEF TypeOK, WatchListed, Locations, ServerTypeOK
<1>15. ASSUME NEW r \in Readers, WatchListedFails(r) PROVE TypeOK'
  BY <1>15, IdleType DEF TypeOK, WatchListedFails, Locations, ServerTypeOK
<1>16. ASSUME NEW r \in Readers, Forbidden(r) PROVE TypeOK'
  BY <1>16, IdleType, AskType DEF TypeOK, Forbidden, Locations, ServerTypeOK
<1>17. ASSUME NEW r \in Readers, Stop(r) PROVE TypeOK'
  BY <1>17, IdleType, WatcherAssumption DEF TypeOK, Stop, Locations, ServerTypeOK

<1>18. ASSUME NEW r \in Readers, Snapshot(r) PROVE TypeOK'
  <2>1. PICK e \in stream[r].pending :
          /\ out' = out \cup {e}
          /\ stream' = [stream EXCEPT ![r].pending = @ \ {e}]
    BY <1>18 DEF Snapshot
  <2>2. stream[r] \in Stream
    BY DEF TypeOK
  <2>3. [stream[r] EXCEPT !.pending = @ \ {e}] \in Stream /\ e \in Entry
    BY <2>2 DEF Stream
  <2> QED
    BY <1>18, <2>1, <2>3 DEF TypeOK, Snapshot, ServerTypeOK
<1>19. ASSUME NEW r \in Readers, AdoptList(r) PROVE TypeOK'
  <2>1. stream[r] \in Stream /\ stream[r].list \in Nat
    BY DEF TypeOK, Stream
  <2>2. [stream[r] EXCEPT !.list = 0] \in Stream
    BY <2>1 DEF Stream
  <2> QED
    BY <1>19, <2>1, <2>2, AdoptResult DEF TypeOK, AdoptList, ServerTypeOK
<1>20. ASSUME NEW r \in Readers, Deliver(r) PROVE TypeOK'
  <2>1. stream[r] \in Stream /\ stream[r].pos \in Nat
    BY DEF TypeOK, Stream
  <2>2. [stream[r] EXCEPT !.pos = @ + 1] \in Stream
    BY <2>1 DEF Stream
  <2>3. EntryOf(stream[r].pos + 1) \in Entry
    <3>1. log \in Seq(Change)
      BY DEF TypeOK, ServerTypeOK
    <3>2. stream[r].pos + 1 \in 1..Len(log)
      BY <1>20, <2>1, <3>1 DEF Deliver, Version
    <3> QED
      BY <3>1, <3>2, EntryType
  <2> QED
    BY <1>20, <2>2, <2>3 DEF TypeOK, Deliver, Reading, ServerTypeOK
<1>21. ASSUME NEW r \in Readers, InitialEventsEnd(r) PROVE TypeOK'
  <2>1. stream[r] \in Stream /\ stream[r].pos \in Nat
    BY DEF TypeOK, Stream
  <2>2. [stream[r] EXCEPT !.mark = FALSE, !.rec = FALSE] \in Stream
    BY <2>1 DEF Stream
  <2> QED
    BY <1>21, <2>1, <2>2, AdoptResult
       DEF TypeOK, InitialEventsEnd, Reading, ServerTypeOK
<1>22. ASSUME NEW r \in Readers, Bookmark(r) PROVE TypeOK'
  <2>1. stream[r] \in Stream /\ stream[r].pos \in Nat
    BY DEF TypeOK, Stream
  <2>2. CASE stream[r].rec
    BY <1>22, <2>2 DEF TypeOK, Bookmark, ServerTypeOK
  <2>3. CASE ~stream[r].rec
    BY <1>22, <2>1, <2>3, AdoptResult
       DEF TypeOK, Bookmark, Reading, ServerTypeOK
  <2> QED
    BY <2>2, <2>3
<1>23. ASSUME NEW r \in Readers, EndStream(r) PROVE TypeOK'
  <2>1. Returned(r) \in Nat /\ stream[r].rv \in Nat
        /\ (stream[r].rv = 0 => Returned(r) = rv[r])
    BY DEF TypeOK, Stream, Returned
  <2>2. (gap[r] /\ stream[r].rv = 0) \in BOOLEAN
    OBVIOUS
  <2> QED
    BY <1>23, <2>1, <2>2, IdleType
       DEF TypeOK, EndStream, Reading, Locations, ServerTypeOK
<1>24. ASSUME NEW r \in Readers, StreamRefused(r) PROVE TypeOK'
  <2>1. Returned(r) \in Nat
    BY DEF TypeOK, Stream, Returned
  <2> QED
    BY <1>24, <2>1, IdleType
       DEF TypeOK, StreamRefused, Reading, Locations, ServerTypeOK
<1>25. CASE ServerNext
  <2>1. ServerTypeOK'
    BY <1>25, ServerTypeStep DEF ServerNext, TypeOK
  <2> QED
    BY <1>25, <2>1 DEF TypeOK, ServerNext, readerVars
<1>26. CASE LateWrite
  BY <1>26 DEF TypeOK, LateWrite, Land, Written, readerVars, ServerTypeOK
<1>27. ASSUME NEW r \in Readers, NextPage(r) PROVE TypeOK'
  BY <1>27 DEF TypeOK, NextPage, Locations, ServerTypeOK
<1>28. ASSUME NEW r \in Readers, NextPageFails(r) PROVE TypeOK'
  BY <1>28, IdleType DEF TypeOK, NextPageFails, Locations, ServerTypeOK
<1>29. ASSUME NEW r \in Readers, NextPageDiffers(r) PROVE TypeOK'
  BY <1>29, IdleType DEF TypeOK, NextPageDiffers, Locations, ServerTypeOK
<1>30. CASE UNCHANGED vars
  BY <1>30 DEF TypeOK, ServerTypeOK, vars
<1> QED
  BY <1>1, <1>2, <1>3, <1>4, <1>5, <1>6, <1>7, <1>8, <1>9, <1>10, <1>11,
     <1>12, <1>13, <1>14, <1>15, <1>16, <1>17, <1>18, <1>19, <1>20, <1>21,
     <1>22, <1>23, <1>24, <1>25, <1>26, <1>27, <1>28, <1>29, <1>30
  DEF Next, ReaderNext, StreamBreaks, StreamLost

\* In every reachable state every variable has its type, and a Reader that
\* recovers has forgotten the version it was refused.
THEOREM TypeCorrect == Spec => []TypeOK
<1>1. Init => TypeOK
  <2> SUFFICES ASSUME Init PROVE TypeOK
    OBVIOUS
  <2>1. ServerTypeOK
    BY ServerAssumption DEF Init, ServerInit, ServerTypeOK, Change
  <2> QED
    BY <2>1, IdleType, WatcherAssumption DEF Init, StoreInit, TypeOK, Locations
<1> QED
  BY <1>1, TypeStep, PTL DEF Spec

-----------------------------------------------------------------------------
(* Coverage.                                                               *)

\* What covers a version keeps covering it: the output only grows.
LEMMA CoveredStable ==
    ASSUME UNCHANGED serverVars, out \subseteq out', NEW v \in Nat, Covered(v)
    PROVE  Covered(v)'
<1>1. SnapshotAt(v)' = SnapshotAt(v) /\ Version' = Version
  BY DEF SnapshotAt, LiveAt, EntryOf, Version, serverVars
<1> QED
  BY <1>1 DEF Covered

\* Whoever has read nothing has missed nothing.
LEMMA NothingCovered == TypeOK => Covered(0)
BY SnapshotOfNothing DEF Covered, TypeOK, ServerTypeOK, Version

\* A Reader whose version and stream a step leaves alone stays covered.
LEMMA ReaderCoveredStable ==
    ASSUME TypeOK, UNCHANGED serverVars, out \subseteq out',
           NEW q \in Readers, ReaderCovered(q),
           rv'[q] = rv[q], stream'[q] = stream[q]
    PROVE  ReaderCovered(q)'
<1>1. rv[q] \in Nat /\ stream[q] \in Stream
  BY DEF TypeOK
<1>2. stream[q].rv \in Nat /\ stream[q].pos \in Nat
  BY <1>1 DEF Stream
<1>3. Covered(rv[q])' /\ Covered(stream[q].rv)'
  <2>1. \A v \in Nat : Covered(v) => Covered(v)'
    BY CoveredStable
  <2> QED
    BY <1>1, <1>2, <2>1 DEF ReaderCovered, Covered
<1>4. SnapshotAt(stream[q].pos)' = SnapshotAt(stream[q].pos)
      /\ Version' = Version
  BY DEF SnapshotAt, LiveAt, EntryOf, Version, serverVars
<1> QED
  BY <1>3, <1>4 DEF ReaderCovered

\* A step of Reader r preserves Coverage if it leaves the others alone.
LEMMA CoverageFrame ==
    ASSUME TypeOK, era = 0, Coverage, NEW r \in Readers,
           UNCHANGED serverVars, out \subseteq out',
           \A v \in {store'} \cup late' : Covered(v)', ReaderCovered(r)',
           \A q \in Readers : q # r => /\ rv'[q] = rv[q]
                                       /\ stream'[q] = stream[q]
    PROVE  Coverage'
BY ReaderCoveredStable DEF Coverage

\* The streams a Reader opens owe it all they have not sent.
LEMMA OpenCovered ==
    ASSUME TypeOK
    PROVE  /\ \A v \in Nat, b \in BOOLEAN : Covered(v) =>
                LET s == OpenAt(v, b) IN
                /\ s.pos <= Version /\ s.rv = 0 /\ s.list = 0
                /\ SnapshotAt(s.pos) \subseteq out \cup s.pending
           /\ LET s == OpenRecovery IN
                /\ s.pos <= Version /\ s.rv = 0 /\ s.list = 0
                /\ SnapshotAt(s.pos) \subseteq out \cup s.pending
           /\ LET s == Listed IN
                /\ s.pos <= Version /\ s.rv = 0 /\ s.list = s.pos
                /\ SnapshotAt(s.pos) \subseteq out \cup s.pending
<1> USE DEF Idle
<1>1. Version \in Nat
  BY DEF TypeOK, ServerTypeOK, Version
<1>2. ASSUME NEW v \in Nat, NEW b \in BOOLEAN, Covered(v)
      PROVE  LET s == OpenAt(v, b) IN
                /\ s.pos <= Version /\ s.rv = 0 /\ s.list = 0
                /\ SnapshotAt(s.pos) \subseteq out \cup s.pending
  BY <1>1, <1>2 DEF OpenAt, Covered
<1>3. LET s == OpenRecovery IN
                /\ s.pos <= Version /\ s.rv = 0 /\ s.list = 0
                /\ SnapshotAt(s.pos) \subseteq out \cup s.pending
  BY <1>1 DEF OpenRecovery, OpenAt
<1>4. LET s == Listed IN
                /\ s.pos <= Version /\ s.rv = 0 /\ s.list = s.pos
                /\ SnapshotAt(s.pos) \subseteq out \cup s.pending
  BY <1>1 DEF Listed
<1> QED
  BY <1>2, <1>3, <1>4

\* The coverage invariant of one reader in the next state, from facts about
\* this state: what a step that reads nothing does to it.
LEMMA QuietStep ==
    ASSUME TypeOK, TypeOK', era = 0, Coverage, NEW r \in Readers,
           UNCHANGED <<serverVars, out>>,
           store' \in {store, 0}, late' \subseteq late \cup {0},
           rv'[r] \in {0, store, rv[r], stream[r].rv},
           \A q \in Readers : q # r => /\ rv'[q] = rv[q]
                                       /\ stream'[q] = stream[q],
           LET s == stream'[r] IN
             /\ s.pos <= Version /\ s.rv \in {0, stream[r].rv}
             /\ s.list \in {0, s.pos}
             /\ SnapshotAt(s.pos) \subseteq out \cup s.pending
    PROVE  Coverage'
<1>1. /\ store \in Nat /\ late \subseteq Nat
      /\ rv[r] \in Nat /\ stream[r] \in Stream
      /\ stream'[r] \in Stream /\ out \subseteq out'
  BY DEF TypeOK
<1>2. stream[r].rv \in Nat /\ stream'[r].pos \in Nat
  BY <1>1 DEF Stream
<1>3. \A v \in Nat : Covered(v) => Covered(v)'
  BY <1>1, CoveredStable
<1>4. \A v \in {0, store, rv[r], stream[r].rv} \cup late :
         Covered(v) /\ v \in Nat
  BY <1>1, <1>2, NothingCovered DEF Coverage, ReaderCovered
<1>5. \A v \in {0, store, rv[r], stream[r].rv} \cup late : Covered(v)'
  BY <1>3, <1>4
<1>6. /\ \A v \in {store'} \cup late' : Covered(v)'
      /\ Covered(rv[r])' /\ Covered(stream[r].rv)'
  <2>1. \A v : (\A w \in {v} : Covered(w)') => Covered(v)'
    OBVIOUS
  <2> QED
    BY <1>5 DEF Covered
<1>7. SnapshotAt(stream[r].pos)' = SnapshotAt(stream'[r].pos)
      /\ Version' = Version
  BY DEF SnapshotAt, LiveAt, EntryOf, Version, serverVars
<1>8. ReaderCovered(r)'
  BY <1>6, <1>7 DEF ReaderCovered
<1> QED
  BY <1>1, <1>6, <1>8, CoverageFrame

-----------------------------------------------------------------------------
(* No step of the system breaks Coverage.                                  *)

\* Every version that the server has stays covered when it writes or forgets,
\* and so does what a Reader reads.
LEMMA CoveredServer ==
    ASSUME TypeOK, ServerNext, ~Restore
    PROVE  /\ UNCHANGED <<readerVars, store, late, out, era>>
           /\ Version' \in Nat /\ Version <= Version'
           /\ \A v \in Nat : Covered(v) => Covered(v)'
           /\ \A r \in Readers : ReaderCovered(r) => ReaderCovered(r)'
<1>1. UNCHANGED <<readerVars, store, late, out, era>>
  BY DEF ServerNext, storeVars, Write, Compact
<1>2. /\ Version \in Nat /\ Version' \in Nat /\ Version <= Version'
      /\ \A v \in Nat : v <= Version => SnapshotAt(v)' = SnapshotAt(v)
  <2>1. log \in Seq(Change) /\ Len(log) \in Nat
    BY DEF TypeOK, ServerTypeOK
  <2>2. CASE \E o \in Objs, d \in BOOLEAN : Write(o, d)
    <3>1. PICK c : log' = Append(log, c)
      BY <2>2 DEF Write
    <3>2. \A v \in Nat : v <= Version => SnapshotAt(v)' = SnapshotAt(v)
      BY <2>1, <3>1, SnapshotStable DEF Version
    <3>3. Version' = Version + 1 /\ Version \in Nat
      BY <2>1, <3>1 DEF Version
    <3> QED
      BY <3>2, <3>3
  <2>3. CASE Compact
    <3>1. log' = log
      BY <2>3 DEF Compact
    <3> QED
      BY <2>1, <3>1 DEF SnapshotAt, LiveAt, EntryOf, Version
  <2> QED
    BY <2>2, <2>3 DEF ServerNext
<1>3. \A v \in Nat : Covered(v) => Covered(v)'
  BY <1>1, <1>2 DEF Covered
<1>4. ASSUME NEW r \in Readers, ReaderCovered(r) PROVE ReaderCovered(r)'
  <2>1. rv[r] \in Nat /\ stream[r].rv \in Nat /\ stream[r].pos \in Nat
    BY DEF TypeOK, Stream
  <2> QED
    BY <1>1, <1>2, <1>4, <2>1 DEF ReaderCovered, Covered, readerVars
<1> QED
  BY <1>1, <1>2, <1>3, <1>4

\* The server's actions keep Coverage.
LEMMA CoverageServer ==
    ASSUME TypeOK, Coverage, ServerNext
    PROVE  Coverage'
<1>1. CASE Restore
  <2>1. era' # 0
    BY <1>1 DEF Restore, Rollback, TypeOK, ServerTypeOK
  <2> QED
    BY <2>1 DEF Coverage
<1>2. CASE ~Restore
  <2>1. store \in Nat /\ late \subseteq Nat
    BY DEF TypeOK
  <2>2. era' = era /\ store' = store /\ late' = late
    BY <1>2, CoveredServer
  <2> SUFFICES ASSUME era = 0 PROVE Coverage'
    BY <2>2 DEF Coverage
  <2>3. \A v \in {store} \cup late : Covered(v)'
    BY <1>2, <2>1, CoveredServer DEF Coverage
  <2>4. \A r \in Readers : ReaderCovered(r)'
    BY <1>2, CoveredServer DEF Coverage
  <2> QED
    BY <2>2, <2>3, <2>4 DEF Coverage, Covered
<1> QED
  BY <1>1, <1>2

\* The steps of a Reader that neither read a stream nor adopt a version.
LEMMA CoverageQuiet ==
    ASSUME TypeOK, TypeOK', era = 0, Coverage, NEW r \in Readers,
           \/ Load(r) \/ LoadFails(r) \/ Check(r) \/ CheckFails(r)
           \/ StartWatch(r) \/ StartRefused(r) \/ StartFails(r)
           \/ StartClear(r) \/ StartRecover(r)
           \/ EndStream(r) \/ StreamRefused(r)
           \/ Clear(r) \/ Reconnect(r) \/ ReconnectRefused(r) \/ Recover(r)
           \/ NextPage(r) \/ NextPageFails(r) \/ NextPageDiffers(r)
           \/ WatchListed(r) \/ WatchListedFails(r)
           \/ Forbidden(r) \/ Stop(r)
    PROVE  Coverage'
<1> DEFINE Owed(s) == /\ s.pos <= Version /\ s.rv \in {0, stream[r].rv}
                      /\ s.list \in {0, s.pos}
                      /\ SnapshotAt(s.pos) \subseteq out \cup s.pending
<1> DEFINE Quiet ==
             /\ UNCHANGED <<serverVars, out>>
             /\ store' \in {store, 0} /\ late' \subseteq late \cup {0}
             /\ rv'[r] \in {0, store, rv[r], stream[r].rv}
             /\ \A q \in Readers : q # r => /\ rv'[q] = rv[q]
                                            /\ stream'[q] = stream[q]
             /\ Owed(stream'[r])
<1> SUFFICES Quiet
  BY QuietStep
<1>0. /\ rv \in [Readers -> Nat] /\ stream \in [Readers -> Stream]
      /\ Version \in Nat
  BY DEF TypeOK, ServerTypeOK, Version
<1>a. Owed(stream[r])
  BY DEF Coverage, ReaderCovered
<1>b. Owed(Idle)
  BY <1>0, SnapshotOfNothing DEF Idle
<1>c. /\ Owed(OpenRecovery) /\ Owed(Listed)
      /\ \A b \in BOOLEAN : Owed(OpenAt(rv[r], b)) /\ Owed(OpenAt(0, b))
  BY <1>0, OpenCovered, NothingCovered DEF Coverage, ReaderCovered
<1>d. Owed(OpenListed(stream[r]))
  <2>1. stream[r] \in Stream
    BY <1>0
  <2> QED
    BY <1>a, <2>1 DEF OpenListed, Stream
<1> HIDE DEF Owed
<1> USE <1>0 DEF storeVars
<1>1. CASE Load(r)
  BY <1>1, <1>a DEF Load
<1>2. CASE LoadFails(r)
  BY <1>2, <1>a DEF LoadFails
<1>3. CASE Check(r) \/ CheckFails(r)
  BY <1>3, <1>a DEF Check, CheckFails
<1>4. CASE StartWatch(r)
  <2>1. wl'[r] \in BOOLEAN
    BY DEF TypeOK
  <2> QED
    BY <1>4, <1>c, <2>1 DEF StartWatch
<1>5. CASE StartRefused(r) \/ ReconnectRefused(r)
  BY <1>5, <1>a DEF StartRefused, ReconnectRefused
<1>6. CASE StartFails(r)
  BY <1>6, <1>a DEF StartFails
<1>7. CASE StartClear(r) \/ Clear(r)
  BY <1>7, <1>a, ClearType DEF StartClear, Clear
<1>8. CASE StartRecover(r)
  BY <1>8, <1>a, <1>c DEF StartRecover
<1>9. CASE EndStream(r)
  BY <1>9, <1>b DEF EndStream, Returned
<1>10. CASE StreamRefused(r)
  BY <1>10, <1>b DEF StreamRefused, Returned
<1>11. CASE Reconnect(r)
  <2>1. wl'[r] \in BOOLEAN
    BY DEF TypeOK
  <2> QED
    BY <1>11, <1>c, <2>1 DEF Reconnect
<1>12. CASE Recover(r)
  BY <1>12, <1>c DEF Recover
<1>13. CASE WatchListed(r)
  BY <1>13, <1>d DEF WatchListed
<1>14. CASE WatchListedFails(r)
  BY <1>14, <1>b DEF WatchListedFails
<1>15. CASE Forbidden(r)
  BY <1>15, <1>b DEF Forbidden
<1>16. CASE Stop(r)
  BY <1>16, <1>b DEF Stop
<1>17. CASE NextPage(r)
  BY <1>17, <1>a DEF NextPage
<1>18. CASE NextPageFails(r) \/ NextPageDiffers(r)
  BY <1>18, <1>b DEF NextPageFails, NextPageDiffers
<1> QED
  BY <1>1, <1>2, <1>3, <1>4, <1>5, <1>6, <1>7, <1>8, <1>9, <1>10, <1>11,
     <1>12, <1>13, <1>14, <1>15, <1>16, <1>17, <1>18

\* A Reader that sends a snapshot entry, or the next change, downstream stays
\* covered.
LEMMA ReaderCoveredRead ==
    ASSUME TypeOK, TypeOK', NEW r \in Readers, ReaderCovered(r),
           Snapshot(r) \/ Deliver(r)
    PROVE  /\ UNCHANGED <<serverVars, rv, store, late>> /\ out \subseteq out'
           /\ ReaderCovered(r)'
           /\ \A q \in Readers : q # r => stream'[q] = stream[q]
<1>0. /\ stream \in [Readers -> Stream] /\ stream[r] \in Stream
      /\ stream[r].pos \in Nat /\ stream[r].pending \subseteq Entry
      /\ stream[r].rv \in Nat /\ rv[r] \in Nat
      /\ log \in Seq(Change)
  BY DEF TypeOK, Stream, ServerTypeOK
<1>1. UNCHANGED <<serverVars, rv, store, late>> /\ out \subseteq out'
  BY DEF Snapshot, Deliver, storeVars
<1>2. \A v \in Nat : Covered(v) => Covered(v)'
  BY <1>1, CoveredStable
<1>3. Version' = Version /\ \A v \in Nat : SnapshotAt(v)' = SnapshotAt(v)
  BY <1>1 DEF SnapshotAt, LiveAt, EntryOf, Version, serverVars
<1>4. /\ stream'[r].rv = stream[r].rv
      /\ stream'[r].list = stream[r].list
      /\ \A q \in Readers : q # r => stream'[q] = stream[q]
  BY <1>0 DEF Snapshot, Deliver, Stream
<1>5. Covered(rv[r])' /\ Covered(stream[r].rv)'
  BY <1>0, <1>1, <1>2, <1>4 DEF ReaderCovered, Covered
<1>6. /\ stream'[r].pos <= Version
      /\ SnapshotAt(stream'[r].pos) \subseteq out' \cup stream'[r].pending
      /\ stream'[r].list \in {0, stream'[r].pos}
      /\ stream'[r].pos \in Nat
  <2>1. CASE Snapshot(r)
    <3>1. PICK e \in stream[r].pending :
            /\ out' = out \cup {e}
            /\ stream' = [stream EXCEPT ![r].pending = @ \ {e}]
      BY <2>1 DEF Snapshot
    <3>2. /\ stream'[r].pos = stream[r].pos
          /\ stream'[r].pending = stream[r].pending \ {e}
      BY <1>0, <3>1 DEF Stream
    <3> QED
      BY <1>0, <1>4, <3>1, <3>2 DEF ReaderCovered
  <2>2. CASE Deliver(r)
    <3> DEFINE v == stream[r].pos
    <3>1. /\ stream'[r].pos = v + 1 /\ stream'[r].pending = {}
          /\ stream[r].pending = {} /\ stream[r].list = 0
          /\ out' = out \cup {EntryOf(v + 1)} /\ v < Version
      BY <1>0, <2>2 DEF Deliver, Reading, Stream
    <3>2. SnapshotAt(v) \subseteq out
      BY <3>1 DEF ReaderCovered
    <3>3. SnapshotAt(v + 1) \subseteq out'
      BY <1>0, <3>1, <3>2, SnapshotStep DEF Version
    <3>4. v + 1 <= Version /\ v + 1 \in Nat
      BY <1>0, <3>1 DEF Version
    <3> QED
      BY <1>4, <3>1, <3>3, <3>4
  <2> QED
    BY <2>1, <2>2
<1>7. ReaderCovered(r)'
  BY <1>1, <1>3, <1>4, <1>5, <1>6 DEF ReaderCovered, Covered
<1> QED
  BY <1>1, <1>4, <1>7

\* Reading a stream keeps Coverage.
LEMMA CoverageRead ==
    ASSUME TypeOK, TypeOK', era = 0, Coverage, NEW r \in Readers,
           Snapshot(r) \/ Deliver(r)
    PROVE  Coverage'
<1>1. /\ UNCHANGED <<serverVars, rv, store, late>> /\ out \subseteq out'
      /\ ReaderCovered(r)'
      /\ \A q \in Readers : q # r => stream'[q] = stream[q]
  BY ReaderCoveredRead DEF Coverage
<1>2. \A v \in Nat : Covered(v) => Covered(v)'
  BY <1>1, CoveredStable
<1>3. \A v \in {store} \cup late : v \in Nat /\ Covered(v)
  BY DEF TypeOK, Coverage
<1>4. \A v \in {store'} \cup late' : Covered(v)'
  BY <1>1, <1>2, <1>3 DEF Covered
<1> QED
  BY <1>1, <1>4, CoverageFrame

\* No ordinary bookmark comes before the initial events of a stream are over.
InitialEventsFirst == "early" \notin Faults

\* A version is adopted: from a list or a bookmark.
LEMMA CoverageAdopt ==
    ASSUME InitialEventsFirst, TypeOK, TypeOK', era = 0, Coverage,
           NEW r \in Readers,
           AdoptList(r) \/ InitialEventsEnd(r) \/ Bookmark(r)
    PROVE  Coverage'
<1>0. /\ stream \in [Readers -> Stream] /\ stream[r] \in Stream
      /\ stream[r].pos \in Nat /\ stream[r].list \in Nat
      /\ rv[r] \in Nat /\ store \in Nat /\ late \subseteq Nat
  BY DEF TypeOK, Stream
<1>1. UNCHANGED <<serverVars, rv, out>>
  BY DEF AdoptList, InitialEventsEnd, Bookmark
<1>2. CASE UNCHANGED <<stream, store, late>>
  BY <1>1, <1>2 DEF Coverage, ReaderCovered, Covered, SnapshotAt, LiveAt,
                    EntryOf, Version, serverVars
<1>3. CASE ~UNCHANGED <<stream, store, late>>
  <2> DEFINE v == stream[r].pos
  <2>1. ReaderCovered(r)
    BY DEF Coverage
  <2>2. PICK s \in Stream :
          /\ AdoptVersion(r, s, v)
          /\ s.pos = v /\ s.pending = {} /\ s.list = 0
          /\ stream[r].pending = {}
    <3>1. CASE AdoptList(r)
      <4>1. AdoptVersion(r, [stream[r] EXCEPT !.list = 0], v)
            /\ stream[r].pending = {}
        BY <1>0, <2>1, <3>1 DEF AdoptList, ReaderCovered
      <4>2. [stream[r] EXCEPT !.list = 0] \in Stream
        BY <1>0 DEF Stream
      <4> QED
        BY <1>0, <4>1, <4>2 DEF Stream
    <3>2. CASE InitialEventsEnd(r)
      <4>1. [stream[r] EXCEPT !.mark = FALSE, !.rec = FALSE] \in Stream
        BY <1>0 DEF Stream
      <4> QED
        BY <1>0, <3>2, <4>1 DEF InitialEventsEnd, Reading, Stream
    <3>3. CASE Bookmark(r)
      <4>1. stream[r].pending = {}
        BY <3>3 DEF Bookmark, InitialEventsFirst, InitialEventsOwed
      <4> QED
        BY <1>0, <1>3, <3>3, <4>1 DEF Bookmark, Reading, storeVars
    <3> QED
      BY <3>1, <3>2, <3>3
  <2>3. /\ store' \in {store, v} /\ late' \subseteq late \cup {v}
        /\ stream'[r].rv = v
        /\ stream'[r].pos = v /\ stream'[r].list = 0
        /\ stream'[r].pending = {}
        /\ \A q \in Readers : q # r => stream'[q] = stream[q]
    BY <1>0, <2>2, AdoptResult
  <2>4. \A w \in {v, rv[r], store} \cup late : Covered(w)
    BY <2>1, <2>2 DEF Coverage, ReaderCovered, Covered
  <2>5. \A w \in {v, rv[r], store} \cup late : Covered(w)'
    <3>1. \A w \in Nat : Covered(w) => Covered(w)'
      BY <1>1, CoveredStable
    <3> QED
      BY <1>0, <2>4, <3>1
  <2>6. /\ \A w \in {store'} \cup late' : Covered(w)'
        /\ ReaderCovered(r)'
    BY <1>1, <2>3, <2>5 DEF ReaderCovered, Covered
  <2> QED
    BY <1>1, <2>3, <2>6, CoverageFrame
<1> QED
  BY <1>2, <1>3

\* A late request writes a version that was covered when it was sent.
LEMMA CoverageLate ==
    ASSUME TypeOK, Coverage, LateWrite
    PROVE  Coverage'
<1>1. PICK v \in late : store' = v /\ late' = {}
  BY DEF LateWrite, Land, Written
<1>2. UNCHANGED <<serverVars, readerVars, out>>
  BY DEF LateWrite
<1> QED
  BY <1>1, <1>2 DEF Coverage, ReaderCovered, Covered, SnapshotAt, LiveAt,
                    EntryOf, Version, serverVars, readerVars

\* Every action keeps Coverage.
LEMMA CoverageStep ==
    ASSUME InitialEventsFirst, TypeOK, TypeOK', Coverage, [Next]_vars
    PROVE  Coverage'
<1>1. CASE ServerNext
  BY <1>1, CoverageServer
<1>2. ASSUME NEW r \in Readers, ReaderNext(r) PROVE Coverage'
  <2>1. era' = era
    BY <1>2 DEF ReaderNext, serverVars, Load, LoadFails, Check, CheckFails,
         StartWatch, StartRefused, StartFails, StartClear, StartRecover,
         Snapshot, AdoptList, Deliver, InitialEventsEnd, Bookmark,
         StreamBreaks, StreamLost, EndStream, StreamRefused, Clear, Reconnect,
         ReconnectRefused, Recover, NextPage, NextPageFails, NextPageDiffers,
         WatchListed, WatchListedFails, Forbidden, Stop
  <2>2. CASE era = 0
    BY <1>2, <2>2, CoverageQuiet, CoverageRead, CoverageAdopt
       DEF ReaderNext, StreamBreaks, StreamLost
  <2>3. CASE era # 0
    BY <2>1, <2>3 DEF Coverage
  <2> QED
    BY <2>2, <2>3
<1>3. CASE LateWrite
  BY <1>3, CoverageLate
<1>4. CASE UNCHANGED vars
  BY <1>4 DEF vars, Coverage, ReaderCovered, Covered, SnapshotAt, LiveAt,
              EntryOf, Version
<1> QED
  BY <1>1, <1>2, <1>3, <1>4 DEF Next

\* Coverage holds at first.
LEMMA CoverageInit == Init => Coverage
<1> SUFFICES ASSUME Init PROVE Coverage
  OBVIOUS
<1>1. Covered(0) /\ SnapshotAt(0) = {} /\ Version \in Nat
  BY SnapshotOfNothing DEF Covered, Init, ServerInit, Version
<1> QED
  BY <1>1 DEF Init, StoreInit, Coverage, ReaderCovered, Idle

\* As long as etcd is not restored, no version a Reader could resume from, now
\* or after a late request has landed, hides an object, if the server sends no
\* ordinary bookmark amid initial events.  The code refuses one only in a
\* recovery (watchlist.go:731-737).
THEOREM CoverageCorrect ==
    ASSUME InitialEventsFirst
    PROVE  Spec => []Coverage
<1>1. TypeOK /\ TypeOK' /\ Coverage /\ [Next]_vars => Coverage'
  BY CoverageStep
<1> QED
  BY <1>1, CoverageInit, TypeCorrect, PTL DEF Spec

\* In particular, the persisted bookmark is then safe to restart from.
THEOREM StoredCoveredCorrect ==
    ASSUME InitialEventsFirst
    PROVE  Spec => []StoredCovered
<1>1. Coverage => StoredCovered
  BY DEF Coverage, StoredCovered
<1> QED
  BY <1>1, CoverageCorrect, PTL

=============================================================================

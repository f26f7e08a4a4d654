-------------------------------- MODULE Feed --------------------------------
(***************************************************************************)
(* What the watch loop promises, whatever it takes to keep the promise: a  *)
(* resumable feed of the server's changes.  Changes go downstream, in any  *)
(* order and any number of times; a mark says up to where a new reader may *)
(* skip, and is only ever set to a version that hides no object, and only  *)
(* ever withdrawn when the server can no longer resume from it.            *)
(*                                                                         *)
(* The promise is about one history of the server: a restore is outside it.*)
(***************************************************************************)
EXTENDS APIServer

VARIABLES
    out,    \* the changes that have gone downstream
    mark    \* where a new reader resumes, 0 for the beginning

feedVars == <<log, floor, era, out, mark>>

FeedInit == ServerInit /\ out = {} /\ mark = 0

\* A change of the server's history goes downstream.
Emit ==
    /\ \E j \in 1..Version : out' = out \cup {EntryOf(j)}
    /\ UNCHANGED <<serverVars, mark>>

\* The mark moves, forwards or backwards, to a version all of whose objects
\* are downstream.
SetMark ==
    /\ \E v \in 1..Version : SnapshotAt(v) \subseteq out /\ mark' = v
    /\ UNCHANGED <<serverVars, out>>

\* A mark the server has forgotten is withdrawn.
ClearMark ==
    /\ mark < floor
    /\ mark' = 0
    /\ UNCHANGED <<serverVars, out>>

FeedServer ==
    /\ (\E o \in Objs, d \in BOOLEAN : Write(o, d)) \/ Compact
    /\ UNCHANGED <<out, mark>>

FeedNext == Emit \/ SetMark \/ ClearMark \/ FeedServer

FeedSpec == FeedInit /\ [][FeedNext]_feedVars

=============================================================================

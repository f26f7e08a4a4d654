------------------------------ MODULE APIServer ------------------------------
(***************************************************************************)
(* The Kubernetes API server as the watchlist Reader uses it: one watched  *)
(* resource type, the ordered log of its changes, and the resourceVersions *)
(* a watch can still be opened at.  The server is not part of this         *)
(* repository; every definition says what the Reader's code expects of it. *)
(*                                                                         *)
(* A resourceVersion is the position of a change in the log.  Version 0    *)
(* stands for the empty string, which the server never hands out: the log  *)
(* starts with one change.                                                 *)
(***************************************************************************)
EXTENDS Naturals, Sequences

CONSTANTS
    Objs,           \* the objects of the watched resource type
    MaxVersion,     \* bound: changes the server accepts
    MaxRestored,    \* bound: changes it has accepted after a restore
    MaxRollbacks    \* bound: how often etcd is restored from an older backup

ASSUME ServerAssumption ==
    /\ MaxVersion \in Nat \ {0}
    /\ MaxRestored \in 1..MaxVersion
    /\ MaxRollbacks \in Nat

VARIABLES
    log,            \* the changes of the resource, oldest first
    floor,          \* the oldest version a watch can be resumed from
    era             \* restores so far: tells a change from the one it replaced

serverVars == <<log, floor, era>>

-----------------------------------------------------------------------------

\* One change.  del is set for a deletion; era is the history it belongs to.
Change == [obj : Objs, del : BOOLEAN, era : Nat]

\* The resourceVersion a consistent list reports (utils.go:54-62).
Version == Len(log)

\* What a data.Entry made from change j is told apart by.
EntryOf(j) == [ver |-> j, era |-> log[j].era]

Entry == [ver : Nat, era : Nat]

\* The changes that hold the state of the objects existing at version v.
LiveAt(v) ==
    {j \in 1..v : /\ ~log[j].del
                  /\ \A k \in (j + 1)..v : log[k].obj # log[j].obj}

\* What a list, or the initial events of a watch, hold at version v.
SnapshotAt(v) == {EntryOf(j) : j \in LiveAt(v)}

Exists(o) == \E j \in LiveAt(Version) : log[j].obj = o

ServerTypeOK ==
    /\ log \in Seq(Change)
    /\ Len(log) \in 1..MaxVersion
    /\ floor \in 1..Len(log)
    /\ era \in 0..MaxRollbacks

-----------------------------------------------------------------------------

ServerInit ==
    /\ \E o \in Objs : log = <<[obj |-> o, del |-> FALSE, era |-> 0]>>
    /\ floor = 1
    /\ era = 0

\* An object is created or modified (d = FALSE) or deleted (d = TRUE).
Write(o, d) ==
    /\ Version < IF era = 0 THEN MaxVersion ELSE MaxRestored
    /\ d => Exists(o)
    /\ log' = Append(log, [obj |-> o, del |-> d, era |-> era])
    /\ UNCHANGED <<floor, era>>

\* The server forgets how to resume a watch from the versions below f.
Compact ==
    /\ \E f \in (floor + 1)..Version : floor' = f
    /\ UNCHANGED <<log, era>>

\* etcd is restored from a backup: the newest changes are undone and their
\* versions are given out again, to other changes.
Rollback ==
    /\ era < MaxRollbacks
    /\ \E n \in floor..(Version - 1) : /\ n <= MaxRestored
                                       /\ log' = SubSeq(log, 1, n)
    /\ era' = era + 1
    /\ UNCHANGED floor

=============================================================================

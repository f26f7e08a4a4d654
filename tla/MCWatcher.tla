------------------------------ MODULE MCWatcher ------------------------------
(***************************************************************************)
(* Watcher on small instances: the sets of faults of each run.             *)
(***************************************************************************)
EXTENDS Watcher, TLC

\* What a cluster may do to a Reader over its life, a restore of etcd while it
\* runs included.
UsualFaults == {"load", "check", "request", "invalid", "forbidden", "store",
                "pages", "watchList", "stop", "break", "liveRollback"}

\* Two Readers sharing a store: what sets them apart.
SharedFaults == {"store", "late", "break"}

\* Faults a Reader gets over without being restarted, bookmarks amid the
\* initial events of any stream, and a restore of etcd while it is down.
LiveFaults == {"early", "load", "request", "invalid", "store", "watchList",
               "break", "stop", "rollback"}

\* etcd is restored while the Reader runs.
LiveRestoreFaults == {"liveRollback", "break"}

Symmetry == Permutations(Objs) \cup Permutations(Readers)

=============================================================================

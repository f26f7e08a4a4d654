---------------------------- MODULE BookmarkStore ----------------------------
(***************************************************************************)
(* What a bookmark store promises to the watchers that use it, for the     *)
(* bookmark of one resource: store.Bookmarks (store.go) as configmap.Store *)
(* keeps it.  ConfigMapStore implements this module for each of its keys,  *)
(* and Watcher is built from its calls.                                    *)
(*                                                                         *)
(* A call that fails may have taken effect, or may have left a request     *)
(* that takes effect later, when the caller has long gone on or died.  It  *)
(* can only do so on the contents it was made from: a write, of whatever   *)
(* caller, turns every other outstanding request into a conflict.          *)
(***************************************************************************)
EXTENDS Naturals

VARIABLES
    store,     \* the bookmark, 0 when there is none
    late       \* the bookmarks that outstanding requests may write, 0 to delete

storeVars == <<store, late>>

StoreInit == store = 0 /\ late = {}

-----------------------------------------------------------------------------
(* What happens to the bookmark.                                           *)

\* v is written, or, for 0, the bookmark is deleted.
Written(v) == store' = v /\ late' = {}

\* A request to store v, or, for 0, to delete the bookmark, is on its way.
Asked(v) == late' = late \cup {v} /\ UNCHANGED store

\* An outstanding request takes effect.
Land == \E v \in late : Written(v)

\* Another bookmark of the same ConfigMap is written: a conflict for all.
Forget == late' = {} /\ UNCHANGED store

-----------------------------------------------------------------------------
(* The calls, as a caller sees them: what was asked may have landed when   *)
(* the call returns.  ok: it returns without an error.                     *)

\* Store(v): nothing is written when v is already there.  A call that fails
\* has written v, has left a request, or has done nothing.
Store(v, ok) ==
    \/ store # v /\ Written(v)
    \/ (store = v \/ ~ok) /\ UNCHANGED storeVars
    \/ store # v /\ ~ok /\ Asked(v)

\* Delete(v) removes the bookmark if it is still v; otherwise it reports
\* that it changed, which is an error of its own, and does nothing.
Delete(v, ok) ==
    \/ store = v /\ Written(0)
    \/ (store # v \/ ~ok) /\ UNCHANGED storeVars
    \/ store = v /\ ~ok /\ Asked(0)

-----------------------------------------------------------------------------

StoreNext ==
    \/ \E v \in late' : v # store /\ Asked(v)
    \/ Land
    \/ Forget

StoreSpec == StoreInit /\ [][StoreNext]_storeVars

=============================================================================

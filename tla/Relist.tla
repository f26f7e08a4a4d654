-------------------------------- MODULE Relist --------------------------------
(***************************************************************************)
(* Periodic relisting of one resource type: relistTask and relistType of   *)
(* the Reader (watchlist.go), and the Relister they read from (relist.go). *)
(* relistType runs attempts; each starts a goroutine of its own that lists *)
(* the objects page by page and sends them over a channel of capacity 1,   *)
(* an error as its last value, and closes it.                              *)
(*                                                                         *)
(* Retries of one page request are stuttering steps.  What the exponential *)
(* package does with an error that outlasted them is external: it may or   *)
(* may not be permanent for the caller.                                    *)
(***************************************************************************)
EXTENDS Naturals, Sequences, FiniteSets

CONSTANTS
    Objs,          \* objects, each with the UID it keeps for life
    Listers,       \* number of listers of the resource type (RBAC has four)
    ListerOf,      \* the lister each object is found by
    PageSize,      \* ListOptions.Limit
    MaxAttempts,   \* WithMaxAttempts of relistType
    MaxRelists     \* bound: times the timer fires

ASSUME RelistAssumption ==
    /\ Listers \in Nat \ {0}
    /\ ListerOf \in [Objs -> 1..Listers]
    /\ PageSize \in Nat \ {0}
    /\ MaxAttempts \in Nat \ {0}
    /\ MaxRelists \in Nat

VARIABLES
    life,      \* of each object: "new", "live" or "gone", for good
    closing,   \* Close: "no", closeCh is "closed", ctx is "cancelled" too
    task,      \* relistTask's goroutine
    lister,    \* the goroutine of each attempt
    ch,        \* the channel between the two
    relists,   \* times the timer has fired
    sent,      \* history: how often this relist put each object on dataCh
    kept       \* history: objects that have existed throughout this relist

vars == <<life, closing, task, lister, ch, relists, sent, kept>>

taskVars == <<task, relists, sent>>

-----------------------------------------------------------------------------

\* Attempts are numbered through all relists.
Attempts == 1..(MaxRelists * MaxAttempts)

Errors == {"none", "retryable", "permanent"}

\* relistTask: waiting for the timer, ended; relistType: about to check ctx,
\* to call List, ranging over ch, or putting item on dataCh.  n is the
\* attempt, left the attempts that may follow it, res what the last relist
\* returned.
Task == [pc : {"wait", "stopped", "check", "list", "range", "put"},
         n : Nat, left : Nat, seen : SUBSET Objs, item : SUBSET Objs,
         res : {"none", "ok", "failed"}]

\* listAll and listOne: requesting a page, sending it, giving an error to
\* sendErr, whose first try is without blocking, closing.  at is the lister,
\* rest what the continue token stands for, err the error to send.
Lister == [pc : {"none", "request", "send", "error", "blocked", "close",
                 "ended"},
           at : Nat, first : BOOLEAN, page : SUBSET Objs, rest : SUBSET Objs,
           err : Errors]

Running == {"request", "send", "error", "blocked", "close"}

\* A value of the channel: an object, or an error.
Response == [obj : SUBSET Objs, err : Errors]

Value(o) == [obj |-> {o}, err |-> "none"]

Failure(e) == [obj |-> {}, err |-> e]

None == [pc |-> "none", at |-> 1, first |-> TRUE, page |-> {}, rest |-> {},
         err |-> "none"]

Live == {o \in Objs : life[o] = "live"}

Done == closing = "cancelled"

\* Every variable has its type; the channel holds one value.
TypeOK ==
    /\ life \in [Objs -> {"new", "live", "gone"}]
    /\ closing \in {"no", "closed", "cancelled"}
    /\ task \in Task
    /\ lister \in [Attempts -> Lister]
    /\ ch \in [Attempts -> [buf : Seq(Response), closed : BOOLEAN]]
    /\ \A n \in Attempts : Len(ch[n].buf) <= 1
    /\ relists \in 0..MaxRelists
    /\ sent \in [Objs -> Nat]
    /\ kept \subseteq Objs

Init ==
    /\ life \in [Objs -> {"new", "live"}]
    /\ closing = "no"
    /\ task = [pc |-> "wait", n |-> 0, left |-> 0, seen |-> {}, item |-> {},
               res |-> "none"]
    /\ lister = [n \in Attempts |-> None]
    /\ ch = [n \in Attempts |-> [buf |-> <<>>, closed |-> FALSE]]
    /\ relists = 0
    /\ sent = [o \in Objs |-> 0]
    /\ kept = {}

-----------------------------------------------------------------------------
(* The server, and the Reader's Close.                                     *)

Create(o) ==
    /\ life[o] = "new"
    /\ life' = [life EXCEPT ![o] = "live"]
    /\ UNCHANGED <<closing, taskVars, lister, ch, kept>>

Delete(o) ==
    /\ life[o] = "live"
    /\ life' = [life EXCEPT ![o] = "gone"]
    /\ kept' = kept \ {o}
    /\ UNCHANGED <<closing, taskVars, lister, ch>>

Close ==
    /\ closing = "no"
    /\ closing' = "closed"
    /\ UNCHANGED <<life, taskVars, lister, ch, kept>>

CancelWatches ==
    /\ closing = "closed"
    /\ closing' = "cancelled"
    /\ UNCHANGED <<life, taskVars, lister, ch, kept>>

-----------------------------------------------------------------------------
(* relistTask and relistType.                                              *)

\* The timer fires.
Tick ==
    /\ task.pc = "wait"
    /\ relists < MaxRelists
    /\ relists' = relists + 1
    /\ task' = [task EXCEPT !.pc = "check", !.left = MaxAttempts,
                            !.seen = {}, !.res = "none"]
    /\ sent' = [o \in Objs |-> 0]
    /\ kept' = Live
    /\ UNCHANGED <<life, closing, lister, ch>>

\* closeCh is closed, and select picks it.
StopTask ==
    /\ task.pc = "wait"
    /\ closing # "no"
    /\ task' = [task EXCEPT !.pc = "stopped"]
    /\ UNCHANGED <<life, closing, lister, ch, relists, sent, kept>>

\* Retry: an attempt failed with error e.
AttemptFails(e) ==
    IF e = "permanent" \/ Done \/ task.left = 0
    THEN task' = [task EXCEPT !.pc = "wait", !.item = {}, !.res = "failed"]
    ELSE task' = [task EXCEPT !.pc = "check", !.item = {}]

\* Mutant: every attempt starts with nothing seen.
CheckForgets ==
    /\ task.pc = "check"
    /\ IF Done THEN AttemptFails("retryable")
       ELSE task' = [task EXCEPT !.pc = "list", !.left = @ - 1, !.seen = {}]
    /\ UNCHANGED <<life, closing, lister, ch, relists, sent, kept>>

\* An attempt begins.
Check ==
    /\ task.pc = "check"
    /\ IF Done THEN AttemptFails("retryable")
       ELSE task' = [task EXCEPT !.pc = "list", !.left = @ - 1]
    /\ UNCHANGED <<life, closing, lister, ch, relists, sent, kept>>

\* List: the pool takes the lister, or declines it when ctx is done.
List ==
    LET n == task.n + 1 IN
    /\ task.pc = "list"
    /\ task' = [task EXCEPT !.pc = "range", !.n = n]
    /\ \/ /\ lister' = [lister EXCEPT ![n] = [None EXCEPT !.pc = "request"]]
          /\ UNCHANGED ch
       \/ /\ Done
          /\ lister' = [lister EXCEPT ![n] = [None EXCEPT !.pc = "ended"]]
          /\ ch' = [ch EXCEPT ![n] = [buf |-> <<Failure("retryable")>>,
                                      closed |-> TRUE]]
    /\ UNCHANGED <<life, closing, relists, sent, kept>>

\* An object is received; one seen before is skipped.
Receive ==
    LET n == task.n IN
    /\ task.pc = "range"
    /\ ch[n].buf # <<>>
    /\ LET resp == Head(ch[n].buf) IN
       IF resp.err # "none" THEN AttemptFails(resp.err)
       ELSE task' = IF resp.obj \subseteq task.seen THEN task
                    ELSE [task EXCEPT !.pc = "put", !.item = resp.obj,
                                      !.seen = @ \cup resp.obj]
    /\ ch' = [ch EXCEPT ![n].buf = Tail(@)]
    /\ UNCHANGED <<life, closing, lister, relists, sent, kept>>

\* The object goes to dataCh when whoever reads it is ready.
Put ==
    /\ task.pc = "put"
    /\ sent' = [o \in Objs |-> IF o \in task.item THEN sent[o] + 1
                                                  ELSE sent[o]]
    /\ task' = [task EXCEPT !.pc = "range", !.item = {}]
    /\ UNCHANGED <<life, closing, lister, ch, relists, kept>>

PutCancelled ==
    /\ task.pc = "put"
    /\ Done
    /\ AttemptFails("retryable")
    /\ UNCHANGED <<life, closing, lister, ch, relists, sent, kept>>

\* Mutant: a closed channel is taken for a complete list.
RangeEndsOk ==
    /\ task.pc = "range"
    /\ ch[task.n].closed /\ ch[task.n].buf = <<>>
    /\ task' = [task EXCEPT !.pc = "wait", !.res = "ok"]
    /\ UNCHANGED <<life, closing, lister, ch, relists, sent, kept>>

\* The channel is closed: the list is complete unless ctx is done.
RangeEnds ==
    /\ task.pc = "range"
    /\ ch[task.n].closed /\ ch[task.n].buf = <<>>
    /\ IF Done THEN AttemptFails("retryable")
       ELSE task' = [task EXCEPT !.pc = "wait", !.res = "ok"]
    /\ UNCHANGED <<life, closing, lister, ch, relists, sent, kept>>

-----------------------------------------------------------------------------
(* listAll, listOne and sendErr, for attempt n.                            *)

\* Mutant: the channel takes one value too many.
RoomForOneMore(n) == Len(ch[n].buf) <= 1

Room(n) == ch[n].buf = <<>>

SendOn(n, v) == ch' = [ch EXCEPT ![n].buf = Append(@, v)]

Found(n) == {o \in Live : ListerOf[o] = lister[n].at}

\* Up to PageSize of the objects still to be listed.
Pages(all) ==
    {p \in SUBSET all : IF Cardinality(all) <= PageSize
                        THEN p = all ELSE Cardinality(p) = PageSize}

\* A page: the first one fixes the objects the continue token goes on with.
Request(n) ==
    /\ lister[n].pc = "request"
    /\ LET all == IF lister[n].first THEN Found(n) ELSE lister[n].rest IN
       \E p \in Pages(all) :
          lister' = [lister EXCEPT ![n].pc = "send", ![n].first = FALSE,
                                   ![n].page = p, ![n].rest = all \ p]
    /\ UNCHANGED <<life, closing, taskVars, ch, kept>>

\* The request's retries are over, or cut short by ctx, or the token expired.
RequestFails(n) ==
    /\ lister[n].pc = "request"
    /\ \E e \in Errors \ {"none"} :
          lister' = [lister EXCEPT ![n].pc = "error", ![n].err = e]
    /\ UNCHANGED <<life, closing, taskVars, ch, kept>>

Send(n) ==
    /\ lister[n].pc = "send"
    /\ Room(n)
    /\ \E o \in lister[n].page :
          /\ SendOn(n, Value(o))
          /\ lister' = [lister EXCEPT ![n].page = @ \ {o}]
    /\ UNCHANGED <<life, closing, taskVars, kept>>

SendCancelled(n) ==
    /\ lister[n].pc = "send"
    /\ lister[n].page # {}
    /\ Done
    /\ lister' = [lister EXCEPT ![n].pc = "error", ![n].err = "retryable"]
    /\ UNCHANGED <<life, closing, taskVars, ch, kept>>

\* The page is sent: the next page, the next lister, or the end.
PageSent(n) ==
    LET l == lister[n] IN
    /\ l.pc = "send"
    /\ l.page = {}
    /\ lister' = [lister EXCEPT ![n] =
          IF l.rest # {} THEN [l EXCEPT !.pc = "request"]
          ELSE IF l.at < Listers
               THEN [None EXCEPT !.pc = "request", !.at = l.at + 1]
               ELSE [None EXCEPT !.pc = "close", !.at = l.at]]
    /\ UNCHANGED <<life, closing, taskVars, ch, kept>>

\* Mutant: the lister goes on with the next page after an error.
SendErrGoesOn(n) ==
    /\ lister[n].pc = "error"
    /\ IF Room(n)
       THEN /\ SendOn(n, Failure(lister[n].err))
            /\ lister' = [lister EXCEPT ![n].pc = "request"]
       ELSE /\ lister' = [lister EXCEPT ![n].pc = "blocked"]
            /\ UNCHANGED ch
    /\ UNCHANGED <<life, closing, taskVars, kept>>

\* sendErr, first without blocking, ...
SendErr(n) ==
    /\ lister[n].pc = "error"
    /\ IF Room(n)
       THEN /\ SendOn(n, Failure(lister[n].err))
            /\ lister' = [lister EXCEPT ![n].pc = "close"]
       ELSE /\ lister' = [lister EXCEPT ![n].pc = "blocked"]
            /\ UNCHANGED ch
    /\ UNCHANGED <<life, closing, taskVars, kept>>

\* ... then waiting for the reader, ...
SendErrLate(n) ==
    /\ lister[n].pc = "blocked"
    /\ Room(n)
    /\ SendOn(n, Failure(lister[n].err))
    /\ lister' = [lister EXCEPT ![n].pc = "close"]
    /\ UNCHANGED <<life, closing, taskVars, kept>>

\* Mutant: the error waits for a reader that may be gone.
DropErrWaits(n) == SendErrLate(n)

\* ... or for ctx.
DropErr(n) ==
    /\ lister[n].pc = "blocked"
    /\ Done
    /\ lister' = [lister EXCEPT ![n].pc = "close"]
    /\ UNCHANGED <<life, closing, taskVars, ch, kept>>

CloseCh(n) ==
    /\ lister[n].pc = "close"
    /\ ch' = [ch EXCEPT ![n].closed = TRUE]
    /\ lister' = [lister EXCEPT ![n].pc = "ended"]
    /\ UNCHANGED <<life, closing, taskVars, kept>>

-----------------------------------------------------------------------------

ServerNext == \E o \in Objs : Create(o) \/ Delete(o)

TaskNext ==
    \/ Tick \/ StopTask \/ Check \/ List \/ Receive \/ Put \/ PutCancelled
    \/ RangeEnds

ListerNext(n) ==
    \/ Request(n) \/ RequestFails(n) \/ Send(n) \/ SendCancelled(n)
    \/ PageSent(n) \/ SendErr(n) \/ SendErrLate(n) \/ DropErr(n) \/ CloseCh(n)

Next ==
    \/ ServerNext \/ Close \/ CancelWatches \/ TaskNext
    \/ \E n \in Attempts : ListerNext(n)

Spec == Init /\ [][Next]_vars

-----------------------------------------------------------------------------

\* A relist puts no object on the output twice, however many attempts it took
\* and however they overlap (watchlist.go:829, "a retry after a partial list
\* does not resend what was already sent").
SentOnce == \A o \in Objs : sent[o] <= 1

\* A relist that reports success has sent every object that existed while it
\* ran, across pages, listers and attempts; one cut short by Close, whose
\* error the lister may have dropped, does not report success
\* (watchlist.go:856, relist.go:68-72).
CompleteWhenOk ==
    task.res = "ok" => \A o \in kept : sent[o] = 1

\* Objects are sent by the attempt that is being read only: what an earlier
\* attempt's lister left in its channel never reaches the output, and a lister
\* that outlives its attempt has nothing left to do but to close its channel,
\* unless ctx is done (watchlist.go:845-847).
StaleListerHarmless ==
    \A n \in Attempts :
        lister[n].pc \in Running \ {"close"} /\ ~Done =>
            n = task.n /\ task.pc \in {"range", "put"}

\* The goroutines run and the server answers or fails; nobody has to read
\* the output.
Fairness ==
    /\ WF_vars(StopTask) /\ WF_vars(CancelWatches)
    /\ WF_vars(Check) /\ WF_vars(List) /\ WF_vars(Receive)
    /\ WF_vars(PutCancelled) /\ WF_vars(RangeEnds)
    /\ \A n \in Attempts : WF_vars(ListerNext(n))

LiveSpec == Spec /\ Fairness

\* After Close the relist task and every lister end, even if nobody reads the
\* output any more (relist.go:117-119, "cannot leave the lister blocked
\* forever").
StopsWhenClosed ==
    closing # "no" ~> /\ task.pc = "stopped"
                      /\ \A n \in Attempts : lister[n].pc \notin Running

=============================================================================

------------------------ MODULE ReaderLifecycleProofs ------------------------
(***************************************************************************)
(* What the goroutines of a Reader keep true however they interleave, for  *)
(* any number of resource types, Runs and every fault: the inductive       *)
(* invariant LifecycleInv, and the invariants of ReaderLifecycle that      *)
(* follow from it.                                                         *)
(***************************************************************************)
EXTENDS ReaderLifecycle, SequenceTheorems, TLAPS

\* Run is under way: it holds mu.
Running == run.pc \notin {"idle", "lock"}

Closing == {"close", "cancel", "wait", "closeSpawn", "giveUp"}

Closed == {"ok", "error", "expired", "panicked"}

\* A Run that has not begun has no context and no watchers.  One that has
\* begun is at one of its types, and its watchdog is armed only while it
\* starts a watch.
Begun ==
    /\ \A n \in Runs : n > run.n =>
          /\ ctx[n] = "none"
          /\ n \notin fired
          /\ \A t \in Types : watcher[<<n, t>>] = "none"
    /\ run.pc = "lock" => run.n < MaxRuns
    /\ Running => run.n \in Runs /\ run.t \in Types /\ ctx[run.n] # "none"
    /\ run.dog => run.pc \in {"watch", "put", "get", "go", "check", "disarm"}

\* Who is about to send a request.
Putting(q) == IF q[2] = 0 THEN q[1] = run.n /\ run.pc = "put"
                          ELSE watcher[q] = "put"

\* Who blocks on spawnCh is sending a request, and does so once.
QueueSound ==
    /\ \A i \in 1..Len(spawner.queue) : Putting(spawner.queue[i])
    /\ \A i, j \in 1..Len(spawner.queue) :
          spawner.queue[i] = spawner.queue[j] => i = j

\* w works for a Run that failed and whose caller did not wait for it.
LeftBehind(w) == run.left /\ CtxOf(w) = "cancelled"

\* A watcher at work is one of the Run that is under way or has succeeded,
\* or was left behind.
Current ==
    /\ \A w \in Runs \X Types :
          watcher[w] \in Alive /\ (w[1] < run.n \/ ~(Running \/ started)) =>
              LeftBehind(w)
    /\ run.pc = "wait" => ctx[run.n] = "cancelled"

\* Run has handed over a watch for each type it is done with, and none for
\* those it has not come to.
Launched ==
    /\ Running => \A t \in Types :
          /\ t < run.t => watcher[<<run.n, t>>] # "none"
          /\ t > run.t => watcher[<<run.n, t>>] = "none"
    /\ run.pc \in {"watch", "put", "get", "go"} =>
          watcher[<<run.n, run.t>>] = "none"
    /\ run.pc = "check" /\ ~run.err =>
          watcher[<<run.n, run.t>>] # "none" \/ ctx[run.n] = "cancelled"
    /\ run.pc = "disarm" /\ ~run.err => watcher[<<run.n, run.t>>] # "none"
    /\ run.pc = "finish" \/ started =>
          run.n \in Runs /\ \A t \in Types : watcher[<<run.n, t>>] # "none"

\* Close gets beyond mu only when Run has succeeded, which no other Run can
\* follow; unless its caller gave up, no watcher is left when it returns.
CloserSound ==
    /\ started => ~Running
    /\ closer \in Closing \cup Closed => started
    /\ spawnCh # "open" => closer \in Closed
    /\ closer \in {"closeSpawn", "ok", "error"} => AllEnded

LifecycleInv ==
    /\ TypeOK
    /\ Begun
    /\ QueueSound
    /\ Current
    /\ Launched
    /\ CloserSound
    /\ NoPanic
    /\ ClosedIsClean

-----------------------------------------------------------------------------
(* The queue.                                                              *)

\* Without() leaves everybody else in the queue, and q out of it.
LEMMA WithoutLemma ==
    ASSUME NEW S, NEW s \in Seq(S), NEW q,
           \A i, j \in 1..Len(s) : s[i] = s[j] => i = j
    PROVE  /\ Without(s, q) \in Seq(S)
           /\ \A i \in 1..Len(Without(s, q)) :
                 /\ Without(s, q)[i] # q
                 /\ \E k \in 1..Len(s) : Without(s, q)[i] = s[k]
           /\ \A i, j \in 1..Len(Without(s, q)) :
                 Without(s, q)[i] = Without(s, q)[j] => i = j
<1> DEFINE w == Without(s, q)
<1>1. CASE \E i \in 1..Len(s) : s[i] = q
  <2> DEFINE k == CHOOSE j \in 1..Len(s) : s[j] = q
             a == SubSeq(s, 1, k - 1)
             b == SubSeq(s, k + 1, Len(s))
  <2>1. k \in 1..Len(s) /\ s[k] = q
    BY <1>1
  <2>2. w = a \o b
    BY <1>1 DEF Without
  <2> HIDE DEF k
  <2>3. a \in Seq(S) /\ Len(a) = k - 1 /\ \A i \in 1..k - 1 : a[i] = s[i]
    <3>1. k - 1 \in Int /\ \A i \in 1..k - 1 : s[i] \in S
      BY <2>1
    <3> QED
      BY <2>1, <3>1, SubSeqProperties
  <2>4. /\ b \in Seq(S)
        /\ Len(b) = Len(s) - k
        /\ \A i \in 1..Len(s) - k : b[i] = s[k + i]
    <3>1. /\ k + 1 \in Int /\ Len(s) \in Int
          /\ \A i \in k + 1..Len(s) : s[i] \in S
      BY <2>1
    <3> QED
      BY <2>1, <3>1, SubSeqProperties
  <2> HIDE DEF a, b, w
  <2>5. w \in Seq(S) /\ Len(w) = Len(s) - 1
    BY <2>1, <2>2, <2>3, <2>4, ConcatProperties
  <2> DEFINE at(i) == IF i < k THEN i ELSE i + 1
  <2>6. \A i \in 1..Len(w) : w[i] = s[at(i)]
    BY <2>1, <2>5, <2>2, <2>3, <2>4, ConcatProperties
  <2>7. \A i \in 1..Len(w) : at(i) \in 1..Len(s) /\ at(i) # k
    BY <2>1, <2>5
  <2>8. \A i, j \in 1..Len(w) : at(i) = at(j) => i = j
    BY <2>1, <2>5
  <2> HIDE DEF at
  <2>9. \A i \in 1..Len(w) : w[i] # q /\ \E j \in 1..Len(s) : w[i] = s[j]
    BY <2>1, <2>6, <2>7
  <2>10. ASSUME NEW i \in 1..Len(w), NEW j \in 1..Len(w), w[i] = w[j]
         PROVE  i = j
    <3>1. s[at(i)] = s[at(j)]
      BY <2>6, <2>10
    <3>2. at(i) = at(j)
      BY <2>7, <3>1
    <3> QED
      BY <2>8, <3>2
  <2> QED
    BY <2>5, <2>9, <2>10 DEF w
<1>2. CASE ~\E i \in 1..Len(s) : s[i] = q
  BY <1>2 DEF Without
<1> QED
  BY <1>1, <1>2

\* A queue keeps its soundness when q leaves it and nobody else moves.
LEMMA LeaveLemma ==
    ASSUME LifecycleInv, NEW q, Leave(q),
           \A p \in Requesters : p # q /\ Putting(p) => Putting(p)'
    PROVE  /\ spawner'.queue \in Seq(Requesters)
           /\ spawner' = [spawner EXCEPT !.queue = spawner'.queue]
           /\ QueueSound'
<1>1. /\ spawner.queue \in Seq(Requesters)
      /\ \A i, j \in 1..Len(spawner.queue) :
            spawner.queue[i] = spawner.queue[j] => i = j
  BY DEF LifecycleInv, TypeOK, QueueSound
<1>2. spawner'.queue = Without(spawner.queue, q)
  BY DEF Leave, LifecycleInv, TypeOK
<1>3. \A i \in 1..Len(spawner'.queue) :
         /\ spawner'.queue[i] # q
         /\ \E k \in 1..Len(spawner.queue) :
               spawner'.queue[i] = spawner.queue[k]
  BY <1>1, <1>2, WithoutLemma
<1>4. \A i \in 1..Len(spawner'.queue) :
         \E p \in Requesters : p = spawner'.queue[i] /\ Putting(p)'
  BY <1>1, <1>3 DEF LifecycleInv, QueueSound
<1>5. spawner'.queue \in Seq(Requesters)
  BY <1>1, <1>2, WithoutLemma
<1>6. \A i, j \in 1..Len(spawner'.queue) :
         spawner'.queue[i] = spawner'.queue[j] => i = j
  BY <1>1, <1>2, WithoutLemma
<1> QED
  BY <1>2, <1>4, <1>5, <1>6 DEF Leave, QueueSound, Putting, LifecycleInv, TypeOK

\* ... and when q, who was not sending a request, joins it.
LEMMA EnqueueLemma ==
    ASSUME LifecycleInv, NEW q \in Requesters, Enqueue(q), ~Putting(q),
           Putting(q)',
           \A p \in Requesters : p # q /\ Putting(p) => Putting(p)'
    PROVE  /\ spawner'.queue \in Seq(Requesters)
           /\ spawner' = [spawner EXCEPT !.queue = spawner'.queue]
           /\ QueueSound'
<1>1. /\ spawner.queue \in Seq(Requesters)
      /\ \A i, j \in 1..Len(spawner.queue) :
            spawner.queue[i] = spawner.queue[j] => i = j
      /\ \A i \in 1..Len(spawner.queue) :
            Putting(spawner.queue[i]) /\ spawner.queue[i] # q
  BY DEF LifecycleInv, TypeOK, QueueSound
<1>2. spawner'.queue = Append(spawner.queue, q)
  BY DEF Enqueue, LifecycleInv, TypeOK
<1>3. /\ spawner'.queue \in Seq(Requesters)
      /\ Len(spawner'.queue) = Len(spawner.queue) + 1
      /\ \A i \in 1..Len(spawner'.queue) :
            spawner'.queue[i] = IF i <= Len(spawner.queue)
                                THEN spawner.queue[i] ELSE q
  BY <1>1, <1>2
<1>4. \A i \in 1..Len(spawner'.queue) :
         \E p \in Requesters : p = spawner'.queue[i] /\ Putting(p)'
  BY <1>1, <1>3
<1>5. \A i, j \in 1..Len(spawner'.queue) :
         spawner'.queue[i] = spawner'.queue[j] => i = j
  BY <1>1, <1>3
<1> QED
  BY <1>2, <1>3, <1>4, <1>5 DEF Enqueue, QueueSound, Putting, LifecycleInv,
                                TypeOK

\* ... and when the spawner takes the first of them.
LEMMA TakeRequestLemma ==
    ASSUME LifecycleInv, TakeRequest
    PROVE  /\ Head(spawner.queue) \in Requesters
           /\ Putting(Head(spawner.queue))
           /\ spawner'.queue \in Seq(Requesters)
           /\ QueueSound'
<1> DEFINE q == Head(spawner.queue)
<1>1. /\ spawner.queue \in Seq(Requesters) /\ spawner.queue # <<>>
      /\ \A i, j \in 1..Len(spawner.queue) :
            spawner.queue[i] = spawner.queue[j] => i = j
      /\ \A i \in 1..Len(spawner.queue) : Putting(spawner.queue[i])
  BY DEF LifecycleInv, TypeOK, QueueSound, TakeRequest
<1>2. q = spawner.queue[1] /\ 1 \in 1..Len(spawner.queue)
  BY <1>1
<1>3. q \in Requesters /\ Putting(q)
  BY <1>1, <1>2
<1>4. /\ spawner'.queue = Tail(spawner.queue)
      /\ Advance(q, "get")
      /\ Len(spawner'.queue) = Len(spawner.queue) - 1
      /\ spawner'.queue \in Seq(Requesters)
      /\ \A i \in 1..Len(spawner'.queue) :
            spawner'.queue[i] = spawner.queue[i + 1]
  BY <1>1 DEF TakeRequest
<1>5. \A i \in 1..Len(spawner'.queue) :
         \E p \in Requesters : p = spawner'.queue[i] /\ Putting(p) /\ p # q
  BY <1>1, <1>2, <1>4
<1>6. \A p \in Requesters : Putting(p) /\ p # q => Putting(p)'
  <2> HIDE DEF q
  <2>1. /\ \A p, r \in Requesters : p[1] = r[1] /\ p[2] = r[2] => p = r
        /\ \A p \in Requesters : p[2] # 0 => p \in Runs \X Types
    BY DEF Requesters
  <2>2. run \in Run /\ watcher \in [Runs \X Types -> Watcher]
    BY DEF LifecycleInv, TypeOK
  <2>3. CASE q[2] = 0
    <3>1. run'.n = run.n /\ watcher' = watcher
      BY <1>4, <2>2, <2>3 DEF Advance, Run
    <3>2. ASSUME NEW p \in Requesters, p # q, Putting(p) PROVE Putting(p)'
      <4>1. p[2] # 0
        BY <1>3, <2>1, <2>3, <3>2 DEF Putting
      <4> QED
        BY <3>1, <3>2, <4>1 DEF Putting
    <3> QED
      BY <3>2
  <2>4. CASE q[2] # 0
    <3>1. /\ run' = run
          /\ \A p \in Runs \X Types : p # q => watcher'[p] = watcher[p]
      BY <1>4, <2>2, <2>4 DEF Advance
    <3>2. ASSUME NEW p \in Requesters, p # q, Putting(p) PROVE Putting(p)'
      <4>1. p[2] = 0 => Putting(p)'
        BY <3>1, <3>2 DEF Putting
      <4>2. CASE p[2] # 0
        <5>1. watcher'[p] = watcher[p]
          BY <2>1, <3>1, <3>2, <4>2
        <5> QED
          BY <3>2, <4>2, <5>1 DEF Putting
      <4> QED
        BY <4>1, <4>2
    <3> QED
      BY <3>2
  <2> QED
    BY <2>3, <2>4
<1>7. \A i, j \in 1..Len(spawner'.queue) :
         spawner'.queue[i] = spawner'.queue[j] => i = j
  BY <1>1, <1>4
<1> QED
  BY <1>3, <1>4, <1>5, <1>6, <1>7 DEF QueueSound, Putting

-----------------------------------------------------------------------------
(* Every action keeps the invariant: those of Run first.                   *)

\* A new generation: all that are still at work were left behind.
LEMMA RunBeginsKeeps == ASSUME LifecycleInv, RunBegins PROVE LifecycleInv'
<1>1. /\ run' \in Run
      /\ run'.pc = "watch" /\ run'.n = run.n + 1 /\ run'.t = 1
  <2>1. run \in Run /\ run.n < MaxRuns
    BY DEF LifecycleInv, TypeOK, Begun, RunBegins
  <2>2. PICK k \in 0..MaxRuns : k = run.n + 1
    BY <2>1, LifecycleAssumption DEF Run
  <2>3. 1 \in 0..NumTypes
    BY LifecycleAssumption
  <2> QED
    BY <2>1, <2>2, <2>3 DEF Run, RunBegins
<1> USE LifecycleAssumption
        DEF LifecycleInv, TypeOK, Begun, QueueSound, Current, Launched,
            CloserSound, NoPanic, ClosedIsClean, Running, Closing, Closed,
            Putting, LeftBehind, CtxOf, Of, AllEnded, Alive, Types, Runs,
            Requesters, Run, Watcher
<1>2. TypeOK'
  BY <1>1 DEF RunBegins
<1>3. Begun'
  BY <1>1 DEF RunBegins
<1>4. QueueSound'
  BY <1>1 DEF RunBegins
<1>5. Current'
  BY <1>1 DEF RunBegins
<1>6. Launched'
  <2>1. run.n + 1 \in Runs /\ ~started
    BY <1>1 DEF RunBegins
  <2>2. \A t \in Types : watcher'[<<run.n + 1, t>>] = "none"
    BY <2>1 DEF RunBegins
  <2> QED
    BY <1>1, <2>1, <2>2 DEF RunBegins
<1>7. CloserSound'
  BY <1>1 DEF RunBegins
<1>8. NoPanic' /\ ClosedIsClean'
  BY <1>1 DEF RunBegins
<1> QED
  BY <1>2, <1>3, <1>4, <1>5, <1>6, <1>7, <1>8

\* watch() with ctx done.
LEMMA WatchDoneKeeps ==
    ASSUME LifecycleInv, Watch, ctx[run.n] # "live"
    PROVE  LifecycleInv'
<1>1. /\ run' \in Run
      /\ run'.n = run.n /\ run'.t = run.t
      /\ run.pc = "watch" /\ run'.pc = "check"
      /\ run'.dog => run.dog
      /\ run'.left <=> run.left
  <2>1. run \in Run
    BY DEF LifecycleInv, TypeOK
  <2> QED
    BY <2>1 DEF Run, Watch
<1> USE LifecycleAssumption
        DEF LifecycleInv, TypeOK, Begun, QueueSound, Current, Launched,
            CloserSound, NoPanic, ClosedIsClean, Running, Closing, Closed,
            Putting, LeftBehind, CtxOf, Of, AllEnded, Alive, Types, Runs,
            Requesters, Run, Watcher
<1>2. TypeOK'
  BY <1>1 DEF Watch
<1>3. Begun'
  BY <1>1 DEF Watch
<1>4. QueueSound'
  BY <1>1 DEF Watch
<1>5. Current'
  BY <1>1 DEF Watch
<1>6. Launched'
  BY <1>1 DEF Watch
<1>7. CloserSound'
  BY <1>1 DEF Watch
<1>8. NoPanic' /\ ClosedIsClean'
  BY <1>1 DEF Watch
<1> QED
  BY <1>2, <1>3, <1>4, <1>5, <1>6, <1>7, <1>8

\* watch() with ctx live: Run joins the queue.
LEMMA WatchPutKeeps ==
    ASSUME LifecycleInv, Watch, ctx[run.n] = "live"
    PROVE  LifecycleInv'
<1>1. /\ run' \in Run
      /\ run'.n = run.n /\ run'.t = run.t
      /\ run.pc = "watch" /\ run'.pc = "put"
      /\ run'.left <=> run.left
      /\ Enqueue(<<run.n, 0>>)
      /\ UNCHANGED <<out, started, mu, ctx, fired, watcher, reply, relist,
                     closer, closeCh, spawnCh>>
  <2>1. run \in Run
    BY DEF LifecycleInv, TypeOK
  <2> QED
    BY <2>1 DEF Run, Watch
<1> USE LifecycleAssumption
        DEF LifecycleInv, TypeOK, Begun, QueueSound, Current, Launched,
            CloserSound, NoPanic, ClosedIsClean, Running, Closing, Closed,
            Putting, LeftBehind, CtxOf, Of, AllEnded, Alive, Types, Runs,
            Requesters, Run, Watcher
<1>2. /\ spawner'.queue \in Seq(Requesters)
      /\ spawner' = [spawner EXCEPT !.queue = spawner'.queue]
      /\ QueueSound'
  <2> DEFINE q == <<run.n, 0>>
  <2>1. /\ q \in Requesters /\ ~Putting(q) /\ Putting(q)'
        /\ \A p \in Requesters : p # q /\ Putting(p) => Putting(p)'
    BY <1>1
  <2> QED
    BY <1>1, <2>1, EnqueueLemma
<1>3. TypeOK'
  BY <1>1, <1>2
<1>4. Begun'
  BY <1>1, <1>2
<1>5. QueueSound'
  BY <1>1, <1>2
<1>6. Current'
  BY <1>1, <1>2
<1>7. Launched'
  BY <1>1, <1>2
<1>8. CloserSound'
  BY <1>1, <1>2
<1>9. NoPanic' /\ ClosedIsClean'
  BY <1>1, <1>2
<1> QED
  BY <1>3, <1>4, <1>5, <1>6, <1>7, <1>8, <1>9

\* getWatcher() returns: Run leaves the queue, if it was in it.
LEMMA GetWatcherKeeps == ASSUME LifecycleInv, GetWatcher PROVE LifecycleInv'
<1>1. /\ run' \in Run
      /\ run'.n = run.n /\ run'.t = run.t
      /\ run.pc \in {"put", "get"}
      /\ run'.pc = "go" \/ (run'.pc = "check" /\ run'.err)
      /\ run'.dog => run.dog
      /\ run'.left <=> run.left
      /\ Leave(<<run.n, 0>>)
      /\ reply' \in [Requesters -> {"none", "watch", "error", "permanent"}]
      /\ UNCHANGED <<out, started, mu, ctx, fired, watcher, relist,
                     closer, closeCh, spawnCh>>
  <2>1. /\ run \in Run
        /\ reply \in [Requesters -> {"none", "watch", "error", "permanent"}]
    BY DEF LifecycleInv, TypeOK
  <2> QED
    BY <2>1, ZenonT(60) DEF Run, GetWatcher
<1> USE LifecycleAssumption
        DEF LifecycleInv, TypeOK, Begun, QueueSound, Current, Launched,
            CloserSound, NoPanic, ClosedIsClean, Running, Closing, Closed,
            Putting, LeftBehind, CtxOf, Of, AllEnded, Alive, Types, Runs,
            Requesters, Run, Watcher
<1>2. /\ spawner'.queue \in Seq(Requesters)
      /\ spawner' = [spawner EXCEPT !.queue = spawner'.queue]
      /\ QueueSound'
  <2> DEFINE q == <<run.n, 0>>
  <2>1. \A p \in Requesters : p # q /\ Putting(p) => Putting(p)'
    BY <1>1
  <2> QED
    BY <1>1, <2>1, LeaveLemma
<1>3. TypeOK'
  BY <1>1, <1>2
<1>4. Begun'
  BY <1>1, <1>2
<1>5. QueueSound'
  BY <1>1, <1>2
<1>6. Current'
  BY <1>1, <1>2
<1>7. Launched'
  BY <1>1, <1>2
<1>8. CloserSound'
  BY <1>1, <1>2
<1>9. NoPanic' /\ ClosedIsClean'
  BY <1>1, <1>2
<1> QED
  BY <1>3, <1>4, <1>5, <1>6, <1>7, <1>8, <1>9

\* A watcher starts, which was in no queue.
LEMMA GoWatcherKeeps == ASSUME LifecycleInv, GoWatcher PROVE LifecycleInv'
<1>1. /\ run' \in Run
      /\ run'.n = run.n /\ run'.t = run.t
      /\ run.pc = "go" /\ run'.pc = "check"
      /\ run'.left <=> run.left
  <2>1. run \in Run
    BY DEF LifecycleInv, TypeOK
  <2> QED
    BY <2>1 DEF Run, GoWatcher
<1> USE LifecycleAssumption
        DEF LifecycleInv, TypeOK, Begun, QueueSound, Current, Launched,
            CloserSound, NoPanic, ClosedIsClean, Running, Closing, Closed,
            Putting, LeftBehind, CtxOf, Of, AllEnded, Alive, Types, Runs,
            Requesters, Run, Watcher
<1>2. TypeOK'
  BY <1>1 DEF GoWatcher
<1>3. Begun'
  BY <1>1 DEF GoWatcher
<1>4. QueueSound'
  <2>1. \A p \in Requesters : Putting(p) => Putting(p)'
    BY <1>1 DEF GoWatcher
  <2> QED
    BY <2>1 DEF GoWatcher
<1>5. Current'
  BY <1>1 DEF GoWatcher
<1>6. Launched'
  BY <1>1 DEF GoWatcher
<1>7. CloserSound'
  BY <1>1 DEF GoWatcher
<1>8. NoPanic' /\ ClosedIsClean'
  BY <1>1 DEF GoWatcher
<1> QED
  BY <1>2, <1>3, <1>4, <1>5, <1>6, <1>7, <1>8

\* A cancelled ctx is an error.
LEMMA CheckCtxKeeps == ASSUME LifecycleInv, CheckCtx PROVE LifecycleInv'
<1>1. /\ run' \in Run
      /\ run'.n = run.n /\ run'.t = run.t
      /\ run.pc = "check" /\ run'.pc = "disarm"
      /\ ~run'.err => ~run.err /\ ctx[run.n] # "cancelled"
  <2>1. run \in Run
    BY DEF LifecycleInv, TypeOK
  <2> QED
    BY <2>1 DEF Run, CheckCtx, RunStep
<1> USE LifecycleAssumption
        DEF LifecycleInv, TypeOK, Begun, QueueSound, Current, Launched,
            CloserSound, NoPanic, ClosedIsClean, Running, Closing, Closed,
            Putting, LeftBehind, CtxOf, Of, AllEnded, Alive, Types, Runs,
            Requesters, Run, Watcher
<1>2. TypeOK'
  BY <1>1 DEF CheckCtx, RunStep
<1>3. Begun'
  BY <1>1 DEF CheckCtx, RunStep
<1>4. QueueSound'
  BY <1>1 DEF CheckCtx, RunStep
<1>5. Current'
  BY <1>1 DEF CheckCtx, RunStep
<1>6. Launched'
  BY <1>1 DEF CheckCtx, RunStep
<1>7. CloserSound'
  BY <1>1 DEF CheckCtx, RunStep
<1>8. NoPanic' /\ ClosedIsClean'
  BY <1>1 DEF CheckCtx, RunStep
<1> QED
  BY <1>2, <1>3, <1>4, <1>5, <1>6, <1>7, <1>8

\* On to the next type, or to the end.
LEMMA DisarmKeeps == ASSUME LifecycleInv, Disarm PROVE LifecycleInv'
<1>1. /\ run' \in Run
      /\ run'.n = run.n /\ run.pc = "disarm"
      /\ \/ run'.pc = "cancel" /\ run'.t = run.t
         \/ run'.pc = "watch" /\ ~run.err /\ run'.t = run.t + 1
                              /\ run'.t \in Types
         \/ run'.pc = "finish" /\ ~run.err /\ run'.t = run.t
                               /\ run.t = NumTypes
      /\ run'.dog => run'.pc = "watch"
  <2>1. run \in Run /\ run.t \in Types
    BY DEF LifecycleInv, TypeOK, Begun, Running, Disarm
  <2>2. CASE ~run.err /\ run.t < NumTypes
    <3>1. PICK k \in Types : k = run.t + 1 /\ k \in 0..NumTypes
      BY <2>1, <2>2, LifecycleAssumption DEF Types
    <3> QED
      BY <2>1, <2>2, <3>1 DEF Run, Disarm, RunStep
  <2>3. CASE run.err \/ ~(run.t < NumTypes)
    <3>1. run.err \/ run.t = NumTypes
      BY <2>1, <2>3, LifecycleAssumption DEF Types
    <3> QED
      BY <2>1, <2>3, <3>1 DEF Run, Disarm, RunStep
  <2> QED
    BY <2>2, <2>3
<1> USE LifecycleAssumption
        DEF LifecycleInv, TypeOK, Begun, QueueSound, Current, Launched,
            CloserSound, NoPanic, ClosedIsClean, Running, Closing, Closed,
            Putting, LeftBehind, CtxOf, Of, AllEnded, Alive, Types, Runs,
            Requesters, Run, Watcher
<1>2. TypeOK'
  BY <1>1 DEF Disarm, RunStep
<1>3. Begun'
  BY <1>1 DEF Disarm, RunStep
<1>4. QueueSound'
  BY <1>1 DEF Disarm, RunStep
<1>5. Current'
  BY <1>1 DEF Disarm, RunStep
<1>6. Launched'
  <2>1. run.t \in Types /\ run.n \in Runs /\ ~started
    BY <1>1
  <2>2. \A t \in Types :
           /\ t < run.t + 1 => (t < run.t \/ t = run.t)
           /\ t > run.t + 1 => t > run.t
           /\ run.t = NumTypes => (t < run.t \/ t = run.t)
    BY <2>1
  <2>3. UNCHANGED <<watcher, started, ctx>>
    BY DEF Disarm, RunStep
  <2>4. CASE run'.pc = "cancel"
    BY <1>1, <2>1, <2>3, <2>4
  <2>5. CASE run'.pc = "watch"
    <3>1. /\ run.pc = "disarm" /\ ~run.err
          /\ run'.n = run.n /\ run'.t = run.t + 1 /\ run'.t \in Types
      BY <1>1, <2>5
    <3>2. watcher[<<run.n, run'.t>>] = "none"
      BY <2>1, <3>1
    <3>3. \A t \in Types :
             /\ t < run'.t => watcher[<<run.n, t>>] # "none"
             /\ t > run'.t => watcher[<<run.n, t>>] = "none"
      <4>1. /\ watcher[<<run.n, run.t>>] # "none"
            /\ \A t \in Types :
                  /\ t < run.t => watcher[<<run.n, t>>] # "none"
                  /\ t > run.t => watcher[<<run.n, t>>] = "none"
        BY <3>1
      <4> HIDE DEF LifecycleInv
      <4> QED
        BY <2>1, <2>2, <3>1, <4>1
    <3> QED
      BY <2>1, <2>3, <2>5, <3>1, <3>2, <3>3
  <2>6. CASE run'.pc = "finish"
    <3>1. /\ run.pc = "disarm" /\ ~run.err
          /\ run'.n = run.n /\ run'.t = run.t /\ run.t = NumTypes
      BY <1>1, <2>6
    <3>2. \A t \in Types : watcher[<<run.n, t>>] # "none"
      BY <2>1, <2>2, <3>1
    <3> QED
      BY <2>1, <2>3, <2>6, <3>1, <3>2
  <2> QED
    BY <1>1, <2>4, <2>5, <2>6
<1>7. CloserSound'
  BY <1>1 DEF Disarm, RunStep
<1>8. NoPanic' /\ ClosedIsClean'
  BY <1>1 DEF Disarm, RunStep
<1> QED
  BY <1>2, <1>3, <1>4, <1>5, <1>6, <1>7, <1>8


\* The other actions of Run, its callers and its watchdogs.
LEMMA RunKeeps ==
    ASSUME LifecycleInv, SetOut \/ CallRun \/ RunNext \/ Expire
                         \/ DogCancels
    PROVE  LifecycleInv'
<1> USE LifecycleAssumption
        DEF LifecycleInv, TypeOK, Begun, QueueSound, Current, Launched,
            CloserSound, NoPanic, ClosedIsClean, Running, Closing, Closed,
            Putting, LeftBehind, CtxOf, Of, AllEnded, Alive, Types, Runs,
            Requesters, Run, Watcher
<1>1. CASE SetOut
  BY <1>1 DEF SetOut
<1>2. CASE DogCancels
  BY <1>2 DEF DogCancels
<1>3. CASE CallRun
  <2>1. TypeOK'
    <3>1. run' \in Run /\ run'.pc = "lock"
      BY <1>3 DEF CallRun
    <3> QED
      BY <1>3, <3>1 DEF CallRun
  <2>2. Begun'
    BY <1>3 DEF CallRun
  <2>3. QueueSound'
    BY <1>3 DEF CallRun
  <2>4. Current'
    BY <1>3 DEF CallRun
  <2>5. Launched'
    BY <1>3 DEF CallRun
  <2>6. CloserSound'
    BY <1>3 DEF CallRun
  <2>7. NoPanic' /\ ClosedIsClean'
    BY <1>3 DEF CallRun
  <2> QED
    BY <2>1, <2>2, <2>3, <2>4, <2>5, <2>6, <2>7
<1>4. CASE RunRefused
  <2>1. TypeOK'
    <3>1. run' \in Run /\ run'.pc = "idle"
      BY <1>4 DEF RunRefused
    <3> QED
      BY <1>4, <3>1 DEF RunRefused
  <2>2. Begun'
    BY <1>4 DEF RunRefused
  <2>3. QueueSound'
    BY <1>4 DEF RunRefused
  <2>4. Current'
    BY <1>4 DEF RunRefused
  <2>5. Launched'
    BY <1>4 DEF RunRefused
  <2>6. CloserSound'
    BY <1>4 DEF RunRefused
  <2>7. NoPanic' /\ ClosedIsClean'
    BY <1>4 DEF RunRefused
  <2> QED
    BY <2>1, <2>2, <2>3, <2>4, <2>5, <2>6, <2>7
<1>5. CASE RunCancels
  <2>1. TypeOK'
    BY <1>5, ZenonT(60) DEF RunCancels
  <2>2. Begun'
    BY <1>5 DEF RunCancels
  <2>3. QueueSound'
    BY <1>5 DEF RunCancels
  <2>4. Current'
    BY <1>5 DEF RunCancels
  <2>5. Launched'
    BY <1>5 DEF RunCancels
  <2>6. CloserSound'
    BY <1>5 DEF RunCancels
  <2>7. NoPanic' /\ ClosedIsClean'
    BY <1>5 DEF RunCancels
  <2> QED
    BY <2>1, <2>2, <2>3, <2>4, <2>5, <2>6, <2>7
<1>6. CASE RunFails
  <2>1. TypeOK'
    BY <1>6, ZenonT(60) DEF RunFails
  <2>2. Begun'
    BY <1>6 DEF RunFails
  <2>3. QueueSound'
    BY <1>6 DEF RunFails
  <2>4. Current'
    <3>1. /\ run.pc = "wait" /\ run'.pc = "idle" /\ run'.n = run.n
          /\ run.left \/ ~AllEnded => run'.left
          /\ UNCHANGED <<watcher, ctx, started>>
      BY <1>6 DEF RunFails
    <3>2. \A w \in Runs \X Types : watcher[w] \in Alive =>
             ~AllEnded /\ (w[1] = run.n \/ w[1] < run.n)
      OBVIOUS
    <3>3. \A w \in Runs \X Types : watcher[w] \in Alive =>
             ctx[w[1]] = "cancelled"
      BY <3>1, <3>2
    <3> QED
      BY <3>1, <3>2, <3>3
  <2>5. Launched'
    BY <1>6 DEF RunFails
  <2>6. CloserSound'
    BY <1>6 DEF RunFails
  <2>7. NoPanic' /\ ClosedIsClean'
    BY <1>6 DEF RunFails
  <2> QED
    BY <2>1, <2>2, <2>3, <2>4, <2>5, <2>6, <2>7
<1>7. CASE RunSucceeds
  <2>1. TypeOK'
    BY <1>7 DEF RunSucceeds
  <2>2. Begun'
    BY <1>7 DEF RunSucceeds
  <2>3. QueueSound'
    BY <1>7 DEF RunSucceeds
  <2>4. Current'
    BY <1>7 DEF RunSucceeds
  <2>5. Launched'
    BY <1>7 DEF RunSucceeds
  <2>6. CloserSound'
    BY <1>7 DEF RunSucceeds
  <2>7. NoPanic' /\ ClosedIsClean'
    BY <1>7 DEF RunSucceeds
  <2> QED
    BY <2>1, <2>2, <2>3, <2>4, <2>5, <2>6, <2>7
<1>8. CASE Expire
  <2>1. TypeOK'
    <3>1. run' \in Run /\ run'.pc = run.pc
      BY <1>8 DEF Expire
    <3> QED
      BY <1>8, <3>1 DEF Expire
  <2>2. Begun'
    BY <1>8 DEF Expire
  <2>3. QueueSound'
    BY <1>8 DEF Expire
  <2>4. Current'
    BY <1>8 DEF Expire
  <2>5. Launched'
    BY <1>8 DEF Expire
  <2>6. CloserSound'
    BY <1>8 DEF Expire
  <2>7. NoPanic' /\ ClosedIsClean'
    BY <1>8 DEF Expire
  <2> QED
    BY <2>1, <2>2, <2>3, <2>4, <2>5, <2>6, <2>7
<1>9. CASE Watch
  BY <1>9, WatchPutKeeps, WatchDoneKeeps
<1>10. CASE RunBegins
  BY <1>10, RunBeginsKeeps
<1>11. CASE GetWatcher
  BY <1>11, GetWatcherKeeps
<1>12. CASE GoWatcher
  BY <1>12, GoWatcherKeeps
<1>13. CASE CheckCtx
  BY <1>13, CheckCtxKeeps
<1>14. CASE Disarm
  BY <1>14, DisarmKeeps
<1> QED
  BY <1>1, <1>2, <1>3, <1>4, <1>5, <1>6, <1>7, <1>8, <1>9, <1>10, <1>11,
     <1>12, <1>13, <1>14 DEF RunNext

\* The request of q, who waited longest, is taken: q waits for its promise.
LEMMA TakeRequestKeeps == ASSUME LifecycleInv, TakeRequest PROVE LifecycleInv'
<1> DEFINE q == Head(spawner.queue)
<1>1. /\ q \in Requesters /\ Putting(q)
      /\ spawner'.queue \in Seq(Requesters)
      /\ QueueSound'
  BY TakeRequestLemma
<1>2. spawner' \in [pc : {"range", "call", "sleep", "ended"},
                   req : Requesters \cup {NoOne}, queue : Seq(Requesters)]
  <2>1. spawner' = [pc |-> "call", req |-> q, queue |-> spawner'.queue]
    BY DEF TakeRequest
  <2> QED
    BY <1>1, <2>1
<1>3. /\ run' \in Run
      /\ run'.n = run.n /\ run'.t = run.t /\ run'.dog = run.dog
      /\ run'.left = run.left /\ run'.err = run.err
      /\ run' = run \/ (run.pc = "put" /\ run'.pc = "get")
      /\ watcher' \in [Runs \X Types -> Watcher]
      /\ \A w \in Runs \X Types :
            \/ watcher'[w] = watcher[w]
            \/ watcher[w] = "put" /\ watcher'[w] = "get"
  <2>1. /\ run \in Run /\ watcher \in [Runs \X Types -> Watcher]
        /\ Advance(q, "get")
    BY DEF LifecycleInv, TypeOK, TakeRequest
  <2>2. CASE q[2] = 0
    <3>1. /\ run.pc = "put" /\ watcher' = watcher
          /\ run' = [run EXCEPT !.pc = "get"]
      BY <1>1, <2>1, <2>2 DEF Advance, Putting
    <3> QED
      BY <2>1, <3>1 DEF Run
  <2>3. CASE q[2] # 0
    <3>1. /\ watcher[q] = "put" /\ run' = run
          /\ watcher' = [watcher EXCEPT ![q] = "get"]
      BY <1>1, <2>1, <2>3 DEF Advance, Putting
    <3> HIDE DEF q
    <3> QED
      BY <2>1, <3>1 DEF Watcher
  <2> QED
    BY <2>2, <2>3
<1>4. UNCHANGED <<out, started, mu, ctx, fired, reply, relist, closer, closeCh,
                  spawnCh>>
  BY DEF TakeRequest
<1> USE LifecycleAssumption
        DEF LifecycleInv, TypeOK, Begun, QueueSound, Current, Launched,
            CloserSound, NoPanic, ClosedIsClean, Running, Closing, Closed,
            Putting, LeftBehind, CtxOf, Of, AllEnded, Alive, Types, Runs,
            Requesters, Run, Watcher
<1>5. TypeOK'
  BY <1>1, <1>2, <1>3, <1>4
<1>6. Begun'
  BY <1>1, <1>2, <1>3, <1>4, SMTT(30)
<1>7. QueueSound'
  BY <1>1, <1>2, <1>3, <1>4
<1>8. Current'
  BY <1>1, <1>2, <1>3, <1>4
<1>9. Launched'
  BY <1>1, <1>2, <1>3, <1>4
<1>10. CloserSound'
  BY <1>1, <1>2, <1>3, <1>4
<1>11. NoPanic' /\ ClosedIsClean'
  BY <1>1, <1>2, <1>3, <1>4
<1> QED
  BY <1>5, <1>6, <1>7, <1>8, <1>9, <1>10, <1>11

\* A promise is kept.
LEMMA AnswerKeeps ==
    ASSUME LifecycleInv, NEW res \in {"watch", "error", "permanent"}, Answer(res)
    PROVE  LifecycleInv'
<1>1. /\ spawner' \in [pc : {"range", "call", "sleep", "ended"},
                      req : Requesters \cup {NoOne}, queue : Seq(Requesters)]
      /\ spawner'.queue = spawner.queue
      /\ reply' \in [Requesters -> {"none", "watch", "error", "permanent"}]
      /\ UNCHANGED <<out, started, mu, run, ctx, fired, watcher, relist, closer,
                     closeCh, spawnCh>>
  BY DEF LifecycleInv, TypeOK, Answer
<1> USE LifecycleAssumption
        DEF LifecycleInv, TypeOK, Begun, QueueSound, Current, Launched,
            CloserSound, NoPanic, ClosedIsClean, Running, Closing, Closed,
            Putting, LeftBehind, CtxOf, Of, AllEnded, Alive, Types, Runs,
            Requesters, Run, Watcher
<1>2. TypeOK'
  BY <1>1
<1>3. Begun'
  BY <1>1
<1>4. QueueSound'
  BY <1>1
<1>5. Current'
  BY <1>1
<1>6. Launched'
  BY <1>1
<1>7. CloserSound'
  BY <1>1
<1>8. NoPanic' /\ ClosedIsClean'
  BY <1>1
<1> QED
  BY <1>2, <1>3, <1>4, <1>5, <1>6, <1>7, <1>8

\* The spawner, and a request on the closed channel.
LEMMA SpawnerKeeps ==
    ASSUME LifecycleInv, SpawnerNext \/ SendOnClosed
    PROVE  LifecycleInv'
<1>1. CASE TakeRequest
  BY <1>1, TakeRequestKeeps
<1>2. CASE \E res \in {"watch", "error", "permanent"} : Answer(res)
  BY <1>2, AnswerKeeps
<1> USE LifecycleAssumption
        DEF LifecycleInv, TypeOK, Begun, QueueSound, Current, Launched,
            CloserSound, NoPanic, ClosedIsClean, Running, Closing, Closed,
            Putting, LeftBehind, CtxOf, Of, AllEnded, Alive, Types, Runs,
            Requesters, Run, Watcher
<1>3. CASE Wake
  <2>1. TypeOK'
    <3>1. spawner' \in [pc : {"range", "call", "sleep", "ended"},
                       req : Requesters \cup {NoOne}, queue : Seq(Requesters)]
      BY <1>3 DEF Wake
    <3> QED
      BY <1>3, <3>1 DEF Wake
  <2>2. Begun'
    BY <1>3 DEF Wake
  <2>3. QueueSound'
    BY <1>3 DEF Wake
  <2>4. Current'
    BY <1>3 DEF Wake
  <2>5. Launched'
    BY <1>3 DEF Wake
  <2>6. CloserSound'
    BY <1>3 DEF Wake
  <2>7. NoPanic' /\ ClosedIsClean'
    BY <1>3 DEF Wake
  <2> QED
    BY <2>1, <2>2, <2>3, <2>4, <2>5, <2>6, <2>7
<1>4. CASE SpawnerEnds
  <2>1. TypeOK'
    BY <1>4, ZenonT(60) DEF SpawnerEnds
  <2>2. Begun'
    BY <1>4 DEF SpawnerEnds
  <2>3. QueueSound'
    BY <1>4 DEF SpawnerEnds
  <2>4. Current'
    BY <1>4 DEF SpawnerEnds
  <2>5. Launched'
    BY <1>4 DEF SpawnerEnds
  <2>6. CloserSound'
    BY <1>4 DEF SpawnerEnds
  <2>7. NoPanic' /\ ClosedIsClean'
    BY <1>4 DEF SpawnerEnds
  <2> QED
    BY <2>1, <2>2, <2>3, <2>4, <2>5, <2>6, <2>7
<1>5. CASE SendOnClosed
  <2>1. TypeOK'
    BY <1>5 DEF SendOnClosed
  <2>2. Begun'
    BY <1>5 DEF SendOnClosed
  <2>3. QueueSound'
    BY <1>5 DEF SendOnClosed
  <2>4. Current'
    BY <1>5 DEF SendOnClosed
  <2>5. Launched'
    BY <1>5 DEF SendOnClosed
  <2>6. CloserSound'
    BY <1>5 DEF SendOnClosed
  <2>7. NoPanic' /\ ClosedIsClean'
    BY <1>5 DEF SendOnClosed
  <2> QED
    BY <2>1, <2>2, <2>3, <2>4, <2>5, <2>6, <2>7
<1> QED
  BY <1>1, <1>2, <1>3, <1>4, <1>5 DEF SpawnerNext, Accepted, Refused, RequestCancelled

\* Close returns: well only when no watcher is left and none had failed.
LEMMA CloseReturnsKeeps == ASSUME LifecycleInv, CloseReturns PROVE LifecycleInv'
<1>1. /\ closer' \in {"ok", "error", "expired"}
      /\ closer' # "expired" => closer = "closeSpawn"
      /\ closer \in {"closeSpawn", "giveUp"}
      /\ closer' = "ok" => ~Failed
      /\ mu' = "free" /\ spawnCh' = "closed"
      /\ UNCHANGED <<out, started, run, ctx, fired, watcher, spawner, reply,
                     relist, closeCh>>
  BY DEF CloseReturns, CloseReturnsWith
<1>3. Begun'
  BY <1>1 DEF LifecycleInv, Begun, Running
<1>4. QueueSound'
  BY <1>1 DEF LifecycleInv, QueueSound, Putting
<1>5. Current'
  BY <1>1 DEF LifecycleInv, Current, Running, LeftBehind, CtxOf
<1> USE LifecycleAssumption
        DEF LifecycleInv, TypeOK, Begun, QueueSound, Current, Launched,
            CloserSound, NoPanic, ClosedIsClean, Running, Closing, Closed,
            Putting, LeftBehind, CtxOf, Of, AllEnded, Alive, Types, Runs,
            Requesters, Run, Watcher
<1>2. TypeOK'
  BY <1>1
<1>6. Launched'
  BY <1>1
<1>7. CloserSound'
  BY <1>1
<1>8. NoPanic' /\ ClosedIsClean'
  <2>1. \A t \in Types : <<run.n, t>> \in Runs \X Types /\ run.n # 0
    BY <1>1
  <2>2. ASSUME closer' = "ok", NEW t \in Types
        PROVE  watcher[<<run.n, t>>] = "ended"
    <3>1. watcher[<<run.n, t>>] # "failed"
      BY <1>1, <2>1, <2>2, ZenonT(60) DEF Failed
    <3>2. watcher[<<run.n, t>>] \in Watcher \ (Alive \cup {"none"})
      BY <1>1, <2>1, <2>2
    <3> QED
      BY <3>1, <3>2
  <2> QED
    BY <1>1, <2>1, <2>2
<1> QED
  BY <1>2, <1>3, <1>4, <1>5, <1>6, <1>7, <1>8

\* Close and the relist task.
LEMMA CloserKeeps ==
    ASSUME LifecycleInv, CallClose \/ CloseNext \/ CloseAgain
                         \/ RelistStarts \/ RelistReturns \/ RelistEnds
    PROVE  LifecycleInv'
<1> USE LifecycleAssumption
        DEF LifecycleInv, TypeOK, Begun, QueueSound, Current, Launched,
            CloserSound, NoPanic, ClosedIsClean, Running, Closing, Closed,
            Putting, LeftBehind, CtxOf, Of, AllEnded, Alive, Types, Runs,
            Requesters, Run, Watcher
<1>1. CASE CallClose
  BY <1>1 DEF CallClose, CloserStep
<1>2. CASE CloseRefused
  BY <1>2 DEF CloseRefused, CloserStep
<1>3. CASE CloseBegins
  BY <1>3 DEF CloseBegins, CloserStep
<1>4. CASE CloseSignals
  BY <1>4 DEF CloseSignals
<1>5. CASE CloseCancels
  BY <1>5 DEF CloseCancels
<1>6. CASE CloseWaits
  BY <1>6 DEF CloseWaits, CloserStep
<1>7. CASE CloseGivesUp
  BY <1>7 DEF CloseGivesUp, CloserStep
<1>8. CASE CloseReturns
  BY <1>8, CloseReturnsKeeps
<1>9. CASE CloseAgain
  BY <1>9 DEF CloseAgain, CloserStep
<1>10. CASE RelistStarts
  BY <1>10 DEF RelistStarts, RelistStep
<1>11. CASE RelistReturns
  BY <1>11 DEF RelistReturns, RelistStep
<1>12. CASE RelistEnds
  BY <1>12 DEF RelistEnds, RelistStep
<1> QED
  BY <1>1, <1>2, <1>3, <1>4, <1>5, <1>6, <1>7, <1>8, <1>9, <1>10, <1>11, <1>12 DEF CloseNext

\* A step of a watcher at work that moves nobody else.
LEMMA WatcherFrame ==
    ASSUME LifecycleInv,
           NEW w \in Runs \X Types, watcher[w] \in Alive,
           NEW pc \in Watcher \ {"none"},
           watcher' = [watcher EXCEPT ![w] = pc],
           spawner' \in [pc : {"range", "call", "sleep", "ended"},
                        req : Requesters \cup {NoOne},
                        queue : Seq(Requesters)],
           QueueSound',
           reply' \in [Requesters -> {"none", "watch", "error", "permanent"}],
           UNCHANGED <<out, started, mu, run, ctx, fired, relist, closer,
                       closeCh, spawnCh>>
    PROVE  LifecycleInv'
<1>1. /\ watcher' \in [Runs \X Types -> Watcher]
      /\ \A v \in Runs \X Types :
            \/ watcher'[v] = watcher[v]
            \/ watcher[v] \in Alive /\ watcher'[v] # "none"
      /\ \A n \in Runs, t \in Types :
            watcher'[<<n, t>>] = "none" <=> watcher[<<n, t>>] = "none"
  BY DEF LifecycleInv, TypeOK, Alive
<1> USE LifecycleAssumption
        DEF LifecycleInv, TypeOK, Begun, QueueSound, Current, Launched,
            CloserSound, NoPanic, ClosedIsClean, Running, Closing, Closed,
            Putting, LeftBehind, CtxOf, Of, AllEnded, Alive, Types, Runs,
            Requesters, Run, Watcher
<1>2. TypeOK'
  BY <1>1
<1>3. Begun'
  BY <1>1
<1>4. QueueSound'
  BY <1>1
<1>5. Current'
  BY <1>1
<1>6. Launched'
  BY <1>1
<1>7. CloserSound'
  BY <1>1
<1>8. NoPanic' /\ ClosedIsClean'
  BY <1>1
<1> QED
  BY <1>2, <1>3, <1>4, <1>5, <1>6, <1>7, <1>8

\* The types of what a watcher reads and writes.
LEMMA WatcherTypes ==
    ASSUME LifecycleInv
    PROVE  /\ spawner \in [pc : {"range", "call", "sleep", "ended"},
                           req : Requesters \cup {NoOne},
                           queue : Seq(Requesters)]
           /\ reply \in [Requesters -> {"none", "watch", "error", "permanent"}]
           /\ watcher \in [Runs \X Types -> Watcher]
           /\ \A w \in Runs \X Types : w \in Requesters /\ w[2] # 0
  BY LifecycleAssumption DEF LifecycleInv, TypeOK, Requesters, Types

\* A watcher.
LEMMA WatcherKeeps ==
    ASSUME LifecycleInv, NEW w \in Runs \X Types, WatcherNext(w)
    PROVE  LifecycleInv'
<1>1. ASSUME NEW from \in Alive \ {"put"}, NEW pc \in Watcher \ {"none"},
             watcher[w] = from, WatcherStep(w, pc)
      PROVE  LifecycleInv'
  <2>1. \A p \in Requesters : Putting(p) => Putting(p)'
    BY <1>1, WatcherTypes DEF Putting, WatcherStep
  <2>2. QueueSound'
    BY <1>1, <2>1 DEF LifecycleInv, TypeOK, QueueSound, Putting, WatcherStep
  <2> QED
    BY <1>1, <2>2, WatcherTypes, WatcherFrame DEF WatcherStep
<1>2. ASSUME NEW pc \in Watcher \ {"none"}, watcher[w] \in Alive,
             GetReturns(w, pc)
      PROVE  LifecycleInv'
  <2>1. \A p \in Requesters : p # w /\ Putting(p) => Putting(p)'
    BY <1>2, WatcherTypes DEF Putting, GetReturns
  <2>2. /\ spawner'.queue \in Seq(Requesters)
        /\ spawner' = [spawner EXCEPT !.queue = spawner'.queue]
        /\ QueueSound'
    BY <1>2, <2>1, LeaveLemma DEF GetReturns
  <2>3. /\ spawner' \in [pc : {"range", "call", "sleep", "ended"},
                         req : Requesters \cup {NoOne},
                         queue : Seq(Requesters)]
        /\ reply' \in [Requesters -> {"none", "watch", "error", "permanent"}]
    BY <1>2, <2>2, WatcherTypes DEF GetReturns
  <2> QED
    BY <1>2, <2>2, <2>3, WatcherFrame DEF GetReturns
<1>3. CASE Event(w) \/ Sent(w) \/ StreamEnds(w)
  BY <1>1, <1>3 DEF Event, Sent, StreamEnds, Alive, Watcher
<1>4. CASE Reconnect(w) /\ CtxOf(w) = "cancelled"
  BY <1>1, <1>4 DEF Reconnect, WatcherStep, Alive, Watcher
<1>5. CASE Reconnect(w) /\ CtxOf(w) # "cancelled"
  <2>1. watcher[w] = "connect" /\ watcher' = [watcher EXCEPT ![w] = "put"]
    BY <1>5 DEF Reconnect
  <2>2. /\ w \in Requesters /\ ~Putting(w) /\ Putting(w)'
        /\ \A p \in Requesters : p # w /\ Putting(p) => Putting(p)'
    BY <1>5, <2>1, WatcherTypes DEF Putting, Reconnect
  <2>3. /\ spawner'.queue \in Seq(Requesters)
        /\ spawner' = [spawner EXCEPT !.queue = spawner'.queue]
        /\ QueueSound'
    BY <1>5, <2>2, EnqueueLemma DEF Reconnect
  <2>4. spawner' \in [pc : {"range", "call", "sleep", "ended"},
                     req : Requesters \cup {NoOne}, queue : Seq(Requesters)]
    BY <2>3, WatcherTypes
  <2> QED
    BY <1>5, <2>1, <2>3, <2>4, WatcherTypes, WatcherFrame
       DEF Reconnect, Alive, Watcher
<1>6. CASE Reconnected(w)
  BY <1>2, <1>6, WatcherTypes DEF Reconnected, Alive, Watcher
<1>7. CASE ReconnectCancelled(w)
  BY <1>2, <1>7 DEF ReconnectCancelled, Alive, Watcher
<1> QED
  BY <1>3, <1>4, <1>5, <1>6, <1>7 DEF WatcherNext


-----------------------------------------------------------------------------

\* LifecycleInv holds of every reachable state: whatever the servers, the
\* readers of the output and the callers do, and however the goroutines of
\* Run, Close, the watchdogs, the spawner and the watchers interleave.
THEOREM LifecycleInvCorrect == Spec => []LifecycleInv
<1>1. Init => LifecycleInv
  <2> SUFFICES ASSUME Init PROVE LifecycleInv
    OBVIOUS
  <2> USE LifecycleAssumption DEF Init
  <2>1. run \in Run
    BY DEF Run
  <2>2. spawner \in [pc : {"range", "call", "sleep", "ended"},
                    req : Requesters \cup {NoOne}, queue : Seq(Requesters)]
    <3>1. <<>> \in Seq(Requesters)
      OBVIOUS
    <3> QED
      BY <3>1
  <2>3. TypeOK
    BY <2>1, <2>2 DEF TypeOK, Watcher
  <2>4. Begun /\ Current /\ Launched
    BY DEF Begun, Current, Launched, Running, Alive, Types, Runs
  <2>5. QueueSound
    BY DEF QueueSound
  <2>6. CloserSound /\ NoPanic /\ ClosedIsClean
    BY DEF CloserSound, NoPanic, ClosedIsClean, Running, Closing, Closed
  <2> QED
    BY <2>3, <2>4, <2>5, <2>6 DEF LifecycleInv
<1>2. LifecycleInv /\ [Next]_vars => LifecycleInv'
  <2> SUFFICES ASSUME LifecycleInv, [Next]_vars PROVE LifecycleInv'
    OBVIOUS
  <2>1. CASE SetOut \/ CallRun \/ RunNext \/ Expire \/ DogCancels
    BY <2>1, RunKeeps
  <2>2. CASE SpawnerNext \/ SendOnClosed
    BY <2>2, SpawnerKeeps
  <2>3. CASE \E w \in Runs \X Types : WatcherNext(w)
    BY <2>3, WatcherKeeps
  <2>4. CASE CallClose \/ CloseNext \/ CloseAgain
             \/ RelistStarts \/ RelistReturns \/ RelistEnds
    BY <2>4, CloserKeeps
  <2>5. CASE UNCHANGED vars
    BY <2>5 DEF vars, LifecycleInv, TypeOK, Begun, QueueSound, Current,
                Launched, CloserSound, NoPanic, ClosedIsClean, Running, Putting,
                LeftBehind, CtxOf, Of, AllEnded
  <2> QED
    BY <2>1, <2>2, <2>3, <2>4, <2>5 DEF Next
<1> QED
  BY <1>1, <1>2, PTL DEF Spec

\* Every variable keeps its type, and mu is held by the call that locked it.
THEOREM LifecycleTypeCorrect == Spec => []TypeOK
<1>1. LifecycleInv => TypeOK
  BY DEF LifecycleInv
<1> QED
  BY <1>1, LifecycleInvCorrect, PTL

\* No request is sent on the closed spawnCh, whichever watcher was
\* reconnecting when Close was called, unless Close's caller gave up waiting
\* (watchlist.go:201-207).
THEOREM NoPanicCorrect == Spec => []NoPanic
<1>1. LifecycleInv => NoPanic
  BY DEF LifecycleInv
<1> QED
  BY <1>1, LifecycleInvCorrect, PTL

\* Watchers of an earlier Run are at work beside those of a later one only if
\* a caller did not wait for them, and then they are cancelled
\* (watchlist.go:330-337).
THEOREM OneGenerationCorrect == Spec => []OneGeneration
<1>1. LifecycleInv => OneGeneration
  <2> SUFFICES ASSUME LifecycleInv,
                      NEW v \in Runs \X Types, NEW w \in Runs \X Types,
                      watcher[v] \in Alive, watcher[w] \in Alive, v[1] < w[1]
               PROVE  run.left /\ CtxOf(v) = "cancelled"
    BY DEF OneGeneration
  <2>1. w[1] \in Runs /\ v[1] \in Runs /\ w = <<w[1], w[2]>> /\ w[2] \in Types
    OBVIOUS
  <2>2. ~(w[1] > run.n)
    BY <2>1 DEF LifecycleInv, Begun, Alive
  <2>3. v[1] < run.n
    BY <2>1, <2>2, LifecycleAssumption DEF LifecycleInv, TypeOK, Run, Runs
  <2> QED
    BY <2>3 DEF LifecycleInv, Current, LeftBehind
<1> QED
  BY <1>1, LifecycleInvCorrect, PTL

\* A Close that reports success has left no watcher behind, and none had
\* stopped for good before (watchlist.go:203, README.md:128).
THEOREM ClosedIsCleanCorrect == Spec => []ClosedIsClean
<1>1. LifecycleInv => ClosedIsClean
  BY DEF LifecycleInv
<1> QED
  BY <1>1, LifecycleInvCorrect, PTL

=============================================================================

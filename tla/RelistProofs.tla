---------------------------- MODULE RelistProofs ----------------------------
(***************************************************************************)
(* What the run of MCRelist checks on a small instance, proved of Relist   *)
(* for every number of objects, listers, pages, attempts and relists: no   *)
(* object is sent twice by a relist, a relist that reports success has     *)
(* sent every object that existed throughout it, and no lister outlives    *)
(* the attempt it works for.                                               *)
(***************************************************************************)
EXTENDS Relist, TLAPS

-----------------------------------------------------------------------------
(* The inductive invariant.                                                *)

Reading == {"range", "put"}

\* The attempts a relist may still make have numbers of their own.
Counted ==
    /\ task.pc = "check" => task.left # 0
    /\ task.n + task.left + (IF task.pc = "list" THEN 1 ELSE 0)
         <= relists * MaxAttempts
    /\ task.pc \in Reading => task.n # 0

\* What a lister works on fits where it is.
ListerSound(n) ==
    LET l == lister[n] IN
    /\ l.at \in 1..Listers
    /\ l.pc = "request" => l.page = {}
    /\ l.pc = "send" => ~l.first
    /\ l.pc \in {"error", "blocked"} => l.err # "none"

\* A channel holds one object, or an error, which is the last value sent on
\* it, and is closed by a lister that has ended.
ChannelSound(n) ==
    /\ \/ ch[n].buf = <<>>
       \/ \E o \in Objs : ch[n].buf = <<Value(o)>>
       \/ \E e \in Errors \ {"none"} : /\ ch[n].buf = <<Failure(e)>>
                                       /\ lister[n].pc \in {"close", "ended"}
    /\ ch[n].closed => lister[n].pc = "ended"

\* The attempts to come have not begun.
Unused(n) == n > task.n => /\ lister[n] = None
                           /\ ch[n] = [buf |-> <<>>, closed |-> FALSE]

\* What has been sent is what has been seen, but for an object in the hand of
\* relistType, which it gives up only when ctx is done.
SentSound(o) ==
    /\ sent[o] \in {0, 1}
    /\ sent[o] = 1 => o \in task.seen \ task.item
    /\ task.pc \notin {"wait", "stopped"} /\ o \in task.seen \ task.item
          => sent[o] = 1

ItemSound ==
    /\ task.item \subseteq task.seen
    /\ task.pc # "put" => task.item = {}

\* Where an object is that the lister of attempt n has not yet got through
\* to relistType: it is to be listed, listed, or in the channel, or the
\* attempt is going to fail.
Owed(n, o) ==
    LET l == lister[n] IN
    \/ /\ l.pc \in {"request", "send"}
       /\ \/ l.at < ListerOf[o]
          \/ l.at = ListerOf[o] /\ (l.first \/ o \in l.page \cup l.rest)
    \/ l.pc \in {"error", "blocked"}
    \/ ch[n].buf = <<Value(o)>>
    \/ \E e \in Errors \ {"none"} : ch[n].buf = <<Failure(e)>>

\* While an attempt is read, no object is lost between its lister and the
\* output; once a relist has succeeded, all of them were sent.
AllAccounted ==
    /\ kept \subseteq Live
    /\ task.pc \in Reading =>
          \A o \in kept : Done \/ o \in task.seen \/ Owed(task.n, o)
    /\ task.pc \notin {"wait", "stopped"} => task.res = "none"

RelistInv ==
    /\ TypeOK
    /\ Counted
    /\ \A n \in Attempts : ListerSound(n) /\ ChannelSound(n) /\ Unused(n)
    /\ ItemSound
    /\ \A o \in Objs : SentSound(o)
    /\ AllAccounted
    /\ CompleteWhenOk
    /\ StaleListerHarmless

-----------------------------------------------------------------------------
(* Facts about the helpers.                                                *)

\* A lister that has not been started.
LEMMA NoneType == None \in Lister /\ None.pc = "none" /\ None.at = 1
                  /\ None.page = {} /\ None.first = TRUE
BY DEF None, Lister, Errors

\* What a lister puts on its channel: objects and failures.
LEMMA ResponseType ==
    /\ \A o \in Objs : /\ Value(o) \in Response /\ Value(o).err = "none"
                       /\ Value(o).obj = {o}
    /\ \A e \in Errors : Failure(e) \in Response /\ Failure(e).err = e
BY DEF Value, Failure, Response, Errors

\* Attempts within the relists so far are within the bound.
LEMMA AttemptNumber ==
    ASSUME NEW k \in 0..MaxRelists, NEW n \in Nat \ {0}, n <= k * MaxAttempts
    PROVE  n \in Attempts
<1>1. k \in Nat /\ MaxRelists \in Nat /\ MaxAttempts \in Nat /\ k <= MaxRelists
  BY RelistAssumption
<1>2. k * MaxAttempts <= MaxRelists * MaxAttempts
  <2>1. PICK d \in Nat : MaxRelists = k + d
    <3>1. MaxRelists - k \in Nat /\ MaxRelists = k + (MaxRelists - k)
      BY <1>1
    <3> QED
      BY <3>1
  <2>2. MaxRelists * MaxAttempts = k * MaxAttempts + d * MaxAttempts
    BY <1>1, <2>1
  <2>3. d * MaxAttempts \in Nat /\ k * MaxAttempts \in Nat
    BY <1>1, <2>1
  <2> QED
    BY <2>2, <2>3
<1>3. k * MaxAttempts \in Nat /\ MaxRelists * MaxAttempts \in Nat
  BY <1>1
<1> QED
  BY <1>2, <1>3 DEF Attempts

-----------------------------------------------------------------------------
(* The steps of a lister.                                                  *)

Channels == [Attempts -> [buf : Seq(Response), closed : BOOLEAN]]

\* What a step of the lister of attempt n does: it stays sound, works on only
\* if it did, and keeps what it owes relistType.
ListerStays(n) ==
    /\ lister' \in [Attempts -> Lister] /\ ch' \in Channels
    /\ \A m \in Attempts : m # n => lister'[m] = lister[m] /\ ch'[m] = ch[m]
    /\ Len(ch'[n].buf) <= 1
    /\ ListerSound(n)' /\ ChannelSound(n)'
    /\ lister[n].pc \in Running
    /\ lister'[n].pc \in Running \ {"close"}
          => lister[n].pc \in Running \ {"close"}
    /\ \A o \in Live : Owed(n, o) => Done \/ Owed(n, o)'

\* The cases where the channel is left alone.
LEMMA ListerAlone ==
    ASSUME RelistInv, NEW n \in Attempts, NEW l \in Lister,
           lister' = [lister EXCEPT ![n] = l], ch' = ch,
           lister[n].pc \in Running \ {"close"},
           l.at \in 1..Listers,
           l.pc = "request" => l.page = {},
           l.pc = "send" => ~l.first,
           l.pc \in {"error", "blocked"} => l.err # "none",
           \A o \in Live : Owed(n, o) => Done \/ Owed(n, o)'
    PROVE  ListerStays(n)
<1>1. /\ lister \in [Attempts -> Lister] /\ ch \in Channels
      /\ ListerSound(n) /\ ChannelSound(n)
      /\ Len(ch[n].buf) <= 1
  BY DEF RelistInv, TypeOK, Channels
<1>2. lister'[n] = l /\ lister' \in [Attempts -> Lister]
  BY <1>1
<1>3. ListerSound(n)'
  BY <1>2 DEF ListerSound
<1>4. ChannelSound(n)'
  BY <1>1 DEF ChannelSound, Running
<1> QED
  BY <1>1, <1>2, <1>3, <1>4 DEF ListerStays

\* A lister that asks the server disturbs nobody.
LEMMA ListerWorks ==
    ASSUME RelistInv, NEW n \in Attempts,
           \/ Request(n) \/ RequestFails(n) \/ SendCancelled(n)
           \/ PageSent(n) \/ DropErr(n)
    PROVE  ListerStays(n)
<1>0. /\ lister \in [Attempts -> Lister] /\ lister[n] \in Lister
      /\ ListerSound(n) /\ ChannelSound(n) /\ Listers \in Nat
      /\ ListerOf \in [Objs -> 1..Listers]
  BY RelistAssumption DEF RelistInv, TypeOK
<1>1. CASE Request(n)
  <2> DEFINE all == IF lister[n].first THEN Found(n) ELSE lister[n].rest
  <2>1. PICK p \in Pages(all) :
          lister' = [lister EXCEPT ![n].pc = "send", ![n].first = FALSE,
                                   ![n].page = p, ![n].rest = all \ p]
    BY <1>1 DEF Request
  <2>2. p \subseteq all /\ all \subseteq Objs
    BY <1>0 DEF Pages, Found, Live, Lister
  <2>3. PICK l : l = [lister[n] EXCEPT !.pc = "send", !.first = FALSE,
                                       !.page = p, !.rest = all \ p]
    OBVIOUS
  <2>4. lister' = [lister EXCEPT ![n] = l]
    BY <1>0, <2>1, <2>3
  <2>5. /\ l \in Lister /\ l.pc = "send" /\ l.first = FALSE
        /\ l.page = p /\ l.rest = all \ p /\ l.at = lister[n].at
    BY <1>0, <2>2, <2>3 DEF Lister
  <2>6. ASSUME NEW o \in Live, Owed(n, o) PROVE Owed(n, o)'
    <3>1. lister'[n] = l /\ ch' = ch /\ lister[n].pc = "request"
      BY <1>0, <1>1, <2>4 DEF Request
    <3>2. lister[n].first /\ lister[n].at = ListerOf[o] => o \in all
      BY DEF Found
    <3>3. lister[n].page = {}
      BY <1>0, <3>1 DEF ListerSound
    <3> QED
      BY <2>2, <2>5, <2>6, <3>1, <3>2, <3>3 DEF Owed
  <2> QED
    BY <1>0, <1>1, <2>4, <2>5, <2>6, ListerAlone
       DEF Request, Running, ListerSound
<1>2. CASE RequestFails(n)
  <2>1. PICK e \in Errors \ {"none"} :
          lister' = [lister EXCEPT ![n].pc = "error", ![n].err = e]
    BY <1>2 DEF RequestFails
  <2>2. PICK l : l = [lister[n] EXCEPT !.pc = "error", !.err = e]
    OBVIOUS
  <2>3. lister' = [lister EXCEPT ![n] = l]
    BY <1>0, <2>1, <2>2
  <2>4. /\ l \in Lister /\ l.pc = "error" /\ l.err = e
        /\ l.at = lister[n].at
    BY <1>0, <2>2 DEF Lister
  <2>5. \A o : Owed(n, o)'
    BY <1>0, <2>3, <2>4 DEF Owed
  <2> QED
    BY <1>0, <1>2, <2>3, <2>4, <2>5, ListerAlone
       DEF RequestFails, Running, ListerSound
<1>3. CASE SendCancelled(n)
  <2>1. PICK l : l = [lister[n] EXCEPT !.pc = "error", !.err = "retryable"]
    OBVIOUS
  <2>2. lister' = [lister EXCEPT ![n] = l]
    BY <1>0, <1>3, <2>1 DEF SendCancelled
  <2>3. /\ l \in Lister /\ l.pc = "error" /\ l.err # "none"
        /\ l.at = lister[n].at
    BY <1>0, <2>1 DEF Lister, Errors
  <2>4. \A o : Owed(n, o)'
    BY <1>0, <2>2, <2>3 DEF Owed
  <2> QED
    BY <1>0, <1>3, <2>2, <2>3, <2>4, ListerAlone
       DEF SendCancelled, Running, ListerSound
<1>4. CASE PageSent(n)
  <2> DEFINE l0 == lister[n]
  <2>1. PICK l : /\ lister' = [lister EXCEPT ![n] = l]
                 /\ l = IF l0.rest # {} THEN [l0 EXCEPT !.pc = "request"]
                        ELSE IF l0.at < Listers
                        THEN [None EXCEPT !.pc = "request", !.at = l0.at + 1]
                        ELSE [None EXCEPT !.pc = "close", !.at = l0.at]
    BY <1>4 DEF PageSent
  <2>2. /\ l0.pc = "send" /\ l0.page = {} /\ ~l0.first
        /\ l0.at \in 1..Listers /\ ch' = ch
    BY <1>0, <1>4 DEF PageSent, ListerSound
  <2>3. CASE l0.rest # {}
    <3>1. /\ l \in Lister /\ l.pc = "request" /\ l.page = {}
          /\ l.rest = l0.rest /\ l.first = l0.first /\ l.at = l0.at
      BY <1>0, <2>1, <2>2, <2>3 DEF Lister
    <3>2. \A o \in Live : Owed(n, o) => Owed(n, o)'
      BY <1>0, <2>1, <2>2, <3>1 DEF Owed
    <3> QED
      BY <2>1, <2>2, <3>1, <3>2, ListerAlone DEF Running
  <2>4. CASE l0.rest = {} /\ l0.at < Listers
    <3>1. /\ l \in Lister /\ l.pc = "request" /\ l.page = {}
          /\ l.first = TRUE /\ l.at = l0.at + 1
      <4>1. l = [None EXCEPT !.pc = "request", !.at = l0.at + 1]
        BY <2>1, <2>4
      <4>2. l0.at + 1 \in Nat
        BY <1>0, <2>2
      <4> QED
        BY <4>1, <4>2 DEF None, Lister, Errors
    <3>2. ASSUME NEW o \in Live, Owed(n, o) PROVE Owed(n, o)'
      <4>1. o \in Objs /\ ListerOf[o] \in 1..Listers
        BY <1>0 DEF Live
      <4> QED
        BY <1>0, <2>1, <2>2, <2>4, <3>1, <3>2, <4>1 DEF Owed
    <3>3. l.at \in 1..Listers
      BY <1>0, <2>2, <2>4, <3>1
    <3> QED
      BY <2>1, <2>2, <3>1, <3>2, <3>3, ListerAlone DEF Running
  <2>5. CASE l0.rest = {} /\ ~(l0.at < Listers)
    <3>1. /\ l \in Lister /\ l.pc = "close" /\ l.at = l0.at
      BY <1>0, <2>1, <2>2, <2>5, NoneType DEF Lister
    <3>2. ASSUME NEW o \in Live, Owed(n, o) PROVE Owed(n, o)'
      <4>1. o \in Objs /\ ListerOf[o] \in 1..Listers
        BY <1>0 DEF Live
      <4> QED
        BY <1>0, <2>1, <2>2, <2>5, <3>1, <3>2, <4>1 DEF Owed
    <3> QED
      BY <2>1, <2>2, <3>1, <3>2, ListerAlone DEF Running
  <2> QED
    BY <2>3, <2>4, <2>5
<1>5. CASE DropErr(n)
  <2>1. PICK l : l = [lister[n] EXCEPT !.pc = "close"]
    OBVIOUS
  <2>2. lister' = [lister EXCEPT ![n] = l]
    BY <1>0, <1>5, <2>1 DEF DropErr
  <2>3. l \in Lister /\ l.pc = "close" /\ l.at = lister[n].at
    BY <1>0, <2>1 DEF Lister
  <2> QED
    BY <1>0, <1>5, <2>2, <2>3, ListerAlone DEF DropErr, Running, ListerSound
<1> QED
  BY <1>1, <1>2, <1>3, <1>4, <1>5

\* The cases where the lister sends something or closes the channel.
LEMMA ListerSends ==
    ASSUME RelistInv, NEW n \in Attempts,
           Send(n) \/ SendErr(n) \/ SendErrLate(n) \/ CloseCh(n)
    PROVE  ListerStays(n)
<1>0. /\ lister \in [Attempts -> Lister] /\ lister[n] \in Lister
      /\ ch \in Channels /\ ch[n].buf \in Seq(Response)
      /\ ch[n] \in [buf : Seq(Response), closed : BOOLEAN]
      /\ ListerSound(n) /\ ChannelSound(n) /\ Len(ch[n].buf) <= 1
  BY DEF RelistInv, TypeOK, Channels
<1>a. ASSUME NEW v \in Response, Room(n), SendOn(n, v)
      PROVE  /\ ch' \in Channels /\ ch'[n].buf = <<v>>
             /\ ch'[n].closed = ch[n].closed
             /\ Len(ch'[n].buf) <= 1
             /\ \A m \in Attempts : m # n => ch'[m] = ch[m]
  <2>1. PICK c : c = [ch[n] EXCEPT !.buf = Append(@, v)]
    OBVIOUS
  <2>2. ch' = [ch EXCEPT ![n] = c]
    BY <1>a, <2>1 DEF SendOn
  <2>3. Append(ch[n].buf, v) = <<v>> /\ Append(ch[n].buf, v) \in Seq(Response)
    BY <1>0, <1>a DEF Room
  <2>4. /\ c \in [buf : Seq(Response), closed : BOOLEAN]
        /\ c.buf = <<v>> /\ c.closed = ch[n].closed
    BY <1>0, <2>1, <2>3
  <2>5. Len(<<v>>) <= 1
    OBVIOUS
  <2>6. ch'[n] = c /\ \A m \in Attempts : m # n => ch'[m] = ch[m]
    BY <1>0, <2>2 DEF Channels
  <2>7. ch' \in Channels
    BY <1>0, <2>2, <2>4 DEF Channels
  <2> QED
    BY <2>4, <2>5, <2>6, <2>7
<1>1. CASE Send(n)
  <2>1. PICK o \in lister[n].page :
          /\ SendOn(n, Value(o))
          /\ lister' = [lister EXCEPT ![n].page = @ \ {o}]
    BY <1>1 DEF Send
  <2>2. PICK l : l = [lister[n] EXCEPT !.page = @ \ {o}]
    OBVIOUS
  <2>3. lister' = [lister EXCEPT ![n] = l]
    BY <1>0, <2>1, <2>2
  <2>4. /\ l \in Lister /\ l.pc = "send" /\ l.at = lister[n].at
        /\ l.first = lister[n].first /\ l.page = lister[n].page \ {o}
        /\ l.rest = lister[n].rest /\ lister[n].pc = "send" /\ o \in Objs
    BY <1>0, <1>1, <2>2 DEF Lister, Send
  <2>5. /\ lister'[n] = l /\ lister' \in [Attempts -> Lister]
        /\ \A m \in Attempts : m # n => lister'[m] = lister[m]
    BY <1>0, <2>3, <2>4
  <2>6. /\ ch' \in Channels /\ ch'[n].buf = <<Value(o)>>
        /\ ch'[n].closed = ch[n].closed
        /\ Len(ch'[n].buf) <= 1
        /\ \A m \in Attempts : m # n => ch'[m] = ch[m]
    BY <1>1, <1>a, <2>1, <2>4, ResponseType DEF Send
  <2>7. ListerSound(n)'
    BY <1>0, <2>4, <2>5 DEF ListerSound
  <2>8. ChannelSound(n)'
    BY <1>0, <2>4, <2>6 DEF ChannelSound
  <2>9. ASSUME NEW q \in Live, Owed(n, q) PROVE Owed(n, q)'
    <3>1. ch[n].buf = <<>> /\ \A v : ch[n].buf # <<v>>
      BY <1>1 DEF Send, Room
    <3>2. CASE q = o
      BY <2>6, <3>2 DEF Owed
    <3>3. CASE q # o
      BY <2>4, <2>5, <2>9, <3>1, <3>3 DEF Owed
    <3> QED
      BY <3>2, <3>3
  <2> QED
    BY <2>4, <2>5, <2>6, <2>7, <2>8, <2>9 DEF ListerStays, Running
<1>2. CASE SendErr(n) /\ ~Room(n)
  <2>1. PICK l : l = [lister[n] EXCEPT !.pc = "blocked"]
    OBVIOUS
  <2>2. lister' = [lister EXCEPT ![n] = l] /\ ch' = ch
    BY <1>0, <1>2, <2>1 DEF SendErr
  <2>3. /\ l \in Lister /\ l.pc = "blocked" /\ l.at = lister[n].at
        /\ l.err = lister[n].err /\ lister[n].pc = "error"
    BY <1>0, <1>2, <2>1 DEF Lister, SendErr
  <2>4. \A o : Owed(n, o)'
    BY <1>0, <2>2, <2>3 DEF Owed
  <2> QED
    BY <1>0, <2>2, <2>3, <2>4, ListerAlone DEF Running, ListerSound
<1>3. CASE (SendErr(n) /\ Room(n)) \/ SendErrLate(n)
  <2>1. PICK l : l = [lister[n] EXCEPT !.pc = "close"]
    OBVIOUS
  <2>2. PICK e : e = lister[n].err
    OBVIOUS
  <2>3. /\ lister' = [lister EXCEPT ![n] = l]
        /\ SendOn(n, Failure(e)) /\ Room(n)
        /\ lister[n].pc \in {"error", "blocked"}
    BY <1>0, <1>3, <2>1, <2>2 DEF SendErr, SendErrLate
  <2>4. /\ l \in Lister /\ l.pc = "close" /\ l.at = lister[n].at
        /\ e \in Errors \ {"none"}
    BY <1>0, <2>1, <2>2, <2>3 DEF Lister, ListerSound
  <2>5. /\ lister'[n] = l /\ lister' \in [Attempts -> Lister]
        /\ \A m \in Attempts : m # n => lister'[m] = lister[m]
    BY <1>0, <2>3, <2>4
  <2>6. /\ ch' \in Channels /\ ch'[n].buf = <<Failure(e)>>
        /\ ch'[n].closed = ch[n].closed
        /\ Len(ch'[n].buf) <= 1
        /\ \A m \in Attempts : m # n => ch'[m] = ch[m]
    BY <1>a, <2>3, <2>4, ResponseType
  <2>7. ListerSound(n)'
    BY <1>0, <2>4, <2>5 DEF ListerSound
  <2>8. ChannelSound(n)'
    BY <1>0, <2>3, <2>4, <2>5, <2>6 DEF ChannelSound
  <2>9. \A o : Owed(n, o)'
    BY <2>4, <2>6 DEF Owed
  <2> QED
    BY <2>3, <2>4, <2>5, <2>6, <2>7, <2>8, <2>9 DEF ListerStays, Running
<1>4. CASE CloseCh(n)
  <2>1. PICK l : l = [lister[n] EXCEPT !.pc = "ended"]
    OBVIOUS
  <2>2. PICK c : c = [ch[n] EXCEPT !.closed = TRUE]
    OBVIOUS
  <2>3. lister' = [lister EXCEPT ![n] = l] /\ ch' = [ch EXCEPT ![n] = c]
        /\ lister[n].pc = "close"
    BY <1>0, <1>4, <2>1, <2>2 DEF CloseCh
  <2>4. /\ l \in Lister /\ l.pc = "ended" /\ l.at = lister[n].at
        /\ c \in [buf : Seq(Response), closed : BOOLEAN]
        /\ c.buf = ch[n].buf
    BY <1>0, <2>1, <2>2 DEF Lister
  <2>5. /\ lister'[n] = l /\ lister' \in [Attempts -> Lister]
        /\ ch'[n].buf = ch[n].buf /\ ch' \in Channels
        /\ \A m \in Attempts : m # n => lister'[m] = lister[m] /\ ch'[m] = ch[m]
    BY <1>0, <2>3, <2>4 DEF Channels
  <2>6. ListerSound(n)'
    BY <1>0, <2>4, <2>5 DEF ListerSound
  <2>7. ChannelSound(n)'
    BY <1>0, <2>4, <2>5 DEF ChannelSound
  <2>8. \A o : Owed(n, o) => Owed(n, o)'
    BY <2>3, <2>5 DEF Owed
  <2> QED
    BY <1>0, <2>3, <2>4, <2>5, <2>6, <2>7, <2>8 DEF ListerStays, Running
<1> QED
  BY <1>1, <1>2, <1>3, <1>4

\* A lister keeps the invariant.
LEMMA ListerStep ==
    ASSUME RelistInv, NEW n \in Attempts, ListerNext(n)
    PROVE  RelistInv'
<1>1. ListerStays(n)
  BY ListerWorks, ListerSends DEF ListerNext
<1>2. UNCHANGED <<life, closing, task, relists, sent, kept>>
  BY DEF ListerNext, Request, RequestFails, Send, SendCancelled, PageSent,
         SendErr, SendErrLate, DropErr, CloseCh, taskVars
<1>3. /\ Live' = Live /\ Done' = Done
  BY <1>2 DEF Live, Done
<1>4. TypeOK'
  BY <1>1, <1>2 DEF RelistInv, TypeOK, ListerStays, Channels
<1>5. Counted' /\ ItemSound' /\ (\A o \in Objs : SentSound(o)') /\ CompleteWhenOk'
  BY <1>2 DEF RelistInv, Counted, ItemSound, SentSound, CompleteWhenOk
<1>6. ASSUME NEW m \in Attempts
      PROVE  ListerSound(m)' /\ ChannelSound(m)' /\ Unused(m)'
  <2>1. ListerSound(m) /\ ChannelSound(m) /\ Unused(m)
    BY DEF RelistInv
  <2>2. CASE m = n
    <3>1. lister[n].pc # "none"
      BY <1>1 DEF ListerStays, Running
    <3>2. ~(n > task.n)
      BY <2>1, <2>2, <3>1, NoneType DEF Unused
    <3> QED
      BY <1>1, <1>2, <2>2, <3>2 DEF ListerStays, Unused
  <2>3. CASE m # n
    <3>1. lister'[m] = lister[m] /\ ch'[m] = ch[m]
      BY <1>1, <2>3 DEF ListerStays
    <3> QED
      BY <1>2, <2>1, <3>1 DEF ListerSound, ChannelSound, Unused
  <2> QED
    BY <2>2, <2>3
<1>7. AllAccounted'
  <2>1. \A m, o : m # n /\ m \in Attempts /\ Owed(m, o) =>
           \/ /\ lister'[m].pc \in {"request", "send"}
              /\ \/ lister'[m].at < ListerOf[o]
                 \/ /\ lister'[m].at = ListerOf[o]
                    /\ \/ lister'[m].first
                       \/ o \in lister'[m].page \cup lister'[m].rest
           \/ lister'[m].pc \in {"error", "blocked"}
           \/ ch'[m].buf = <<Value(o)>>
           \/ \E e \in Errors \ {"none"} : ch'[m].buf = <<Failure(e)>>
    BY <1>1 DEF ListerStays, Owed
  <2>2. ASSUME task.pc \in Reading, NEW o \in kept, ~Done, o \notin task.seen
        PROVE  Owed(task.n, o)'
    <3>1. Owed(task.n, o) /\ o \in Live
      BY <2>2 DEF RelistInv, AllAccounted
    <3>2. task.n \in Attempts
      <4>1. /\ task.n \in Nat \ {0} /\ task.left \in Nat
            /\ relists \in 0..MaxRelists /\ relists * MaxAttempts \in Nat
            /\ task.pc # "list"
        BY <2>2, RelistAssumption DEF RelistInv, TypeOK, Task, Counted, Reading
      <4>2. task.n <= relists * MaxAttempts
        BY <4>1 DEF RelistInv, Counted
      <4> QED
        BY <4>1, <4>2, AttemptNumber
    <3>3. CASE task.n = n
      <4>1. Owed(n, o)'
        BY <1>1, <2>2, <3>1, <3>3 DEF ListerStays
      <4> QED
        BY <1>2, <3>3, <4>1 DEF Owed
    <3>4. CASE task.n # n
      BY <1>2, <2>1, <3>1, <3>2, <3>4 DEF Owed
    <3> QED
      BY <3>3, <3>4
  <2> QED
    BY <1>2, <1>3, <2>2 DEF RelistInv, AllAccounted, Owed
<1>8. StaleListerHarmless'
  <2> SUFFICES ASSUME NEW m \in Attempts,
                      lister'[m].pc \in Running \ {"close"}, ~Done
               PROVE  m = task.n /\ task.pc \in {"range", "put"}
    BY <1>2, <1>3 DEF StaleListerHarmless
  <2>1. lister[m].pc \in Running \ {"close"}
    BY <1>1 DEF ListerStays
  <2> QED
    BY <2>1 DEF RelistInv, StaleListerHarmless
<1> QED
  BY <1>4, <1>5, <1>6, <1>7, <1>8 DEF RelistInv

-----------------------------------------------------------------------------
(* The steps of the server, of Close, and of the relist task.              *)

\* Each action keeps RelistInv.  The server, Close and the cancelled watches
\* are none of the relist's business.
LEMMA AroundStep ==
    ASSUME RelistInv, ServerNext \/ Close \/ CancelWatches
    PROVE  RelistInv'
<1>1. UNCHANGED <<task, lister, ch, relists, sent>>
  BY DEF ServerNext, Create, Delete, Close, CancelWatches, taskVars
<1>2. /\ life' \in [Objs -> {"new", "live", "gone"}]
      /\ closing' \in {"no", "closed", "cancelled"}
      /\ kept' \subseteq kept /\ (Done => Done')
      /\ kept' \subseteq Live'
  BY DEF RelistInv, TypeOK, ServerNext, Create, Delete, Close, CancelWatches,
         Live, AllAccounted, Done
<1>3. TypeOK'
  BY <1>1, <1>2 DEF RelistInv, TypeOK
<1>4. /\ Counted' /\ ItemSound' /\ (\A o \in Objs : SentSound(o)')
      /\ \A n \in Attempts : ListerSound(n)' /\ ChannelSound(n)' /\ Unused(n)'
  BY <1>1 DEF RelistInv, Counted, ItemSound, SentSound, ListerSound,
              ChannelSound, Unused
<1>5. AllAccounted' /\ CompleteWhenOk' /\ StaleListerHarmless'
  BY <1>1, <1>2 DEF RelistInv, AllAccounted, CompleteWhenOk,
                    StaleListerHarmless, Owed
<1> QED
  BY <1>3, <1>4, <1>5 DEF RelistInv

\* The attempt that is read, or about to begin, has a number of its own.
LEMMA CurrentAttempt ==
    ASSUME RelistInv
    PROVE  /\ task \in Task /\ task.n \in Nat /\ task.left \in Nat
           /\ task.seen \subseteq Objs /\ task.item \subseteq Objs
           /\ task.pc \in Reading => task.n \in Attempts
           /\ task.pc = "list" => task.n + 1 \in Attempts
<1>1. /\ task \in Task /\ task.n \in Nat /\ task.left \in Nat
      /\ task.seen \subseteq Objs /\ task.item \subseteq Objs
  BY DEF RelistInv, TypeOK, Task
<1>2. /\ relists \in 0..MaxRelists /\ relists * MaxAttempts \in Nat
  BY RelistAssumption DEF RelistInv, TypeOK
<1>3. ASSUME task.pc \in Reading PROVE task.n \in Attempts
  <2>1. task.n # 0 /\ task.n <= relists * MaxAttempts
    BY <1>1, <1>2, <1>3 DEF RelistInv, Counted, Reading
  <2> QED
    BY <1>1, <1>2, <2>1, AttemptNumber
<1>4. ASSUME task.pc = "list" PROVE task.n + 1 \in Attempts
  <2>1. task.n + 1 <= relists * MaxAttempts /\ task.n + 1 \in Nat \ {0}
    BY <1>1, <1>2, <1>4 DEF RelistInv, Counted
  <2> QED
    BY <1>2, <2>1, AttemptNumber
<1> QED
  BY <1>1, <1>3, <1>4

\* A step that leaves the listers and the channels alone.
LEMMA TaskFrame ==
    ASSUME RelistInv, UNCHANGED <<life, closing, lister, ch>>,
           task' \in Task, task'.n = task.n, relists' \in 0..MaxRelists,
           sent' \in [Objs -> Nat], kept' \subseteq Objs
    PROVE  /\ TypeOK'
           /\ \A n \in Attempts :
                 ListerSound(n)' /\ ChannelSound(n)' /\ Unused(n)'
<1>1. TypeOK'
  BY DEF RelistInv, TypeOK
<1>2. ASSUME NEW n \in Attempts
      PROVE  ListerSound(n)' /\ ChannelSound(n)' /\ Unused(n)'
  BY DEF RelistInv, ListerSound, ChannelSound, Unused
<1> QED
  BY <1>1, <1>2

\* What Retry makes of an attempt that failed.
LEMMA FailResult ==
    ASSUME RelistInv, NEW e, AttemptFails(e)
    PROVE  /\ task' \in Task /\ task'.n = task.n /\ task'.left = task.left
           /\ task'.seen = task.seen /\ task'.item = {}
           /\ \/ task'.pc = "wait" /\ task'.res = "failed"
              \/ /\ task'.pc = "check" /\ task'.res = task.res
                 /\ task.left # 0 /\ ~Done
<1>1. task \in Task
  BY CurrentAttempt
<1>2. CASE task' = [task EXCEPT !.pc = "wait", !.item = {}, !.res = "failed"]
  BY <1>1, <1>2 DEF Task
<1>3. CASE /\ task' = [task EXCEPT !.pc = "check", !.item = {}]
           /\ task.left # 0 /\ ~Done
  BY <1>1, <1>3 DEF Task
<1> QED
  BY <1>2, <1>3 DEF AttemptFails

\* An attempt fails, its object in hand being given up only with the relist.
LEMMA FailStep ==
    ASSUME RelistInv, NEW e, AttemptFails(e),
           task.pc \notin {"wait", "stopped"}, task.pc = "put" => Done,
           UNCHANGED <<life, closing, lister, relists, sent, kept>>
    PROVE  /\ Counted' /\ ItemSound' /\ (\A o \in Objs : SentSound(o)')
           /\ AllAccounted' /\ CompleteWhenOk'
<1>0. /\ task.n \in Nat /\ task.left \in Nat /\ relists * MaxAttempts \in Nat
      /\ task.res = "none"
  BY CurrentAttempt, RelistAssumption DEF RelistInv, TypeOK, AllAccounted
<1>1. /\ task'.n = task.n /\ task'.left = task.left
      /\ task'.seen = task.seen /\ task'.item = {}
      /\ \/ task'.pc = "wait" /\ task'.res = "failed"
         \/ /\ task'.pc = "check" /\ task'.res = task.res
            /\ task.left # 0 /\ ~Done
  BY FailResult
<1>2. Counted'
  <2>1. task.n + task.left <= relists * MaxAttempts
    BY <1>0 DEF RelistInv, Counted
  <2> QED
    BY <1>0, <1>1, <2>1 DEF Counted, Reading
<1>3. ItemSound'
  BY <1>1 DEF ItemSound
<1>4. ASSUME NEW o \in Objs PROVE SentSound(o)'
  <2>1. task.pc # "put" => task.item = {}
    BY DEF RelistInv, ItemSound
  <2> QED
    BY <1>1, <2>1 DEF RelistInv, SentSound
<1>5. AllAccounted' /\ CompleteWhenOk'
  BY <1>0, <1>1 DEF RelistInv, AllAccounted, CompleteWhenOk, Live, Reading
<1> QED
  BY <1>2, <1>3, <1>4, <1>5

\* The relist begins.
LEMMA TickStep == ASSUME RelistInv, Tick PROVE RelistInv'
<1>0. /\ task \in Task /\ task.n \in Nat /\ task.left \in Nat
      /\ MaxAttempts \in Nat \ {0} /\ MaxRelists \in Nat
      /\ relists \in 0..MaxRelists
  BY CurrentAttempt, RelistAssumption DEF RelistInv, TypeOK
<1>1. /\ task' \in Task /\ task'.n = task.n /\ task'.left = MaxAttempts
      /\ task'.pc = "check" /\ task'.seen = {} /\ task'.item = task.item
      /\ task'.res = "none"
  BY <1>0 DEF Tick, Task
<1>2. /\ relists' = relists + 1 /\ relists' \in 0..MaxRelists
      /\ kept' = Live /\ Live' = Live
      /\ sent' = [o \in Objs |-> 0] /\ task.pc = "wait"
      /\ UNCHANGED <<life, closing, lister, ch>>
  BY <1>0 DEF Tick, Live
<1>3. TypeOK' /\ \A n \in Attempts :
                    ListerSound(n)' /\ ChannelSound(n)' /\ Unused(n)'
  <2>1. kept' \subseteq Objs /\ sent' \in [Objs -> Nat]
    BY <1>2 DEF Live
  <2> QED
    BY <1>1, <1>2, <2>1, TaskFrame
<1>4. Counted'
  <2>1. (relists + 1) * MaxAttempts = relists * MaxAttempts + MaxAttempts
        /\ relists * MaxAttempts \in Nat
    BY <1>0
  <2>2. task.n <= relists * MaxAttempts
    BY <1>0, <1>2, <2>1 DEF RelistInv, Counted
  <2> QED
    BY <1>0, <1>1, <1>2, <2>1, <2>2 DEF Counted, Reading
<1>5. ItemSound' /\ (\A o \in Objs : SentSound(o)')
  BY <1>1, <1>2 DEF RelistInv, ItemSound, SentSound
<1>6. AllAccounted' /\ CompleteWhenOk' /\ StaleListerHarmless'
  BY <1>1, <1>2 DEF RelistInv, AllAccounted, CompleteWhenOk, Reading,
                    StaleListerHarmless, Done
<1> QED
  BY <1>3, <1>4, <1>5, <1>6 DEF RelistInv

\* It is stopped.
LEMMA StopStep == ASSUME RelistInv, StopTask PROVE RelistInv'
<1>0. /\ task \in Task /\ task.n \in Nat /\ task.left \in Nat
      /\ relists * MaxAttempts \in Nat
  BY CurrentAttempt, RelistAssumption DEF RelistInv, TypeOK
<1>1. /\ task' \in Task /\ task'.n = task.n /\ task'.left = task.left
      /\ task'.pc = "stopped" /\ task'.seen = task.seen
      /\ task'.item = task.item /\ task'.res = task.res /\ task.pc = "wait"
  BY <1>0 DEF StopTask, Task
<1>2. UNCHANGED <<life, closing, lister, ch, relists, sent, kept>>
  BY DEF StopTask
<1>3. TypeOK' /\ \A n \in Attempts :
                    ListerSound(n)' /\ ChannelSound(n)' /\ Unused(n)'
  BY <1>1, <1>2, TaskFrame DEF RelistInv, TypeOK
<1>4. Counted' /\ ItemSound' /\ (\A o \in Objs : SentSound(o)')
  BY <1>0, <1>1, <1>2 DEF RelistInv, Counted, ItemSound, SentSound, Reading
<1>5. AllAccounted' /\ CompleteWhenOk' /\ StaleListerHarmless'
  BY <1>1, <1>2 DEF RelistInv, AllAccounted, CompleteWhenOk, Reading, Live,
                    StaleListerHarmless, Done
<1> QED
  BY <1>3, <1>4, <1>5 DEF RelistInv

\* An attempt looks at its context first.
LEMMA CheckStep == ASSUME RelistInv, Check PROVE RelistInv'
<1>0. /\ task \in Task /\ task.n \in Nat /\ task.left \in Nat
      /\ relists * MaxAttempts \in Nat /\ task.pc = "check"
  BY CurrentAttempt, RelistAssumption DEF RelistInv, TypeOK, Check
<1>1. UNCHANGED <<life, closing, lister, ch, relists, sent, kept>>
  BY DEF Check
<1>2. CASE Done
  <2>1. AttemptFails("retryable")
    BY <1>2 DEF Check
  <2>2. TypeOK' /\ \A n \in Attempts :
                      ListerSound(n)' /\ ChannelSound(n)' /\ Unused(n)'
    BY <1>1, <2>1, FailResult, TaskFrame DEF RelistInv, TypeOK
  <2>3. /\ Counted' /\ ItemSound' /\ (\A o \in Objs : SentSound(o)')
        /\ AllAccounted' /\ CompleteWhenOk'
    BY <1>0, <1>1, <2>1, FailStep
  <2>4. StaleListerHarmless'
    BY <1>1, <1>2 DEF StaleListerHarmless, Done
  <2> QED
    BY <2>2, <2>3, <2>4 DEF RelistInv
<1>3. CASE ~Done
  <2>0. task.left # 0
    BY <1>0 DEF RelistInv, Counted
  <2>1. /\ task' \in Task /\ task'.n = task.n /\ task'.left = task.left - 1
        /\ task'.pc = "list" /\ task'.seen = task.seen
        /\ task'.item = task.item /\ task'.res = task.res
    <3>1. PICK k \in Nat : k = task.left - 1
      BY <1>0, <2>0
    <3>2. task' = [task EXCEPT !.pc = "list", !.left = k]
      BY <1>3, <3>1 DEF Check
    <3> QED
      BY <1>0, <3>1, <3>2 DEF Task
  <2>2. TypeOK' /\ \A n \in Attempts :
                      ListerSound(n)' /\ ChannelSound(n)' /\ Unused(n)'
    BY <1>1, <2>1, TaskFrame DEF RelistInv, TypeOK
  <2>3. Counted'
    BY <1>0, <1>1, <2>1 DEF RelistInv, Counted, Reading
  <2>4. ItemSound' /\ (\A o \in Objs : SentSound(o)')
    BY <1>0, <1>1, <2>1 DEF RelistInv, ItemSound, SentSound
  <2>5. AllAccounted' /\ CompleteWhenOk' /\ StaleListerHarmless'
    BY <1>0, <1>1, <2>1 DEF RelistInv, AllAccounted, CompleteWhenOk, Reading,
                            Live, StaleListerHarmless, Done
  <2> QED
    BY <2>2, <2>3, <2>4, <2>5 DEF RelistInv
<1> QED
  BY <1>2, <1>3

\* An item is put on the output.
LEMMA PutStep == ASSUME RelistInv, Put PROVE RelistInv'
<1>0. /\ task \in Task /\ task.n \in Nat /\ task.left \in Nat
      /\ relists * MaxAttempts \in Nat /\ task.pc = "put"
      /\ sent \in [Objs -> Nat]
  BY CurrentAttempt, RelistAssumption DEF RelistInv, TypeOK, Put
<1>1. UNCHANGED <<life, closing, lister, ch, relists, kept>>
  BY DEF Put
<1>2. /\ task' \in Task /\ task'.n = task.n /\ task'.left = task.left
      /\ task'.pc = "range" /\ task'.seen = task.seen
      /\ task'.item = {} /\ task'.res = task.res
  BY <1>0 DEF Put, Task
<1>3. /\ sent' \in [Objs -> Nat]
      /\ \A o \in Objs : sent'[o] = IF o \in task.item THEN sent[o] + 1
                                                        ELSE sent[o]
  BY <1>0 DEF Put
<1>4. TypeOK' /\ \A n \in Attempts :
                    ListerSound(n)' /\ ChannelSound(n)' /\ Unused(n)'
  BY <1>1, <1>2, <1>3, TaskFrame DEF RelistInv, TypeOK
<1>5. Counted'
  BY <1>0, <1>1, <1>2 DEF RelistInv, Counted, Reading
<1>6. ItemSound'
  BY <1>2 DEF ItemSound
<1>7. ASSUME NEW o \in Objs PROVE SentSound(o)'
  <2>1. SentSound(o) /\ task.item \subseteq task.seen
    BY DEF RelistInv, ItemSound
  <2> QED
    BY <1>0, <1>2, <1>3, <2>1 DEF SentSound
<1>8. AllAccounted'
  BY <1>0, <1>1, <1>2 DEF RelistInv, AllAccounted, Reading, Live, Done, Owed
<1>9. CompleteWhenOk' /\ StaleListerHarmless'
  BY <1>0, <1>1, <1>2 DEF RelistInv, AllAccounted, CompleteWhenOk,
                          StaleListerHarmless, Done
<1> QED
  BY <1>4, <1>5, <1>6, <1>7, <1>8, <1>9 DEF RelistInv

\* Or it is not, as the Reader is closing.
LEMMA PutCancelledStep == ASSUME RelistInv, PutCancelled PROVE RelistInv'
<1>1. /\ UNCHANGED <<life, closing, lister, ch, relists, sent, kept>>
      /\ AttemptFails("retryable") /\ Done /\ task.pc = "put"
  BY DEF PutCancelled
<1>2. TypeOK' /\ \A n \in Attempts :
                    ListerSound(n)' /\ ChannelSound(n)' /\ Unused(n)'
  BY <1>1, FailResult, TaskFrame DEF RelistInv, TypeOK
<1>3. /\ Counted' /\ ItemSound' /\ (\A o \in Objs : SentSound(o)')
      /\ AllAccounted' /\ CompleteWhenOk'
  BY <1>1, FailStep
<1>4. StaleListerHarmless'
  BY <1>1 DEF StaleListerHarmless, Done
<1> QED
  BY <1>2, <1>3, <1>4 DEF RelistInv

\* All items of an attempt have been read.
LEMMA RangeEndsStep == ASSUME RelistInv, RangeEnds PROVE RelistInv'
<1>0. /\ task \in Task /\ task.n \in Nat /\ task.left \in Nat
      /\ relists * MaxAttempts \in Nat /\ task.pc = "range"
      /\ task.n \in Attempts
      /\ UNCHANGED <<life, closing, lister, ch, relists, sent, kept>>
  BY CurrentAttempt, RelistAssumption
     DEF RelistInv, TypeOK, RangeEnds, Reading
<1>1. CASE Done
  <2>1. AttemptFails("retryable")
    BY <1>1 DEF RangeEnds
  <2>2. TypeOK' /\ \A n \in Attempts :
                      ListerSound(n)' /\ ChannelSound(n)' /\ Unused(n)'
    BY <1>0, <2>1, FailResult, TaskFrame DEF RelistInv, TypeOK
  <2>3. /\ Counted' /\ ItemSound' /\ (\A o \in Objs : SentSound(o)')
        /\ AllAccounted' /\ CompleteWhenOk'
    BY <1>0, <2>1, FailStep
  <2>4. StaleListerHarmless'
    BY <1>0, <1>1 DEF StaleListerHarmless, Done
  <2> QED
    BY <2>2, <2>3, <2>4 DEF RelistInv
<1>2. CASE ~Done
  <2>1. /\ task' \in Task /\ task'.n = task.n /\ task'.left = task.left
        /\ task'.pc = "wait" /\ task'.seen = task.seen
        /\ task'.item = task.item /\ task'.res = "ok" /\ task.item = {}
    BY <1>0, <1>2 DEF RangeEnds, Task, RelistInv, ItemSound
  <2>2. TypeOK' /\ \A n \in Attempts :
                      ListerSound(n)' /\ ChannelSound(n)' /\ Unused(n)'
    BY <1>0, <2>1, TaskFrame DEF RelistInv, TypeOK
  <2>3. Counted' /\ ItemSound' /\ (\A o \in Objs : SentSound(o)')
    BY <1>0, <2>1 DEF RelistInv, Counted, ItemSound, SentSound, Reading
  <2>4. lister[task.n].pc = "ended" /\ ch[task.n].buf = <<>>
    BY <1>0 DEF RelistInv, ChannelSound, RangeEnds
  <2>5. \A o \in kept : o \in Objs /\ o \in task.seen
    BY <1>0, <1>2, <2>4
       DEF RelistInv, TypeOK, AllAccounted, Reading, Owed
  <2>6. CompleteWhenOk'
    BY <1>0, <2>1, <2>5 DEF RelistInv, SentSound, CompleteWhenOk
  <2>7. AllAccounted'
    BY <1>0, <2>1 DEF RelistInv, AllAccounted, Reading, Live
  <2>8. StaleListerHarmless'
    BY <1>0, <2>4 DEF RelistInv, StaleListerHarmless, Running, Done
  <2> QED
    BY <2>2, <2>3, <2>6, <2>7, <2>8 DEF RelistInv
<1> QED
  BY <1>1, <1>2

\* An attempt starts its lister.
LEMMA ListStep == ASSUME RelistInv, List PROVE RelistInv'
<1> DEFINE n == task.n + 1
<1>0. /\ task \in Task /\ task.n \in Nat /\ task.left \in Nat
      /\ relists * MaxAttempts \in Nat /\ task.pc = "list"
      /\ n \in Attempts /\ n > task.n /\ n \in Nat
      /\ lister \in [Attempts -> Lister] /\ ch \in Channels
      /\ Listers \in Nat \ {0} /\ ListerOf \in [Objs -> 1..Listers]
  BY CurrentAttempt, RelistAssumption, SMTT(30) DEF RelistInv, TypeOK, List, Channels
<1>1. UNCHANGED <<life, closing, relists, sent, kept>>
  BY DEF List
<1>2. /\ task' \in Task /\ task'.n = n /\ task'.left = task.left
      /\ task'.pc = "range" /\ task'.seen = task.seen
      /\ task'.item = task.item /\ task'.res = task.res
  <2>1. PICK k : k = n
    OBVIOUS
  <2>2. task' = [task EXCEPT !.pc = "range", !.n = k]
    BY <2>1 DEF List
  <2> QED
    BY <1>0, <2>1, <2>2 DEF Task
<1>3. /\ lister[n] = None /\ ch[n] = [buf |-> <<>>, closed |-> FALSE]
  BY <1>0 DEF RelistInv, Unused
<1>4. \/ /\ lister' = [lister EXCEPT ![n] = [None EXCEPT !.pc = "request"]]
         /\ ch' = ch
      \/ /\ lister' = [lister EXCEPT ![n] = [None EXCEPT !.pc = "ended"]]
         /\ ch' = [ch EXCEPT ![n] = [buf |-> <<Failure("retryable")>>,
                                     closed |-> TRUE]]
         /\ Done
  BY DEF List
<1>5. PICK l \in Lister, c \in [buf : Seq(Response), closed : BOOLEAN] :
        /\ lister' = [lister EXCEPT ![n] = l]
        /\ ch' = [ch EXCEPT ![n] = c]
        /\ l.at = 1 /\ l.page = {} /\ Len(c.buf) <= 1
        /\ \/ l.pc = "request" /\ l.first /\ c.buf = <<>> /\ ~c.closed
           \/ l.pc = "ended" /\ c.buf = <<Failure("retryable")>> /\ Done
  <2>1. CASE /\ lister' = [lister EXCEPT ![n] = [None EXCEPT !.pc = "request"]]
             /\ ch' = ch
    <3>1. PICK l : l = [None EXCEPT !.pc = "request"]
      OBVIOUS
    <3>2. /\ l \in Lister /\ l.at = 1 /\ l.page = {} /\ l.pc = "request"
          /\ l.first
      BY <3>1 DEF None, Lister, Errors
    <3>3. ch[n] \in [buf : Seq(Response), closed : BOOLEAN]
          /\ ch[n].buf = <<>> /\ ~ch[n].closed /\ Len(ch[n].buf) <= 1
      BY <1>0, <1>3 DEF Channels
    <3>4. ch' = [ch EXCEPT ![n] = ch[n]]
      BY <1>0, <2>1 DEF Channels
    <3> QED
      BY <2>1, <3>1, <3>2, <3>3, <3>4
  <2>2. CASE /\ lister' = [lister EXCEPT ![n] = [None EXCEPT !.pc = "ended"]]
             /\ ch' = [ch EXCEPT ![n] = [buf |-> <<Failure("retryable")>>,
                                         closed |-> TRUE]]
             /\ Done
    <3>1. PICK l : l = [None EXCEPT !.pc = "ended"]
      OBVIOUS
    <3>2. /\ l \in Lister /\ l.at = 1 /\ l.page = {} /\ l.pc = "ended"
      BY <3>1 DEF None, Lister, Errors
    <3>3. PICK v \in Response : v = Failure("retryable")
      BY ResponseType DEF Errors
    <3>4. PICK c : c = [buf |-> <<v>>, closed |-> TRUE]
      OBVIOUS
    <3>5. /\ c \in [buf : Seq(Response), closed : BOOLEAN]
          /\ c.buf = <<v>> /\ Len(c.buf) <= 1
      BY <3>4
    <3> QED
      BY <2>2, <3>1, <3>2, <3>3, <3>4, <3>5
  <2> QED
    BY <1>4, <2>1, <2>2
<1>6. /\ lister' \in [Attempts -> Lister] /\ lister'[n] = l
      /\ ch' \in Channels /\ ch'[n] = c
      /\ \A m \in Attempts : m # n => lister'[m] = lister[m] /\ ch'[m] = ch[m]
  BY <1>0, <1>5 DEF Channels
<1>7. TypeOK'
  BY <1>1, <1>2, <1>5, <1>6 DEF RelistInv, TypeOK, Channels
<1>8. ASSUME NEW m \in Attempts
      PROVE  ListerSound(m)' /\ ChannelSound(m)' /\ Unused(m)'
  <2>1. ListerSound(m) /\ ChannelSound(m) /\ Unused(m) /\ m \in Nat
    BY RelistAssumption DEF RelistInv, Attempts
  <2>2. CASE m # n
    <3>1. lister'[m] = lister[m] /\ ch'[m] = ch[m]
      BY <1>6, <2>2
    <3>2. m > task'.n => m > task.n
      BY <1>0, <1>2, <2>1
    <3> QED
      BY <2>1, <3>1, <3>2 DEF ListerSound, ChannelSound, Unused
  <2>3. CASE m = n
    <3>1. lister'[m] = l /\ ch'[m] = c
      BY <1>6, <2>3
    <3>2. ListerSound(m)'
      BY <1>0, <1>5, <3>1 DEF ListerSound
    <3>3. ChannelSound(m)'
      BY <1>5, <3>1 DEF ChannelSound, Errors
    <3>4. Unused(m)'
      BY <1>0, <1>2, <2>3 DEF Unused
    <3> QED
      BY <3>2, <3>3, <3>4
  <2> QED
    BY <2>2, <2>3
<1>9. Counted' /\ ItemSound' /\ (\A o \in Objs : SentSound(o)')
  BY <1>0, <1>1, <1>2 DEF RelistInv, Counted, ItemSound, SentSound, Reading
<1>10. AllAccounted'
  <2>1. ASSUME NEW o \in kept, ~Done PROVE Owed(task.n, o)'
    <3>1. /\ lister'[n].pc = "request" /\ lister'[n].at = 1 /\ lister'[n].first
      BY <1>5, <1>6, <2>1
    <3>2. ListerOf[o] \in 1..Listers
      BY <1>0, <2>1 DEF RelistInv, TypeOK
    <3> QED
      BY <1>2, <3>1, <3>2 DEF Owed
  <2> QED
    BY <1>0, <1>1, <1>2, <2>1 DEF RelistInv, AllAccounted, Live, Done, Owed
<1>11. CompleteWhenOk' /\ StaleListerHarmless'
  <2>1. CompleteWhenOk'
    BY <1>0, <1>1, <1>2 DEF RelistInv, AllAccounted, CompleteWhenOk
  <2>2. ASSUME NEW m \in Attempts, m # n, lister'[m].pc \in Running \ {"close"}
        PROVE  Done
    BY <1>0, <1>6, <2>2 DEF RelistInv, StaleListerHarmless
  <2> QED
    BY <1>1, <1>2, <2>1, <2>2 DEF StaleListerHarmless, Done
<1> QED
  BY <1>7, <1>8, <1>9, <1>10, <1>11 DEF RelistInv

\* The attempt reads an item of its lister's channel.
LEMMA ReceiveStep == ASSUME RelistInv, Receive PROVE RelistInv'
<1> DEFINE n == task.n
<1>0. /\ task \in Task /\ n \in Nat /\ task.left \in Nat
      /\ task.seen \subseteq Objs
      /\ relists * MaxAttempts \in Nat /\ task.pc = "range"
      /\ n \in Attempts /\ lister \in [Attempts -> Lister] /\ ch \in Channels
      /\ UNCHANGED <<life, closing, lister, relists, sent, kept>>
  BY CurrentAttempt, RelistAssumption
     DEF RelistInv, TypeOK, Receive, Reading, Channels
<1>1. PICK v \in Response :
        /\ ch[n].buf = <<v>>
        /\ \/ \E o \in Objs : v = Value(o)
           \/ /\ \E e \in Errors \ {"none"} : v = Failure(e)
              /\ lister[n].pc \in {"close", "ended"}
  BY <1>0, ResponseType DEF RelistInv, ChannelSound, Receive
<1>2. /\ ch' \in Channels /\ ch'[n].buf = <<>> /\ ch'[n].closed = ch[n].closed
      /\ \A m \in Attempts : m # n => ch'[m] = ch[m]
  <2>1. Tail(<<v>>) = <<>> /\ Tail(<<v>>) \in Seq(Response)
    OBVIOUS
  <2>2. PICK c : c = [ch[n] EXCEPT !.buf = Tail(@)]
    OBVIOUS
  <2>3. ch' = [ch EXCEPT ![n] = c]
    BY <2>2 DEF Receive
  <2>4. /\ c \in [buf : Seq(Response), closed : BOOLEAN]
        /\ c.buf = <<>> /\ c.closed = ch[n].closed
    BY <1>0, <1>1, <2>1, <2>2 DEF Channels
  <2> QED
    BY <1>0, <2>3, <2>4 DEF Channels
<1>3. Head(<<v>>) = v /\ <<v>> # <<>>
  OBVIOUS
<1>4. IF v.err # "none" THEN AttemptFails(v.err)
      ELSE task' = IF v.obj \subseteq task.seen THEN task
                   ELSE [task EXCEPT !.pc = "put", !.item = v.obj,
                                     !.seen = @ \cup v.obj]
  BY <1>1, <1>3 DEF Receive
<1>5. ASSUME task' \in Task, task'.n = n
      PROVE  /\ TypeOK'
             /\ \A m \in Attempts :
                   ListerSound(m)' /\ ChannelSound(m)' /\ Unused(m)'
  <2>1. ASSUME NEW m \in Attempts PROVE Len(ch'[m].buf) <= 1
    <3>1. Len(ch[m].buf) <= 1 /\ Len(<<>>) <= 1
      BY DEF RelistInv, TypeOK
    <3> QED
      BY <1>2, <3>1
  <2>2. TypeOK'
    BY <1>0, <1>2, <1>5, <2>1 DEF RelistInv, TypeOK, Channels
  <2>3. ASSUME NEW m \in Attempts
        PROVE  ListerSound(m)' /\ ChannelSound(m)' /\ Unused(m)'
    <3>1. ListerSound(m) /\ ChannelSound(m) /\ Unused(m)
      BY DEF RelistInv
    <3>2. ListerSound(m)'
      BY <1>0, <3>1 DEF ListerSound
    <3>3. ChannelSound(m)'
      BY <1>0, <1>2, <3>1 DEF ChannelSound
    <3>4. Unused(m)'
      BY <1>0, <1>2, <1>5, <3>1 DEF Unused
    <3> QED
      BY <3>2, <3>3, <3>4
  <2> QED
    BY <2>2, <2>3
<1>6. CASE \E e \in Errors \ {"none"} : v = Failure(e)
  <2>1. AttemptFails(v.err)
    BY <1>4, <1>6, ResponseType
  <2>2. lister[n].pc \in {"close", "ended"}
    BY <1>1, <1>6, ResponseType
  <2>3. task' \in Task /\ task'.n = n
    BY <2>1, FailResult
  <2>4. /\ Counted' /\ ItemSound' /\ (\A o \in Objs : SentSound(o)')
        /\ AllAccounted' /\ CompleteWhenOk'
    BY <1>0, <2>1, FailStep
  <2>5. StaleListerHarmless'
    BY <1>0, <2>2 DEF RelistInv, StaleListerHarmless, Running, Done
  <2> QED
    BY <1>5, <2>3, <2>4, <2>5 DEF RelistInv
<1>7. CASE \E o \in Objs : v = Value(o)
  <2>1. PICK o \in Objs : v = Value(o) /\ v.err = "none" /\ v.obj = {o}
    BY <1>7, ResponseType
  <2>a. task.item = {} /\ task.res = "none"
    BY <1>0 DEF RelistInv, ItemSound, AllAccounted
  <2>2. /\ task' \in Task /\ task'.n = n /\ task'.left = task.left
        /\ task'.res = task.res
        /\ task'.seen = task.seen \cup {o}
        /\ \/ task'.pc = "range" /\ task'.item = {} /\ o \in task.seen
           \/ task'.pc = "put" /\ task'.item = {o} /\ o \notin task.seen
    <3>1. CASE o \in task.seen
      <4>1. task' = task
        BY <1>4, <2>1, <3>1
      <4> QED
        BY <1>0, <2>a, <3>1, <4>1
    <3>2. CASE o \notin task.seen
      <4>1. task' = [task EXCEPT !.pc = "put", !.item = {o},
                                 !.seen = task.seen \cup {o}]
        BY <1>4, <2>1, <3>2
      <4>2. task.seen \cup {o} \subseteq Objs
        BY <1>0
      <4> QED
        BY <1>0, <3>2, <4>1, <4>2 DEF Task
    <3> QED
      BY <3>1, <3>2
  <2>3. Counted'
    BY <1>0, <2>2 DEF RelistInv, Counted, Reading
  <2>4. ItemSound'
    BY <2>2 DEF ItemSound
  <2>5. ASSUME NEW q \in Objs PROVE SentSound(q)'
    BY <1>0, <2>a, <2>2 DEF RelistInv, SentSound
  <2>6. ASSUME NEW q \in kept, ~Done, q \notin task'.seen
        PROVE  Owed(n, q)'
    <3>1. Owed(n, q) /\ q # o /\ q \in Objs
      BY <1>0, <2>2, <2>6 DEF RelistInv, TypeOK, AllAccounted, Reading
    <3>2. ch[n].buf # <<Value(q)>>
      BY <1>1, <2>1, <3>1, ResponseType
    <3>3. \A e \in Errors \ {"none"} : ch[n].buf # <<Failure(e)>>
      BY <1>1, <2>1, ResponseType
    <3> QED
      BY <1>0, <2>2, <3>1, <3>2, <3>3 DEF Owed
  <2>7. AllAccounted'
    <3>1. \A q \in kept' : Done' \/ q \in task'.seen \/ Owed(task.n, q)'
      BY <1>0, <2>2, <2>6 DEF Done
    <3> QED
      BY <1>0, <2>a, <2>2, <3>1 DEF RelistInv, AllAccounted, Live
  <2>8. CompleteWhenOk' /\ StaleListerHarmless'
    BY <1>0, <2>a, <2>2 DEF RelistInv, CompleteWhenOk, StaleListerHarmless, Done
  <2> QED
    BY <1>5, <2>2, <2>3, <2>4, <2>5, <2>7, <2>8 DEF RelistInv
<1> QED
  BY <1>1, <1>6, <1>7

-----------------------------------------------------------------------------
(* The theorems.                                                           *)

\* Every action keeps RelistInv.
LEMMA RelistStep == RelistInv /\ [Next]_vars => RelistInv'
<1> SUFFICES ASSUME RelistInv, [Next]_vars PROVE RelistInv'
  OBVIOUS
<1>1. CASE ServerNext \/ Close \/ CancelWatches
  BY <1>1, AroundStep
<1>2. CASE TaskNext
  BY <1>2, TickStep, StopStep, CheckStep, ListStep, ReceiveStep, PutStep,
     PutCancelledStep, RangeEndsStep DEF TaskNext
<1>3. CASE \E n \in Attempts : ListerNext(n)
  BY <1>3, ListerStep
<1>4. CASE UNCHANGED vars
  BY <1>4 DEF vars, RelistInv, TypeOK, Counted, ListerSound, ChannelSound,
              Unused, ItemSound, SentSound, AllAccounted, Owed, Live, Done,
              CompleteWhenOk, StaleListerHarmless
<1> QED
  BY <1>1, <1>2, <1>3, <1>4 DEF Next

\* RelistInv holds at first.
LEMMA RelistInit == Init => RelistInv
<1> SUFFICES ASSUME Init PROVE RelistInv
  OBVIOUS
<1>1. /\ Listers \in Nat \ {0} /\ MaxAttempts \in Nat \ {0}
      /\ MaxRelists \in Nat /\ 0 * MaxAttempts = 0
  BY RelistAssumption
<1>2. TypeOK
  BY <1>1, NoneType DEF Init, TypeOK, Task
<1>3. Counted /\ ItemSound /\ (\A o \in Objs : SentSound(o))
  BY <1>1 DEF Init, Counted, ItemSound, SentSound, Reading
<1>4. \A n \in Attempts : ListerSound(n) /\ ChannelSound(n) /\ Unused(n)
  BY <1>1, NoneType DEF Init, ListerSound, ChannelSound, Unused
<1>5. AllAccounted /\ CompleteWhenOk /\ StaleListerHarmless
  BY NoneType DEF Init, AllAccounted, CompleteWhenOk, StaleListerHarmless,
                  Reading, Running
<1> QED
  BY <1>2, <1>3, <1>4, <1>5 DEF RelistInv

\* In every reachable state the relist task, its listers and the channels
\* between them agree on what is listed, under way, seen and sent.
THEOREM RelistInvCorrect == Spec => []RelistInv
BY RelistInit, RelistStep, PTL DEF Spec

\* Every variable has its type, and no channel holds more than one value.
THEOREM RelistTypeCorrect == Spec => []TypeOK
<1>1. RelistInv => TypeOK
  BY DEF RelistInv
<1> QED
  BY <1>1, RelistInvCorrect, PTL

\* However many attempts a relist takes and however they overlap, it puts no
\* object on the output twice.
THEOREM SentOnceCorrect == Spec => []SentOnce
<1>1. RelistInv => SentOnce
  BY DEF RelistInv, SentSound, SentOnce
<1> QED
  BY <1>1, RelistInvCorrect, PTL

\* A relist that reports success has sent every object that existed throughout
\* it, across pages, listers and attempts.
THEOREM CompleteWhenOkCorrect == Spec => []CompleteWhenOk
<1>1. RelistInv => CompleteWhenOk
  BY DEF RelistInv
<1> QED
  BY <1>1, RelistInvCorrect, PTL

\* Only the attempt that is read has a lister at work, unless ctx is done.
THEOREM StaleListerHarmlessCorrect == Spec => []StaleListerHarmless
<1>1. RelistInv => StaleListerHarmless
  BY DEF RelistInv
<1> QED
  BY <1>1, RelistInvCorrect, PTL

=============================================================================

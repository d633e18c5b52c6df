------------------------------ MODULE EntryProofs ------------------------------
(*****************************************************************************)
(* The proofs of what holds without silent workers and without CancelJob,    *)
(* whatever else fails: a job has at most one entry in Redis, and the        *)
(* handler that has popped it is the only one that has the job.  The entry   *)
(* is a token (Token): the list lemmas say what LREM, LPUSH, BRPOPLPUSH and  *)
(* the promoter do to lists without repetitions; TokenRelease, TokenPop,     *)
(* TokenRelay, TokenPromote and TokenBoot what each of the programs does to  *)
(* the token.  From it follow Exclusive, OneEntry, RequeueOnlyOwn and        *)
(* LostOnlyTorn, and NothingLost while neither the server nor Redis fails.   *)
(*****************************************************************************)
EXTENDS JobTypeProofs

\* LREM takes one entry of a list without repetitions, and no other.
LEMMA RemoveFirstDistinct ==
    ASSUME NEW S, NEW q \in Seq(S), NEW e, IsInjective(q)
    PROVE  /\ IsInjective(RemoveFirst(q, e))
           /\ ToSet(RemoveFirst(q, e)) = ToSet(q) \ {e}
<1>1. CASE \E i \in 1..Len(q) : q[i] = e
  <2> DEFINE I == {i \in 1..Len(q) : q[i] = e}
             m == Min(I)
             r == SubSeq(q, 1, m - 1) \o SubSeq(q, m + 1, Len(q))
  <2>1. I # {} /\ I \in SUBSET Nat
    BY <1>1
  <2>2. m \in 1..Len(q) /\ q[m] = e
    <3>1. m \in I
      <4> HIDE DEF I
      <4> QED BY <2>1, SmallestIndex
    <3> QED BY <3>1
  <2>3. RemoveFirst(q, e) = r
    BY <1>1, <2>1 DEF RemoveFirst, RemoveAt, SelectInSeq
  <2> HIDE DEF m
  <2>4. /\ r \in Seq(S)
        /\ Len(r) = Len(q) - 1
        /\ \A i \in 1..Len(r) : r[i] = IF i < m THEN q[i] ELSE q[i + 1]
    <3> DEFINE u == SubSeq(q, 1, m - 1)
               v == SubSeq(q, m + 1, Len(q))
    <3>1. /\ u \in Seq(S) /\ Len(u) = m - 1
          /\ \A i \in 1..(m - 1) : u[i] = q[i]
      BY <2>2
    <3>2. /\ v \in Seq(S) /\ Len(v) = Len(q) - m
          /\ \A i \in 1..(Len(q) - m) : v[i] = q[m + i]
      BY <2>2
    <3> HIDE DEF u, v
    <3>3. /\ r = u \o v
          /\ r \in Seq(S) /\ Len(r) = Len(u) + Len(v)
          /\ \A i \in 1..(Len(u) + Len(v)) :
                r[i] = IF i <= Len(u) THEN u[i] ELSE v[i - Len(u)]
      BY <3>1, <3>2, ConcatProperties DEF u, v
    <3> HIDE DEF r
    <3>4. Len(r) = Len(q) - 1
      BY <2>2, <3>1, <3>2, <3>3
    <3>5. ASSUME NEW i \in 1..Len(r)
          PROVE  r[i] = IF i < m THEN q[i] ELSE q[i + 1]
      <4>1. CASE i < m
        BY <4>1, <2>2, <3>1, <3>2, <3>3
      <4>2. CASE i >= m
        <5>1. i - Len(u) \in 1..(Len(q) - m) /\ m + (i - Len(u)) = i + 1
          BY <4>2, <2>2, <3>1, <3>4
        <5> QED BY <5>1, <4>2, <2>2, <3>1, <3>2, <3>3
      <4> QED BY <4>1, <4>2, <2>2, <3>4
    <3> QED BY <3>3, <3>4, <3>5
  <2>5. DOMAIN r = 1..Len(r) /\ DOMAIN q = 1..Len(q) /\ Len(q) \in Nat
    BY <2>4
  <2> HIDE DEF r
  <2>6. IsInjective(r)
    <3> SUFFICES ASSUME NEW i \in 1..Len(r), NEW k \in 1..Len(r), r[i] = r[k]
                 PROVE  i = k
      BY <2>5 DEF IsInjective
    <3>1. PICK a \in 1..Len(q) : r[i] = q[a] /\ a = IF i < m THEN i ELSE i + 1
      BY <2>2, <2>4, <2>5
    <3>2. PICK b \in 1..Len(q) : r[k] = q[b] /\ b = IF k < m THEN k ELSE k + 1
      BY <2>2, <2>4, <2>5
    <3>3. a = b
      BY <3>1, <3>2, <2>5 DEF IsInjective
    <3> QED BY <3>1, <3>2, <3>3, <2>2, <2>5
  <2>7. ToSet(r) = ToSet(q) \ {e}
    <3>1. ASSUME NEW x \in ToSet(r) PROVE x \in ToSet(q) \ {e}
      <4>1. PICK i \in 1..Len(r) : x = r[i]
        BY <2>5 DEF ToSet
      <4>2. PICK a \in 1..Len(q) : x = q[a] /\ a # m
        BY <4>1, <2>2, <2>4, <2>5
      <4>3. q[a] # q[m]
        BY <4>2, <2>2, <2>5 DEF IsInjective
      <4> QED BY <4>2, <4>3, <2>2, <2>5 DEF ToSet
    <3>2. ASSUME NEW x \in ToSet(q), x # e PROVE x \in ToSet(r)
      <4>1. PICK a \in 1..Len(q) : x = q[a] /\ a # m
        BY <3>2, <2>2, <2>5 DEF ToSet
      <4>2. PICK i \in 1..Len(r) : r[i] = q[a]
        <5>1. CASE a < m
          BY <5>1, <2>2, <2>4, <2>5
        <5>2. CASE a > m
          <6>1. (a - 1) \in 1..Len(r) /\ r[a - 1] = q[a]
            BY <5>2, <2>2, <2>4, <2>5
          <6> QED BY <6>1
        <5> QED BY <5>1, <5>2, <4>1, <2>2
      <4> QED BY <4>1, <4>2, <2>5 DEF ToSet
    <3> QED BY <3>1, <3>2
  <2> QED BY <2>3, <2>6, <2>7
<1>2. CASE ~ \E i \in 1..Len(q) : q[i] = e
  <2>1. RemoveFirst(q, e) = q
    BY <1>2 DEF RemoveFirst
  <2>2. e \notin ToSet(q)
    BY <1>2 DEF ToSet
  <2> QED BY <2>1, <2>2
<1> QED BY <1>1, <1>2

\* A list put before another one of different entries.
LEMMA ConcatDistinct ==
    ASSUME NEW S, NEW p \in Seq(S), NEW q \in Seq(S)
    PROVE  /\ ToSet(p \o q) = ToSet(p) \cup ToSet(q)
           /\ IsInjective(p) /\ IsInjective(q) /\ ToSet(p) \cap ToSet(q) = {}
                 => IsInjective(p \o q)
<1> DEFINE r == p \o q
<1>1. /\ Len(p) \in Nat /\ Len(q) \in Nat
      /\ DOMAIN p = 1..Len(p) /\ DOMAIN q = 1..Len(q)
      /\ DOMAIN r = 1..(Len(p) + Len(q))
      /\ \A i \in 1..(Len(p) + Len(q)) :
            r[i] = IF i <= Len(p) THEN p[i] ELSE q[i - Len(p)]
  OBVIOUS
<1> HIDE DEF r
<1>2. ToSet(r) = ToSet(p) \cup ToSet(q)
  <2>1. ASSUME NEW x \in ToSet(r) PROVE x \in ToSet(p) \cup ToSet(q)
    <3>1. PICK i \in 1..(Len(p) + Len(q)) : x = r[i]
      BY <1>1 DEF ToSet
    <3>2. i <= Len(p) => i \in DOMAIN p /\ x = p[i]
      BY <1>1, <3>1
    <3>3. i > Len(p) => i - Len(p) \in DOMAIN q /\ x = q[i - Len(p)]
      BY <1>1, <3>1
    <3> QED BY <3>1, <3>2, <3>3, <1>1 DEF ToSet
  <2>2. ASSUME NEW x \in ToSet(p) PROVE x \in ToSet(r)
    BY <1>1 DEF ToSet
  <2>3. ASSUME NEW x \in ToSet(q) PROVE x \in ToSet(r)
    <3>1. PICK i \in 1..Len(q) : x = q[i]
      BY <1>1 DEF ToSet
    <3>2. (Len(p) + i) \in DOMAIN r /\ r[Len(p) + i] = x
      BY <1>1, <3>1
    <3> QED BY <3>2 DEF ToSet
  <2> QED BY <2>1, <2>2, <2>3
<1>3. ASSUME IsInjective(p), IsInjective(q), ToSet(p) \cap ToSet(q) = {}
      PROVE  IsInjective(r)
  <2> SUFFICES ASSUME NEW i \in DOMAIN r, NEW k \in DOMAIN r, r[i] = r[k]
               PROVE  i = k
    BY DEF IsInjective
  <2>1. \A a \in DOMAIN p, b \in DOMAIN q : p[a] # q[b]
    BY <1>3 DEF ToSet
  <2>2. CASE i <= Len(p) /\ k <= Len(p)
    BY <2>2, <1>1, <1>3 DEF IsInjective
  <2>3. CASE i > Len(p) /\ k > Len(p)
    <3>1. i - Len(p) \in DOMAIN q /\ k - Len(p) \in DOMAIN q
      BY <2>3, <1>1
    <3>2. i - Len(p) = k - Len(p)
      BY <2>3, <3>1, <1>1, <1>3 DEF IsInjective
    <3> QED BY <3>2, <1>1
  <2>4. CASE i <= Len(p) /\ k > Len(p)
    <3>1. i \in DOMAIN p /\ k - Len(p) \in DOMAIN q
      BY <2>4, <1>1
    <3> QED BY <3>1, <2>1, <2>4, <1>1
  <2>5. CASE i > Len(p) /\ k <= Len(p)
    <3>1. k \in DOMAIN p /\ i - Len(p) \in DOMAIN q
      BY <2>5, <1>1
    <3> QED BY <3>1, <2>1, <2>5, <1>1
  <2> QED BY <2>2, <2>3, <2>4, <2>5, <1>1
<1> QED BY <1>2, <1>3 DEF r

\* One entry put before a list.
LEMMA PushDistinct ==
    ASSUME NEW S, NEW q \in Seq(S), NEW e \in S
    PROVE  /\ ToSet(<<e>> \o q) = ToSet(q) \cup {e}
           /\ IsInjective(q) /\ e \notin ToSet(q) => IsInjective(<<e>> \o q)
<1> DEFINE p == <<e>>
<1>1. p \in Seq(S) /\ DOMAIN p = {1} /\ p[1] = e
  <2>1. DOMAIN p = 1..1 /\ p \in Seq(S) /\ p[1] = e
    OBVIOUS
  <2> QED BY <2>1
<1> HIDE DEF p
<1>2. ToSet(p) = {e} /\ IsInjective(p)
  BY <1>1 DEF ToSet, IsInjective
<1>3. /\ ToSet(p \o q) = ToSet(q) \cup {e}
      /\ IsInjective(q) /\ e \notin ToSet(q) => IsInjective(p \o q)
  <2>1. /\ ToSet(p \o q) = ToSet(p) \cup ToSet(q)
        /\ IsInjective(p) /\ IsInjective(q) /\ ToSet(p) \cap ToSet(q) = {}
              => IsInjective(p \o q)
    BY <1>1, ConcatDistinct
  <2> QED BY <1>2, <2>1
<1> QED BY <1>3 DEF p

\* The right end taken from a list.
LEMMA PopDistinct ==
    ASSUME NEW S, NEW q \in Seq(S), q # <<>>, IsInjective(q)
    PROVE  /\ q[Len(q)] \in ToSet(q)
           /\ IsInjective(SubSeq(q, 1, Len(q) - 1))
           /\ ToSet(SubSeq(q, 1, Len(q) - 1)) = ToSet(q) \ {q[Len(q)]}
<1> DEFINE r == SubSeq(q, 1, Len(q) - 1)
<1>1. /\ Len(q) \in Nat \ {0} /\ DOMAIN q = 1..Len(q)
      /\ DOMAIN r = 1..(Len(q) - 1)
      /\ \A i \in DOMAIN r : r[i] = q[i]
  OBVIOUS
<1> HIDE DEF r
<1>2. IsInjective(r)
  BY <1>1 DEF IsInjective
<1>3. q[Len(q)] \in ToSet(q)
  BY <1>1 DEF ToSet
<1>4. ASSUME NEW x \in ToSet(r) PROVE x \in ToSet(q) \ {q[Len(q)]}
  <2>1. PICK i \in DOMAIN r : x = r[i]
    BY DEF ToSet
  <2>2. x = q[i] /\ i \in DOMAIN q /\ Len(q) \in DOMAIN q /\ i # Len(q)
    BY <2>1, <1>1
  <2>3. q[i] # q[Len(q)]
    BY <2>2 DEF IsInjective
  <2> QED BY <2>2, <2>3 DEF ToSet
<1>5. ASSUME NEW x \in ToSet(q) \ {q[Len(q)]} PROVE x \in ToSet(r)
  <2>1. PICK i \in DOMAIN q : x = q[i] /\ i # Len(q)
    BY DEF ToSet
  <2>2. i \in DOMAIN r /\ r[i] = x
    BY <2>1, <1>1
  <2> QED BY <2>2 DEF ToSet
<1> QED BY <1>2, <1>3, <1>4, <1>5 DEF r

\* The order in which promoteDueJobs pushes the due ids repeats none of them.
LEMMA OrderDistinct ==
    ASSUME NEW D \in SUBSET Jobs, NEW order \in SetToSeqs(D)
    PROVE  ToSet(order) \subseteq D /\ IsInjective(order)
<1>1. order \in [1..Cardinality(D) -> D]
  BY DEF SetToSeqs
<1>2. \A i, k \in 1..Cardinality(D) : i # k => order[i] # order[k]
  BY DEF SetToSeqs
<1> QED BY <1>1, <1>2 DEF ToSet, IsInjective

\* The order in which promoteDueJobs pushes the due ids leaves none of them out.
LEMMA OrderComplete ==
    ASSUME NEW D \in SUBSET Jobs, NEW order \in SetToSeqs(D)
    PROVE  ToSet(order) = D
<1> DEFINE n == Cardinality(D)
           R == ToSet(order)
<1>1. IsFiniteSet(D) /\ n \in Nat
  BY FiniteAssumption, FS_Subset, FS_CardinalityType
<1>2. order \in [1..n -> D] /\ R \subseteq D /\ IsInjective(order)
  BY OrderDistinct DEF SetToSeqs
<1> HIDE DEF n
<1>3. order \in Bijection(1..n, R)
  BY <1>2 DEF Bijection, Injection, Surjection, ToSet
<1>4. Cardinality(R) = n
  <2> HIDE DEF R
  <2> QED BY <1>1, <1>3, FS_CountingElements DEF ExistsBijection
<1> QED BY <1>1, <1>2, <1>4, FS_Subset DEF n

--------------------------------------------------------------------------------
(*****************************************************************************)
(* The environment, and what a handler does to the entry in its hands.       *)
(*****************************************************************************)
\* The environment of these theorems: no 30 s gap between heartbeats, and no
\* CancelJob.
Steady == "stale" \notin FaultKinds /\ Cancellable = {}

\* What a Work handler does to the maps: no entry gets old by it.
LEMMA HandlerLastSeen ==
    ASSUME Core, NEW s \in Sessions, Handler(s),
           \A j \in Jobs : lastSeen[j] # "stale"
    PROVE  \A j \in Jobs : lastSeen'[j] # "stale"
<1>a. ServerTypeOK
  BY DEF Core, TypeOK
<1> USE <1>a DEF memoryVars, ServerTypeOK
<1>1. CASE \/ RecvReady(s) \/ RecvHeartbeat(s) \/ RecvResult(s) \/ Pop(s)
           \/ ConsumeError(s) \/ HGet(s) \/ Drop(s) \/ RequeueDb(s)
           \/ RequeueRedis(s) \/ AckResult(s) \/ RetryResult(s) \/ FailResult(s)
  BY <1>1
     DEF RecvReady, RecvHeartbeat, RecvResult, Pop, ConsumeError, HGet, Drop,
         RequeueDb, RequeueRedis, AckResult, RetryResult, FailResult
<1>2. CASE recordHeartbeat(s) \/ StoreOwner(s)
  BY <1>2 DEF recordHeartbeat, StoreOwner
<1>3. CASE \/ RecvError(s) \/ SetRunning(s) \/ Send(s) \/ GetJob(s)
           \/ CompleteResult(s) \/ MarkRetrying(s) \/ MarkFailed(s)
  BY <1>3
     DEF RecvError, SetRunning, Send, GetJob, CompleteResult, MarkRetrying,
         MarkFailed, clearOwnership
<1> QED BY <1>1, <1>2, <1>3 DEF Handler, HandlerStep

\* Undisturbed is inductive relative to Core.
LEMMA UndisturbedStep ==
    ASSUME Steady, Core, Undisturbed, [Next]_vars
    PROVE  Undisturbed'
<1> USE DEF Undisturbed, serverVars, serviceVars, memoryVars
<1>1. ASSUME NEW j \in Jobs, Submit(j)
      PROVE  Undisturbed'
  BY <1>1 DEF Submit, SubmitJob
<1>2. ASSUME NEW j \in Jobs, CancelJob(j)
      PROVE  FALSE
  BY <1>2
     DEF CancelJob, CancelStep, CancelRead, CancelUpdate, CancelOutbox,
         CancelQueue, Steady
<1>3. ASSUME NEW s \in Sessions, Worker(s)
      PROVE  Undisturbed'
  BY <1>3 DEF Worker, Connect, Finish
<1>4. ASSUME NEW s \in Sessions, Handler(s)
      PROVE  Undisturbed'
  <2>1. UNCHANGED <<reaper, cancelPc>>
    BY <1>4
       DEF Handler, HandlerStep, RecvReady, RecvError, RecvHeartbeat,
           recordHeartbeat, RecvResult, Pop, ConsumeError, HGet, Drop,
           StoreOwner, SetRunning, Send, RequeueDb, RequeueRedis, GetJob,
           AckResult, CompleteResult, MarkRetrying, RetryResult, MarkFailed,
           FailResult
  <2> QED BY <1>4, <2>1, HandlerLastSeen
<1>5. CASE Relay \/ Promote \/ Boot
  BY <1>5 DEF Relay, Promote, Boot, BootReset, BootRecover
<1>6. CASE Reaper
  BY <1>6
     DEF Reaper, ReaperStep, ReaperList, ReaperCheck, ReaperClear,
         ReaperUpdate, ReaperRetry, TimedOut, RunningJobs
<1>7. CASE Trouble
  BY <1>7 DEF Trouble, Disconnect, HeartbeatTimeout, Fault, Steady
<1>8. CASE Crash
  BY <1>8 DEF Crash, ReaperIdle
<1>9. CASE UNCHANGED vars
  BY <1>9 DEF vars
<1> QED BY <1>1, <1>2, <1>3, <1>4, <1>5, <1>6, <1>7, <1>8, <1>9 DEF Next, Up

\* The steps that are left in such an environment.
SteadyNext ==
    \/ \E j \in Jobs : Submit(j) /\ server = "up" /\ UNCHANGED server
    \/ \E s \in Sessions : /\ Worker(s) \/ Handler(s) \/ Disconnect(s)
                           /\ UNCHANGED <<server, due, relayVars, serviceVars>>
                           /\ server = "up"
    \/ (Relay \/ Promote) /\ server = "up" /\ UNCHANGED server
    \/ Boot
    \/ Crash
    \/ UNCHANGED vars

\* Next in such an environment: the reaper, CancelJob and the timeouts are out.
LEMMA SteadySteps ==
    ASSUME Steady, Core, Undisturbed, [Next]_vars
    PROVE  SteadyNext
<1> USE DEF Undisturbed, SteadyNext
<1>2. ASSUME NEW j \in Jobs, CancelJob(j)
      PROVE  FALSE
  BY <1>2
     DEF CancelJob, CancelStep, CancelRead, CancelUpdate, CancelOutbox,
         CancelQueue, Steady
<1>3. ~Reaper
  BY DEF Reaper, ReaperStep, ReaperList, ReaperCheck, ReaperClear,
         ReaperUpdate, ReaperRetry, TimedOut, RunningJobs
<1>4. Trouble => \E s \in Sessions : Disconnect(s) /\ UNCHANGED <<due, relayVars, serviceVars>>
  BY DEF Trouble, HeartbeatTimeout, Fault, Steady
<1>5. ASSUME NEW s \in Sessions, Worker(s) \/ Handler(s)
      PROVE  UNCHANGED <<due, relayVars, serviceVars>>
  BY <1>5 DEF Worker, Handler
<1> QED BY <1>2, <1>3, <1>4, <1>5 DEF Next, Up

\* What the Work handler of s does to the entry it holds: it pops one, it gives
\* it back or removes it, or it leaves Redis alone.
LEMMA HandlerHold ==
    ASSUME Core, NEW s \in Sessions, Handler(s)
    PROVE  \/ Pop(s)
           \/ /\ \A t \in Sessions : Holds(t)' => Holds(t) /\ job'[t] = job[t]
              /\ \/ UNCHANGED redisVars
                 \/ /\ Holds(s) /\ ~Holds(s)'
                    /\ \/ ConsumeDrop(job[s]) \/ Ack(job[s]) \/ Fail(job[s])
                       \/ Retry(job[s], rc[s])
<1> DEFINE Keep == \A t \in Sessions : Holds(t)' => Holds(t) /\ job'[t] = job[t]
<1>a. ServerTypeOK /\ SessionOK(s) /\ Nil \notin Jobs
  BY NilAssumption DEF Core, TypeOK
<1> USE <1>a DEF ServerTypeOK, Holds, handlerVars, workerVars, redisVars
<1>1. CASE \/ RecvReady(s) \/ RecvError(s) \/ RecvHeartbeat(s)
           \/ recordHeartbeat(s) \/ RecvResult(s)
  <2>1. Keep
    BY <1>1
       DEF RecvReady, RecvError, RecvHeartbeat, recordHeartbeat, RecvResult,
           Goto, Return
  <2> QED BY <1>1, <2>1
       DEF RecvReady, RecvError, RecvHeartbeat, recordHeartbeat, RecvResult
<1>2. CASE \/ ConsumeError(s) \/ HGet(s) \/ StoreOwner(s) \/ SetRunning(s)
           \/ Send(s) \/ RequeueDb(s)
  <2>1. Keep
    BY <1>2
       DEF ConsumeError, HGet, StoreOwner, SetRunning, Send, RequeueDb, Goto,
           Return
  <2> QED BY <1>2, <2>1
       DEF ConsumeError, HGet, StoreOwner, SetRunning, Send, RequeueDb
<1>3. CASE GetJob(s) \/ CompleteResult(s) \/ MarkRetrying(s) \/ MarkFailed(s)
  <2>1. Keep
    BY <1>3
       DEF GetJob, CompleteResult, MarkRetrying, MarkFailed, Goto, ReturnResult
  <2> QED BY <1>3, <2>1 DEF GetJob, CompleteResult, MarkRetrying, MarkFailed
<1>4. CASE Drop(s) \/ AckResult(s)
  <2>1. job[s] \in Jobs
    BY <1>4 DEF Drop, AckResult, SessionOK
  <2>2. Keep /\ ~Holds(s)' /\ Holds(s)
    BY <1>4, <2>1 DEF Drop, AckResult, Goto
  <2> QED BY <1>4, <2>2 DEF Drop, AckResult, TryStreamRedis, TryRedis
<1>5. CASE RequeueRedis(s) \/ RetryResult(s) \/ FailResult(s)
  <2>1. job[s] \in Jobs
    BY <1>5 DEF RequeueRedis, RetryResult, FailResult, SessionOK
  <2>2. Keep /\ ~Holds(s)' /\ Holds(s)
    BY <1>5, <2>1 DEF RequeueRedis, RetryResult, FailResult, Return, ReturnResult
  <2> QED BY <1>5, <2>2
       DEF RequeueRedis, RetryResult, FailResult, TryStreamRedis, TryRedis
<1> QED BY <1>1, <1>2, <1>3, <1>4, <1>5 DEF Handler, HandlerStep

--------------------------------------------------------------------------------
(*****************************************************************************)
(* The entry of a job as a token.                                            *)
(*****************************************************************************)
\* Together: the part of the invariant that is inductive relative to Core and
\* Undisturbed.
Token == SingleEntry /\ SingleHolder /\ Quiet

\* A step that touches neither Redis nor what a handler holds.
LEMMA TokenFrame ==
    ASSUME Core, Token, UNCHANGED redisVars, due' \in {due, {}},
           UNCHANGED relay \/ relay'.pc # "exec",
           \A t \in Sessions : Holds(t)' => Holds(t) /\ job'[t] = job[t]
    PROVE  SingleEntry' /\ SingleHolder'
<1>1. SingleEntry'
  BY DEF Token, SingleEntry, Entered, redisVars
<1>2. SingleHolder'
  BY DEF Token, SingleHolder, redisVars
<1> QED BY <1>1, <1>2

\* A handler that takes its entry out of processing: nobody else has it, and
\* the relay is not about to push it.
LEMMA TokenRelease ==
    ASSUME Core, Token, UNCHANGED <<due, relay>>,
           NEW s \in Sessions, Holds(s), ~Holds(s)', NEW n \in Nat,
           \A t \in Sessions : Holds(t)' => Holds(t) /\ job'[t] = job[t],
           \/ ConsumeDrop(job[s]) \/ Ack(job[s]) \/ Fail(job[s])
           \/ Retry(job[s], n)
    PROVE  SingleEntry' /\ SingleHolder'
<1> DEFINE j == job[s]
<1>1. j \in ToSet(processing) /\ IsInjective(processing) /\ processing \in Seq(Jobs)
  BY DEF Token, SingleHolder, SingleEntry, Core, TypeOK, QueueTypeOK
<1>2. /\ processing' = RemoveFirst(processing, j)
      /\ UNCHANGED ready
      /\ \/ UNCHANGED <<delayed, queued>>
         \/ queued' = queued \ {j} /\ delayed' = delayed \ {j}
         \/ queued' = queued \cup {j} /\ delayed' = delayed \cup {j}
  BY DEF ConsumeDrop, Ack, Fail, Forget, Retry
<1>3. IsInjective(processing') /\ ToSet(processing') = ToSet(processing) \ {j}
  BY <1>1, <1>2, RemoveFirstDistinct
<1>4. SingleEntry'
  BY <1>1, <1>2, <1>3 DEF Token, SingleEntry, Entered
<1>5. SingleHolder'
  BY <1>3 DEF Token, SingleHolder
<1> QED BY <1>4, <1>5

\* A handler that pops an entry: nobody has it.
LEMMA TokenPop ==
    ASSUME Core, Token, UNCHANGED <<due, relay>>, NEW s \in Sessions, Pop(s)
    PROVE  SingleEntry' /\ SingleHolder'
<1> DEFINE j == ready[Len(ready)]
<1>1. /\ ready \in Seq(Jobs) /\ processing \in Seq(Jobs) /\ ready # <<>>
      /\ IsInjective(ready) /\ IsInjective(processing)
  BY DEF Token, SingleEntry, Core, TypeOK, QueueTypeOK, Pop, ConsumePop
<1>2. /\ j \in ToSet(ready)
      /\ IsInjective(ready')
      /\ ToSet(ready') = ToSet(ready) \ {j}
  BY <1>1, PopDistinct DEF Pop, ConsumePop
<1>3. j \in Jobs
  BY <1>1
<1> HIDE DEF j
<1>4. j \notin ToSet(processing)
  BY <1>2 DEF Token, SingleEntry
<1>5. processing' = <<j>> \o processing /\ UNCHANGED <<delayed, queued>>
  BY DEF Pop, ConsumePop, j
<1>6. /\ IsInjective(processing')
      /\ ToSet(processing') = ToSet(processing) \cup {j}
  BY <1>1, <1>3, <1>4, <1>5, PushDistinct
<1>7. SingleEntry'
  BY <1>2, <1>4, <1>5, <1>6 DEF Token, SingleEntry, Entered
<1>8. job' = [job EXCEPT ![s] = j] /\ pc' = [pc EXCEPT ![s] = "hget"]
  BY DEF Pop, Goto, j
<1>9. SingleHolder'
  <2>1. job \in [Sessions -> Jobs \cup {Nil}] /\ pc \in [Sessions -> HandlerPcs]
    BY DEF Core, TypeOK, ServerTypeOK
  <2>2. \A t \in Sessions : Holds(t) => job[t] # j /\ job[t] \in ToSet(processing)
    BY <1>4 DEF Token, SingleHolder
  <2>3. \A t \in Sessions : t # s => (Holds(t)' <=> Holds(t)) /\ job'[t] = job[t]
    BY <1>8, <2>1 DEF Holds
  <2>4. job'[s] = j
    BY <1>8, <2>1
  <2>5. \A t \in Sessions : Holds(t)' => job'[t] \in ToSet(processing')
    BY <1>6, <2>2, <2>3, <2>4
  <2>6. \A t, u \in Sessions : Holds(t)' /\ Holds(u)' /\ job'[t] = job'[u] => t = u
    BY <2>2, <2>3, <2>4 DEF Token, SingleHolder
  <2> QED BY <2>5, <2>6 DEF SingleHolder
<1> QED BY <1>7, <1>9

\* The relay pushes only a job that has no entry.
LEMMA TokenRelay ==
    ASSUME Core, Token, Relay
    PROVE  SingleEntry' /\ SingleHolder'
<1>a. UNCHANGED <<due, pc, job>>
  BY DEF Relay, serverVars, handlerVars
<1>b. \A t \in Sessions : Holds(t)' => Holds(t) /\ job'[t] = job[t]
  BY <1>a DEF Holds
<1>1. CASE RelayBegin \/ RelayCommit \/ RelayAbort
  <2>1. UNCHANGED redisVars /\ relay'.pc # "exec"
    <3>1. CASE RelayBegin
      BY <3>1 DEF RelayBegin, RelayIdle
    <3>2. CASE RelayCommit \/ RelayAbort
      <4>1. UNCHANGED redisVars /\ relay' = RelayIdle
        BY <3>2, Zenon DEF RelayCommit, RelayAbort
      <4> QED BY <4>1 DEF RelayIdle
    <3> QED BY <1>1, <3>1, <3>2
  <2> QED BY <2>1, <1>a, <1>b, TokenFrame
<1>2. ASSUME NEW j \in Jobs, RelaySAdd(j)
      PROVE  SingleEntry' /\ SingleHolder'
  <2>1. /\ UNCHANGED <<ready, processing, delayed>>
        /\ queued' = queued \cup {j}
        /\ relay'.job = j
        /\ relay'.added => j \notin queued
    BY <1>2 DEF RelaySAdd, EnqueueSAdd, Core, TypeOK, RelayTypeOK
  <2>2. SingleEntry'
    BY <1>a, <2>1 DEF Token, SingleEntry, Entered
  <2> QED BY <1>b, <2>1, <2>2 DEF Token, SingleHolder
<1>3. CASE RelayExec
  <2>1. /\ relay.pc = "exec" /\ relay'.pc = "next" /\ relay.job \in Jobs
        /\ UNCHANGED <<processing, delayed, queued>>
        /\ ready' = IF relay.added THEN <<relay.job>> \o ready ELSE ready
    BY <1>3 DEF RelayExec, EnqueueExec, Core
  <2>2. CASE relay.added
    <3>1. /\ relay.job \in queued
          /\ relay.job \notin Entered
          /\ ready \in Seq(Jobs)
      BY <2>1, <2>2 DEF Token, SingleEntry, Core, TypeOK, QueueTypeOK
    <3>2. relay.job \notin ToSet(ready) /\ IsInjective(ready)
      BY <3>1 DEF Entered, Token, SingleEntry
    <3>3. /\ IsInjective(ready')
          /\ ToSet(ready') = ToSet(ready) \cup {relay.job}
      BY <2>1, <2>2, <3>1, <3>2, PushDistinct
    <3>4. SingleEntry'
      BY <1>a, <2>1, <3>1, <3>3 DEF Token, SingleEntry, Entered
    <3> QED BY <1>b, <2>1, <3>4 DEF Token, SingleHolder
  <2>3. CASE ~relay.added
    <3>1. UNCHANGED <<ready, processing, delayed, queued>>
      BY <2>1, <2>3
    <3>2. SingleEntry'
      BY <1>a, <2>1, <3>1 DEF Token, SingleEntry, Entered
    <3> QED BY <1>b, <3>1, <3>2 DEF Token, SingleHolder
  <2> QED BY <2>2, <2>3
<1> QED BY <1>1, <1>2, <1>3 DEF Relay, RelayStep

\* The promoter moves entries, and makes none.
LEMMA TokenPromote ==
    ASSUME Core, Token, Promote
    PROVE  SingleEntry' /\ SingleHolder'
<1>a. UNCHANGED <<relay, pc, job>>
  BY DEF Promote, serverVars, handlerVars, relayVars
<1>b. \A t \in Sessions : Holds(t)' => Holds(t) /\ job'[t] = job[t]
  BY <1>a DEF Holds
<1>1. CASE PromoteRead
  <2>1. due' \subseteq delayed /\ UNCHANGED redisVars
    BY <1>1 DEF PromoteRead
  <2>2. SingleEntry'
    BY <1>a, <2>1 DEF Token, SingleEntry, Entered, redisVars
  <2> QED BY <1>b, <2>1, <2>2 DEF Token, SingleHolder, redisVars
<1>2. CASE PromoteError
  BY <1>2, <1>a, <1>b, TokenFrame DEF PromoteError
<1>3. CASE PromoteExec
  <2>1. PICK order \in SetToSeqs(due) : ready' = order \o ready
    BY <1>3 DEF PromoteExec
  <2>2. /\ ready \in Seq(Jobs) /\ order \in Seq(Jobs)
        /\ ToSet(order) \subseteq due /\ IsInjective(order)
    BY SetToSeqsType, OrderDistinct DEF Core, TypeOK, QueueTypeOK
  <2>3. ToSet(order) \cap ToSet(ready) = {}
    BY <2>2 DEF Token, SingleEntry
  <2>4. /\ IsInjective(ready')
        /\ ToSet(ready') = ToSet(order) \cup ToSet(ready)
    BY <2>1, <2>2, <2>3, ConcatDistinct DEF Token, SingleEntry
  <2>5. /\ UNCHANGED <<processing, queued>>
        /\ delayed' = delayed \ due /\ due' = {}
    BY <1>3 DEF PromoteExec
  <2>6. SingleEntry'
    BY <1>a, <2>2, <2>4, <2>5 DEF Token, SingleEntry, Entered
  <2> QED BY <1>b, <2>5, <2>6 DEF Token, SingleHolder
<1> QED BY <1>1, <1>2, <1>3 DEF Promote

\* Recover moves the entries back when nobody holds one.
LEMMA TokenBoot ==
    ASSUME Core, Token, Boot
    PROVE  SingleEntry' /\ SingleHolder'
<1>a. UNCHANGED <<relay, pc, job, due>> /\ server # "up"
  BY DEF Boot, BootReset, BootRecover, queueVars, serverVars, handlerVars, relayVars
<1>b. \A t \in Sessions : ~Holds(t) /\ ~Holds(t)'
  BY <1>a DEF Token, Quiet, Holds
<1>1. CASE BootReset
  BY <1>1, <1>a, <1>b, TokenFrame DEF BootReset, queueVars
<1>2. CASE BootRecover
  <2>1. /\ ready \in Seq(Jobs) /\ processing \in Seq(Jobs)
        /\ IsInjective(ready) /\ IsInjective(processing)
        /\ ToSet(ready) \cap ToSet(processing) = {}
    BY DEF Token, SingleEntry, Core, TypeOK, QueueTypeOK
  <2>2. ready' = ready \o processing /\ processing' = <<>> /\ UNCHANGED <<delayed, queued>>
    BY <1>2 DEF BootRecover, Recover
  <2>3. IsInjective(ready') /\ ToSet(ready') = ToSet(ready) \cup ToSet(processing)
    BY <2>1, <2>2, ConcatDistinct
  <2>4. IsInjective(processing') /\ ToSet(processing') = {}
    BY <2>2 DEF IsInjective, ToSet
  <2>5. relay.pc = "idle"
    BY <1>a DEF Token, Quiet
  <2>6. SingleEntry'
    BY <1>a, <2>2, <2>3, <2>4, <2>5 DEF Token, SingleEntry, Entered
  <2> QED BY <1>b, <2>6 DEF SingleHolder
<1> QED BY <1>1, <1>2 DEF Boot

\* Token is inductive relative to Core and Undisturbed.
LEMMA TokenStep ==
    ASSUME Steady, Core, Undisturbed, Token, [Next]_vars
    PROVE  Token'
<1> DEFINE Goal == SingleEntry' /\ SingleHolder'
<1>a. SteadyNext
  BY SteadySteps
<1>b. Quiet'
  <2>1. CASE server' = "up"
    BY <2>1 DEF Quiet
  <2>2. CASE Crash
    BY <2>2 DEF Crash, Quiet, RelayIdle
  <2>3. CASE Boot
    BY <2>3 DEF Boot, BootReset, BootRecover, Token, Quiet, queueVars, relayVars,
         serverVars, handlerVars
  <2>4. CASE UNCHANGED vars
    BY <2>4 DEF vars, Token, Quiet, queueVars, relayVars, serverVars, handlerVars
  <2> QED BY <1>a, <2>1, <2>2, <2>3, <2>4 DEF SteadyNext
<1>1. ASSUME NEW j \in Jobs, Submit(j)
      PROVE  Goal
  BY <1>1, TokenFrame
     DEF Submit, SubmitJob, relayVars, serverVars, handlerVars, Holds
<1>2. ASSUME NEW s \in Sessions, Worker(s) \/ Disconnect(s), UNCHANGED <<due, relayVars>>
      PROVE  Goal
  <2>1. UNCHANGED <<redisVars, job>>
    BY <1>2 DEF Worker, Connect, Finish, Disconnect, handlerVars
  <2>2. \A t \in Sessions : Holds(t)' => Holds(t)
    BY <1>2 DEF Worker, Connect, Finish, Disconnect, handlerVars, Holds, Goto,
                Core, TypeOK, ServerTypeOK, SessionOK, Empty
  <2> QED BY <1>2, <2>1, <2>2, TokenFrame DEF relayVars, Holds
<1>3. ASSUME NEW s \in Sessions, Handler(s)
      PROVE  Goal
  <2>1. UNCHANGED <<due, relay>> /\ rc[s] \in Nat
    BY <1>3 DEF Handler, relayVars, Core, TypeOK, ServerTypeOK
  <2> QED BY <1>3, <2>1, HandlerHold, TokenPop, TokenRelease, TokenFrame
<1>4. ASSUME Relay PROVE Goal
  BY <1>4, TokenRelay
<1>5. ASSUME Promote PROVE Goal
  BY <1>5, TokenPromote
<1>6. ASSUME Boot PROVE Goal
  BY <1>6, TokenBoot
<1>7. ASSUME Crash PROVE Goal
  BY <1>7, TokenFrame DEF Crash, RelayIdle, Holds
<1>8. ASSUME UNCHANGED vars PROVE Goal
  BY <1>8, TokenFrame
     DEF vars, queueVars, relayVars, serverVars, handlerVars, Holds
<1> HIDE DEF Goal
<1>9. Goal
  BY <1>a, <1>1, <1>2, <1>3, <1>4, <1>5, <1>6, <1>7, <1>8 DEF SteadyNext
<1> QED BY <1>b, <1>9 DEF Token, Goal

--------------------------------------------------------------------------------
(*****************************************************************************)
(* Exclusive, OneEntry and RequeueOnlyOwn.                                   *)
(*****************************************************************************)
\* A list without repetitions has a job at most once.
LEMMA CountDistinct ==
    ASSUME NEW q \in Seq(Jobs), IsInjective(q), NEW j
    PROVE  Cardinality({i \in DOMAIN q : q[i] = j}) = IF j \in ToSet(q) THEN 1 ELSE 0
<1> DEFINE I == {i \in DOMAIN q : q[i] = j}
<1>1. CASE j \in ToSet(q)
  <2>1. PICK i \in DOMAIN q : q[i] = j
    BY <1>1 DEF ToSet
  <2>2. I = {i}
    BY <2>1 DEF IsInjective
  <2> QED BY <1>1, <2>2, FS_Singleton
<1>2. CASE j \notin ToSet(q)
  <2>1. I = {}
    BY <1>2 DEF ToSet
  <2> QED BY <1>2, <2>1, FS_EmptySet
<1> QED BY <1>1, <1>2

\* The invariant when the server is first started.
LEMMA TokenInit ==
    Init => Core /\ Undisturbed /\ Token
<1> SUFFICES ASSUME Init PROVE Core /\ Undisturbed /\ Token
  OBVIOUS
<1> USE DEF Init
<1>1. Core
  BY CoreInit
<1>2. Undisturbed
  BY DEF ServerInit, ServiceInit, ReaperIdle, Undisturbed
<1>3. SingleEntry
  <2>1. ToSet(<<>>) = {} /\ IsInjective(<<>>)
    BY DEF ToSet, IsInjective
  <2> QED BY <2>1 DEF QueueInit, RelayInit, RelayIdle, SingleEntry, Entered
<1>4. SingleHolder /\ Quiet
  BY DEF ServerInit, SingleHolder, Quiet, Holds
<1> QED BY <1>1, <1>2, <1>3, <1>4 DEF Token

\* The invariant is inductive.
LEMMA TokenInvariant ==
    ASSUME Steady
    PROVE  Spec => [](Core /\ Undisturbed /\ Token)
<1>1. Core /\ Undisturbed /\ Token /\ [Next]_vars => (Core /\ Undisturbed /\ Token)'
  BY CoreStep, UndisturbedStep, TokenStep
<1> QED BY <1>1, TokenInit, PTL DEF Spec

\* It leaves a job to one handler, and Redis with one entry of it.
LEMMA TokenHeldOnce ==
    ASSUME Core, Token
    PROVE  Exclusive /\ OneEntry
<1>1. Exclusive
  BY NilAssumption DEF Core, SessionOK, Empty, Token, SingleHolder, Holds, Exclusive
<1>2. OneEntry
  <2> SUFFICES ASSUME NEW j \in Jobs
               PROVE  Entries(j) <= 1
    BY DEF OneEntry
  <2>1. /\ ready \in Seq(Jobs) /\ IsInjective(ready)
        /\ processing \in Seq(Jobs) /\ IsInjective(processing)
    BY DEF Core, TypeOK, QueueTypeOK, Token, SingleEntry
  <2>2. Entries(j) = (IF j \in ToSet(ready) THEN 1 ELSE 0)
                        + (IF j \in ToSet(processing) THEN 1 ELSE 0)
                        + (IF j \in delayed THEN 1 ELSE 0)
    BY <2>1, CountDistinct DEF Entries
  <2> QED BY <2>2 DEF Token, SingleEntry
<1> QED BY <1>1, <1>2

\* Without silent workers, two connected workers never execute the same job at
\* the same time, whatever else fails: the entry that BRPOPLPUSH gives to one
\* handler is the only one (Enqueue, Consume, Retry, promoteDueJobs, Recover).
THEOREM ExclusiveHolds ==
    ASSUME Steady
    PROVE  Spec => []Exclusive
<1> QED BY TokenHeldOnce, TokenInvariant, PTL

\* In the same environment Redis never holds two entries of a job: the outbox
\* row of ResetRunningJobs, the entry that Recover moves back and the retry of
\* a lost worker do not both become work.
THEOREM OneEntryHolds ==
    ASSUME Steady
    PROVE  Spec => []OneEntry
<1> QED BY TokenHeldOnce, TokenInvariant, PTL
--------------------------------------------------------------------------------
\* The Work handler becomes the owner of the job it holds, or gives up an
\* ownership.
LEMMA HandlerPast ==
    ASSUME Core, NEW s \in Sessions, Handler(s)
    PROVE  \/ StoreOwner(s)
           \/ /\ \A j \in Jobs : owner'[j] \in {owner[j], Nil}
              /\ \A t \in Sessions : Past(t)' => Past(t) /\ job'[t] = job[t]
<1> DEFINE Fewer == \A j \in Jobs : owner'[j] \in {owner[j], Nil}
           Keep == \A t \in Sessions : Past(t)' => Past(t) /\ job'[t] = job[t]
<1>a. ServerTypeOK /\ SessionOK(s) /\ Nil \notin Jobs
  BY NilAssumption DEF Core, TypeOK
<1> USE <1>a DEF ServerTypeOK, Past, Holds, handlerVars, workerVars, memoryVars
<1>1. CASE \/ RecvReady(s) \/ RecvHeartbeat(s) \/ recordHeartbeat(s)
           \/ RecvResult(s)
  BY <1>1 DEF RecvReady, RecvHeartbeat, recordHeartbeat, RecvResult, Goto
<1>2. CASE RecvError(s)
  BY <1>2 DEF RecvError, Goto, Return, clearOwnership
<1>3. CASE Pop(s) \/ ConsumeError(s) \/ HGet(s) \/ Drop(s)
  BY <1>3 DEF Pop, ConsumeError, HGet, Drop, Goto, Return
<1>4. CASE SetRunning(s)
  BY <1>4 DEF SetRunning, Goto, Return, clearOwnership
<1>5. CASE Send(s) \/ RequeueDb(s) \/ RequeueRedis(s)
  BY <1>5 DEF Send, RequeueDb, RequeueRedis, Goto, Return, clearOwnership
<1>6. CASE GetJob(s)
  BY <1>6 DEF GetJob, Goto, ReturnResult, clearOwnership
<1>7. CASE AckResult(s) \/ RetryResult(s) \/ FailResult(s)
  BY <1>7 DEF AckResult, RetryResult, FailResult, Goto, ReturnResult
<1>8. CASE CompleteResult(s) \/ MarkRetrying(s) \/ MarkFailed(s)
  BY <1>8
     DEF CompleteResult, MarkRetrying, MarkFailed, Goto, ReturnResult,
         clearOwnership
<1> QED BY <1>1, <1>2, <1>3, <1>4, <1>5, <1>6, <1>7, <1>8
           DEF Handler, HandlerStep

\* OwnHold is inductive relative to Token.
LEMMA OwnHoldStep ==
    ASSUME Steady, Core, Undisturbed, Token, OwnHold, [Next]_vars
    PROVE  OwnHold'
<1>a. SteadyNext
  BY SteadySteps
<1>b. ASSUME \A j \in Jobs : owner'[j] \in {owner[j], Nil},
             \A t \in Sessions : Past(t)' => Past(t) /\ job'[t] = job[t]
      PROVE  OwnHold'
  BY <1>b DEF OwnHold, Past, Holds, Core, TypeOK, ServerTypeOK
<1> USE DEF serverVars, handlerVars, memoryVars
<1>1. ASSUME NEW j \in Jobs, Submit(j)
      PROVE  OwnHold'
  BY <1>1, <1>b DEF Submit, Past, Holds
<1>2. ASSUME NEW s \in Sessions, Worker(s) \/ Disconnect(s)
      PROVE  OwnHold'
  <2>1. UNCHANGED <<owner, job>>
    BY <1>2 DEF Worker, Connect, Finish, Disconnect
  <2>2. \A t \in Sessions : Past(t)' => Past(t)
    BY <1>2 DEF Worker, Connect, Finish, Disconnect, Past, Holds, Goto,
                Core, TypeOK, ServerTypeOK, SessionOK, Empty
  <2> QED BY <2>1, <2>2, <1>b
<1>3. ASSUME NEW s \in Sessions, StoreOwner(s)
      PROVE  OwnHold'
  <2>1. /\ owner' = [owner EXCEPT ![job[s]] = s]
        /\ UNCHANGED job /\ pc[s] = "own"
        /\ pc' = [pc EXCEPT ![s] = "running"]
    BY <1>3 DEF StoreOwner, Goto
  <2>2. ServerTypeOK /\ job[s] \in Jobs /\ Holds(s)
    BY <2>1, NilAssumption DEF Core, TypeOK, SessionOK, Holds
  <2> SUFFICES ASSUME NEW t \in Sessions, Past(t)'
               PROVE  owner'[job'[t]] \in {t, Nil}
    BY DEF OwnHold
  <2>3. CASE t = s
    BY <2>1, <2>2, <2>3 DEF ServerTypeOK
  <2>4. CASE t # s
    <3>1. Past(t) /\ Holds(t)
      BY <2>1, <2>2, <2>4 DEF Past, Holds, ServerTypeOK
    <3>2. job[t] # job[s]
      BY <2>2, <2>4, <3>1 DEF Token, SingleHolder
    <3> QED BY <2>1, <2>2, <3>1, <3>2 DEF OwnHold, ServerTypeOK
  <2> QED BY <2>3, <2>4
<1>4. ASSUME NEW s \in Sessions, Handler(s)
      PROVE  OwnHold'
  BY <1>4, <1>3, <1>b, HandlerPast
<1>5. CASE Relay \/ Promote \/ Boot
  BY <1>5, <1>b
     DEF Relay, Promote, Boot, BootReset, BootRecover, Past, Holds
<1>6. CASE Crash
  BY <1>6 DEF Crash, OwnHold, Past, Holds
<1>7. CASE UNCHANGED vars
  BY <1>7, <1>b DEF vars, Past, Holds
<1> QED BY <1>a, <1>1, <1>2, <1>4, <1>5, <1>6, <1>7 DEF SteadyNext

\* Only a silent worker or a CancelJob can break RequeueOnlyOwn: in the same
\* environment, whatever crashes, disconnects, Redis and Postgres errors do, a
\* disconnect puts back only a job that is the session's own (Work's requeue
\* after a Recv error).
THEOREM RequeueOnlyOwnHolds ==
    ASSUME Steady
    PROVE  Spec => RequeueOnlyOwn
<1> DEFINE IInv == Core /\ Undisturbed /\ Token /\ OwnHold
<1>1. Init => IInv
  BY TokenInit DEF Init, ServerInit, OwnHold, Past, Holds
<1>2. IInv /\ [Next]_vars => IInv'
  BY CoreStep, UndisturbedStep, TokenStep, OwnHoldStep
<1>3. ASSUME IInv, [Next]_vars, NEW s \in Sessions,
             pc[s] = "recv", pc'[s] = "requeue_db"
      PROVE  owner[job[s]] \in {s, Nil}
  <2>1. job[s] # Nil
    <3>1. ASSUME NEW t \in Sessions, Handler(t)
          PROVE  job[s] # Nil
      <4>1. job'[s] \in Jobs
        BY <1>3, CoreStep DEF Core, SessionOK
      <4>3. Past(s)'
        BY <4>1, <1>3, NilAssumption DEF Past, Holds
      <4>4. ~StoreOwner(t)
        BY <1>3 DEF StoreOwner, Goto, Core, TypeOK, ServerTypeOK
      <4>5. Past(s)
        BY <1>3, <3>1, <4>3, <4>4, HandlerPast
      <4> QED BY <4>5 DEF Past, Holds
    <3>2. ASSUME UNCHANGED pc PROVE FALSE
      BY <3>2, <1>3
    <3>3. ASSUME NEW t \in Sessions, Worker(t) \/ Disconnect(t)
          PROVE  FALSE
      BY <3>3, <1>3 DEF Worker, Connect, Finish, Disconnect, handlerVars, Goto,
           Core, TypeOK, ServerTypeOK
    <3>4. ~Crash
      BY <1>3 DEF Crash
    <3> QED BY <1>3, <3>1, <3>2, <3>3, <3>4, SteadySteps
            DEF SteadyNext, Submit, Relay, Promote, Boot, BootReset,
                BootRecover, serverVars, handlerVars, vars
  <2> QED BY <1>3, <2>1 DEF OwnHold, Past, Holds
<1>4. IInv /\ [Next]_vars => [\A s \in Sessions :
          pc[s] = "recv" /\ pc'[s] = "requeue_db" => owner[job[s]] \in {s, Nil}]_vars
  BY <1>3
<1> QED BY <1>1, <1>2, <1>4, PTL DEF Spec, RequeueOnlyOwn

--------------------------------------------------------------------------------
(*****************************************************************************)
(* LostOnlyTorn.                                                             *)
(*****************************************************************************)
\* What a step of the Work handler means for the row of the job in hand: it
\* makes the row wait only while the handler keeps the entry, and it forgets
\* the job only when the row is not waiting.
LEMMA HandlerRow ==
    ASSUME Core, NEW s \in Sessions, Handler(s)
    PROVE  /\ UNCHANGED <<outbox, locked>>
           /\ \/ /\ UNCHANGED status
                 /\ \/ queued \subseteq queued'
                    \/ Working(s) /\ queued' = queued \ {job[s]}
              \/ /\ UNCHANGED queued
                 /\ \E st \in {"running", "completed", "failed"} :
                       status' = [status EXCEPT ![job[s]] = st]
              \/ /\ UNCHANGED queued
                 /\ Holds(s) /\ ~Working(s)'
                 /\ \E st \in {"pending", "retrying"} :
                       status' = [status EXCEPT ![job[s]] = st]
           /\ \A t \in Sessions : Working(t)' =>
                 /\ job'[t] = job[t]
                 /\ \/ Working(t)
                    \/ job[t] \in Jobs /\ status' = [status EXCEPT ![job[t]] = "running"]
<1>a. ServerTypeOK /\ SessionOK(s) /\ Nil \notin Jobs
  BY NilAssumption DEF Core, TypeOK
<1> USE <1>a DEF ServerTypeOK, Working, Holds, handlerVars, workerVars,
                 redisVars, storeVars
<1>1. CASE \/ RecvReady(s) \/ RecvHeartbeat(s) \/ recordHeartbeat(s)
           \/ RecvResult(s) \/ RecvError(s)
  BY <1>1 DEF RecvReady, RecvHeartbeat, recordHeartbeat, RecvResult, RecvError,
              Goto, Return
<1>2. CASE Pop(s) \/ ConsumeError(s) \/ HGet(s) \/ StoreOwner(s)
  BY <1>2 DEF Pop, ConsumePop, ConsumeError, HGet, StoreOwner, Goto, Return
<1>3. CASE Drop(s)
  BY <1>3 DEF Drop, TryStreamRedis, TryRedis, ConsumeDrop, Goto
<1>4. CASE SetRunning(s)
  <2>1. job[s] \in Jobs
    BY <1>4 DEF SetRunning, SessionOK
  <2> QED BY <1>4, <2>1 DEF SetRunning, UpdateJobState, Goto, Return
<1>5. CASE Send(s) \/ GetJob(s)
  BY <1>5 DEF Send, GetJob, Goto, ReturnResult
<1>6. CASE RequeueDb(s)
  <2>1. job[s] \in Jobs
    BY <1>6 DEF RequeueDb, SessionOK
  <2> QED BY <1>6, <2>1 DEF RequeueDb, TryDb, UpdateJobState, Goto
<1>7. CASE RequeueRedis(s) \/ RetryResult(s)
  BY <1>7
     DEF RequeueRedis, RetryResult, TryRedis, TryStreamRedis, Retry, Return,
         ReturnResult
<1>8. CASE AckResult(s) \/ FailResult(s)
  <2>1. job[s] \in Jobs
    BY <1>8 DEF AckResult, FailResult, SessionOK
  <2> QED BY <1>8, <2>1
     DEF AckResult, FailResult, TryRedis, TryStreamRedis, Ack, Fail, Forget, Goto,
         ReturnResult
<1>9. CASE CompleteResult(s)
  BY <1>9 DEF CompleteResult, TryDb, CompleteJob, ReturnResult
<1>10. CASE MarkRetrying(s)
  <2>1. job[s] \in Jobs
    BY <1>10 DEF MarkRetrying, SessionOK
  <2> QED BY <1>10, <2>1 DEF MarkRetrying, TryDb, UpdateJobState, Goto
<1>11. CASE MarkFailed(s)
  <2>1. job[s] \in Jobs
    BY <1>11 DEF MarkFailed, SessionOK
  <2> QED BY <1>11, <2>1 DEF MarkFailed, TryDb, UpdateJobState, Goto
<1> QED BY <1>1, <1>2, <1>3, <1>4, <1>5, <1>6, <1>7, <1>8, <1>9, <1>10, <1>11
           DEF Handler, HandlerStep

\* Together: what keeps a waiting job from being forgotten.
Kept == Worked /\ Relayed /\ Accounted

\* A step of the Work handler.
LEMMA KeptHandler ==
    ASSUME Core, Token, Kept, NEW s \in Sessions, Handler(s)
    PROVE  Kept'
<1>a. /\ status \in [Jobs -> Statuses] /\ outbox \subseteq Jobs
      /\ job \in [Sessions -> Jobs \cup {Nil}]
      /\ locked \subseteq Jobs
      /\ relay.pc = "exec" => relay.job \in Jobs
  BY DEF Core, TypeOK, StoreTypeOK, ServerTypeOK
<1>b. UNCHANGED <<outbox, locked, relay>>
  BY HandlerRow DEF Handler, relayVars
<1>c. \A t \in Sessions : Holds(t) => job[t] \in queued /\ job[t] \in Jobs
  BY <1>a DEF Token, SingleHolder, SingleEntry, Entered, Holds
<1>1. Worked'
  <2> SUFFICES ASSUME NEW t \in Sessions, Working(t)'
               PROVE  status'[job'[t]] \notin {"none", "pending", "retrying"}
    BY DEF Worked
  <2>1. job'[t] = job[t] /\ job[t] \in Jobs
    <3>1. job'[t] = job[t] /\ job'[t] # Nil
      BY HandlerRow DEF Working, Holds
    <3> QED BY <1>a, <3>1
  <2>2. CASE status' = [status EXCEPT ![job[t]] = "running"]
    BY <1>a, <2>1, <2>2
  <2>3. CASE Working(t)
    <3>1. status[job[t]] \notin {"none", "pending", "retrying"}
      BY <2>3 DEF Kept, Worked
    <3>2. CASE UNCHANGED status
      BY <2>1, <3>1, <3>2
    <3>3. ASSUME NEW st \in {"running", "completed", "failed"},
                 status' = [status EXCEPT ![job[s]] = st]
          PROVE  status'[job[t]] \notin {"none", "pending", "retrying"}
      BY <1>a, <2>1, <3>1, <3>3
    <3>4. ASSUME Holds(s), ~Working(s)', NEW st,
                 status' = [status EXCEPT ![job[s]] = st]
          PROVE  status'[job[t]] \notin {"none", "pending", "retrying"}
      <4>1. job[s] # job[t]
        BY <2>3, <3>4 DEF Token, SingleHolder, Working
      <4> QED BY <1>a, <2>1, <3>1, <3>4, <4>1
    <3> QED BY <2>1, <3>2, <3>3, <3>4, HandlerRow
  <2> QED BY <2>2, <2>3, HandlerRow
<1>2. ASSUME NEW j \in Jobs, Waiting(j)'
      PROVE  \/ j \in queued'
             \/ Waiting(j) /\ j \notin queued
  <2>1. CASE UNCHANGED status /\ queued \subseteq queued'
    BY <1>2, <2>1 DEF Waiting
  <2>2. CASE UNCHANGED status /\ Working(s) /\ queued' = queued \ {job[s]}
    BY <1>2, <2>2 DEF Waiting, Kept, Worked
  <2>3. ASSUME UNCHANGED queued, NEW st \in {"running", "completed", "failed"},
               status' = [status EXCEPT ![job[s]] = st]
        PROVE  \/ j \in queued'
               \/ Waiting(j) /\ j \notin queued
    BY <1>2, <1>a, <2>3 DEF Waiting
  <2>4. ASSUME UNCHANGED queued, Holds(s), NEW st,
               status' = [status EXCEPT ![job[s]] = st]
        PROVE  \/ j \in queued'
               \/ Waiting(j) /\ j \notin queued
    BY <1>2, <1>a, <1>c, <2>4 DEF Waiting
  <2> QED BY <2>1, <2>2, <2>3, <2>4, HandlerRow
<1>3. \A j \in outbox : status'[j] # "none"
  <2>1. \/ UNCHANGED status
        \/ \E st \in {"running", "completed", "failed", "pending", "retrying"} :
              status' = [status EXCEPT ![job[s]] = st]
    BY HandlerRow
  <2> QED BY <1>a, <2>1 DEF Kept, Relayed
<1>4. Relayed'
  BY <1>a, <1>b, <1>2, <1>3 DEF Kept, Relayed
<1>5. Accounted'
  BY <1>b, <1>2 DEF Kept, Accounted
<1> QED BY <1>1, <1>4, <1>5 DEF Kept

\* A step of the relay.
LEMMA KeptRelay ==
    ASSUME Core, Kept, Relay
    PROVE  Kept'
<1>a. /\ outbox \subseteq Jobs /\ locked \subseteq Jobs /\ RelayTypeOK
  BY DEF Core, TypeOK, StoreTypeOK
<1>b. UNCHANGED <<status, pc, job>>
  BY DEF Relay, RelayStep, RelayBegin, RelaySAdd, RelayExec, RelayCommit,
         RelayAbort, GetUnprocessedOutbox, CommitOutbox, Rollback, serverVars,
         handlerVars, storeVars
<1>c. Worked' /\ \A j \in Jobs : Waiting(j)' <=> Waiting(j)
  BY <1>b DEF Kept, Worked, Working, Holds, Waiting
<1>1. CASE RelayBegin
  <2>1. /\ UNCHANGED <<outbox, queued>> /\ locked' = outbox
        /\ relay'.pc = "next" /\ relay'.todo = outbox
    BY <1>1 DEF RelayBegin, GetUnprocessedOutbox, redisVars, RelayIdle
  <2> QED BY <1>a, <1>b, <1>c, <2>1 DEF Kept, Relayed, Accounted
<1>2. ASSUME NEW j \in Jobs, RelaySAdd(j)
      PROVE  Kept'
  <2>1. /\ UNCHANGED <<outbox, locked>> /\ queued' = queued \cup {j}
        /\ relay'.pc = "exec" /\ relay'.todo = relay.todo /\ relay'.job = j
        /\ relay.pc = "next" /\ j \in relay.todo
    BY <1>a, <1>2 DEF RelaySAdd, EnqueueSAdd, storeVars, RelayTypeOK
  <2> QED BY <1>a, <1>b, <1>c, <2>1 DEF Kept, Relayed, Accounted
<1>3. CASE RelayExec
  <2>1. /\ UNCHANGED <<outbox, locked, queued>>
        /\ relay'.pc = "next" /\ relay'.todo = relay.todo \ {relay.job}
        /\ relay.pc = "exec"
    BY <1>3 DEF RelayExec, EnqueueExec, storeVars
  <2> QED BY <1>a, <1>b, <1>c, <2>1 DEF Kept, Relayed, Accounted
<1>4. CASE RelayCommit
  <2>1. /\ UNCHANGED queued /\ outbox' = outbox \ locked /\ locked' = {}
        /\ relay.todo = {} /\ relay'.pc = "idle" /\ relay'.todo = {}
    BY <1>4 DEF RelayCommit, CommitOutbox, redisVars, RelayIdle
  <2> QED BY <1>a, <1>b, <1>c, <2>1 DEF Kept, Relayed, Accounted
<1>5. CASE RelayAbort
  <2>1. relay' = RelayIdle /\ UNCHANGED <<queued, outbox>> /\ locked' = {}
    BY <1>5, Zenon DEF RelayAbort, Rollback, redisVars
  <2>2. relay'.pc = "idle" /\ relay'.todo = {}
    BY <2>1 DEF RelayIdle
  <2> QED BY <1>a, <1>b, <1>c, <2>1, <2>2 DEF Kept, Relayed, Accounted
<1> QED BY <1>1, <1>2, <1>3, <1>4, <1>5 DEF Relay, RelayStep

\* Kept is inductive relative to Token.
LEMMA KeptStep ==
    ASSUME Steady, Core, Undisturbed, Token, Kept, [Next]_vars
    PROVE  Kept'
<1>a. /\ status \in [Jobs -> Statuses] /\ outbox \subseteq Jobs
      /\ job \in [Sessions -> Jobs \cup {Nil}]
      /\ locked \subseteq Jobs
      /\ relay.pc = "exec" => relay.job \in Jobs
  BY DEF Core, TypeOK, StoreTypeOK, ServerTypeOK
<1>b. SteadyNext
  BY SteadySteps
<1> USE DEF serverVars, handlerVars, relayVars, redisVars
<1>1. ASSUME NEW j \in Jobs, Submit(j)
      PROVE  Kept'
  <2>1. /\ status[j] = "none"
        /\ status' = [status EXCEPT ![j] = "pending"]
        /\ outbox' = outbox \cup {j}
        /\ UNCHANGED <<locked, relay, queued, pc, job>>
    BY <1>1 DEF Submit, SubmitJob, InsertJob
  <2>2. j \notin outbox /\ j \notin locked
    BY <2>1 DEF Kept, Relayed
  <2>3. Worked'
    BY <1>a, <2>1 DEF Kept, Worked, Working, Holds
  <2>4. Accounted'
    BY <1>a, <2>1 DEF Kept, Accounted, Waiting
  <2>5. relay.pc = "exec" => relay.job # j
    BY <2>2 DEF Kept, Relayed
  <2> QED BY <1>a, <2>1, <2>2, <2>3, <2>4, <2>5 DEF Kept, Relayed, Waiting
<1>2. ASSUME NEW s \in Sessions, Worker(s) \/ Disconnect(s), UNCHANGED relay
      PROVE  Kept'
  <2>1. UNCHANGED <<redisVars, storeVars, job>>
    BY <1>2 DEF Worker, Connect, Finish, Disconnect
  <2>2. \A t \in Sessions : Working(t)' => Working(t)
    BY <1>2 DEF Worker, Connect, Finish, Disconnect, Working, Holds, Goto,
                Core, TypeOK, ServerTypeOK, SessionOK, Empty
  <2>3. Worked'
    BY <2>1, <2>2 DEF Kept, Worked, storeVars
  <2> QED BY <1>2, <2>1, <2>3
          DEF Kept, Relayed, Accounted, Waiting, storeVars
<1>3. ASSUME NEW s \in Sessions, Handler(s)
      PROVE  Kept'
  BY <1>3, KeptHandler
<1>4. CASE Relay
  BY <1>4, KeptRelay
<1>5. CASE Promote
  <2>1. UNCHANGED <<storeVars, relay, queued, pc, job>>
    BY <1>5 DEF Promote, PromoteRead, PromoteExec, PromoteError
  <2> QED BY <2>1 DEF Kept, Worked, Working, Holds, Relayed, Accounted,
                      Waiting, storeVars
<1>6. CASE BootReset
  <2>1. /\ status' = [j \in Jobs |-> IF status[j] = "running" THEN "pending" ELSE status[j]]
        /\ outbox' = outbox \cup RunningJobs
        /\ UNCHANGED <<locked, relay, queued, pc, job>>
        /\ server # "up"
    BY <1>6 DEF BootReset, ResetRunningJobs, RunningJobs, queueVars
  <2>2. locked = {} /\ relay.pc = "idle" /\ \A t \in Sessions : ~Holds(t)
    BY <2>1 DEF Token, Quiet, Holds, Kept, Relayed
  <2>3. Worked' /\ Relayed'
    BY <1>a, <2>1, <2>2 DEF Kept, Worked, Working, Holds, Relayed, RunningJobs
  <2>4. Accounted'
    BY <1>a, <2>1 DEF Kept, Accounted, Waiting, RunningJobs
  <2> QED BY <2>3, <2>4 DEF Kept
<1>7. CASE BootRecover
  <2>1. UNCHANGED <<storeVars, relay, queued, pc, job>>
    BY <1>7 DEF BootRecover, Recover
  <2> QED BY <2>1 DEF Kept, Worked, Working, Holds, Relayed, Accounted,
                      Waiting, storeVars
<1>8. CASE Crash
  <2>1. /\ UNCHANGED <<status, outbox, queued>> /\ locked' = {}
        /\ relay'.pc = "idle" /\ relay'.todo = {}
        /\ \A t \in Sessions : ~Holds(t)'
    BY <1>8 DEF Crash, RelayIdle, Holds
  <2> QED BY <2>1 DEF Kept, Worked, Working, Relayed, Accounted, Waiting
<1>9. CASE UNCHANGED vars
  <2>1. UNCHANGED <<storeVars, relay, queued, pc, job>>
    BY <1>9 DEF vars, queueVars
  <2> QED BY <2>1 DEF Kept, Worked, Working, Holds, Relayed, Accounted,
                      Waiting, storeVars
<1> QED BY <1>b, <1>1, <1>2, <1>3, <1>4, <1>5, <1>6, <1>7, <1>8, <1>9
           DEF SteadyNext, Boot

\* It holds from the beginning.
LEMMA KeptInit == Init => Kept
BY DEF Init, ServerInit, StoreInit, RelayInit, RelayIdle, Kept, Worked, Working,
       Holds, Relayed, Accounted, Waiting

\* It leaves a job in the queued set at least.
LEMMA KeptTorn == Kept => LostOnlyTorn
BY DEF Kept, Accounted, LostOnlyTorn, Held

\* Without silent workers a job is lost in one way only, an Enqueue that was
\* cut short after its SADD, whatever else fails: a job whose row is waiting
\* has its outbox row, an entry in Redis, or at least its place in the queued
\* set (SubmitJob, relay, Consume, handleResult, ResetRunningJobs, Recover).
THEOREM LostOnlyTornHolds ==
    ASSUME Steady
    PROVE  Spec => []LostOnlyTorn
<1> DEFINE IInv == Core /\ Undisturbed /\ Token /\ Kept
<1>1. Init => IInv
  BY TokenInit, KeptInit
<1>2. IInv /\ [Next]_vars => IInv'
  BY CoreStep, UndisturbedStep, TokenStep, KeptStep
<1> QED BY <1>1, <1>2, KeptTorn, PTL DEF Spec

--------------------------------------------------------------------------------
(*****************************************************************************)
(* NothingLost, while neither the server nor Redis fails.                    *)
(*****************************************************************************)
\* The environments in which neither the server process nor Redis fails.
Intact == Steady /\ "crash" \notin FaultKinds /\ "redis" \notin FaultKinds

\* What a step of the Work handler does to Redis.
LEMMA HandlerRedis ==
    ASSUME Core, NEW s \in Sessions, Handler(s)
    PROVE  \/ Pop(s)
           \/ Drop(s)
           \/ UNCHANGED redisVars
           \/ /\ job[s] \in Jobs /\ Holds(s)
              /\ Ack(job[s]) \/ Fail(job[s]) \/ Retry(job[s], rc[s])
<1>a. SessionOK(s) /\ Nil \notin Jobs
  BY NilAssumption DEF Core
<1>1. CASE AckResult(s) \/ RequeueRedis(s) \/ RetryResult(s) \/ FailResult(s)
  <2>1. job[s] \in Jobs /\ pc[s] # "complete"
    BY <1>a, <1>1 DEF AckResult, RequeueRedis, RetryResult, FailResult, SessionOK
  <2>2. UNCHANGED redisVars \/ Ack(job[s]) \/ Fail(job[s]) \/ Retry(job[s], rc[s])
    BY <1>1
       DEF AckResult, RequeueRedis, RetryResult, FailResult, TryRedis,
           TryStreamRedis
  <2> QED BY <1>a, <2>1, <2>2 DEF Holds
<1>2. CASE ~(\/ AckResult(s) \/ RequeueRedis(s) \/ RetryResult(s)
             \/ FailResult(s) \/ Pop(s) \/ Drop(s))
  BY <1>2
     DEF Handler, HandlerStep, RecvReady, RecvError, RecvHeartbeat,
         recordHeartbeat, RecvResult, ConsumeError, HGet, StoreOwner,
         SetRunning, Send, RequeueDb, GetJob, CompleteResult, MarkRetrying,
         MarkFailed
<1> QED BY <1>1, <1>2

\* A step of the Work handler keeps every entry backed: what it forgets has no
\* entry left, because the one in its hands was the only one.
LEMMA BackedHandler ==
    ASSUME Core, Token, Backed, NEW s \in Sessions, Handler(s), UNCHANGED server
    PROVE  Backed'
<1>a. /\ ready \in Seq(Jobs) /\ processing \in Seq(Jobs) /\ delayed \subseteq Jobs
      /\ payloads \in [Jobs -> Nat \cup {NoPayload}] /\ rc[s] \in Nat
      /\ IsInjective(ready) /\ IsInjective(processing)
      /\ ToSet(ready) \cap ToSet(processing) = {}
  BY DEF Core, TypeOK, QueueTypeOK, ServerTypeOK, Token, SingleEntry
<1>b. UNCHANGED relay
  BY DEF Handler, relayVars
<1>c. Entered \subseteq Jobs
  BY <1>a DEF Entered, ToSet
<1>1. \A t \in Sessions : pc'[t] # "drop"
  <2>1. pc \in [Sessions -> HandlerPcs]
    BY DEF Core, TypeOK, ServerTypeOK
  <2>2. HGet(s) => payloads[job[s]] # NoPayload
    <3> SUFFICES ASSUME HGet(s) PROVE payloads[job[s]] # NoPayload
      OBVIOUS
    <3>1. Holds(s)
      BY NilAssumption DEF HGet, Holds, Core, SessionOK
    <3> QED BY <3>1 DEF Token, SingleHolder, Backed, Entered
  <2>3. \A t \in Sessions \ {s} : pc'[t] = pc[t]
    BY <2>1
       DEF Handler, HandlerStep, RecvReady, RecvError, RecvHeartbeat,
           recordHeartbeat, RecvResult, Pop, ConsumeError, HGet, Drop,
           StoreOwner, SetRunning, Send, RequeueDb, RequeueRedis, GetJob,
           AckResult, CompleteResult, MarkRetrying, RetryResult, MarkFailed,
           FailResult, Goto, Return, ReturnResult
  <2>4. pc'[s] # "drop"
    <3>1. CASE GetJob(s)
      <4>1. outcome[s] \in {"success", "failure"}
        BY <3>1 DEF GetJob, Core, SessionOK, TypeOK, ServerTypeOK
      <4>2. ResultBranch(s) # "drop"
        BY <4>1 DEF ResultBranch
      <4> QED BY <2>1, <3>1, <4>2 DEF GetJob, Goto, ReturnResult
    <3>2. CASE ~GetJob(s)
      BY <2>1, <2>2, <3>2
         DEF Backed, Handler, HandlerStep, RecvReady, RecvError, RecvHeartbeat,
             recordHeartbeat, RecvResult, Pop, ConsumeError, HGet, Drop,
             StoreOwner, SetRunning, Send, RequeueDb, RequeueRedis,
             AckResult, CompleteResult, MarkRetrying, RetryResult, MarkFailed,
             FailResult, Goto, Return, ReturnResult
    <3> QED BY <3>1, <3>2
  <2> QED BY <2>3, <2>4 DEF Backed
<1>2. CASE Pop(s)
  <2> DEFINE e == ready[Len(ready)]
  <2>1. e \in Jobs /\ ready # <<>>
    BY <1>a, <1>2 DEF Pop, ConsumePop
  <2>2. /\ e \in ToSet(ready)
        /\ ToSet(SubSeq(ready, 1, Len(ready) - 1)) = ToSet(ready) \ {e}
    BY <1>a, <2>1, PopDistinct
  <2>3. ToSet(<<e>> \o processing) = ToSet(processing) \cup {e}
    BY <1>a, <2>1, PushDistinct
  <2>4. Entered' = Entered /\ UNCHANGED <<queued, payloads>>
    BY <1>2, <2>2, <2>3 DEF Pop, ConsumePop, Entered
  <2> QED BY <1>b, <1>1, <2>4 DEF Backed
<1>3. ~Drop(s)
  BY DEF Drop, Backed
<1>4. CASE UNCHANGED redisVars
  BY <1>b, <1>1, <1>4 DEF Backed, Entered, redisVars
<1>5. CASE /\ job[s] \in Jobs /\ Holds(s)
           /\ Ack(job[s]) \/ Fail(job[s]) \/ Retry(job[s], rc[s])
  <2> DEFINE j == job[s]
  <2>1. j \in ToSet(processing) /\ j \notin ToSet(ready)
    BY <1>a, <1>5 DEF Token, SingleHolder
  <2>2. ToSet(processing') = ToSet(processing) \ {j} /\ ready' = ready
    BY <1>a, <1>5, RemoveFirstDistinct DEF Ack, Fail, Retry
  <2>3. CASE Ack(j) \/ Fail(j)
    <3>1. /\ queued' = queued \ {j} /\ delayed' = delayed \ {j}
          /\ payloads' = [payloads EXCEPT ![j] = NoPayload]
      BY <2>3 DEF Ack, Fail, Forget
    <3>2. Entered' = Entered \ {j}
      BY <2>1, <2>2, <3>1 DEF Entered
    <3> HIDE DEF j
    <3> QED BY <1>a, <1>b, <1>c, <1>1, <3>1, <3>2 DEF Backed
  <2>4. CASE Retry(j, rc[s])
    <3>1. /\ queued' = queued \cup {j} /\ delayed' = delayed \cup {j}
          /\ payloads' = [payloads EXCEPT ![j] = rc[s]]
      BY <2>4 DEF Retry
    <3>2. Entered' = Entered \cup {j}
      BY <2>1, <2>2, <3>1 DEF Entered
    <3>3. j \in Jobs
      BY <1>5
    <3> HIDE DEF j
    <3> QED BY <1>a, <1>b, <1>c, <1>1, <3>1, <3>2, <3>3 DEF Backed, NoPayload
  <2> QED BY <1>5, <2>3, <2>4
<1> QED BY <1>2, <1>3, <1>4, <1>5, HandlerRedis

\* A step of the relay does: it pushes what its SADD has added.
LEMMA BackedRelay ==
    ASSUME Intact, Core, Token, Backed, Relay, UNCHANGED server
    PROVE  Backed'
<1>a. /\ relay \in [pc : {"idle", "next", "exec"}, todo : SUBSET Jobs,
                    job : Jobs \cup {Nil}, added : BOOLEAN]
      /\ ready \in Seq(Jobs) /\ payloads \in [Jobs -> Nat \cup {NoPayload}]
      /\ delayed \subseteq Jobs /\ processing \in Seq(Jobs)
      /\ relay.pc = "exec" => relay.job \in Jobs
  BY DEF Core, TypeOK, RelayTypeOK, QueueTypeOK
<1>b. UNCHANGED pc
  BY DEF Relay, serverVars, handlerVars
<1>c. Entered \subseteq Jobs
  BY <1>a DEF Entered, ToSet
<1>1. CASE UNCHANGED redisVars /\ relay.pc # "exec"
  BY <1>b, <1>1 DEF Backed, Entered, redisVars
<1>2. ASSUME NEW j \in Jobs, RelaySAdd(j)
      PROVE  Backed'
  <2>1. /\ relay.pc = "next" /\ relay'.pc = "exec" /\ relay'.job = j
        /\ relay'.added = (j \notin queued)
        /\ queued' = queued \cup {j}
        /\ UNCHANGED <<ready, processing, delayed, payloads>>
    BY <1>a, <1>2 DEF RelaySAdd, EnqueueSAdd
  <2> QED BY <1>b, <2>1 DEF Backed, Entered
<1>3. CASE RelayExec
  <2> DEFINE j == relay.job
  <2>1. /\ relay.pc = "exec" /\ j \in Jobs
        /\ relay'.pc = "next"
        /\ payloads' = [payloads EXCEPT ![j] = 0]
        /\ UNCHANGED <<processing, delayed, queued>>
    BY <1>a, <1>3 DEF RelayExec, EnqueueExec
  <2>2. ToSet(<<j>> \o ready) = ToSet(ready) \cup {j}
    BY <1>a, <2>1, PushDistinct
  <2>3. CASE relay.added
    <3>1. Entered' = Entered \cup {j}
      BY <1>3, <2>1, <2>2, <2>3 DEF RelayExec, EnqueueExec, Entered
    <3> QED BY <1>a, <1>b, <1>c, <2>1, <3>1 DEF Backed, NoPayload
  <2>4. CASE ~relay.added
    <3>1. Entered' = Entered
      BY <1>3, <2>1, <2>4 DEF RelayExec, EnqueueExec, Entered
    <3> QED BY <1>a, <1>b, <1>c, <2>1, <2>4, <3>1 DEF Backed, NoPayload
  <2> QED BY <2>3, <2>4
<1>4. RelayAbort => relay.pc # "exec" /\ UNCHANGED redisVars
  BY DEF RelayAbort, Fault, Intact
<1>5. RelayBegin \/ RelayCommit => relay.pc # "exec" /\ UNCHANGED redisVars
  BY DEF RelayBegin, RelayCommit
<1> QED BY <1>1, <1>2, <1>3, <1>4, <1>5 DEF Relay, RelayStep

\* Backed is inductive relative to the other invariants.
LEMMA BackedStep ==
    ASSUME Intact, Core, Undisturbed, Token, Backed, [Next]_vars
    PROVE  Backed'
<1>a. SteadyNext
  BY SteadySteps DEF Intact
<1> DEFINE Same == UNCHANGED <<redisVars, relay, server>>
<1>b. Same /\ (\A t \in Sessions : pc'[t] # "drop") => Backed'
  BY DEF Backed, Entered, redisVars
<1>1. ASSUME NEW j \in Jobs, Submit(j), UNCHANGED server
      PROVE  Backed'
  <2>1. Same /\ UNCHANGED pc
    BY <1>1 DEF Submit, SubmitJob, relayVars, serverVars, handlerVars
  <2> QED BY <1>b, <2>1 DEF Backed
<1>2. ASSUME NEW s \in Sessions, Worker(s) \/ Disconnect(s),
             UNCHANGED <<server, relayVars>>
      PROVE  Backed'
  <2>1. Same
    BY <1>2 DEF Worker, Connect, Finish, Disconnect, relayVars
  <2>2. \A t \in Sessions : pc'[t] \in {pc[t], "recv"}
    BY <1>2
       DEF Worker, Connect, Finish, Disconnect, handlerVars, Goto, Core, TypeOK,
           ServerTypeOK
  <2> QED BY <1>b, <2>1, <2>2 DEF Backed
<1>3. CASE Promote /\ UNCHANGED server
  <2>a. /\ ready \in Seq(Jobs) /\ due \subseteq delayed /\ due \in SUBSET Jobs
        /\ delayed \subseteq Jobs
    BY DEF Core, TypeOK, QueueTypeOK, Token, SingleEntry
  <2>b. UNCHANGED <<relay, pc>>
    BY <1>3 DEF Promote, relayVars, serverVars, handlerVars
  <2>1. CASE UNCHANGED redisVars
    BY <1>b, <1>3, <2>b, <2>1 DEF Backed
  <2>2. CASE PromoteExec
    <3>1. PICK order \in SetToSeqs(due) : ready' = order \o ready
      BY <2>2 DEF PromoteExec
    <3>2. order \in Seq(Jobs) /\ ToSet(order) = due
      BY <2>a, OrderComplete, SetToSeqsType
    <3>3. ToSet(ready') = ToSet(order) \cup ToSet(ready)
      BY <2>a, <3>1, <3>2, ConcatDistinct
    <3>4. delayed' = delayed \ due /\ UNCHANGED <<processing, payloads, queued>>
      BY <2>2 DEF PromoteExec
    <3>5. Entered' = Entered
      BY <2>a, <3>2, <3>3, <3>4 DEF Entered
    <3> QED BY <1>3, <2>b, <3>4, <3>5 DEF Backed
  <2> QED BY <1>3, <2>1, <2>2 DEF Promote, PromoteRead, PromoteError
<1>4. ~Boot
  BY DEF Backed, Boot, BootReset, BootRecover
<1>5. ~Crash
  BY DEF Intact, Crash, Fault
<1>6. CASE UNCHANGED vars
  <2>1. Same /\ UNCHANGED pc
    BY <1>6 DEF vars, queueVars, relayVars, serverVars, handlerVars
  <2> QED BY <1>b, <2>1 DEF Backed
<1> QED BY <1>a, <1>1, <1>2, <1>3, <1>4, <1>5, <1>6, BackedHandler, BackedRelay
       DEF SteadyNext

\* It holds from the beginning.
LEMMA BackedInit == Init => Backed
<1> SUFFICES ASSUME Init PROVE Backed
  OBVIOUS
<1>1. /\ ready = <<>> /\ processing = <<>> /\ delayed = {} /\ queued = {}
      /\ server = "up" /\ \A s \in Sessions : pc[s] = "new"
  BY DEF Init, QueueInit, ServerInit
<1>2. ToSet(ready) = {} /\ ToSet(processing) = {}
  BY <1>1 DEF ToSet
<1> QED BY <1>1, <1>2 DEF Backed, Entered

\* It leaves every waiting job its outbox row or its entry.
LEMMA BackedHeld == Kept /\ Backed => NothingLost
<1> SUFFICES ASSUME Kept, Backed, NEW j \in Jobs, Waiting(j), j \notin outbox
             PROVE  InRedis(j)
  BY DEF NothingLost, Held
<1>1. j \in queued
  BY DEF Kept, Accounted
<1>2. relay.pc = "exec" => relay.job # j
  BY DEF Kept, Relayed
<1>3. j \in Entered
  BY <1>1, <1>2 DEF Backed
<1> QED BY <1>3 DEF Entered, InRedis, Contains, ToSet

\* README: no job is lost.  While neither the server nor Redis fails, and no
\* worker falls silent, it is so for every interleaving, also when streams break
\* and Postgres statements fail: a job whose row is waiting has its outbox row
\* or an entry in Redis (Enqueue, Consume, Retry, Ack and Fail; the relay's
\* rollback).
THEOREM NothingLostHolds ==
    ASSUME Intact
    PROVE  Spec => []NothingLost
<1> DEFINE IInv == Core /\ Undisturbed /\ Token /\ Kept /\ Backed
<1>1. Init => IInv
  BY TokenInit, KeptInit, BackedInit
<1>2. IInv /\ [Next]_vars => IInv'
  BY CoreStep, UndisturbedStep, TokenStep, KeptStep, BackedStep DEF Intact
<1> QED BY <1>1, <1>2, BackedHeld, PTL DEF Spec
================================================================================

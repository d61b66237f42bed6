---------------------------- MODULE SyncProofs ----------------------------
(***************************************************************************)
(* Theorems about Sync, for any threads, locks, priorities and nesting,    *)
(* whether or not the semaphores' waiters are linked: first about locks,   *)
(* which need nothing of the lists of threads, then about the scheduler.   *)
(***************************************************************************)
EXTENDS Sync, SequenceTheorems, TLAPS

(* list_append, list_push and list_pop give lists of threads. *)
LEMMA ListTyping ==
  ASSUME NEW q \in Seq(Thread), NEW t \in Thread
  PROVE  /\ list_append(q, t) \in Seq(Thread)
         /\ list_push(q, t) \in Seq(Thread)
         /\ list_append(q, t) # <<>>
         /\ q # <<>> => Head(q) \in Thread /\ Tail(q) \in Seq(Thread)
<1>1. list_append(q, t) \in Seq(Thread)
  BY AppendProperties DEF list_append
<1>2. list_append(q, t) # <<>>
  BY AppendProperties DEF list_append
<1>3. <<t>> \in Seq(Thread)
  OBVIOUS
<1>4. list_push(q, t) \in Seq(Thread)
  BY <1>3, ConcatProperties DEF list_push
<1>5. q # <<>> => Head(q) \in Thread /\ Tail(q) \in Seq(Thread)
  BY HeadTailProperties
<1> QED
  BY <1>1, <1>2, <1>4, <1>5

(* schedule() keeps the types of what it is given. *)
LEMMA ScheduleTyping ==
  ASSUME ThreadTypeOK,
         NEW st \in [Thread -> Status], NEW rq \in Seq(Thread), NEW f \in Frame,
         Schedule(st, rq, f), old' \in [Thread -> Intr]
  PROVE  ThreadTypeOK'
<1> DEFINE expired == st[cur] = "RUNNING"
           queue   == IF expired THEN list_append(rq, cur) ELSE rq
           left    == IF expired THEN [st EXCEPT ![cur] = "READY"] ELSE st
<1>1. cur \in Thread /\ Prio[cur] \in 0..255
  BY ThreadAssumption DEF ThreadTypeOK
<1>2. queue \in Seq(Thread)
  BY <1>1, ListTyping
<1>3. left \in [Thread -> Status]
  BY <1>1 DEF Status
<1>4. CASE (expired => ~elem_find(rq, cur)) /\ queue # <<>>
  <2>1. Head(queue) \in Thread /\ Tail(queue) \in Seq(Thread)
    BY <1>2, <1>4, ListTyping
  <2>2. /\ cur' = Head(queue)
        /\ ready' = Tail(queue)
        /\ status' = [left EXCEPT ![Head(queue)] = "RUNNING"]
        /\ ticks' = IF expired THEN [ticks EXCEPT ![cur] = Prio[cur]] ELSE ticks
        /\ frame' = [frame EXCEPT ![cur] = f]
        /\ intr' = "OFF"
        /\ UNCHANGED <<booted, all, panic>>
    BY <1>4 DEF Schedule
  <2>3. status' \in [Thread -> Status]
    BY <1>3, <2>1, <2>2 DEF Status
  <2>4. ticks' \in [Thread -> 0..255] /\ frame' \in [Thread -> Frame]
    BY <1>1, <2>2 DEF ThreadTypeOK
  <2> QED
    BY <2>1, <2>2, <2>3, <2>4 DEF ThreadTypeOK, Intr
<1>5. CASE ~((expired => ~elem_find(rq, cur)) /\ queue # <<>>)
  <2>1. Halt("assert")
    BY <1>5 DEF Schedule
  <2> QED
    BY <2>1 DEF ThreadTypeOK, Halt, Panic, Intr
<1> QED
  BY <1>4, <1>5

(* So does the end of a context switch. *)
LEMMA SwitchReturnTyping ==
  ASSUME ThreadTypeOK, NEW t \in Thread, NEW f, NEW s \in Intr,
         SwitchReturn(t, f, s)
  PROVE  ThreadTypeOK'
  BY DEF ThreadTypeOK, SwitchReturn, Frame

(* And a kernel that stops. *)
LEMMA HaltTyping ==
  ASSUME ThreadTypeOK, NEW why \in Panic, Halt(why), UNCHANGED old
  PROVE  ThreadTypeOK'
  BY DEF ThreadTypeOK, Halt, Intr

(* And thread_unblock. *)
LEMMA UnblockTyping ==
  ASSUME ThreadTypeOK, NEW t \in Thread, ThreadUnblock(t), UNCHANGED old
  PROVE  ThreadTypeOK'
<1>1. list_push(ready, t) \in Seq(Thread)
  BY ListTyping DEF ThreadTypeOK
<1> QED
  BY <1>1, HaltTyping DEF ThreadUnblock, ThreadTypeOK, Status, Panic

-----------------------------------------------------------------------------
(* The turn of sema_down's loop has three outcomes: the thread queues and  *)
(* blocks, takes the semaphore, or the kernel stops.                       *)
LEMMA DownLoopCases ==
  ASSUME TypeOK, NEW t \in Thread, NEW o, want[t] \in Lock, DownLoop(t, o)
  PROVE  LET l == want[t] IN
    \/ /\ value[l] = 0
       /\ waiters' = [waiters EXCEPT ![l] = list_append(@, t)]
       /\ old' = [old EXCEPT ![t] = o]
       /\ pc' = [pc EXCEPT ![t] = "wait"]
       /\ ThreadBlock(t)
       /\ UNCHANGED <<value, holder, repeat, want, nest>>
    \/ /\ value[l] = 1
       /\ value' = [value EXCEPT ![l] = 0]
       /\ pc' = [pc EXCEPT ![t] = "own"]
       /\ intr' = o
       /\ frame' = [frame EXCEPT ![t] = "none"]
       /\ UNCHANGED <<cur, booted, status, ready, all, ticks, old, panic,
                      waiters, holder, repeat, want, nest>>
    \/ /\ Halt("assert") \/ Halt("fault")
       /\ UNCHANGED <<old, value, waiters, holder, repeat, pc, want, nest>>
<1>1. value[want[t]] \in {0, 1}
  BY DEF TypeOK
<1>2. CASE value[want[t]] = 0
  <2>1. CASE WaitersLinked /\ ~elem_find(waiters[want[t]], t)
    BY <1>2, <2>1 DEF DownLoop, Goto
  <2>2. CASE ~(WaitersLinked /\ ~elem_find(waiters[want[t]], t))
    BY <1>2, <2>2 DEF DownLoop
  <2> QED
    BY <2>1, <2>2
<1>3. CASE value[want[t]] = 1
  BY <1>3 DEF DownLoop, Goto
<1> QED
  BY <1>1, <1>2, <1>3

LEMMA DownLoopTyping ==
  ASSUME TypeOK, NEW t \in Thread, NEW o \in Intr, want[t] \in Lock, DownLoop(t, o)
  PROVE  TypeOK'
<1>1. CASE /\ value[want[t]] = 0
           /\ waiters' = [waiters EXCEPT ![want[t]] = list_append(@, t)]
           /\ old' = [old EXCEPT ![t] = o]
           /\ pc' = [pc EXCEPT ![t] = "wait"]
           /\ ThreadBlock(t)
           /\ UNCHANGED <<value, holder, repeat, want, nest>>
  <2>1. [status EXCEPT ![t] = "BLOCKED"] \in [Thread -> Status]
    BY DEF TypeOK, ThreadTypeOK, Status
  <2>2. old' \in [Thread -> Intr] /\ ready \in Seq(Thread)
    BY <1>1 DEF TypeOK, ThreadTypeOK
  <2>3. ThreadTypeOK'
    BY <1>1, <2>1, <2>2, ScheduleTyping DEF TypeOK, ThreadBlock, Frame
  <2>4. list_append(waiters[want[t]], t) \in Seq(Thread)
    BY ListTyping DEF TypeOK
  <2> QED
    BY <1>1, <2>3, <2>4 DEF TypeOK, PC
<1>2. CASE /\ value[want[t]] = 1
           /\ value' = [value EXCEPT ![want[t]] = 0]
           /\ pc' = [pc EXCEPT ![t] = "own"]
           /\ intr' = o
           /\ frame' = [frame EXCEPT ![t] = "none"]
           /\ UNCHANGED <<cur, booted, status, ready, all, ticks, old, panic,
                          waiters, holder, repeat, want, nest>>
  BY <1>2 DEF TypeOK, ThreadTypeOK, PC, Frame
<1>3. CASE /\ Halt("assert") \/ Halt("fault")
           /\ UNCHANGED <<old, value, waiters, holder, repeat, pc, want, nest>>
  <2>1. ThreadTypeOK'
    BY <1>3, HaltTyping DEF TypeOK, Panic
  <2> QED
    BY <1>3, <2>1 DEF TypeOK
<1> QED
  BY <1>1, <1>2, <1>3, DownLoopCases

-----------------------------------------------------------------------------
(* A context switch leaves every thread but the outgoing one at the        *)
(* function its stack had it at.                                           *)
LEMMA ScheduleFrames ==
  ASSUME ThreadTypeOK, NEW st, NEW rq, NEW f, Schedule(st, rq, f)
  PROVE  /\ \A t \in Thread : t # cur => frame'[t] = frame[t]
         /\ frame'[cur] \in {f, frame[cur]}
<1> DEFINE expired == st[cur] = "RUNNING"
           queue   == IF expired THEN list_append(rq, cur) ELSE rq
<1>1. CASE (expired => ~elem_find(rq, cur)) /\ queue # <<>>
  BY <1>1 DEF Schedule, ThreadTypeOK
<1>2. CASE ~((expired => ~elem_find(rq, cur)) /\ queue # <<>>)
  BY <1>2 DEF Schedule, Halt, ThreadTypeOK
<1> QED
  BY <1>1, <1>2

(* A step that touches no lock and calls none of the functions in Sync     *)
(* preserves the invariant if it types and blocks nobody.                  *)
LEMMA ThreadStep ==
  ASSUME LockIInv, ThreadTypeOK', UNCHANGED <<lockVars, callVars>>,
         \A t \in Thread : frame'[t] = "block" => frame[t] = "block"
  PROVE  LockIInv'
  BY DEF LockIInv, TypeOK, LockInv, WantOK, NestOK, FrameOK, HolderOK, RepeatOK,
         MutualExclusion, Possesses, lockVars, callVars

LEMMA TickStep == ASSUME LockIInv, Tick PROVE LockIInv'
<1>1. CASE ticks[cur] = 0
  <2>1. Schedule(status, ready, "timer") /\ UNCHANGED old
    BY <1>1 DEF Tick, TimerTick
  <2>2. ThreadTypeOK'
    BY <2>1, ScheduleTyping DEF LockIInv, TypeOK, ThreadTypeOK, Frame
  <2>3. \A t \in Thread : frame'[t] = "block" => frame[t] = "block"
    BY <2>1, ScheduleFrames DEF LockIInv, TypeOK
  <2> QED
    BY <2>2, <2>3, ThreadStep DEF Tick
<1>2. CASE ticks[cur] # 0
  <2>1. ticks' = [ticks EXCEPT ![cur] = @ - 1] /\ ticks[cur] \in 1..255
    BY <1>2 DEF Tick, TimerTick, LockIInv, TypeOK, ThreadTypeOK
  <2>2. UNCHANGED <<cur, intr, booted, status, ready, all, frame, old, panic>>
    BY <1>2 DEF Tick, TimerTick
  <2>3. ThreadTypeOK'
    BY <2>1, <2>2 DEF LockIInv, TypeOK, ThreadTypeOK
  <2> QED
    BY <2>2, <2>3, ThreadStep DEF Tick
<1> QED
  BY <1>1, <1>2

LEMMA StartStep == ASSUME LockIInv, Start PROVE LockIInv'
<1> DEFINE t == Started[Len(all)]
<1>1. ThreadStart(WaitersLinked) /\ UNCHANGED <<lockVars, callVars>>
  BY DEF Start, InClient
<1>2. CASE WaitersLinked /\ ~elem_find(ready, t) /\ ~elem_find(all, t)
  <2>1. Len(all) \in Nat \ {0} /\ Len(all) <= Len(Started)
    BY <1>1, EmptySeq DEF ThreadStart, LockIInv, TypeOK, ThreadTypeOK
  <2>2. t \in Thread /\ Prio[t] \in 0..255
    BY <2>1, ThreadAssumption, ElementOfSeq
  <2>3. /\ status' = [status EXCEPT ![t] = "READY"]
        /\ ready' = list_append(ready, t)
        /\ all' = list_append(all, t)
        /\ ticks' = [ticks EXCEPT ![t] = Prio[t]]
        /\ frame' = [frame EXCEPT ![t] = "kernel_thread"]
        /\ UNCHANGED <<cur, intr, booted, panic, old>>
    BY <1>1, <1>2 DEF ThreadStart
  <2>4. ready' \in Seq(Thread) /\ all' \in Seq(Thread) \ {<<>>}
    BY <2>2, <2>3, ListTyping DEF LockIInv, TypeOK, ThreadTypeOK
  <2>5. ThreadTypeOK'
    BY <2>2, <2>3, <2>4 DEF LockIInv, TypeOK, ThreadTypeOK, Status, Frame
  <2>6. \A u \in Thread : frame'[u] = "block" => frame[u] = "block"
    BY <2>2, <2>3 DEF LockIInv, TypeOK, ThreadTypeOK
  <2> QED
    BY <1>1, <2>5, <2>6, ThreadStep
<1>3. CASE ~(WaitersLinked /\ ~elem_find(ready, t) /\ ~elem_find(all, t))
  <2>1. (Halt("assert") \/ Halt("fault")) /\ UNCHANGED old
    BY <1>1, <1>3 DEF ThreadStart
  <2> QED
    BY <1>1, <2>1, HaltTyping, ThreadStep DEF Halt, Panic, LockIInv, TypeOK
<1> QED
  BY <1>2, <1>3

LEMMA EnableStep == ASSUME LockIInv, Enable PROVE LockIInv'
  BY ThreadStep DEF Enable, IntrEnable, InClient, LockIInv, TypeOK, ThreadTypeOK, Intr

LEMMA YieldStep == ASSUME LockIInv, NEW t \in Thread, Yield(t) PROVE LockIInv'
<1>1. ThreadYield(t) /\ UNCHANGED <<lockVars, callVars>> /\ cur = t
  BY DEF Yield, InClient, ThreadYield, Executing
<1>2. old' \in [Thread -> Intr]
  BY <1>1 DEF ThreadYield, LockIInv, TypeOK, ThreadTypeOK
<1>3. CASE ~elem_find(ready, t)
  <2> DEFINE st == [status EXCEPT ![t] = "READY"]
             rq == list_append(ready, t)
  <2>1. Schedule(st, rq, "yield")
    BY <1>1, <1>3 DEF ThreadYield
  <2>2. st \in [Thread -> Status]
    BY DEF LockIInv, TypeOK, ThreadTypeOK, Status
  <2>3. rq \in Seq(Thread)
    BY ListTyping DEF LockIInv, TypeOK, ThreadTypeOK
  <2> HIDE DEF st, rq
  <2>4. ThreadTypeOK'
    BY <1>2, <2>1, <2>2, <2>3, ScheduleTyping DEF LockIInv, TypeOK, Frame
  <2>5. ThreadTypeOK
    BY DEF LockIInv, TypeOK
  <2>6. /\ \A u \in Thread : u # cur => frame'[u] = frame[u]
        /\ frame'[cur] \in {"yield", frame[cur]}
    BY <2>1, <2>5, ScheduleFrames
  <2>7. \A u \in Thread : frame'[u] = "block" => frame[u] = "block"
    BY <2>6
  <2> QED
    BY <1>1, <2>4, <2>7, ThreadStep
<1>4. CASE elem_find(ready, t)
  <2>1. Halt("assert")
    BY <1>1, <1>4 DEF ThreadYield
  <2>2. ThreadTypeOK'
    BY <1>2, <2>1 DEF Halt, LockIInv, TypeOK, ThreadTypeOK, Panic, Intr
  <2> QED
    BY <1>1, <2>1, <2>2, ThreadStep DEF Halt
<1> QED
  BY <1>3, <1>4

LEMMA SwitchReturnStep ==
  ASSUME LockIInv, NEW t \in Thread, NEW f, NEW s \in Intr,
         SwitchReturn(t, f, s), UNCHANGED <<lockVars, callVars>>
  PROVE  LockIInv'
<1>1. ThreadTypeOK'
  BY SwitchReturnTyping DEF LockIInv, TypeOK
<1>2. \A u \in Thread : frame'[u] = "block" => frame[u] = "block"
  BY DEF SwitchReturn, LockIInv, TypeOK, ThreadTypeOK
<1> QED
  BY <1>1, <1>2, ThreadStep

(* sema_down, from either place.                                           *)
LEMMA DownLoopStep ==
  ASSUME LockIInv, NEW t \in Thread, NEW o \in Intr, DownLoop(t, o),
         pc[t] \in {"down", "wait"}, t = cur
  PROVE  LockIInv'
<1> DEFINE l == want[t]
<1>1. l \in Lock /\ nest[t] = 0
  BY DEF LockIInv, TypeOK, LockInv, WantOK, NestOK
<1>2. TypeOK'
  BY <1>1, DownLoopTyping DEF LockIInv
<1>3. CASE /\ pc' = [pc EXCEPT ![t] = "wait"]
           /\ ThreadBlock(t)
           /\ UNCHANGED <<value, holder, repeat, want, nest>>
  <2>1. \A u \in Thread : frame'[u] = "block" => frame[u] = "block" \/ u = t
    BY <1>3, ScheduleFrames DEF ThreadBlock, LockIInv, TypeOK
  <2>2. FrameOK'
    BY <1>3, <2>1 DEF LockIInv, TypeOK, LockInv, FrameOK
  <2>3. WantOK' /\ NestOK'
    BY <1>1, <1>3 DEF LockIInv, TypeOK, LockInv, WantOK, NestOK
  <2>4. HolderOK' /\ RepeatOK'
    BY <1>1, <1>3 DEF LockIInv, TypeOK, LockInv, HolderOK, RepeatOK
  <2>5. MutualExclusion'
    BY <1>1, <1>3 DEF LockIInv, TypeOK, LockInv, MutualExclusion, Possesses
  <2> QED
    BY <1>2, <2>2, <2>3, <2>4, <2>5 DEF LockIInv, LockInv
<1>4. CASE /\ value[l] = 1
           /\ value' = [value EXCEPT ![l] = 0]
           /\ pc' = [pc EXCEPT ![t] = "own"]
           /\ frame' = [frame EXCEPT ![t] = "none"]
           /\ UNCHANGED <<holder, repeat, want, nest>>
  <2>1. WantOK' /\ NestOK' /\ FrameOK'
    BY <1>1, <1>4 DEF LockIInv, TypeOK, ThreadTypeOK, LockInv, WantOK, NestOK, FrameOK
  <2>2. HolderOK'
    BY <1>1, <1>4 DEF LockIInv, TypeOK, LockInv, HolderOK
  <2>3. RepeatOK'
    BY <1>1, <1>4 DEF LockIInv, TypeOK, LockInv, RepeatOK
  <2>4. MutualExclusion'
    BY <1>1, <1>4 DEF LockIInv, TypeOK, LockInv, MutualExclusion, Possesses
  <2> QED
    BY <1>2, <2>1, <2>2, <2>3, <2>4 DEF LockIInv, LockInv
<1>5. CASE /\ UNCHANGED <<value, holder, repeat, pc, want, nest>>
           /\ UNCHANGED frame
  BY <1>2, <1>5 DEF LockIInv, LockInv, WantOK, NestOK, FrameOK, HolderOK, RepeatOK,
                    MutualExclusion, Possesses
<1> QED
  BY <1>1, <1>3, <1>4, <1>5, DownLoopCases DEF LockIInv, Halt

LEMMA SemaDownStep == ASSUME LockIInv, NEW t \in Thread, SemaDown(t) PROVE LockIInv'
  BY DownLoopStep DEF SemaDown, At, Executing, LockIInv, TypeOK, ThreadTypeOK

LEMMA RetryDownStep == ASSUME LockIInv, NEW t \in Thread, RetryDown(t) PROVE LockIInv'
  BY DownLoopStep DEF RetryDown, LockIInv, TypeOK, ThreadTypeOK, LockInv, FrameOK

LEMMA LockAcquireStep ==
  ASSUME LockIInv, NEW t \in Thread, NEW l \in Lock, LockAcquire(t, l) PROVE LockIInv'
<1>1. ThreadTypeOK' /\ want' \in [Thread -> Lock \cup {NoLock}] /\ nest[t] < MaxNest
  BY DEF LockAcquire, LockIInv, TypeOK, ThreadTypeOK, threadVars
<1>2. CASE holder[l] # t
  <2>1. want[t] = NoLock /\ nest[t] = 0
    BY <1>2 DEF LockAcquire, At, LockIInv, TypeOK, LockInv, WantOK, HolderOK
  <2>2. /\ want' = [want EXCEPT ![t] = l]
        /\ pc' = [pc EXCEPT ![t] = "down"]
        /\ pc[t] = "run"
        /\ frame[t] = "none"
        /\ UNCHANGED <<value, waiters, holder, repeat, nest, frame>>
    BY <1>2 DEF LockAcquire, At, Executing, Goto, threadVars
  <2>3. TypeOK'
    BY <1>1, <2>2 DEF LockIInv, TypeOK, PC
  <2>4. WantOK' /\ NestOK' /\ FrameOK'
    BY <2>1, <2>2, SyncAssumption
    DEF LockIInv, TypeOK, LockInv, WantOK, NestOK, FrameOK
  <2>5. HolderOK'
    BY <1>2, <2>1, <2>2, SyncAssumption DEF LockIInv, TypeOK, LockInv, HolderOK
  <2>6. RepeatOK'
    BY <2>1, <2>2 DEF LockIInv, TypeOK, LockInv, RepeatOK
  <2>7. MutualExclusion'
    BY <2>1, <2>2 DEF LockIInv, TypeOK, LockInv, MutualExclusion, Possesses
  <2> QED
    BY <2>3, <2>4, <2>5, <2>6, <2>7 DEF LockIInv, LockInv
<1>3. CASE holder[l] = t
  <2>1. want[t] = l /\ nest[t] > 0 /\ pc[t] = "run"
    BY <1>3 DEF LockAcquire, At, LockIInv, LockInv, HolderOK
  <2>2. /\ repeat' = [repeat EXCEPT ![l] = @ + 1]
        /\ nest' = [nest EXCEPT ![t] = @ + 1]
        /\ UNCHANGED <<value, waiters, holder, want, pc, frame>>
    BY <1>3, <2>1 DEF LockAcquire, threadVars, LockIInv, TypeOK
  <2>3. TypeOK'
    BY <1>1, <2>1, <2>2, SyncAssumption DEF LockIInv, TypeOK
  <2>4. WantOK' /\ NestOK' /\ FrameOK'
    BY <2>1, <2>2 DEF LockIInv, TypeOK, LockInv, WantOK, NestOK, FrameOK
  <2>5. HolderOK'
    BY <2>1, <2>2 DEF LockIInv, TypeOK, LockInv, HolderOK
  <2>6. value[l] # 1 /\ \A u \in Thread : Possesses(u, l) => u = t
    BY <2>1 DEF LockIInv, TypeOK, LockInv, MutualExclusion, Possesses
  <2>7. RepeatOK'
    BY <2>1, <2>2, <2>6 DEF LockIInv, TypeOK, LockInv, RepeatOK, Possesses
  <2>8. MutualExclusion'
    BY <2>1, <2>2 DEF LockIInv, TypeOK, LockInv, MutualExclusion, Possesses
  <2> QED
    BY <2>3, <2>4, <2>5, <2>7, <2>8 DEF LockIInv, LockInv
<1> QED
  BY <1>2, <1>3

(* The steps of lock_acquire after sema_down, and lock_release.            *)
LEMMA SetHolderStep == ASSUME LockIInv, NEW t \in Thread, SetHolder(t) PROVE LockIInv'
<1> DEFINE l == want[t]
<1>1. l \in Lock /\ nest[t] = 0 /\ pc[t] = "own"
  BY DEF SetHolder, At, LockIInv, TypeOK, LockInv, WantOK, NestOK
<1>2. /\ holder' = [holder EXCEPT ![l] = t]
      /\ pc' = [pc EXCEPT ![t] = "count"]
      /\ frame[t] = "none"
      /\ UNCHANGED <<threadVars, value, waiters, repeat, want, nest>>
  BY DEF SetHolder, At, Executing, Goto
<1>3. ThreadTypeOK' /\ UNCHANGED frame
  BY <1>2 DEF LockIInv, TypeOK, ThreadTypeOK, threadVars
<1>4. TypeOK'
  BY <1>1, <1>2, <1>3 DEF LockIInv, TypeOK, PC
<1>5. WantOK' /\ NestOK' /\ FrameOK'
  BY <1>1, <1>2, <1>3 DEF LockIInv, TypeOK, ThreadTypeOK, LockInv, WantOK, NestOK, FrameOK
<1>6. \A u \in Thread : Possesses(u, l) => u = t
  BY <1>1 DEF LockIInv, LockInv, MutualExclusion, Possesses
<1>7. HolderOK'
  BY <1>1, <1>2, <1>6 DEF LockIInv, TypeOK, LockInv, HolderOK, Possesses
<1>8. RepeatOK'
  BY <1>1, <1>2 DEF LockIInv, TypeOK, LockInv, RepeatOK
<1>9. MutualExclusion'
  BY <1>1, <1>2 DEF LockIInv, TypeOK, LockInv, MutualExclusion, Possesses
<1> QED
  BY <1>4, <1>5, <1>7, <1>8, <1>9 DEF LockIInv, LockInv

LEMMA SetRepeatStep == ASSUME LockIInv, NEW t \in Thread, SetRepeat(t) PROVE LockIInv'
<1> DEFINE l == want[t]
<1>1. l \in Lock /\ nest[t] = 0 /\ pc[t] = "count" /\ repeat[l] = 0
  BY DEF SetRepeat, At, LockIInv, TypeOK, LockInv, WantOK, NestOK, RepeatOK
<1>2. /\ repeat' = [repeat EXCEPT ![l] = 1]
      /\ nest' = [nest EXCEPT ![t] = 1]
      /\ pc' = [pc EXCEPT ![t] = "run"]
      /\ frame[t] = "none"
      /\ UNCHANGED <<threadVars, value, waiters, holder, want>>
  BY <1>1 DEF SetRepeat, At, Executing, Goto
<1>3. ThreadTypeOK' /\ UNCHANGED frame
  BY <1>2 DEF LockIInv, TypeOK, ThreadTypeOK, threadVars
<1>4. TypeOK'
  BY <1>1, <1>2, <1>3, SyncAssumption DEF LockIInv, TypeOK, PC
<1>5. WantOK' /\ NestOK' /\ FrameOK'
  BY <1>1, <1>2, <1>3, SyncAssumption
  DEF LockIInv, TypeOK, ThreadTypeOK, LockInv, WantOK, NestOK, FrameOK
<1>6. value[l] # 1 /\ \A u \in Thread : Possesses(u, l) => u = t
  BY <1>1 DEF LockIInv, TypeOK, LockInv, MutualExclusion, Possesses
<1>7. HolderOK'
  BY <1>1, <1>2 DEF LockIInv, TypeOK, LockInv, HolderOK
<1>8. RepeatOK'
  BY <1>1, <1>2, <1>6 DEF LockIInv, TypeOK, LockInv, RepeatOK, Possesses
<1>9. MutualExclusion'
  BY <1>1, <1>2 DEF LockIInv, TypeOK, LockInv, MutualExclusion, Possesses
<1> QED
  BY <1>4, <1>5, <1>7, <1>8, <1>9 DEF LockIInv, LockInv

LEMMA LockReleaseStep == ASSUME LockIInv, NEW t \in Thread, LockRelease(t) PROVE LockIInv'
<1> DEFINE l == want[t]
<1>1. l \in Lock /\ nest[t] > 0 /\ pc[t] = "run"
  BY DEF LockRelease, ReleaseAbove, At, LockIInv, TypeOK, LockInv, WantOK
<1>2. holder[l] = t /\ repeat[l] = nest[t] /\ nest[t] \in Nat
  BY <1>1 DEF LockIInv, TypeOK, LockInv, HolderOK, RepeatOK
<1>3. /\ nest' = [nest EXCEPT ![t] = @ - 1]
      /\ frame[t] = "none"
      /\ UNCHANGED <<threadVars, value, waiters, holder, want>>
  BY <1>1, <1>2 DEF LockRelease, ReleaseAbove, At, Executing
<1>4. ThreadTypeOK' /\ UNCHANGED frame
  BY <1>3 DEF LockIInv, TypeOK, ThreadTypeOK, threadVars
<1>5. value[l] # 1 /\ \A u \in Thread : Possesses(u, l) => u = t
  BY <1>1 DEF LockIInv, TypeOK, LockInv, MutualExclusion, Possesses
<1>6. CASE repeat[l] > 1
  <2>1. repeat' = [repeat EXCEPT ![l] = @ - 1] /\ pc' = pc
    BY <1>1, <1>2, <1>6 DEF LockRelease, ReleaseAbove
  <2>2. TypeOK'
    BY <1>1, <1>2, <1>3, <1>4, <1>6, <2>1, SyncAssumption DEF LockIInv, TypeOK
  <2>3. WantOK' /\ NestOK' /\ FrameOK'
    BY <1>1, <1>2, <1>3, <1>4, <1>6, <2>1
    DEF LockIInv, TypeOK, LockInv, WantOK, NestOK, FrameOK
  <2>4. HolderOK'
    BY <1>1, <1>2, <1>3, <1>6, <2>1 DEF LockIInv, TypeOK, LockInv, HolderOK
  <2>5. RepeatOK'
    BY <1>1, <1>2, <1>3, <1>5, <1>6, <2>1
    DEF LockIInv, TypeOK, LockInv, RepeatOK, Possesses
  <2>6. MutualExclusion'
    BY <1>1, <1>2, <1>3, <1>6, <2>1
    DEF LockIInv, TypeOK, LockInv, MutualExclusion, Possesses
  <2> QED
    BY <2>2, <2>3, <2>4, <2>5, <2>6 DEF LockIInv, LockInv
<1>7. CASE repeat[l] = 1
  <2>1. pc' = [pc EXCEPT ![t] = "clear"] /\ repeat' = repeat
    BY <1>1, <1>2, <1>7 DEF LockRelease, ReleaseAbove, Goto
  <2>2. TypeOK'
    BY <1>1, <1>2, <1>3, <1>4, <1>7, <2>1, SyncAssumption DEF LockIInv, TypeOK, PC
  <2>3. WantOK' /\ NestOK' /\ FrameOK'
    BY <1>1, <1>2, <1>3, <1>4, <1>7, <2>1, SyncAssumption
    DEF LockIInv, TypeOK, LockInv, WantOK, NestOK, FrameOK
  <2>4. HolderOK'
    BY <1>1, <1>2, <1>3, <2>1 DEF LockIInv, TypeOK, LockInv, HolderOK
  <2>5. RepeatOK'
    BY <1>1, <1>2, <1>3, <1>7, <2>1 DEF LockIInv, TypeOK, LockInv, RepeatOK
  <2>6. MutualExclusion'
    BY <1>1, <1>2, <1>3, <2>1 DEF LockIInv, TypeOK, LockInv, MutualExclusion, Possesses
  <2> QED
    BY <2>2, <2>3, <2>4, <2>5, <2>6 DEF LockIInv, LockInv
<1> QED
  BY <1>1, <1>2, <1>6, <1>7

LEMMA ClearHolderStep == ASSUME LockIInv, NEW t \in Thread, ClearHolder(t) PROVE LockIInv'
<1> DEFINE l == want[t]
<1>1. l \in Lock /\ nest[t] = 0 /\ pc[t] = "clear"
  BY DEF ClearHolder, At, LockIInv, TypeOK, LockInv, WantOK, NestOK
<1>2. /\ holder' = [holder EXCEPT ![l] = NoThread]
      /\ pc' = [pc EXCEPT ![t] = "zero"]
      /\ frame[t] = "none"
      /\ UNCHANGED <<threadVars, value, waiters, repeat, want, nest>>
  BY DEF ClearHolder, At, Executing, Goto
<1>3. ThreadTypeOK' /\ UNCHANGED frame
  BY <1>2 DEF LockIInv, TypeOK, ThreadTypeOK, threadVars
<1>4. TypeOK'
  BY <1>1, <1>2, <1>3 DEF LockIInv, TypeOK, PC
<1>5. WantOK' /\ NestOK' /\ FrameOK'
  BY <1>1, <1>2, <1>3 DEF LockIInv, TypeOK, ThreadTypeOK, LockInv, WantOK, NestOK, FrameOK
<1>6. \A u \in Thread : Possesses(u, l) => u = t
  BY <1>1 DEF LockIInv, LockInv, MutualExclusion, Possesses
<1>7. HolderOK'
  BY <1>1, <1>2, <1>6, SyncAssumption DEF LockIInv, TypeOK, LockInv, HolderOK, Possesses
<1>8. RepeatOK'
  BY <1>1, <1>2 DEF LockIInv, TypeOK, LockInv, RepeatOK
<1>9. MutualExclusion'
  BY <1>1, <1>2 DEF LockIInv, TypeOK, LockInv, MutualExclusion, Possesses
<1> QED
  BY <1>4, <1>5, <1>7, <1>8, <1>9 DEF LockIInv, LockInv

LEMMA ClearRepeatStep == ASSUME LockIInv, NEW t \in Thread, ClearRepeat(t) PROVE LockIInv'
<1> DEFINE l == want[t]
<1>1. l \in Lock /\ nest[t] = 0 /\ pc[t] = "zero"
  BY DEF ClearRepeat, At, LockIInv, TypeOK, LockInv, WantOK, NestOK
<1>2. /\ repeat' = [repeat EXCEPT ![l] = 0]
      /\ pc' = [pc EXCEPT ![t] = "up"]
      /\ frame[t] = "none"
      /\ UNCHANGED <<threadVars, value, waiters, holder, want, nest>>
  BY DEF ClearRepeat, At, Executing, Goto
<1>3. ThreadTypeOK' /\ UNCHANGED frame
  BY <1>2 DEF LockIInv, TypeOK, ThreadTypeOK, threadVars
<1>4. TypeOK'
  BY <1>1, <1>2, <1>3 DEF LockIInv, TypeOK, PC
<1>5. WantOK' /\ NestOK' /\ FrameOK'
  BY <1>1, <1>2, <1>3 DEF LockIInv, TypeOK, ThreadTypeOK, LockInv, WantOK, NestOK, FrameOK
<1>6. \A u \in Thread : Possesses(u, l) => u = t
  BY <1>1 DEF LockIInv, LockInv, MutualExclusion, Possesses
<1>7. HolderOK'
  BY <1>1, <1>2 DEF LockIInv, TypeOK, LockInv, HolderOK
<1>8. RepeatOK'
  BY <1>1, <1>2, <1>6 DEF LockIInv, TypeOK, LockInv, RepeatOK, Possesses
<1>9. MutualExclusion'
  BY <1>1, <1>2 DEF LockIInv, TypeOK, LockInv, MutualExclusion, Possesses
<1> QED
  BY <1>4, <1>5, <1>7, <1>8, <1>9 DEF LockIInv, LockInv

LEMMA SemaUpStep == ASSUME LockIInv, NEW t \in Thread, SemaUp(t) PROVE LockIInv'
<1> DEFINE l == want[t]
<1>1. l \in Lock /\ nest[t] = 0 /\ pc[t] = "up" /\ repeat[l] = 0 /\ frame[t] = "none"
  BY DEF SemaUp, At, Executing, LockIInv, TypeOK, LockInv, WantOK, NestOK, RepeatOK
<1>2. UNCHANGED <<holder, repeat, nest>>
  BY DEF SemaUp
<1>3. CASE value[l] = 0 /\ WaitersLinked
  <2>1. /\ value' = [value EXCEPT ![l] = 1]
        /\ pc' = [pc EXCEPT ![t] = "run"]
        /\ want' = [want EXCEPT ![t] = NoLock]
    BY <1>1, <1>3 DEF SemaUp, Goto, LockIInv, TypeOK
  <2>2. waiters' \in [Lock -> Seq(Thread)] /\ ThreadTypeOK' /\ UNCHANGED frame
    <3>1. CASE waiters[l] = <<>>
      BY <1>3, <3>1 DEF SemaUp, LockIInv, TypeOK, ThreadTypeOK, threadVars
    <3>2. CASE waiters[l] # <<>>
      <4>1. /\ waiters' = [waiters EXCEPT ![l] = Tail(@)]
            /\ ThreadUnblock(Head(waiters[l]))
            /\ UNCHANGED old
        BY <1>3, <3>2 DEF SemaUp
      <4>2. Head(waiters[l]) \in Thread /\ Tail(waiters[l]) \in Seq(Thread)
        BY <1>1, <3>2, ListTyping DEF LockIInv, TypeOK
      <4>3. ThreadTypeOK'
        BY <4>1, <4>2, UnblockTyping DEF LockIInv, TypeOK
      <4>4. UNCHANGED frame
        BY <4>1 DEF ThreadUnblock, Halt
      <4> QED
        BY <4>1, <4>2, <4>3, <4>4 DEF LockIInv, TypeOK
    <3> QED
      BY <3>1, <3>2
  <2>3. TypeOK'
    BY <1>1, <1>2, <1>3, <2>1, <2>2 DEF LockIInv, TypeOK, PC
  <2>4. WantOK' /\ NestOK' /\ FrameOK'
    BY <1>1, <1>2, <2>1, <2>2 DEF LockIInv, TypeOK, LockInv, WantOK, NestOK, FrameOK
  <2>5. \A u \in Thread : Possesses(u, l) => u = t
    BY <1>1 DEF LockIInv, LockInv, MutualExclusion, Possesses
  <2>6. HolderOK'
    BY <1>1, <1>2, <2>1, SyncAssumption DEF LockIInv, TypeOK, LockInv, HolderOK
  <2>7. RepeatOK'
    BY <1>1, <1>2, <2>1, SyncAssumption DEF LockIInv, TypeOK, LockInv, RepeatOK
  <2>8. MutualExclusion'
    BY <1>1, <1>2, <2>1, <2>5, SyncAssumption
    DEF LockIInv, TypeOK, LockInv, MutualExclusion, Possesses
  <2> QED
    BY <2>3, <2>4, <2>6, <2>7, <2>8 DEF LockIInv, LockInv
<1>4. CASE ~(value[l] = 0 /\ WaitersLinked)
  <2>1. /\ Halt("assert") \/ Halt("fault")
        /\ UNCHANGED <<value, waiters, pc, want, old>>
    BY <1>4 DEF SemaUp
  <2>2. TypeOK' /\ UNCHANGED frame
    BY <1>2, <2>1, HaltTyping DEF LockIInv, TypeOK, Halt, Panic
  <2> QED
    BY <1>2, <2>1, <2>2
    DEF LockIInv, LockInv, WantOK, NestOK, FrameOK, HolderOK, RepeatOK,
        MutualExclusion, Possesses
<1> QED
  BY <1>3, <1>4

-----------------------------------------------------------------------------
LEMMA InitLocks == Init => LockIInv
<1> SUFFICES ASSUME Init PROVE LockIInv
  OBVIOUS
<1>1. Main \in Thread /\ Prio[Main] \in 0..255
  BY ThreadAssumption
<1>2. ready \in Seq(Thread) /\ all \in Seq(Thread) \ {<<>>}
  BY <1>1 DEF Init, ThreadsInit
<1>3. ThreadTypeOK
  <2>1. ticks \in [Thread -> 0..255]
    BY <1>1 DEF Init, ThreadsInit
  <2>2. status \in [Thread -> Status]
    BY DEF Init, ThreadsInit, Status
  <2>3. frame \in [Thread -> Frame] /\ old \in [Thread -> Intr]
    BY DEF Init, ThreadsInit, Frame, Intr
  <2>4. cur \in Thread /\ intr \in Intr /\ booted \in BOOLEAN /\ panic \in Panic
    BY <1>1 DEF Init, ThreadsInit, Intr, Panic
  <2> QED
    BY <1>2, <2>1, <2>2, <2>3, <2>4 DEF ThreadTypeOK
<1>4. TypeOK
  BY <1>3, SyncAssumption DEF Init, TypeOK, PC
<1>5. LockInv
  BY SyncAssumption
  DEF Init, ThreadsInit, LockInv, WantOK, NestOK, FrameOK, HolderOK, RepeatOK,
      MutualExclusion, Possesses
<1> QED
  BY <1>4, <1>5 DEF LockIInv

LEMMA NextLocks == LockIInv /\ [Next]_vars => LockIInv'
<1> SUFFICES ASSUME LockIInv, [Next]_vars PROVE LockIInv'
  OBVIOUS
<1>1. CASE Tick
  BY <1>1, TickStep
<1>2. CASE Start
  BY <1>2, StartStep
<1>3. CASE Enable
  BY <1>3, EnableStep
<1>4. ASSUME NEW t \in Thread, Yield(t) PROVE LockIInv'
  BY <1>4, YieldStep
<1>5. ASSUME NEW t \in Thread, Return(t) PROVE LockIInv'
  <2>1. CASE FirstRun(t) /\ UNCHANGED <<lockVars, callVars>>
    BY <2>1, SwitchReturnStep DEF FirstRun, Intr
  <2>2. CASE TimerReturn(t) /\ UNCHANGED <<lockVars, callVars>>
    BY <2>2, SwitchReturnStep DEF TimerReturn, Intr
  <2>3. CASE YieldReturn(t) /\ UNCHANGED <<lockVars, callVars>>
    BY <2>3, SwitchReturnStep DEF YieldReturn, LockIInv, TypeOK, ThreadTypeOK
  <2>4. CASE RetryDown(t)
    BY <2>4, RetryDownStep
  <2> QED
    BY <1>5, <2>1, <2>2, <2>3, <2>4 DEF Return
<1>6. ASSUME NEW t \in Thread, Continue(t) PROVE LockIInv'
  BY <1>6, SemaDownStep, SetHolderStep, SetRepeatStep, ClearHolderStep,
     ClearRepeatStep, SemaUpStep DEF Continue
<1>7. ASSUME NEW t \in Thread, LockRelease(t) PROVE LockIInv'
  BY <1>7, LockReleaseStep
<1>8. ASSUME NEW t \in Thread, NEW l \in Lock, LockAcquire(t, l) PROVE LockIInv'
  BY <1>8, LockAcquireStep
<1>9. CASE UNCHANGED vars
  <2>1. ThreadTypeOK'
    BY <1>9 DEF vars, threadVars, LockIInv, TypeOK, ThreadTypeOK
  <2> QED
    BY <1>9, <2>1, ThreadStep DEF vars, threadVars, LockIInv, TypeOK
<1> QED
  BY <1>1, <1>2, <1>3, <1>4, <1>5, <1>6, <1>7, <1>8, <1>9 DEF Next

(* Every variable keeps its type, and what each field of a lock is at every *)
(* point of the calls on it does not depend on when they are preempted.    *)
THEOREM LocksInductive == Spec => []LockIInv
  BY InitLocks, NextLocks, PTL DEF Spec

(* Each lock's fields are what LockInv says they are at every point of the *)
(* calls of sync.c on it.                                                  *)
THEOREM LockInvariant == Spec => []LockInv
<1>1. LockIInv => LockInv
  BY DEF LockIInv
<1> QED
  BY <1>1, LocksInductive, PTL

(* Every variable keeps its type; a semaphore's value never leaves 0..1.   *)
THEOREM TypeCorrect == Spec => []TypeOK
<1>1. LockIInv => TypeOK
  BY DEF LockIInv
<1> QED
  BY <1>1, LocksInductive, PTL

(* The lock really excludes, although it gives its holder field back and   *)
(* takes it with interrupts on, and although a woken waiter can find the   *)
(* semaphore taken again.                                                  *)
THEOREM Exclusion == Spec => []MutualExclusion
<1>1. LockIInv => MutualExclusion
  BY DEF LockIInv, LockInv
<1> QED
  BY <1>1, LocksInductive, PTL

(* lock_acquire and lock_release recognise the holder, and only it, and    *)
(* count its calls exactly.                                                *)
THEOREM HolderCorrect == Spec => []HolderAccurate
<1>1. LockIInv => HolderAccurate
  BY DEF LockIInv, LockInv, HolderOK, RepeatOK, HolderAccurate, Possesses
<1> QED
  BY <1>1, LocksInductive, PTL

-----------------------------------------------------------------------------
(***************************************************************************)
(* The locks of thread/sync.c implement RecursiveLock, for any threads,    *)
(* locks, priorities and nesting: a step of Sync is an Acquire or a        *)
(* Release of the abstract lock, or changes neither its owner nor its      *)
(* depth.                                                                  *)
(***************************************************************************)

(* Owner picks the one thread that possesses the lock.                     *)
OwnerOK ==
  \A l \in Lock :
    /\ \A t \in Thread : Possesses(t, l) =>
         Owner(l) = t /\ Depth(l) = IF pc[t] = "run" THEN repeat[l] ELSE 1
    /\ (\A t \in Thread : ~Possesses(t, l)) => Owner(l) = NoThread /\ Depth(l) = 0

LEMMA OwnerUnique == MutualExclusion => OwnerOK
<1> SUFFICES ASSUME MutualExclusion, NEW l \in Lock
             PROVE  /\ \A t \in Thread : Possesses(t, l) =>
                         /\ Owner(l) = t
                         /\ Depth(l) = IF pc[t] = "run" THEN repeat[l] ELSE 1
                    /\ (\A t \in Thread : ~Possesses(t, l)) =>
                         Owner(l) = NoThread /\ Depth(l) = 0
  BY DEF OwnerOK
<1>1. ASSUME NEW t \in Thread, Possesses(t, l) PROVE Owner(l) = t
  <2>1. Owner(l) = CHOOSE u \in Thread : Possesses(u, l)
    BY <1>1 DEF Owner
  <2>2. Owner(l) \in Thread /\ Possesses(Owner(l), l)
    BY <1>1, <2>1
  <2> QED
    BY <1>1, <2>2 DEF MutualExclusion
<1>2. ASSUME NEW t \in Thread, Possesses(t, l)
      PROVE  Depth(l) = IF pc[t] = "run" THEN repeat[l] ELSE 1
  BY <1>1, <1>2, SyncAssumption DEF Depth
<1>3. ASSUME \A t \in Thread : ~Possesses(t, l) PROVE Owner(l) = NoThread /\ Depth(l) = 0
  BY <1>3 DEF Owner, Depth
<1> QED
  BY <1>1, <1>2, <1>3

LEMMA OwnerUniqueNext == LockIInv' => OwnerOK'
<1>1. LockIInv => OwnerOK
  BY OwnerUnique DEF LockIInv, LockInv
<1> QED
  BY <1>1, PTL

-----------------------------------------------------------------------------
(* What owner and depth must do in a step.                                 *)
LEMMA AcquireMaps ==
  ASSUME NEW t \in Thread, NEW l \in Lock,
         Owner(l) \in {NoThread, t}, Owner(l)' = t, Depth(l)' = Depth(l) + 1,
         \A k \in Lock \ {l} : Owner(k)' = Owner(k) /\ Depth(k)' = Depth(k)
  PROVE  Abstract!Next
<1>1. Abstract!Acquire(t, l)
  BY DEF Abstract!Acquire
<1> QED
  BY <1>1 DEF Abstract!Next

LEMMA ReleaseMaps ==
  ASSUME NEW t \in Thread, NEW l \in Lock,
         Owner(l) = t, Owner(l)' = IF Depth(l) = 1 THEN NoThread ELSE t,
         Depth(l)' = Depth(l) - 1,
         \A k \in Lock \ {l} : Owner(k)' = Owner(k) /\ Depth(k)' = Depth(k)
  PROVE  Abstract!Next
<1>1. Abstract!Release(t, l)
  BY DEF Abstract!Release
<1> QED
  BY <1>1 DEF Abstract!Next

LEMMA StutterMaps ==
  ASSUME \A k \in Lock : Owner(k)' = Owner(k) /\ Depth(k)' = Depth(k)
  PROVE  UNCHANGED Abstract!vars
  BY DEF Abstract!vars

(* A lock that nobody takes or gives back, whose count stays and whose     *)
(* possessor does not move between lock_acquire's or lock_release's own    *)
(* code and the code of its client, is as it was.                          *)
LEMMA SameLock ==
  ASSUME OwnerOK, OwnerOK', NEW l \in Lock,
         \A t \in Thread : Possesses(t, l)' <=> Possesses(t, l),
         repeat'[l] = repeat[l],
         \A t \in Thread : Possesses(t, l) => (pc'[t] = "run" <=> pc[t] = "run")
  PROVE  Owner(l)' = Owner(l) /\ Depth(l)' = Depth(l)
<1>1. CASE \E t \in Thread : Possesses(t, l)
  BY <1>1 DEF OwnerOK
<1>2. CASE \A t \in Thread : ~Possesses(t, l)
  BY <1>2 DEF OwnerOK
<1> QED
  BY <1>1, <1>2

LEMMA SameLocks ==
  ASSUME LockIInv, LockIInv', UNCHANGED <<lockVars, callVars>>
  PROVE  UNCHANGED Abstract!vars
<1>1. OwnerOK /\ OwnerOK'
  BY OwnerUnique, OwnerUniqueNext DEF LockIInv, LockInv
<1>2. \A l \in Lock : Owner(l)' = Owner(l) /\ Depth(l)' = Depth(l)
  BY <1>1, SameLock DEF lockVars, callVars, Possesses
<1> QED
  BY <1>2, StutterMaps

-----------------------------------------------------------------------------
(* sema_down: the abstract lock is acquired where the value is decremented. *)
LEMMA DownLoopMaps ==
  ASSUME LockIInv, LockIInv', NEW t \in Thread, NEW l \in Lock, want[t] = l,
         NEW o, DownLoop(t, o), pc[t] \in {"down", "wait"}
  PROVE  [Abstract!Next]_(Abstract!vars)
<1>1. OwnerOK /\ OwnerOK'
  BY OwnerUnique, OwnerUniqueNext DEF LockIInv, LockInv
<1>2. nest[t] = 0
  BY DEF LockIInv, TypeOK, LockInv, WantOK, NestOK
<1>3. \A k \in Lock : ~Possesses(t, k)
  BY <1>2 DEF Possesses
<1>4. CASE /\ pc' = [pc EXCEPT ![t] = "wait"]
           /\ UNCHANGED <<repeat, want, nest>>
  <2>1. \A u \in Thread : pc'[u] = IF u = t THEN "wait" ELSE pc[u]
    BY <1>4 DEF LockIInv, TypeOK
  <2>2. \A k \in Lock, u \in Thread : Possesses(u, k)' <=> Possesses(u, k)
    BY <1>2, <1>3, <1>4, <2>1 DEF Possesses
  <2>3. \A k \in Lock, u \in Thread : Possesses(u, k) => pc'[u] = pc[u]
    BY <1>3, <2>1
  <2>4. \A k \in Lock : Owner(k)' = Owner(k) /\ Depth(k)' = Depth(k)
    BY <1>1, <1>4, <2>2, <2>3, SameLock
  <2> QED
    BY <2>4, StutterMaps
<1>5. CASE /\ value[l] = 1
           /\ pc' = [pc EXCEPT ![t] = "own"]
           /\ UNCHANGED <<repeat, want, nest>>
  <2>1. \A u \in Thread : pc'[u] = IF u = t THEN "own" ELSE pc[u]
    BY <1>5 DEF LockIInv, TypeOK
  <2>2. \A u \in Thread : ~Possesses(u, l)
    BY <1>2, <1>5 DEF LockIInv, LockInv, MutualExclusion
  <2>3. Possesses(t, l)' /\ pc'[t] # "run"
    BY <1>5, <2>1 DEF Possesses
  <2>4. /\ Owner(l) = NoThread /\ Depth(l) = 0
        /\ Owner(l)' = t /\ Depth(l)' = 1
    BY <1>1, <1>2, <1>5, <2>2, <2>3 DEF OwnerOK
  <2>5. \A k \in Lock \ {l}, u \in Thread :
          /\ Possesses(u, k)' <=> Possesses(u, k)
          /\ Possesses(u, k) => pc'[u] = pc[u]
    BY <1>3, <1>5, <2>1 DEF Possesses
  <2>6. \A k \in Lock \ {l} : Owner(k)' = Owner(k) /\ Depth(k)' = Depth(k)
    BY <1>1, <1>5, <2>5, SameLock
  <2>7. Owner(l) \in {NoThread, t} /\ Depth(l)' = Depth(l) + 1
    BY <2>4
  <2> QED
    BY <1>2, <2>4, <2>6, <2>7, AcquireMaps
<1>6. CASE UNCHANGED <<value, waiters, holder, repeat, pc, want, nest>>
  BY <1>6, SameLocks DEF lockVars, callVars
<1> QED
  BY <1>2, <1>4, <1>5, <1>6, DownLoopCases DEF LockIInv

(* lock_acquire by the holder is an acquisition of its own.                *)
LEMMA LockAcquireMaps ==
  ASSUME LockIInv, LockIInv', NEW t \in Thread, NEW l \in Lock, LockAcquire(t, l)
  PROVE  [Abstract!Next]_(Abstract!vars)
<1>1. OwnerOK /\ OwnerOK'
  BY OwnerUnique, OwnerUniqueNext DEF LockIInv, LockInv
<1>2. /\ pc[t] = "run" /\ want[t] \in {l, NoLock}
      /\ want' = [want EXCEPT ![t] = l]
  BY DEF LockAcquire, At
<1>3. CASE holder[l] # t
  <2>1. nest[t] = 0
    BY <1>2, <1>3 DEF LockIInv, TypeOK, LockInv, WantOK, HolderOK
  <2>2. pc' = [pc EXCEPT ![t] = "down"] /\ UNCHANGED <<repeat, nest>>
    BY <1>3 DEF LockAcquire, Goto
  <2>3. \A u \in Thread : /\ pc'[u] = IF u = t THEN "down" ELSE pc[u]
                          /\ want'[u] = IF u = t THEN l ELSE want[u]
    BY <1>2, <2>2 DEF LockIInv, TypeOK
  <2>4. \A k \in Lock, u \in Thread :
          /\ Possesses(u, k)' <=> Possesses(u, k)
          /\ Possesses(u, k) => pc'[u] = pc[u]
    BY <1>2, <2>1, <2>2, <2>3 DEF Possesses
  <2>5. \A k \in Lock : Owner(k)' = Owner(k) /\ Depth(k)' = Depth(k)
    BY <1>1, <2>2, <2>4, SameLock
  <2> QED
    BY <2>5, StutterMaps
<1>4. CASE holder[l] = t
  <2>1. want[t] = l /\ nest[t] > 0
    BY <1>2, <1>4 DEF LockIInv, LockInv, HolderOK
  <2>2. /\ repeat' = [repeat EXCEPT ![l] = @ + 1]
        /\ nest' = [nest EXCEPT ![t] = @ + 1]
        /\ UNCHANGED pc
    BY <1>4 DEF LockAcquire
  <2>3. UNCHANGED want
    BY <1>2, <2>1 DEF LockIInv, TypeOK
  <2>4. /\ \A u \in Thread : nest'[u] = IF u = t THEN nest[t] + 1 ELSE nest[u]
        /\ \A k \in Lock : repeat'[k] = IF k = l THEN repeat[l] + 1 ELSE repeat[k]
        /\ nest[t] \in Nat
    BY <2>2 DEF LockIInv, TypeOK
  <2>5. Possesses(t, l) /\ Possesses(t, l)'
    BY <2>1, <2>3, <2>4 DEF Possesses
  <2>6. /\ Owner(l) = t /\ Owner(l)' = t
        /\ Depth(l) = repeat[l] /\ Depth(l)' = repeat[l] + 1
    BY <1>1, <1>2, <2>2, <2>4, <2>5 DEF OwnerOK
  <2>7. \A k \in Lock \ {l}, u \in Thread : Possesses(u, k)' <=> Possesses(u, k)
    BY <2>1, <2>2, <2>3, <2>4 DEF Possesses
  <2>8. \A k \in Lock \ {l} : Owner(k)' = Owner(k) /\ Depth(k)' = Depth(k)
    BY <1>1, <2>2, <2>4, <2>7, SameLock
  <2> QED
    BY <2>6, <2>8, AcquireMaps
<1> QED
  BY <1>3, <1>4

(* The rest of lock_acquire: the owner is the owner already.               *)
LEMMA SetHolderMaps ==
  ASSUME LockIInv, LockIInv', NEW t \in Thread, SetHolder(t)
  PROVE  [Abstract!Next]_(Abstract!vars)
<1>1. OwnerOK /\ OwnerOK'
  BY OwnerUnique, OwnerUniqueNext DEF LockIInv, LockInv
<1>2. /\ pc[t] = "own" /\ pc' = [pc EXCEPT ![t] = "count"]
      /\ UNCHANGED <<repeat, want, nest>>
  BY DEF SetHolder, At, Goto
<1>3. \A u \in Thread : pc'[u] = IF u = t THEN "count" ELSE pc[u]
  BY <1>2 DEF LockIInv, TypeOK
<1>4. \A k \in Lock, u \in Thread :
        /\ Possesses(u, k)' <=> Possesses(u, k)
        /\ pc'[u] = "run" <=> pc[u] = "run"
  BY <1>2, <1>3 DEF Possesses
<1>5. \A k \in Lock : Owner(k)' = Owner(k) /\ Depth(k)' = Depth(k)
  BY <1>1, <1>2, <1>4, SameLock
<1> QED
  BY <1>5, StutterMaps

LEMMA SetRepeatMaps ==
  ASSUME LockIInv, LockIInv', NEW t \in Thread, NEW l \in Lock, want[t] = l,
         SetRepeat(t)
  PROVE  [Abstract!Next]_(Abstract!vars)
<1>1. OwnerOK /\ OwnerOK'
  BY OwnerUnique, OwnerUniqueNext DEF LockIInv, LockInv
<1>2. nest[t] = 0 /\ pc[t] = "count" /\ repeat[l] = 0
  BY DEF SetRepeat, At, LockIInv, TypeOK, LockInv, WantOK, NestOK, RepeatOK
<1>3. /\ repeat' = [repeat EXCEPT ![l] = 1]
      /\ nest' = [nest EXCEPT ![t] = 1]
      /\ pc' = [pc EXCEPT ![t] = "run"]
      /\ UNCHANGED want
  BY <1>2 DEF SetRepeat, At, Goto
<1>4. /\ \A u \in Thread : /\ pc'[u] = IF u = t THEN "run" ELSE pc[u]
                          /\ nest'[u] = IF u = t THEN 1 ELSE nest[u]
      /\ \A k \in Lock : repeat'[k] = IF k = l THEN 1 ELSE repeat[k]
  BY <1>3 DEF LockIInv, TypeOK
<1>5. Possesses(t, l) /\ Possesses(t, l)'
  BY <1>2, <1>3, <1>4 DEF Possesses
<1>6. Owner(l) = t /\ Owner(l)' = t /\ Depth(l) = 1 /\ Depth(l)' = 1
  BY <1>1, <1>2, <1>4, <1>5 DEF OwnerOK
<1>7. \A k \in Lock \ {l}, u \in Thread :
        /\ Possesses(u, k)' <=> Possesses(u, k)
        /\ Possesses(u, k) => pc'[u] = pc[u]
  BY <1>3, <1>4 DEF Possesses
<1>8. \A k \in Lock \ {l} : Owner(k)' = Owner(k) /\ Depth(k)' = Depth(k)
  BY <1>1, <1>4, <1>7, SameLock
<1>9. \A k \in Lock : Owner(k)' = Owner(k) /\ Depth(k)' = Depth(k)
  BY <1>6, <1>8
<1> QED
  BY <1>9, StutterMaps

(* lock_release: a nested release is a release of its own; the outermost   *)
(* is one only when sema_up has incremented the value.                     *)
LEMMA LockReleaseMaps ==
  ASSUME LockIInv, LockIInv', NEW t \in Thread, NEW l \in Lock, want[t] = l,
         LockRelease(t)
  PROVE  [Abstract!Next]_(Abstract!vars)
<1>1. OwnerOK /\ OwnerOK'
  BY OwnerUnique, OwnerUniqueNext DEF LockIInv, LockInv
<1>2. nest[t] > 0 /\ pc[t] = "run"
  BY DEF LockRelease, ReleaseAbove, At, LockIInv, TypeOK, LockInv, WantOK
<1>3. holder[l] = t /\ repeat[l] = nest[t] /\ nest[t] \in Nat
  BY <1>2 DEF LockIInv, TypeOK, LockInv, HolderOK, RepeatOK
<1>4. nest' = [nest EXCEPT ![t] = @ - 1] /\ UNCHANGED want
  BY <1>2, <1>3 DEF LockRelease, ReleaseAbove
<1>5. \A u \in Thread : nest'[u] = IF u = t THEN nest[t] - 1 ELSE nest[u]
  BY <1>4 DEF LockIInv, TypeOK
<1>6. Possesses(t, l) /\ Owner(l) = t /\ Depth(l) = repeat[l]
  BY <1>1, <1>2 DEF Possesses, OwnerOK
<1>7. CASE repeat[l] > 1
  <2>1. repeat' = [repeat EXCEPT ![l] = @ - 1] /\ pc' = pc
    BY <1>2, <1>3, <1>7 DEF LockRelease, ReleaseAbove
  <2>2. \A k \in Lock : repeat'[k] = IF k = l THEN repeat[l] - 1 ELSE repeat[k]
    BY <2>1 DEF LockIInv, TypeOK
  <2>3. Possesses(t, l)'
    BY <1>3, <1>4, <1>5, <1>7 DEF Possesses
  <2>4. Owner(l)' = t /\ Depth(l)' = repeat[l] - 1
    BY <1>1, <1>2, <2>1, <2>2, <2>3 DEF OwnerOK
  <2>5. \A k \in Lock \ {l}, u \in Thread : Possesses(u, k)' <=> Possesses(u, k)
    BY <1>4, <1>5, <2>1 DEF Possesses
  <2>6. \A k \in Lock \ {l} : Owner(k)' = Owner(k) /\ Depth(k)' = Depth(k)
    BY <1>1, <2>1, <2>2, <2>5, SameLock
  <2>7. Depth(l) # 1 /\ Depth(l)' = Depth(l) - 1
    BY <1>3, <1>6, <1>7, <2>4
  <2> QED
    BY <1>2, <1>6, <2>4, <2>6, <2>7, ReleaseMaps
<1>8. CASE repeat[l] = 1
  <2>1. pc' = [pc EXCEPT ![t] = "clear"] /\ repeat' = repeat
    BY <1>2, <1>3, <1>8 DEF LockRelease, ReleaseAbove, Goto
  <2>2. \A u \in Thread : pc'[u] = IF u = t THEN "clear" ELSE pc[u]
    BY <2>1 DEF LockIInv, TypeOK
  <2>3. Possesses(t, l)'
    BY <1>4, <2>2 DEF Possesses
  <2>4. Owner(l)' = t /\ Depth(l)' = 1
    BY <1>1, <1>2, <2>2, <2>3 DEF OwnerOK
  <2>5. \A k \in Lock \ {l}, u \in Thread :
          /\ Possesses(u, k)' <=> Possesses(u, k)
          /\ Possesses(u, k) => pc'[u] = pc[u]
    BY <1>4, <1>5, <2>2 DEF Possesses
  <2>6. \A k \in Lock \ {l} : Owner(k)' = Owner(k) /\ Depth(k)' = Depth(k)
    BY <1>1, <2>1, <2>5, SameLock
  <2>7. \A k \in Lock : Owner(k)' = Owner(k) /\ Depth(k)' = Depth(k)
    BY <1>6, <1>8, <2>4, <2>6
  <2> QED
    BY <2>7, StutterMaps
<1> QED
  BY <1>2, <1>3, <1>7, <1>8

LEMMA ClearHolderMaps ==
  ASSUME LockIInv, LockIInv', NEW t \in Thread, ClearHolder(t)
  PROVE  [Abstract!Next]_(Abstract!vars)
<1>1. OwnerOK /\ OwnerOK'
  BY OwnerUnique, OwnerUniqueNext DEF LockIInv, LockInv
<1>2. /\ pc[t] = "clear" /\ pc' = [pc EXCEPT ![t] = "zero"]
      /\ UNCHANGED <<repeat, want, nest>>
  BY DEF ClearHolder, At, Goto
<1>3. \A u \in Thread : pc'[u] = IF u = t THEN "zero" ELSE pc[u]
  BY <1>2 DEF LockIInv, TypeOK
<1>4. \A k \in Lock, u \in Thread :
        /\ Possesses(u, k)' <=> Possesses(u, k)
        /\ pc'[u] = "run" <=> pc[u] = "run"
  BY <1>2, <1>3 DEF Possesses
<1>5. \A k \in Lock : Owner(k)' = Owner(k) /\ Depth(k)' = Depth(k)
  BY <1>1, <1>2, <1>4, SameLock
<1> QED
  BY <1>5, StutterMaps

LEMMA ClearRepeatMaps ==
  ASSUME LockIInv, LockIInv', NEW t \in Thread, NEW l \in Lock, want[t] = l,
         ClearRepeat(t)
  PROVE  [Abstract!Next]_(Abstract!vars)
<1>1. OwnerOK /\ OwnerOK'
  BY OwnerUnique, OwnerUniqueNext DEF LockIInv, LockInv
<1>2. pc[t] = "zero"
  BY DEF ClearRepeat, At, LockIInv, TypeOK, LockInv, WantOK
<1>3. /\ repeat' = [repeat EXCEPT ![l] = 0]
      /\ pc' = [pc EXCEPT ![t] = "up"]
      /\ UNCHANGED <<want, nest>>
  BY DEF ClearRepeat, At, Goto
<1>4. /\ \A u \in Thread : pc'[u] = IF u = t THEN "up" ELSE pc[u]
      /\ \A k \in Lock : repeat'[k] = IF k = l THEN 0 ELSE repeat[k]
  BY <1>3 DEF LockIInv, TypeOK
<1>5. Possesses(t, l) /\ Possesses(t, l)'
  BY <1>2, <1>3, <1>4 DEF Possesses
<1>6. Owner(l) = t /\ Owner(l)' = t /\ Depth(l) = 1 /\ Depth(l)' = 1
  BY <1>1, <1>2, <1>4, <1>5 DEF OwnerOK
<1>7. \A k \in Lock \ {l}, u \in Thread :
        /\ Possesses(u, k)' <=> Possesses(u, k)
        /\ Possesses(u, k) => pc'[u] = pc[u]
  BY <1>3, <1>4 DEF Possesses
<1>8. \A k \in Lock \ {l} : Owner(k)' = Owner(k) /\ Depth(k)' = Depth(k)
  BY <1>1, <1>4, <1>7, SameLock
<1>9. \A k \in Lock : Owner(k)' = Owner(k) /\ Depth(k)' = Depth(k)
  BY <1>6, <1>8
<1> QED
  BY <1>9, StutterMaps

LEMMA SemaUpMaps ==
  ASSUME LockIInv, LockIInv', NEW t \in Thread, NEW l \in Lock, want[t] = l,
         SemaUp(t)
  PROVE  [Abstract!Next]_(Abstract!vars)
<1>1. OwnerOK /\ OwnerOK'
  BY OwnerUnique, OwnerUniqueNext DEF LockIInv, LockInv
<1>2. nest[t] = 0 /\ pc[t] = "up"
  BY DEF SemaUp, At, LockIInv, TypeOK, LockInv, WantOK, NestOK
<1>3. Possesses(t, l) /\ \A u \in Thread : Possesses(u, l) => u = t
  BY <1>2 DEF Possesses, LockIInv, LockInv, MutualExclusion
<1>4. UNCHANGED <<holder, repeat, nest>>
  BY DEF SemaUp
<1>5. CASE value[l] = 0 /\ WaitersLinked
  <2>1. pc' = [pc EXCEPT ![t] = "run"] /\ want' = [want EXCEPT ![t] = NoLock]
    BY <1>5 DEF SemaUp, Goto
  <2>2. \A u \in Thread : /\ pc'[u] = IF u = t THEN "run" ELSE pc[u]
                          /\ want'[u] = IF u = t THEN NoLock ELSE want[u]
    BY <2>1 DEF LockIInv, TypeOK
  <2>3. \A u \in Thread : ~Possesses(u, l)'
    BY <1>2, <1>3, <1>4, <2>2, SyncAssumption DEF Possesses
  <2>4. Owner(l) = t /\ Depth(l) = 1 /\ Owner(l)' = NoThread /\ Depth(l)' = 0
    BY <1>1, <1>2, <1>3, <2>3 DEF OwnerOK
  <2>5. \A k \in Lock \ {l}, u \in Thread :
          /\ Possesses(u, k)' <=> Possesses(u, k)
          /\ Possesses(u, k) => pc'[u] = pc[u]
    BY <1>4, <2>2, SyncAssumption DEF Possesses
  <2>6. \A k \in Lock \ {l} : Owner(k)' = Owner(k) /\ Depth(k)' = Depth(k)
    BY <1>1, <1>4, <2>5, SameLock
  <2>7. Depth(l)' = Depth(l) - 1
    BY <2>4
  <2> QED
    BY <1>2, <2>4, <2>6, <2>7, ReleaseMaps
<1>6. CASE ~(value[l] = 0 /\ WaitersLinked)
  <2>1. UNCHANGED <<value, waiters, pc, want>>
    BY <1>6 DEF SemaUp
  <2> QED
    BY <1>4, <2>1, SameLocks DEF lockVars, callVars
<1> QED
  BY <1>5, <1>6

-----------------------------------------------------------------------------
LEMMA InitMaps == Init => Abstract!Init
<1> SUFFICES ASSUME Init PROVE Abstract!Init
  OBVIOUS
<1>1. \A l \in Lock, t \in Thread : ~Possesses(t, l)
  BY DEF Init, Possesses
<1>2. \A l \in Lock : Owner(l) = NoThread /\ Depth(l) = 0
  BY <1>1 DEF Owner, Depth
<1> QED
  BY <1>2 DEF Abstract!Init

LEMMA NextMaps ==
  LockIInv /\ LockIInv' /\ [Next]_vars => [Abstract!Next]_(Abstract!vars)
<1> SUFFICES ASSUME LockIInv, LockIInv', [Next]_vars
             PROVE  [Abstract!Next]_(Abstract!vars)
  OBVIOUS
<1>0. \A t \in Thread : pc[t] # "run" \/ nest[t] > 0 => want[t] \in Lock
  BY DEF LockIInv, TypeOK, LockInv, WantOK
<1>1. CASE UNCHANGED <<lockVars, callVars>>
  BY <1>1, SameLocks
<1>2. ASSUME NEW t \in Thread, RetryDown(t) PROVE [Abstract!Next]_(Abstract!vars)
  <2>1. frame[t] = "block" /\ DownLoop(t, old[t])
    BY <1>2 DEF RetryDown
  <2>2. pc[t] = "wait"
    BY <2>1 DEF LockIInv, LockInv, FrameOK
  <2> QED
    BY <1>0, <2>1, <2>2, DownLoopMaps
<1>3. ASSUME NEW t \in Thread, SemaDown(t) PROVE [Abstract!Next]_(Abstract!vars)
  BY <1>0, <1>3, DownLoopMaps DEF SemaDown, At
<1>4. ASSUME NEW t \in Thread, Return(t) PROVE [Abstract!Next]_(Abstract!vars)
  BY <1>1, <1>2, <1>4 DEF Return
<1>5. ASSUME NEW t \in Thread, Continue(t) PROVE [Abstract!Next]_(Abstract!vars)
  <2>1. CASE SetRepeat(t) \/ ClearRepeat(t) \/ SemaUp(t)
    BY <1>0, <2>1, SetRepeatMaps, ClearRepeatMaps, SemaUpMaps
    DEF SetRepeat, ClearRepeat, SemaUp, At
  <2> QED
    BY <1>3, <1>5, <2>1, SetHolderMaps, ClearHolderMaps DEF Continue
<1>6. ASSUME NEW t \in Thread, LockRelease(t) PROVE [Abstract!Next]_(Abstract!vars)
  BY <1>0, <1>6, LockReleaseMaps DEF LockRelease, ReleaseAbove
<1>7. ASSUME NEW t \in Thread, NEW l \in Lock, LockAcquire(t, l)
      PROVE  [Abstract!Next]_(Abstract!vars)
  BY <1>7, LockAcquireMaps
<1>8. Tick \/ Start \/ Enable \/ (\E t \in Thread : Yield(t)) \/ UNCHANGED vars
        => UNCHANGED <<lockVars, callVars>>
  BY DEF Tick, Start, Enable, Yield, InClient, vars
<1> QED
  BY <1>1, <1>4, <1>5, <1>6, <1>7, <1>8 DEF Next

(* A struct lock is the recursive lock its users take it for: every step   *)
(* of sync.c, however it is preempted, takes it, gives it back, or cannot  *)
(* be noticed.                                                             *)
THEOREM LocksImplement == Spec => ImplementsRecursiveLock
<1>1. Init => Abstract!Init
  BY InitMaps
<1>2. LockIInv /\ LockIInv' /\ [Next]_vars => [Abstract!Next]_(Abstract!vars)
  BY NextMaps
<1>3. Spec => []LockIInv
  BY LocksInductive
<1> QED
  BY <1>1, <1>2, <1>3, PTL DEF Spec, ImplementsRecursiveLock, Abstract!Spec

-----------------------------------------------------------------------------
(***************************************************************************)
(* The scheduler under Sync: which list a thread is in, that schedule      *)
(* finds a thread, that no wakeup is lost and where the interrupt flag is  *)
(* set.                                                                    *)
(***************************************************************************)

(* What the list functions do to the elements of a list.                   *)
LEMMA RangeOf ==
  ASSUME NEW S, NEW q \in Seq(S)
  PROVE  /\ \A e : e \in Range(q) <=> \E i \in 1 .. Len(q) : q[i] = e
         /\ q = <<>> <=> Range(q) = {}
         /\ Range(q) \subseteq S
<1>1. DOMAIN q = 1 .. Len(q) /\ q \in [1 .. Len(q) -> S] /\ Len(q) \in Nat
  BY LenProperties
<1>2. \A e : e \in Range(q) <=> \E i \in 1 .. Len(q) : q[i] = e
  BY <1>1 DEF Range
<1>3. q # <<>> => Len(q) \in Nat \ {0}
  BY EmptySeq
<1>4. q # <<>> => q[1] \in Range(q)
  BY <1>2, <1>3
<1>5. q = <<>> => Range(q) = {}
  BY <1>2
<1> QED
  BY <1>1, <1>2, <1>4, <1>5

LEMMA AppendElements ==
  ASSUME NEW S, NEW q \in Seq(S), NEW e \in S
  PROVE  /\ Append(q, e) \in Seq(S) /\ Append(q, e) # <<>>
         /\ Range(Append(q, e)) = Range(q) \cup {e}
         /\ Once(q) /\ e \notin Range(q) => Once(Append(q, e))
<1>1. /\ Append(q, e) \in Seq(S) /\ Append(q, e) # <<>>
      /\ Len(Append(q, e)) = Len(q) + 1
      /\ \A i \in 1 .. Len(q) : Append(q, e)[i] = q[i]
      /\ Append(q, e)[Len(q) + 1] = e
  BY AppendProperties
<1>2. Len(q) \in Nat /\ DOMAIN q = 1 .. Len(q)
      /\ DOMAIN Append(q, e) = 1 .. Len(q) + 1
  BY <1>1, LenProperties
<1>3. Range(Append(q, e)) = Range(q) \cup {e}
  BY <1>1, <1>2 DEF Range
<1>4. ASSUME Once(q), e \notin Range(q) PROVE Once(Append(q, e))
  <2>1. \A i \in 1 .. Len(q) : q[i] # e
    BY <1>2, <1>4 DEF Range
  <2> QED
    BY <1>1, <1>2, <1>4, <2>1 DEF Once
<1> QED
  BY <1>1, <1>3, <1>4

LEMMA PushElements ==
  ASSUME NEW S, NEW q \in Seq(S), NEW e \in S
  PROVE  /\ Range(<<e>> \o q) = Range(q) \cup {e}
         /\ Once(q) /\ e \notin Range(q) => Once(<<e>> \o q)
<1> DEFINE r == <<e>> \o q
<1>1. <<e>> \in Seq(S) /\ Len(<<e>>) = 1 /\ <<e>>[1] = e
  OBVIOUS
<1>2. Len(q) \in Nat /\ DOMAIN q = 1 .. Len(q)
  BY LenProperties
<1>3. /\ r \in Seq(S) /\ Len(r) = 1 + Len(q)
      /\ \A i \in 1 .. 1 + Len(q) : r[i] = IF i <= 1 THEN <<e>>[i] ELSE q[i - 1]
  BY <1>1, ConcatProperties
<1>4. DOMAIN r = 1 .. Len(q) + 1
  BY <1>2, <1>3, LenProperties
<1>5. r[1] = e /\ \A i \in 1 .. Len(q) : r[i + 1] = q[i]
  BY <1>1, <1>2, <1>3
<1>6. \A i \in 2 .. Len(q) + 1 : r[i] = q[i - 1] /\ i - 1 \in 1 .. Len(q)
  BY <1>2, <1>3
<1> HIDE DEF r
<1>7. Range(r) = Range(q) \cup {e}
  <2>1. \A i \in 1 .. Len(q) + 1 : i = 1 \/ i \in 2 .. Len(q) + 1
    BY <1>2
  <2>2. Range(r) \subseteq Range(q) \cup {e}
    BY <1>2, <1>4, <1>5, <1>6, <2>1 DEF Range
  <2>3. \A i \in 1 .. Len(q) : i + 1 \in 1 .. Len(q) + 1
    BY <1>2
  <2>4. 1 \in 1 .. Len(q) + 1
    BY <1>2
  <2>5. Range(q) \cup {e} \subseteq Range(r)
    BY <1>2, <1>4, <1>5, <2>3, <2>4 DEF Range
  <2> QED
    BY <2>2, <2>5
<1>8. ASSUME Once(q), e \notin Range(q) PROVE Once(r)
  <2>1. \A i \in 2 .. Len(q) + 1 : r[i] # e
    BY <1>2, <1>6, <1>8 DEF Range
  <2>2. \A i, j \in 2 .. Len(q) + 1 : r[i] = r[j] => i - 1 = j - 1
    BY <1>2, <1>6, <1>8 DEF Once
  <2>3. \A i \in 1 .. Len(q) + 1 : i = 1 \/ i \in 2 .. Len(q) + 1
    BY <1>2
  <2>4. \A i, j \in 2 .. Len(q) + 1 : i - 1 = j - 1 => i = j
    BY <1>2
  <2> QED
    BY <1>4, <1>5, <2>1, <2>2, <2>3, <2>4 DEF Once
<1> QED
  BY <1>7, <1>8 DEF r

LEMMA TailElements ==
  ASSUME NEW S, NEW q \in Seq(S), q # <<>>, Once(q)
  PROVE  /\ Head(q) \in S /\ Tail(q) \in Seq(S)
         /\ Head(q) \in Range(q)
         /\ Range(Tail(q)) = Range(q) \ {Head(q)}
         /\ Once(Tail(q))
<1>1. /\ Head(q) \in S /\ Tail(q) \in Seq(S)
      /\ Len(Tail(q)) = Len(q) - 1
      /\ \A i \in 1 .. Len(Tail(q)) : Tail(q)[i] = q[i + 1]
  BY HeadTailProperties
<1>2. Head(q) = q[1]
  OBVIOUS
<1>3. /\ Len(q) \in Nat \ {0} /\ DOMAIN q = 1 .. Len(q)
      /\ DOMAIN Tail(q) = 1 .. Len(q) - 1
  BY <1>1, EmptySeq, LenProperties
<1>4. \A i \in 2 .. Len(q) : Tail(q)[i - 1] = q[i] /\ i - 1 \in 1 .. Len(q) - 1
  BY <1>1, <1>3
<1>5. \A i, j \in 1 .. Len(q) : q[i] = q[j] => i = j
  BY <1>3 DEF Once
<1>6. Head(q) \in Range(q)
  BY <1>2, <1>3 DEF Range
<1>7. Range(Tail(q)) \subseteq Range(q) \ {Head(q)}
  <2> SUFFICES ASSUME NEW i \in 1 .. Len(q) - 1
               PROVE  Tail(q)[i] \in Range(q) \ {Head(q)}
    BY <1>3 DEF Range
  <2>1. Tail(q)[i] = q[i + 1] /\ i + 1 \in 1 .. Len(q) /\ i + 1 # 1
    BY <1>1, <1>3
  <2> QED
    BY <1>2, <1>3, <1>5, <2>1 DEF Range
<1>8. Range(q) \ {Head(q)} \subseteq Range(Tail(q))
  <2> SUFFICES ASSUME NEW i \in 1 .. Len(q), q[i] # q[1]
               PROVE  q[i] \in Range(Tail(q))
    BY <1>2, <1>3 DEF Range
  <2>1. i \in 2 .. Len(q)
    BY <1>3
  <2> QED
    BY <1>3, <1>4, <2>1 DEF Range
<1>9. Once(Tail(q))
  <2> SUFFICES ASSUME NEW i \in 1 .. Len(q) - 1, NEW j \in 1 .. Len(q) - 1,
                      Tail(q)[i] = Tail(q)[j]
               PROVE  i = j
    BY <1>3 DEF Once
  <2>1. q[i + 1] = q[j + 1] /\ i + 1 \in 1 .. Len(q) /\ j + 1 \in 1 .. Len(q)
    BY <1>1, <1>3
  <2>2. i + 1 = j + 1
    BY <1>5, <2>1
  <2> QED
    BY <1>3, <2>2
<1> QED
  BY <1>1, <1>6, <1>7, <1>8, <1>9

-----------------------------------------------------------------------------
(* schedule takes the next thread off the ready list.                      *)
LEMMA Dispatch ==
  ASSUME NEW q \in Seq(Thread), q # <<>>, Once(q),
         NEW st \in [Thread -> Status], \A t \in Thread : st[t] # "RUNNING",
         Range(q) = {t \in Thread : st[t] = "READY"},
         cur' = Head(q), ready' = Tail(q),
         status' = [st EXCEPT ![Head(q)] = "RUNNING"]
  PROVE  /\ cur' \in Thread /\ st[cur'] = "READY"
         /\ Once(ready') /\ Range(ready') = {t \in Thread : status'[t] = "READY"}
         /\ \A t \in Thread : status'[t] = "RUNNING" <=> t = cur'
         /\ \A t \in Thread : status'[t] = "BLOCKED" <=> st[t] = "BLOCKED"
         /\ \A t \in Thread : status'[t] = "NONE" <=> st[t] = "NONE"
<1>1. /\ cur' \in Thread /\ cur' \in Range(q) /\ Once(ready')
      /\ Range(ready') = Range(q) \ {cur'}
  BY TailElements
<1>2. st[cur'] = "READY"
  BY <1>1
<1>3. \A t \in Thread : status'[t] = IF t = cur' THEN "RUNNING" ELSE st[t]
  OBVIOUS
<1> QED
  BY <1>1, <1>2, <1>3

(* A step of a kernel that has not stopped, and does not stop, that leaves *)
(* the locks alone and blocks and wakes no thread.                         *)
LEMMA SchedulerStep ==
  ASSUME LockIInv, ThreadInv, panic = "none",
         UNCHANGED <<panic, lockVars, callVars>>,
         \A t \in Thread : status'[t] = "BLOCKED" <=> status[t] = "BLOCKED",
         Once(ready'), Range(ready') = {t \in Thread : status'[t] = "READY"},
         \A t \in Thread : status'[t] = "RUNNING" <=> t = cur',
         StartedOK', BootOK', FlagOK'
  PROVE  ThreadInv'
<1>1. /\ UNCHANGED <<value, waiters, holder, repeat>>
      /\ UNCHANGED <<pc, want, nest>>
  BY DEF lockVars, callVars
<1>2. ListsOK /\ TakenOK /\ NoLostWakeup
  BY DEF ThreadInv
<1>3. ListsOK'
  BY <1>1, <1>2 DEF ListsOK
<1>4. TakenOK'
  BY <1>1, <1>2 DEF TakenOK, Possesses
<1>5. NoLostWakeup'
  BY <1>1, <1>2 DEF NoLostWakeup
<1> QED
  BY <1>3, <1>4, <1>5 DEF ThreadInv

(* The processor passes to the head of the ready list, at whose end the    *)
(* thread that had it is queued: an expired slice and thread_yield.        *)
LEMMA RequeueStep ==
  ASSUME LockIInv, ThreadInv, panic = "none", intr = "ON",
         NEW f \in {"timer", "yield"},
         \/ Schedule(status, ready, f)
         \/ Schedule([status EXCEPT ![cur] = "READY"], Append(ready, cur), f),
         \A t \in Thread : t # cur => old'[t] = old[t],
         f = "yield" => old'[cur] = "ON",
         UNCHANGED <<lockVars, callVars>>
  PROVE  ThreadInv'
<1> DEFINE q == Append(ready, cur)
           st == [status EXCEPT ![cur] = "READY"]
<1>1. /\ cur \in Thread /\ ready \in Seq(Thread) /\ status \in [Thread -> Status]
      /\ frame \in [Thread -> Frame]
  BY DEF LockIInv, TypeOK, ThreadTypeOK
<1>2. ListsOK /\ StartedOK /\ FlagOK
  BY DEF ThreadInv
<1>3. booted /\ status[cur] = "RUNNING" /\ cur \notin Range(ready)
  BY <1>1, <1>2 DEF FlagOK, ListsOK
<1>4. /\ q \in Seq(Thread) /\ q # <<>>
      /\ Range(q) = Range(ready) \cup {cur} /\ Once(q)
  BY <1>1, <1>2, <1>3, AppendElements DEF ListsOK
<1>5. /\ st \in [Thread -> Status]
      /\ \A t \in Thread : st[t] = IF t = cur THEN "READY" ELSE status[t]
  BY <1>1 DEF Status
<1>6. /\ Range(q) = {t \in Thread : st[t] = "READY"}
      /\ \A t \in Thread : st[t] # "RUNNING"
  BY <1>1, <1>2, <1>4, <1>5 DEF ListsOK
<1>7. /\ cur' = Head(q) /\ ready' = Tail(q) /\ status' = [st EXCEPT ![Head(q)] = "RUNNING"]
      /\ frame' = [frame EXCEPT ![cur] = f] /\ intr' = "OFF"
      /\ UNCHANGED <<booted, all, panic>>
  <2>1. CASE Schedule(status, ready, f)
    BY <1>3, <1>4, <2>1 DEF Schedule, list_append, elem_find
  <2>2. CASE Schedule([status EXCEPT ![cur] = "READY"], Append(ready, cur), f)
    <3>1. st[cur] = "READY"
      BY <1>1, <1>5
    <3> QED
      BY <1>4, <2>2, <3>1 DEF Schedule
  <2> QED
    BY <2>1, <2>2
<1> HIDE DEF q, st
<1>8. /\ cur' \in Thread /\ st[cur'] = "READY"
      /\ Once(ready') /\ Range(ready') = {t \in Thread : status'[t] = "READY"}
      /\ \A t \in Thread : status'[t] = "RUNNING" <=> t = cur'
      /\ \A t \in Thread : status'[t] = "BLOCKED" <=> st[t] = "BLOCKED"
      /\ \A t \in Thread : status'[t] = "NONE" <=> st[t] = "NONE"
  BY <1>4, <1>5, <1>6, <1>7, Dispatch
<1>9. /\ \A t \in Thread : status'[t] = "BLOCKED" <=> status[t] = "BLOCKED"
      /\ \A t \in Thread : status'[t] = "NONE" <=> status[t] = "NONE"
  <2> SUFFICES ASSUME NEW t \in Thread
               PROVE  /\ status'[t] = "BLOCKED" <=> status[t] = "BLOCKED"
                      /\ status'[t] = "NONE" <=> status[t] = "NONE"
    OBVIOUS
  <2>1. CASE t = cur
    BY <1>3, <1>5, <1>8, <2>1
  <2>2. CASE t # cur
    BY <1>5, <1>8, <2>2
  <2> QED
    BY <2>1, <2>2
<1>10. UNCHANGED <<pc, want, nest>>
  BY DEF callVars
<1>11. StartedOK'
  BY <1>2, <1>7, <1>9, <1>10 DEF StartedOK
<1>12. BootOK'
  BY <1>3, <1>7 DEF BootOK
<1>13. FlagOK'
  <2>1. \A t \in Thread : frame'[t] = IF t = cur THEN f ELSE frame[t]
    BY <1>1, <1>7
  <2>2. cur' # cur => frame[cur'] # "none"
    BY <1>2, <1>5, <1>8 DEF FlagOK
  <2>3. frame'[cur'] # "none"
    BY <1>8, <2>1, <2>2
  <2>4. \A t \in Thread : t # cur' /\ status'[t] # "NONE" => frame'[t] # "none"
    <3> SUFFICES ASSUME NEW t \in Thread, status'[t] # "NONE" PROVE frame'[t] # "none"
      OBVIOUS
    <3>1. CASE t = cur
      BY <2>1, <3>1
    <3>2. CASE t # cur
      BY <1>2, <1>9, <2>1, <3>2 DEF FlagOK
    <3> QED
      BY <3>1, <3>2
  <2>5. \A t \in Thread : frame'[t] \in {"yield", "block"} => old'[t] = "ON"
    BY <1>2, <2>1 DEF FlagOK
  <2> QED
    BY <1>7, <2>3, <2>4, <2>5 DEF FlagOK
<1> QED
  BY <1>7, <1>8, <1>9, <1>11, <1>12, <1>13, SchedulerStep

LEMMA TickThreads == ASSUME LockIInv, ThreadInv, Tick PROVE ThreadInv'
<1>1. /\ panic = "none" /\ intr = "ON" /\ UNCHANGED old
      /\ UNCHANGED <<lockVars, callVars>>
  BY DEF Tick, TimerTick
<1>2. ListsOK /\ StartedOK /\ FlagOK /\ BootOK
  BY <1>1 DEF ThreadInv
<1>3. cur \in Thread /\ ready \in Seq(Thread)
  BY DEF LockIInv, TypeOK, ThreadTypeOK
<1>4. CASE ticks[cur] = 0
  <2>1. Schedule(status, ready, "timer")
    BY <1>4 DEF Tick, TimerTick
  <2> QED
    BY <1>1, <2>1, RequeueStep
<1>5. CASE ticks[cur] # 0
  <2>1. UNCHANGED <<cur, intr, booted, status, ready, all, frame, old, panic>>
    BY <1>1, <1>5 DEF Tick, TimerTick
  <2>2. UNCHANGED <<pc, want, nest>>
    BY <1>1 DEF callVars
  <2>3. StartedOK' /\ BootOK' /\ FlagOK'
    BY <1>2, <2>1, <2>2 DEF StartedOK, BootOK, FlagOK
  <2> QED
    BY <1>1, <1>2, <2>1, <2>3, SchedulerStep DEF ListsOK
<1> QED
  BY <1>4, <1>5

LEMMA YieldThreads ==
  ASSUME LockIInv, ThreadInv, NEW t \in Thread, Yield(t)
  PROVE  ThreadInv'
<1>1. /\ panic = "none" /\ cur = t /\ frame[t] = "none" /\ booted
      /\ old' = [old EXCEPT ![t] = intr]
      /\ UNCHANGED <<lockVars, callVars>>
  BY DEF Yield, InClient, ThreadYield, Executing
<1>2. ListsOK /\ FlagOK
  BY <1>1 DEF ThreadInv
<1>3. /\ cur \in Thread /\ ready \in Seq(Thread) /\ status \in [Thread -> Status]
      /\ old \in [Thread -> Intr]
  BY DEF LockIInv, TypeOK, ThreadTypeOK
<1>4. intr = "ON" /\ ~elem_find(ready, t)
  BY <1>1, <1>2, <1>3 DEF ListsOK, FlagOK, elem_find
<1>5. Schedule([status EXCEPT ![t] = "READY"], Append(ready, t), "yield")
  BY <1>4 DEF Yield, ThreadYield, list_append
<1>6. old'[cur] = "ON" /\ \A u \in Thread : u # cur => old'[u] = old[u]
  BY <1>1, <1>3, <1>4
<1> QED
  BY <1>1, <1>4, <1>5, <1>6, RequeueStep

-----------------------------------------------------------------------------
(* Only a kernel whose waiters were never linked stops.                    *)
LEMMA HaltThreads ==
  ASSUME ThreadInv, ~WaitersLinked, panic' # "none",
         UNCHANGED <<status, value, waiters, pc, want>>
  PROVE  ThreadInv'
  BY DEF ThreadInv, NoLostWakeup

LEMMA StartThreads == ASSUME LockIInv, ThreadInv, Start PROVE ThreadInv'
<1> DEFINE n == Len(all)
           t == Started[n]
<1>1. /\ panic = "none" /\ cur = Main /\ frame[Main] = "none"
      /\ n <= Len(Started) /\ ThreadStart(WaitersLinked)
      /\ UNCHANGED <<lockVars, callVars>>
  BY DEF Start, InClient, ThreadStart, Executing
<1>2. ListsOK /\ StartedOK /\ BootOK /\ FlagOK
  BY <1>1 DEF ThreadInv
<1>3. /\ all \in Seq(Thread) /\ ready \in Seq(Thread)
      /\ status \in [Thread -> Status] /\ frame \in [Thread -> Frame]
  BY DEF LockIInv, TypeOK, ThreadTypeOK
<1>4. n \in Nat \ {0} /\ DOMAIN all = 1 .. n
  BY <1>3, EmptySeq, LenProperties DEF LockIInv, TypeOK, ThreadTypeOK
<1>5. /\ Len(Started) \in Nat /\ DOMAIN Started = 1 .. Len(Started)
      /\ n \in DOMAIN Started /\ t \in Thread /\ t # Main
  <2>1. Started \in Seq(Thread \ {Main})
    BY ThreadAssumption
  <2>2. Len(Started) \in Nat /\ DOMAIN Started = 1 .. Len(Started)
    BY <2>1, LenProperties
  <2>3. n \in 1 .. Len(Started)
    BY <1>1, <1>4, <2>2
  <2>4. t \in Thread \ {Main}
    BY <2>1, <2>3, ElementOfSeq
  <2> QED
    BY <2>2, <2>3, <2>4
<1>6. t \notin Range(all)
  <2> SUFFICES ASSUME NEW i \in 1 .. n, all[i] = t PROVE FALSE
    BY <1>4 DEF Range
  <2>1. CASE i = 1
    BY <1>2, <1>4, <1>5, <2>1 DEF StartedOK
  <2>2. CASE i # 1
    <3>1. i - 1 \in DOMAIN Started /\ i - 1 # n
      BY <1>4, <1>5, <2>2
    <3>2. Started[i - 1] = Started[n]
      BY <1>2, <1>4, <2>2 DEF StartedOK
    <3> QED
      BY <1>5, <3>1, <3>2, ThreadAssumption
  <2> QED
    BY <2>1, <2>2
<1>7. status[t] = "NONE" /\ t \notin Range(ready)
  BY <1>2, <1>5, <1>6 DEF StartedOK, ListsOK
<1>8. CASE ~WaitersLinked
  <2>1. Halt("fault")
    BY <1>1, <1>8 DEF ThreadStart
  <2> QED
    BY <1>1, <1>8, <2>1, HaltThreads DEF Halt, lockVars, callVars
<1>9. CASE WaitersLinked
  <2>1. /\ status' = [status EXCEPT ![t] = "READY"]
        /\ ready' = Append(ready, t) /\ all' = Append(all, t)
        /\ frame' = [frame EXCEPT ![t] = "kernel_thread"]
        /\ UNCHANGED <<cur, intr, booted, panic, old>>
    BY <1>1, <1>6, <1>7, <1>9 DEF ThreadStart, elem_find, list_append
  <2> HIDE DEF t
  <2>2. \A u \in Thread : status'[u] = IF u = t THEN "READY" ELSE status[u]
    BY <1>3, <2>1 DEF Status
  <2>3. \A u \in Thread : frame'[u] = IF u = t THEN "kernel_thread" ELSE frame[u]
    BY <1>3, <2>1
  <2>4. Range(ready') = Range(ready) \cup {t} /\ Once(ready')
    BY <1>2, <1>3, <1>5, <1>7, <2>1, AppendElements DEF ListsOK
  <2>5. Range(ready') = {u \in Thread : status'[u] = "READY"}
    BY <1>2, <1>5, <2>2, <2>4 DEF ListsOK
  <2>6. t # cur /\ \A u \in Thread : status'[u] = "RUNNING" <=> u = cur'
    BY <1>2, <1>5, <1>7, <2>1, <2>2 DEF ListsOK
  <2>7. \A u \in Thread : status'[u] = "BLOCKED" <=> status[u] = "BLOCKED"
    BY <1>7, <2>2
  <2>8. UNCHANGED <<pc, want, nest>>
    BY <1>1 DEF callVars
  <2>9. StartedOK'
    <3>1. Range(all') = Range(all) \cup {t}
      BY <1>3, <1>5, <2>1, AppendElements
    <3>2. Range(all') = {u \in Thread : status'[u] # "NONE"}
      BY <1>2, <1>5, <2>2, <3>1 DEF StartedOK
    <3>3. /\ Append(all, t) \in Seq(Thread)
          /\ Len(Append(all, t)) = n + 1
          /\ \A i \in 1 .. n : Append(all, t)[i] = all[i]
          /\ Append(all, t)[n + 1] = t
      BY <1>3, <1>5, AppendProperties
    <3>4. DOMAIN all' = 1 .. n + 1
      BY <2>1, <3>3, LenProperties
    <3>5. \A i \in DOMAIN all' : all'[i] = IF i = 1 THEN Main ELSE Started[i - 1]
      <4> SUFFICES ASSUME NEW i \in 1 .. n + 1
                   PROVE  all'[i] = IF i = 1 THEN Main ELSE Started[i - 1]
        BY <3>4
      <4>1. CASE i = n + 1
        BY <1>4, <2>1, <3>3, <4>1 DEF t
      <4>2. CASE i \in 1 .. n
        BY <1>2, <1>4, <2>1, <3>3, <4>2 DEF StartedOK
      <4> QED
        BY <1>4, <4>1, <4>2
    <3> QED
      BY <1>2, <2>2, <2>8, <3>2, <3>5 DEF StartedOK
  <2>10. BootOK'
    BY <1>2, <1>5, <2>1, <2>3, <2>8, ThreadAssumption DEF BootOK
  <2>11. FlagOK'
    BY <1>2, <1>5, <2>1, <2>2, <2>3, <2>6 DEF FlagOK
  <2> QED
    BY <1>1, <2>1, <2>4, <2>5, <2>6, <2>7, <2>9, <2>10, <2>11, SchedulerStep
<1> QED
  BY <1>8, <1>9

LEMMA EnableThreads == ASSUME LockIInv, ThreadInv, Enable PROVE ThreadInv'
<1>1. /\ panic = "none" /\ cur = Main /\ frame[Main] = "none"
      /\ booted' = TRUE /\ intr' = "ON"
      /\ UNCHANGED <<cur, status, ready, all, ticks, frame, old, panic>>
      /\ UNCHANGED <<lockVars, callVars>>
  BY DEF Enable, InClient, IntrEnable, Executing
<1>2. ListsOK /\ StartedOK /\ FlagOK
  BY <1>1 DEF ThreadInv
<1>3. StartedOK' /\ BootOK' /\ FlagOK'
  BY <1>1, <1>2 DEF StartedOK, BootOK, FlagOK, callVars
<1> QED
  BY <1>1, <1>2, <1>3, SchedulerStep DEF ListsOK

(* A function that switch_to returned to sets the flag.                    *)
LEMMA SwitchReturnThreads ==
  ASSUME LockIInv, ThreadInv, NEW t \in Thread,
         NEW f \in Frame \ {"none"}, SwitchReturn(t, f, "ON"),
         UNCHANGED <<lockVars, callVars>>
  PROVE  ThreadInv'
<1>1. /\ panic = "none" /\ cur = t /\ frame[t] = f
      /\ frame' = [frame EXCEPT ![t] = "none"] /\ intr' = "ON"
      /\ UNCHANGED <<cur, booted, status, ready, all, ticks, old, panic>>
  BY DEF SwitchReturn
<1>2. ListsOK /\ StartedOK /\ FlagOK /\ BootOK
  BY <1>1 DEF ThreadInv
<1>3. \A u \in Thread : frame'[u] = IF u = t THEN "none" ELSE frame[u]
  BY <1>1 DEF LockIInv, TypeOK, ThreadTypeOK
<1>4. booted
  BY <1>1, <1>2 DEF BootOK
<1>5. StartedOK' /\ BootOK'
  BY <1>1, <1>2, <1>4 DEF StartedOK, BootOK, callVars
<1>6. FlagOK'
  BY <1>1, <1>2, <1>3, <1>4 DEF FlagOK
<1> QED
  BY <1>1, <1>2, <1>5, <1>6, SchedulerStep DEF ListsOK

(* A step of the running thread inside lock_acquire or lock_release that   *)
(* takes no semaphore and gives none back.                                 *)
LEMMA CallStep ==
  ASSUME LockIInv, ThreadInv, NEW t \in Thread, Executing(t), pc[t] # "wait",
         UNCHANGED <<threadVars, value, waiters>>,
         \A u \in Thread : u # t =>
           pc'[u] = pc[u] /\ want'[u] = want[u] /\ nest'[u] = nest[u],
         \A l \in Lock : Possesses(t, l) => Possesses(t, l)'
  PROVE  ThreadInv'
<1>1. /\ panic = "none" /\ cur = t
      /\ UNCHANGED <<cur, intr, booted, status, ready, all, frame, old, panic>>
  BY DEF Executing, threadVars
<1>2. ListsOK /\ StartedOK /\ FlagOK /\ BootOK /\ TakenOK /\ NoLostWakeup
  BY <1>1 DEF ThreadInv
<1>3. status[t] = "RUNNING"
  BY <1>1, <1>2 DEF ListsOK
<1>4. \A u \in Thread : status[u] = "BLOCKED" => pc'[u] = pc[u] /\ want'[u] = want[u]
  BY <1>3
<1>5. ListsOK'
  <2>1. \A l \in Lock :
          {u \in Thread : status[u] = "BLOCKED" /\ pc'[u] = "wait" /\ want'[u] = l}
            = {u \in Thread : status[u] = "BLOCKED" /\ pc[u] = "wait" /\ want[u] = l}
    BY <1>4
  <2> QED
    BY <1>1, <1>2, <1>4, <2>1 DEF ListsOK
<1>6. StartedOK'
  BY <1>1, <1>2, <1>3 DEF StartedOK
<1>7. BootOK'
  BY <1>1, <1>2 DEF BootOK
<1>8. FlagOK'
  BY <1>1, <1>2 DEF FlagOK
<1>9. TakenOK'
  BY <1>2 DEF TakenOK, Possesses
<1>10. NoLostWakeup'
  BY <1>1, <1>2 DEF NoLostWakeup
<1> QED
  BY <1>1, <1>2, <1>5, <1>6, <1>7, <1>8, <1>9, <1>10 DEF ThreadInv

-----------------------------------------------------------------------------
(* A thread that possesses a lock is not blocked: when another blocks on   *)
(* the lock the ready list has at least the possessor.                     *)
LEMMA PossessorReady ==
  ASSUME LockIInv, ThreadInv, panic = "none", NEW l \in Lock, value[l] = 0,
         ~Possesses(cur, l)
  PROVE  ready # <<>> /\ booted
<1>1. ListsOK /\ StartedOK /\ BootOK /\ TakenOK
  BY DEF ThreadInv
<1>2. PICK u \in Thread : Possesses(u, l)
  BY <1>1 DEF TakenOK
<1>3. u # cur /\ want[u] = l /\ (nest[u] > 0 \/ pc[u] # "run") /\ pc[u] # "wait"
  BY <1>2 DEF Possesses, LockIInv, LockInv, NestOK
<1>4. status[u] \in Status /\ cur \in Thread /\ nest[u] \in 0..MaxNest
  BY DEF LockIInv, TypeOK, ThreadTypeOK
<1>5. status[u] = "READY"
  BY <1>1, <1>3, <1>4 DEF StartedOK, ListsOK, Status
<1>6. ready # <<>>
  <2>1. u \in Range(ready)
    BY <1>1, <1>5 DEF ListsOK
  <2> QED
    BY <2>1, RangeOf DEF LockIInv, TypeOK, ThreadTypeOK
<1>7. booted
  <2> SUFFICES ASSUME ~booted PROVE FALSE
    OBVIOUS
  <2>1. cur = Main /\ u # Main
    BY <1>1, <1>3 DEF BootOK
  <2> QED
    BY <1>1, <1>3, <1>4, <2>1 DEF BootOK
<1> QED
  BY <1>6, <1>7

(* sema_down, from either place, when its old_status is the flag of the    *)
(* thread's own code.  First the three outcomes of a turn of its loop.     *)
LEMMA DownLoopOutcome ==
  ASSUME LockIInv, ThreadInv, panic = "none", NEW t \in Thread, NEW o,
         t = cur, want[t] \in Lock, DownLoop(t, o)
  PROVE  LET l == want[t] IN
    \/ /\ value[l] = 0 /\ t \notin Range(waiters[l])
       /\ waiters' = [waiters EXCEPT ![l] = Append(@, t)]
       /\ old' = [old EXCEPT ![t] = o]
       /\ pc' = [pc EXCEPT ![t] = "wait"]
       /\ ThreadBlock(t)
       /\ UNCHANGED <<value, want, nest>>
    \/ /\ value[l] = 1
       /\ value' = [value EXCEPT ![l] = 0]
       /\ pc' = [pc EXCEPT ![t] = "own"]
       /\ intr' = o
       /\ frame' = [frame EXCEPT ![t] = "none"]
       /\ UNCHANGED <<cur, booted, status, ready, all, old, panic, waiters, want, nest>>
    \/ /\ ~WaitersLinked /\ panic' # "none"
       /\ UNCHANGED <<status, value, waiters, pc, want>>
<1> DEFINE l == want[t]
<1>1. ListsOK
  BY DEF ThreadInv
<1>2. t \notin Range(waiters[l])
  <2>1. status[t] = "RUNNING"
    BY <1>1 DEF ListsOK
  <2> QED
    BY <1>1, <2>1 DEF ListsOK
<1>3. value[l] \in {0, 1}
  BY DEF LockIInv, TypeOK
<1>4. CASE value[l] = 0 /\ WaitersLinked
  BY <1>2, <1>4 DEF DownLoop, Goto, elem_find, list_append
<1>5. CASE value[l] = 0 /\ ~WaitersLinked
  BY <1>5 DEF DownLoop, Halt
<1>6. CASE value[l] = 1
  BY <1>6 DEF DownLoop, Goto
<1> QED
  BY <1>3, <1>4, <1>5, <1>6

(* The thread queues on the semaphore and gives the processor away.        *)
LEMMA BlockThreads ==
  ASSUME LockIInv, ThreadInv, panic = "none", NEW t \in Thread,
         t = cur, want[t] \in Lock, value[want[t]] = 0,
         nest[t] = 0, pc[t] \in {"down", "wait"},
         t \notin Range(waiters[want[t]]),
         waiters' = [waiters EXCEPT ![want[t]] = Append(@, t)],
         old' = [old EXCEPT ![t] = "ON"],
         pc' = [pc EXCEPT ![t] = "wait"],
         ThreadBlock(t),
         UNCHANGED <<value, want, nest>>
  PROVE  ThreadInv'
<1> DEFINE l == want[t]
           st == [status EXCEPT ![t] = "BLOCKED"]
<1>1. ListsOK /\ StartedOK /\ BootOK /\ FlagOK /\ TakenOK /\ NoLostWakeup
  BY DEF ThreadInv
<1>2. /\ ready \in Seq(Thread) /\ status \in [Thread -> Status]
      /\ frame \in [Thread -> Frame] /\ old \in [Thread -> Intr]
      /\ pc \in [Thread -> PC] /\ waiters \in [Lock -> Seq(Thread)]
  BY DEF LockIInv, TypeOK, ThreadTypeOK
<1>3. ready # <<>> /\ booted
  BY PossessorReady DEF Possesses
<1>4. status[t] = "RUNNING"
  BY <1>1 DEF ListsOK
<1>5. /\ st \in [Thread -> Status]
      /\ \A u \in Thread : st[u] = IF u = t THEN "BLOCKED" ELSE status[u]
  BY <1>2 DEF Status
<1>6. /\ cur' = Head(ready) /\ ready' = Tail(ready)
      /\ status' = [st EXCEPT ![Head(ready)] = "RUNNING"]
      /\ frame' = [frame EXCEPT ![t] = "block"] /\ intr' = "OFF"
      /\ UNCHANGED <<booted, all, panic>>
  <2>1. st[cur] # "RUNNING"
    BY <1>5
  <2> QED
    BY <1>3, <2>1 DEF ThreadBlock, Schedule
<1>7. /\ Range(ready) = {u \in Thread : st[u] = "READY"}
      /\ \A u \in Thread : st[u] # "RUNNING"
  BY <1>1, <1>4, <1>5 DEF ListsOK
<1> HIDE DEF st
<1>8. /\ cur' \in Thread /\ st[cur'] = "READY"
      /\ Once(ready') /\ Range(ready') = {u \in Thread : status'[u] = "READY"}
      /\ \A u \in Thread : status'[u] = "RUNNING" <=> u = cur'
      /\ \A u \in Thread : status'[u] = "BLOCKED" <=> st[u] = "BLOCKED"
      /\ \A u \in Thread : status'[u] = "NONE" <=> st[u] = "NONE"
  <2>1. Once(ready)
    BY <1>1 DEF ListsOK
  <2> QED
    BY <1>2, <1>3, <1>5, <1>6, <1>7, <2>1, Dispatch
<1>9. \A u \in Thread :
        /\ status'[u] = "BLOCKED" <=> (u = t \/ status[u] = "BLOCKED")
        /\ status'[u] = "NONE" <=> status[u] = "NONE"
        /\ pc'[u] = IF u = t THEN "wait" ELSE pc[u]
        /\ frame'[u] = IF u = t THEN "block" ELSE frame[u]
        /\ old'[u] = IF u = t THEN "ON" ELSE old[u]
  BY <1>2, <1>4, <1>5, <1>6, <1>8
<1>10. ListsOK'
  <2>1. \A k \in Lock : waiters'[k] = IF k = l THEN Append(waiters[l], t) ELSE waiters[k]
    BY <1>2
  <2>2. /\ Range(waiters'[l]) = Range(waiters[l]) \cup {t}
        /\ Once(waiters'[l])
    BY <1>1, <1>2, <2>1, AppendElements DEF ListsOK
  <2>3. \A k \in Lock : Once(waiters'[k])
    BY <1>1, <2>1, <2>2 DEF ListsOK
  <2>4. \A k \in Lock : Range(waiters'[k]) =
          {u \in Thread : status'[u] = "BLOCKED" /\ pc'[u] = "wait" /\ want[u] = k}
    <3> SUFFICES ASSUME NEW k \in Lock
                 PROVE  Range(waiters'[k]) = {u \in Thread :
                          status'[u] = "BLOCKED" /\ pc'[u] = "wait" /\ want[u] = k}
      OBVIOUS
    <3>1. Range(waiters[k]) =
            {u \in Thread : status[u] = "BLOCKED" /\ pc[u] = "wait" /\ want[u] = k}
      BY <1>1 DEF ListsOK
    <3>2. CASE k = l
      BY <1>9, <2>2, <3>1, <3>2
    <3>3. CASE k # l
      BY <1>4, <1>9, <2>1, <3>1, <3>3
    <3> QED
      BY <3>2, <3>3
  <2>5. \A u \in Thread : status'[u] = "BLOCKED" => pc'[u] = "wait"
    BY <1>1, <1>9 DEF ListsOK
  <2> QED
    BY <1>8, <2>3, <2>4, <2>5 DEF ListsOK
<1>11. StartedOK'
  BY <1>1, <1>4, <1>6, <1>9 DEF StartedOK
<1>12. BootOK'
  BY <1>3, <1>6 DEF BootOK
<1>13. FlagOK'
  <2>1. cur' # t /\ status[cur'] = "READY"
    BY <1>5, <1>8
  <2>2. frame'[cur'] # "none"
    BY <1>1, <1>8, <1>9, <2>1 DEF FlagOK
  <2>3. \A u \in Thread : u # cur' /\ status'[u] # "NONE" => frame'[u] # "none"
    BY <1>1, <1>9 DEF FlagOK
  <2>4. \A u \in Thread : frame'[u] \in {"yield", "block"} => old'[u] = "ON"
    BY <1>1, <1>9 DEF FlagOK
  <2> QED
    BY <1>6, <2>2, <2>3, <2>4 DEF FlagOK
<1>14. TakenOK'
  BY <1>1, <1>9 DEF TakenOK, Possesses
<1>15. NoLostWakeup'
  <2> SUFFICES ASSUME NEW k \in Lock, waiters'[k] # <<>>, value[k] = 1
               PROVE  \E u \in Thread : want[u] = k /\ pc'[u] = "wait" /\ status'[u] # "BLOCKED"
    BY DEF NoLostWakeup
  <2>1. k # l /\ waiters[k] # <<>>
    BY <1>2
  <2>2. PICK u \in Thread : want[u] = k /\ pc[u] = "wait" /\ status[u] # "BLOCKED"
    BY <1>1, <2>1 DEF NoLostWakeup
  <2> QED
    BY <1>9, <2>1, <2>2
<1> QED
  BY <1>6, <1>10, <1>11, <1>12, <1>13, <1>14, <1>15 DEF ThreadInv

(* The thread takes the semaphore.                                         *)
LEMMA TakeThreads ==
  ASSUME LockIInv, ThreadInv, panic = "none", NEW t \in Thread, NEW o,
         t = cur, want[t] \in Lock, nest[t] = 0, pc[t] \in {"down", "wait"},
         o = "ON" <=> booted,
         value[want[t]] = 1,
         value' = [value EXCEPT ![want[t]] = 0],
         pc' = [pc EXCEPT ![t] = "own"],
         intr' = o,
         frame' = [frame EXCEPT ![t] = "none"],
         UNCHANGED <<cur, booted, status, ready, all, old, panic, waiters, want, nest>>
  PROVE  ThreadInv'
<1> DEFINE l == want[t]
<1>1. ListsOK /\ StartedOK /\ BootOK /\ FlagOK /\ TakenOK /\ NoLostWakeup
  BY DEF ThreadInv
<1>2. /\ \A u \in Thread : pc'[u] = IF u = t THEN "own" ELSE pc[u]
      /\ \A u \in Thread : frame'[u] = IF u = t THEN "none" ELSE frame[u]
      /\ \A k \in Lock : value'[k] = IF k = l THEN 0 ELSE value[k]
  BY DEF LockIInv, TypeOK, ThreadTypeOK
<1>3. status[t] = "RUNNING"
  BY <1>1 DEF ListsOK
<1>4. ListsOK'
  <2>1. \A k \in Lock :
          {u \in Thread : status[u] = "BLOCKED" /\ pc'[u] = "wait" /\ want[u] = k}
            = {u \in Thread : status[u] = "BLOCKED" /\ pc[u] = "wait" /\ want[u] = k}
    BY <1>2, <1>3
  <2> QED
    BY <1>1, <1>2, <1>3, <2>1 DEF ListsOK
<1>5. StartedOK'
  BY <1>1, <1>2, <1>3 DEF StartedOK
<1>6. BootOK'
  BY <1>1, <1>2 DEF BootOK
<1>7. FlagOK'
  BY <1>1, <1>2 DEF FlagOK
<1>8. TakenOK'
  BY <1>1, <1>2 DEF TakenOK, Possesses
<1>9. NoLostWakeup'
  <2> SUFFICES ASSUME NEW k \in Lock, waiters[k] # <<>>, value'[k] = 1
               PROVE  \E u \in Thread : want[u] = k /\ pc'[u] = "wait" /\ status[u] # "BLOCKED"
    BY DEF NoLostWakeup
  <2>1. k # l /\ value[k] = 1
    BY <1>2
  <2>2. PICK u \in Thread : want[u] = k /\ pc[u] = "wait" /\ status[u] # "BLOCKED"
    BY <1>1, <2>1 DEF NoLostWakeup
  <2> QED
    BY <1>2, <2>1, <2>2
<1> QED
  BY <1>4, <1>5, <1>6, <1>7, <1>8, <1>9 DEF ThreadInv

LEMMA DownLoopThreads ==
  ASSUME LockIInv, ThreadInv, panic = "none", NEW t \in Thread, NEW o \in Intr,
         t = cur, pc[t] \in {"down", "wait"}, o = "ON" <=> booted, DownLoop(t, o)
  PROVE  ThreadInv'
<1>1. want[t] \in Lock /\ nest[t] = 0
  BY DEF LockIInv, TypeOK, LockInv, WantOK, NestOK
<1>2. value[want[t]] = 0 => o = "ON"
  BY <1>1, PossessorReady DEF Possesses
<1> QED
  BY <1>1, <1>2, DownLoopOutcome, BlockThreads, TakeThreads, HaltThreads

LEMMA SemaDownThreads ==
  ASSUME LockIInv, ThreadInv, NEW t \in Thread, SemaDown(t)
  PROVE  ThreadInv'
<1>1. /\ panic = "none" /\ cur = t /\ frame[t] = "none" /\ pc[t] = "down"
      /\ DownLoop(t, intr)
  BY DEF SemaDown, At, Executing
<1>2. intr \in Intr /\ (intr = "ON" <=> booted)
  BY <1>1 DEF ThreadInv, FlagOK, LockIInv, TypeOK, ThreadTypeOK
<1> QED
  BY <1>1, <1>2, DownLoopThreads

LEMMA RetryDownThreads ==
  ASSUME LockIInv, ThreadInv, NEW t \in Thread, RetryDown(t)
  PROVE  ThreadInv'
<1>1. /\ panic = "none" /\ cur = t /\ frame[t] = "block" /\ DownLoop(t, old[t])
  BY DEF RetryDown
<1>2. pc[t] = "wait"
  BY <1>1 DEF LockIInv, LockInv, FrameOK
<1>3. old[t] = "ON" /\ booted
  BY <1>1 DEF ThreadInv, FlagOK, BootOK
<1> QED
  BY <1>1, <1>2, <1>3, DownLoopThreads DEF Intr

-----------------------------------------------------------------------------
(* sema_up finds the value 0, and wakes a thread that is blocked.          *)
LEMMA SemaUpThreads ==
  ASSUME LockIInv, ThreadInv, NEW t \in Thread, SemaUp(t)
  PROVE  ThreadInv'
<1> DEFINE l == want[t]
<1>1. /\ panic = "none" /\ cur = t /\ frame[t] = "none" /\ pc[t] = "up"
      /\ UNCHANGED nest
  BY DEF SemaUp, At, Executing
<1>2. l \in Lock /\ nest[t] = 0 /\ value[l] = 0
  BY <1>1 DEF LockIInv, TypeOK, LockInv, WantOK, NestOK, MutualExclusion, Possesses
<1>3. ListsOK /\ StartedOK /\ BootOK /\ FlagOK /\ TakenOK /\ NoLostWakeup
  BY <1>1 DEF ThreadInv
<1>4. CASE ~WaitersLinked
  BY <1>2, <1>4, HaltThreads DEF SemaUp, Halt
<1>5. CASE WaitersLinked
  <2>1. /\ value' = [value EXCEPT ![l] = 1]
        /\ pc' = [pc EXCEPT ![t] = "run"]
        /\ want' = [want EXCEPT ![t] = NoLock]
    BY <1>2, <1>5 DEF SemaUp, Goto
  <2>2. /\ \A u \in Thread : pc'[u] = IF u = t THEN "run" ELSE pc[u]
        /\ \A u \in Thread : want'[u] = IF u = t THEN NoLock ELSE want[u]
        /\ \A k \in Lock : value'[k] = IF k = l THEN 1 ELSE value[k]
    BY <2>1 DEF LockIInv, TypeOK
  <2>3. status[t] = "RUNNING"
    BY <1>1, <1>3 DEF ListsOK
  <2>4. TakenOK'
    BY <1>1, <1>3, <2>2 DEF TakenOK, Possesses
  <2>5. CASE waiters[l] = <<>>
    <3>1. UNCHANGED <<waiters, cur, intr, booted, status, ready, all, frame, old, panic>>
      BY <1>2, <1>5, <2>5 DEF SemaUp, threadVars
    <3>2. ListsOK'
      <4>1. \A k \in Lock :
              {u \in Thread : status[u] = "BLOCKED" /\ pc'[u] = "wait" /\ want'[u] = k}
                = {u \in Thread : status[u] = "BLOCKED" /\ pc[u] = "wait" /\ want[u] = k}
        BY <2>2, <2>3
      <4> QED
        BY <1>3, <2>2, <2>3, <3>1, <4>1 DEF ListsOK
    <3>3. StartedOK' /\ BootOK' /\ FlagOK'
      BY <1>1, <1>3, <2>2, <2>3, <3>1 DEF StartedOK, BootOK, FlagOK
    <3>4. NoLostWakeup'
      <4> SUFFICES ASSUME NEW k \in Lock, waiters[k] # <<>>, value'[k] = 1
                   PROVE  \E u \in Thread :
                            want'[u] = k /\ pc'[u] = "wait" /\ status[u] # "BLOCKED"
        BY <3>1 DEF NoLostWakeup
      <4>1. k # l /\ value[k] = 1
        BY <2>2, <2>5
      <4>2. PICK u \in Thread : want[u] = k /\ pc[u] = "wait" /\ status[u] # "BLOCKED"
        BY <1>3, <4>1 DEF NoLostWakeup
      <4> QED
        BY <1>1, <2>2, <4>2
    <3> QED
      BY <1>1, <2>4, <3>1, <3>2, <3>3, <3>4 DEF ThreadInv
  <2>6. CASE waiters[l] # <<>>
    <3> DEFINE h == Head(waiters[l])
    <3>1. /\ ready \in Seq(Thread) /\ status \in [Thread -> Status]
          /\ waiters \in [Lock -> Seq(Thread)]
      BY DEF LockIInv, TypeOK, ThreadTypeOK
    <3>2. /\ h \in Thread /\ h \in Range(waiters[l])
          /\ Range(Tail(waiters[l])) = Range(waiters[l]) \ {h}
          /\ Once(Tail(waiters[l]))
      <4>1. Once(waiters[l])
        BY <1>2, <1>3 DEF ListsOK
      <4> QED
        BY <1>2, <2>6, <3>1, <4>1, TailElements
    <3>3. /\ status[h] = "BLOCKED" /\ pc[h] = "wait" /\ want[h] = l
          /\ h # t /\ h \notin Range(ready)
      BY <1>2, <1>3, <2>3, <3>2 DEF ListsOK
    <3>4. /\ waiters' = [waiters EXCEPT ![l] = Tail(@)]
          /\ status' = [status EXCEPT ![h] = "READY"]
          /\ ready' = <<h>> \o ready
          /\ UNCHANGED <<cur, intr, booted, all, frame, old, panic>>
      BY <1>2, <1>5, <2>6, <3>3 DEF SemaUp, ThreadUnblock, elem_find, list_push
    <3> HIDE DEF h
    <3>5. /\ \A u \in Thread : status'[u] = IF u = h THEN "READY" ELSE status[u]
          /\ \A k \in Lock : waiters'[k] = IF k = l THEN Tail(waiters[l]) ELSE waiters[k]
      BY <3>1, <3>4 DEF Status
    <3>6. Range(ready') = Range(ready) \cup {h} /\ Once(ready')
      BY <1>3, <3>1, <3>2, <3>3, <3>4, PushElements DEF ListsOK
    <3>7. ListsOK'
      <4>1. \A k \in Lock : Once(waiters'[k])
        BY <1>3, <3>2, <3>5 DEF ListsOK
      <4>2. Range(ready') = {u \in Thread : status'[u] = "READY"}
        BY <1>3, <3>2, <3>5, <3>6 DEF ListsOK
      <4>3. \A u \in Thread : status'[u] = "RUNNING" <=> u = cur'
        BY <1>1, <1>3, <3>3, <3>4, <3>5 DEF ListsOK
      <4>4. \A u \in Thread : status'[u] = "BLOCKED" => pc'[u] = "wait"
        BY <1>3, <2>2, <2>3, <3>5 DEF ListsOK
      <4>5. ASSUME NEW k \in Lock
            PROVE  Range(waiters'[k]) = {u \in Thread :
                     status'[u] = "BLOCKED" /\ pc'[u] = "wait" /\ want'[u] = k}
        <5>1. Range(waiters[k]) =
                {u \in Thread : status[u] = "BLOCKED" /\ pc[u] = "wait" /\ want[u] = k}
          BY <1>3 DEF ListsOK
        <5>2. \A u \in Thread :
                status'[u] = "BLOCKED" /\ pc'[u] = "wait" /\ want'[u] = k
                  <=> u # h /\ status[u] = "BLOCKED" /\ pc[u] = "wait" /\ want[u] = k
          BY <2>2, <2>3, <3>5
        <5>3. CASE k = l
          BY <3>2, <3>5, <5>1, <5>2, <5>3
        <5>4. CASE k # l
          BY <3>3, <3>5, <5>1, <5>2, <5>4
        <5> QED
          BY <5>3, <5>4
      <4> QED
        BY <3>6, <4>1, <4>2, <4>3, <4>4, <4>5 DEF ListsOK
    <3>8. StartedOK'
      BY <1>1, <1>3, <2>2, <2>3, <3>2, <3>3, <3>4, <3>5 DEF StartedOK
    <3>9. BootOK'
      BY <1>1, <1>3, <2>2, <3>4 DEF BootOK
    <3>10. FlagOK'
      BY <1>1, <1>3, <3>2, <3>3, <3>4, <3>5 DEF FlagOK
    <3>11. NoLostWakeup'
      <4> SUFFICES ASSUME NEW k \in Lock, waiters'[k] # <<>>, value'[k] = 1
                   PROVE  \E u \in Thread :
                            want'[u] = k /\ pc'[u] = "wait" /\ status'[u] # "BLOCKED"
        BY DEF NoLostWakeup
      <4>1. CASE k = l
        BY <2>2, <3>2, <3>3, <3>5, <4>1
      <4>2. CASE k # l
        <5>1. waiters[k] # <<>> /\ value[k] = 1
          BY <2>2, <3>5, <4>2
        <5>2. PICK u \in Thread : want[u] = k /\ pc[u] = "wait" /\ status[u] # "BLOCKED"
          BY <1>3, <5>1 DEF NoLostWakeup
        <5> QED
          BY <1>1, <2>2, <3>5, <5>2
      <4> QED
        BY <4>1, <4>2
    <3> QED
      BY <1>1, <2>4, <3>4, <3>7, <3>8, <3>9, <3>10, <3>11 DEF ThreadInv
  <2> QED
    BY <2>5, <2>6
<1> QED
  BY <1>4, <1>5

(* The other steps of lock_acquire and lock_release: none of their         *)
(* assertions fails.                                                       *)
LEMMA AcquireThreads ==
  ASSUME LockIInv, ThreadInv, NEW t \in Thread, NEW l \in Lock, LockAcquire(t, l)
  PROVE  ThreadInv'
<1>1. Executing(t) /\ pc[t] = "run" /\ UNCHANGED <<threadVars, value, waiters>>
  BY DEF LockAcquire, At
<1>2. \A u \in Thread : u # t =>
        pc'[u] = pc[u] /\ want'[u] = want[u] /\ nest'[u] = nest[u]
  BY DEF LockAcquire, Goto, LockIInv, TypeOK
<1>3. \A k \in Lock : Possesses(t, k) => Possesses(t, k)'
  <2>1. CASE holder[l] # t
    <3>1. want[t] = l => nest[t] = 0
      BY <1>1, <2>1 DEF LockIInv, TypeOK, LockInv, HolderOK
    <3>2. want[t] \in {l, NoLock}
      BY DEF LockAcquire
    <3> QED
      BY <1>1, <3>1, <3>2, SyncAssumption DEF Possesses
  <2>2. CASE holder[l] = t
    <3>1. /\ want[t] = l
          /\ nest' = [nest EXCEPT ![t] = @ + 1] /\ want' = [want EXCEPT ![t] = l]
      BY <2>2 DEF LockAcquire, LockIInv, LockInv, HolderOK
    <3> QED
      BY <3>1 DEF Possesses, LockIInv, TypeOK
  <2> QED
    BY <2>1, <2>2
<1> QED
  BY <1>1, <1>2, <1>3, CallStep

LEMMA SetHolderThreads ==
  ASSUME LockIInv, ThreadInv, NEW t \in Thread, SetHolder(t)
  PROVE  ThreadInv'
  BY CallStep DEF SetHolder, At, Goto, Possesses, LockIInv, TypeOK

LEMMA SetRepeatThreads ==
  ASSUME LockIInv, ThreadInv, NEW t \in Thread, SetRepeat(t)
  PROVE  ThreadInv'
<1>1. want[t] \in Lock /\ pc[t] = "count" /\ repeat[want[t]] = 0
  BY DEF SetRepeat, At, LockIInv, TypeOK, LockInv, WantOK, RepeatOK
<1>2. /\ Executing(t) /\ UNCHANGED <<threadVars, value, waiters, want>>
      /\ nest' = [nest EXCEPT ![t] = 1] /\ pc' = [pc EXCEPT ![t] = "run"]
  BY <1>1 DEF SetRepeat, At, Goto
<1>3. \A u \in Thread : u # t =>
        pc'[u] = pc[u] /\ want'[u] = want[u] /\ nest'[u] = nest[u]
  BY <1>2 DEF LockIInv, TypeOK
<1>4. nest'[t] = 1
  BY <1>2 DEF LockIInv, TypeOK
<1>5. \A k \in Lock : Possesses(t, k) => Possesses(t, k)'
  BY <1>2, <1>4 DEF Possesses
<1> QED
  BY <1>1, <1>2, <1>3, <1>5, CallStep

LEMMA ReleaseThreads ==
  ASSUME LockIInv, ThreadInv, NEW t \in Thread, LockRelease(t)
  PROVE  ThreadInv'
<1> DEFINE l == want[t]
<1>1. l \in Lock /\ nest[t] > 0 /\ nest[t] \in Nat /\ pc[t] = "run"
  BY DEF LockRelease, ReleaseAbove, At, LockIInv, TypeOK, LockInv, WantOK
<1>2. holder[l] = t /\ repeat[l] = nest[t]
  BY <1>1 DEF LockIInv, TypeOK, LockInv, HolderOK, RepeatOK
<1>3. /\ Executing(t) /\ UNCHANGED <<threadVars, value, waiters, want>>
      /\ nest' = [nest EXCEPT ![t] = @ - 1]
      /\ pc' = IF repeat[l] > 1 THEN pc ELSE [pc EXCEPT ![t] = "clear"]
  BY <1>1, <1>2 DEF LockRelease, ReleaseAbove, At, Goto
<1>4. \A u \in Thread : u # t =>
        pc'[u] = pc[u] /\ want'[u] = want[u] /\ nest'[u] = nest[u]
  BY <1>3 DEF LockIInv, TypeOK
<1>5. nest'[t] = nest[t] - 1 /\ (repeat[l] > 1 \/ pc'[t] = "clear")
  BY <1>3 DEF LockIInv, TypeOK
<1>6. \A k \in Lock : Possesses(t, k) => Possesses(t, k)'
  BY <1>1, <1>2, <1>3, <1>5 DEF Possesses
<1> QED
  BY <1>1, <1>3, <1>4, <1>6, CallStep

LEMMA ClearHolderThreads ==
  ASSUME LockIInv, ThreadInv, NEW t \in Thread, ClearHolder(t)
  PROVE  ThreadInv'
  BY CallStep DEF ClearHolder, At, Goto, Possesses, LockIInv, TypeOK

LEMMA ClearRepeatThreads ==
  ASSUME LockIInv, ThreadInv, NEW t \in Thread, ClearRepeat(t)
  PROVE  ThreadInv'
  BY CallStep DEF ClearRepeat, At, Goto, Possesses, LockIInv, TypeOK

-----------------------------------------------------------------------------
LEMMA InitThreads == Init => ThreadInv
<1> SUFFICES ASSUME Init PROVE ThreadInv
  OBVIOUS
<1>1. Main \in Thread
  BY ThreadAssumption
<1>2. /\ ready = <<>> /\ all = <<Main>> /\ panic = "none"
      /\ \A t \in Thread : status[t] = IF t = Main THEN "RUNNING" ELSE "NONE"
      /\ cur = Main /\ frame = [t \in Thread |-> "none"]
      /\ intr = "OFF" /\ booted = FALSE
      /\ \A t \in Thread : pc[t] = "run" /\ nest[t] = 0
      /\ \A l \in Lock : waiters[l] = <<>> /\ value[l] = 1
  BY DEF Init, ThreadsInit
<1>3. Range(<<>>) = {} /\ Once(<<>>)
  BY DEF Range, Once
<1>4. ListsOK
  BY <1>2, <1>3 DEF ListsOK
<1>5. StartedOK
  <2>1. DOMAIN all = {1} /\ all[1] = Main
    BY <1>2
  <2>2. Range(all) = {Main}
    BY <2>1 DEF Range
  <2> QED
    BY <1>1, <1>2, <2>1, <2>2 DEF StartedOK
<1>6. BootOK /\ FlagOK
  BY <1>1, <1>2 DEF BootOK, FlagOK
<1>7. TakenOK /\ NoLostWakeup
  BY <1>2 DEF TakenOK, NoLostWakeup
<1> QED
  BY <1>2, <1>4, <1>5, <1>6, <1>7 DEF ThreadInv

LEMMA NextThreads == LockIInv /\ ThreadInv /\ [Next]_vars => ThreadInv'
<1> SUFFICES ASSUME LockIInv, ThreadInv, [Next]_vars PROVE ThreadInv'
  OBVIOUS
<1>1. CASE Tick
  BY <1>1, TickThreads
<1>2. CASE Start
  BY <1>2, StartThreads
<1>3. CASE Enable
  BY <1>3, EnableThreads
<1>4. ASSUME NEW t \in Thread, Yield(t) PROVE ThreadInv'
  BY <1>4, YieldThreads
<1>5. ASSUME NEW t \in Thread, Return(t) PROVE ThreadInv'
  <2>1. CASE FirstRun(t) /\ UNCHANGED <<lockVars, callVars>>
    BY <2>1, SwitchReturnThreads DEF FirstRun, Frame
  <2>2. CASE TimerReturn(t) /\ UNCHANGED <<lockVars, callVars>>
    BY <2>2, SwitchReturnThreads DEF TimerReturn, Frame
  <2>3. CASE YieldReturn(t) /\ UNCHANGED <<lockVars, callVars>>
    <3>1. panic = "none" /\ frame[t] = "yield"
      BY <2>3 DEF YieldReturn, SwitchReturn
    <3>2. old[t] = "ON"
      BY <3>1 DEF ThreadInv, FlagOK
    <3> QED
      BY <2>3, <3>2, SwitchReturnThreads DEF YieldReturn, Frame
  <2>4. CASE RetryDown(t)
    BY <2>4, RetryDownThreads
  <2> QED
    BY <1>5, <2>1, <2>2, <2>3, <2>4 DEF Return
<1>6. ASSUME NEW t \in Thread, Continue(t) PROVE ThreadInv'
  BY <1>6, SemaDownThreads, SetHolderThreads, SetRepeatThreads, ClearHolderThreads,
     ClearRepeatThreads, SemaUpThreads DEF Continue
<1>7. ASSUME NEW t \in Thread, LockRelease(t) PROVE ThreadInv'
  BY <1>7, ReleaseThreads
<1>8. ASSUME NEW t \in Thread, NEW l \in Lock, LockAcquire(t, l) PROVE ThreadInv'
  BY <1>8, AcquireThreads
<1>9. CASE UNCHANGED vars
  BY <1>9 DEF vars, threadVars, lockVars, callVars, ThreadInv, ListsOK, StartedOK,
              BootOK, FlagOK, TakenOK, NoLostWakeup, Possesses
<1> QED
  BY <1>1, <1>2, <1>3, <1>4, <1>5, <1>6, <1>7, <1>8, <1>9 DEF Next

(* The lists of threads, the frames on their stacks, the interrupt flag    *)
(* and the semaphores' values fit together after any steps of any threads. *)
THEOREM Inductive == Spec => []IInv
<1>1. Init => IInv
  BY InitLocks, InitThreads DEF IInv
<1>2. IInv /\ [Next]_vars => IInv'
  BY NextLocks, NextThreads DEF IInv
<1> QED
  BY <1>1, <1>2, PTL DEF Spec

(* general_tag is never linked twice: each thread is on the list that its  *)
(* status calls for, once, and on no other.                                *)
THEOREM TagsLinkedOnce == Spec => []TagInOneList
<1>1. IInv => TagInOneList
  BY DEF IInv, ThreadInv, TagInOneList
<1> QED
  BY <1>1, Inductive, PTL

(* sema_up never leaves threads queued on a free semaphore without one     *)
(* that is on its way to it.                                               *)
THEOREM WakeupsKept == Spec => []NoLostWakeup
<1>1. IInv => NoLostWakeup
  BY DEF IInv, ThreadInv
<1> QED
  BY <1>1, Inductive, PTL

(* The flag is set exactly where a thread of a kernel that is up runs its  *)
(* own code.                                                               *)
THEOREM FlagRestored == Spec => []IntrDiscipline
<1>1. IInv => IntrDiscipline
  BY DEF IInv, ThreadInv, FlagOK, IntrDiscipline
<1> QED
  BY <1>1, Inductive, PTL

(* If the semaphores' waiters are linked, which the source forgets, no     *)
(* assertion of thread.c and sync.c ever fails; schedule always finds a    *)
(* thread although there is no idle thread.                                *)
THEOREM NeverPanics == WaitersLinked => (Spec => []NoPanic)
<1>1. WaitersLinked /\ IInv => NoPanic
  BY DEF IInv, ThreadInv, NoPanic
<1>2. ASSUME WaitersLinked PROVE Spec => []NoPanic
  <2>1. IInv => NoPanic
    BY <1>1, <1>2
  <2> QED
    BY <2>1, Inductive, PTL
<1> QED
  BY <1>2

=============================================================================

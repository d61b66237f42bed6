-------------------------------- MODULE Sync --------------------------------
(***************************************************************************)
(* Binary semaphores and recursive locks (thread/sync.c) used by           *)
(* preemptible kernel threads, put together with the scheduler of Threads. *)
(*                                                                         *)
(* sema_down and sema_up run with the interrupt flag clear, but lock_acquire *)
(* and lock_release do not: between their reads and writes of holder,      *)
(* holder_repeat_nr and the semaphore the clock may take the processor     *)
(* away.  `pc' says how far a thread is in them.  Clients hold at most one *)
(* lock, as every caller in the source does, and give back only what they  *)
(* took; they may take it again while they hold it.                        *)
(***************************************************************************)
EXTENDS Threads

CONSTANTS
  Lock,          \* console_lock, kernel_pool.lock, user_pool.lock
  NoThread,      \* holder = NULL
  NoLock,        \* of a thread that neither holds a lock nor is getting one
  MaxNest,       \* bound: how often a client takes a lock it holds
  WaitersLinked  \* some code ran list_init on every semaphore's waiters;
                 \* FALSE is sema_init as it stands, which leaves them zeroed

ASSUME SyncAssumption ==
  /\ NoThread \notin Thread
  /\ NoLock \notin Lock
  /\ MaxNest \in Nat \ {0}
  /\ WaitersLinked \in BOOLEAN

VARIABLES
  value,    \* semaphore.value
  waiters,  \* semaphore.waiters
  holder,   \* lock.holder
  repeat,   \* lock.holder_repeat_nr
  pc,       \* what a thread executes next in lock_acquire or lock_release
  want,     \* the lock it holds or is getting or giving back
  nest      \* the lock_acquire calls it has finished and not undone

lockVars == <<value, waiters, holder, repeat>>
callVars == <<pc, want, nest>>
vars     == <<threadVars, lockVars, callVars>>

PC == {"run", "down", "wait", "own", "count", "clear", "zero", "up"}

(* lock_init on every lock. *)
Init ==
  /\ ThreadsInit
  /\ value = [l \in Lock |-> 1]
  /\ waiters = [l \in Lock |-> <<>>]
  /\ holder = [l \in Lock |-> NoThread]
  /\ repeat = [l \in Lock |-> 0]
  /\ pc = [t \in Thread |-> "run"]
  /\ want = [t \in Thread |-> NoLock]
  /\ nest = [t \in Thread |-> 0]

At(t, p) == Executing(t) /\ pc[t] = p
Goto(t, p) == pc' = [pc EXCEPT ![t] = p]

-----------------------------------------------------------------------------
(* lock_acquire: the holder only counts; anyone else goes for the          *)
(* semaphore.  holder = t can be changed by t alone, so the test and the   *)
(* increment are one step.  (Mutated: everyone goes for the semaphore.)    *)
LockAcquireNonRecursive(t, l) ==
  /\ At(t, "run")
  /\ want[t] \in {l, NoLock} /\ nest[t] < MaxNest
  /\ want' = [want EXCEPT ![t] = l]
  /\ Goto(t, "down")
  /\ UNCHANGED <<threadVars, lockVars, nest>>

LockAcquire(t, l) ==
  /\ At(t, "run")
  /\ want[t] \in {l, NoLock} /\ nest[t] < MaxNest
  /\ want' = [want EXCEPT ![t] = l]
  /\ IF holder[l] # t
     THEN Goto(t, "down") /\ UNCHANGED <<repeat, nest>>
     ELSE /\ repeat' = [repeat EXCEPT ![l] = @ + 1]
          /\ nest' = [nest EXCEPT ![t] = @ + 1]
          /\ UNCHANGED pc
  /\ UNCHANGED <<threadVars, value, waiters, holder>>

(* One turn of the while loop of sema_down; o is its old_status.  With the *)
(* links of waiters zeroed, elem_find and list_append follow NULL.         *)
DownLoop(t, o) ==
  LET l == want[t] IN
  /\ IF value[l] = 0
     THEN IF WaitersLinked /\ ~elem_find(waiters[l], t)
          THEN /\ waiters' = [waiters EXCEPT ![l] = list_append(@, t)]
               /\ old' = [old EXCEPT ![t] = o]
               /\ Goto(t, "wait")
               /\ ThreadBlock(t)
               /\ UNCHANGED value
          ELSE /\ Halt(IF WaitersLinked THEN "assert" ELSE "fault")
               /\ UNCHANGED <<waiters, old, pc, value>>
     ELSE /\ value' = [value EXCEPT ![l] = @ - 1]
          /\ IF value[l] = 1
             THEN /\ Goto(t, "own")
                  /\ intr' = o
                  /\ frame' = [frame EXCEPT ![t] = "none"]
                  /\ UNCHANGED <<cur, booted, status, ready, all, ticks, panic>>
             ELSE Halt("assert") /\ UNCHANGED pc
          /\ UNCHANGED <<waiters, old>>
  /\ UNCHANGED <<holder, repeat, want, nest>>

(* sema_down, entered from lock_acquire.  (Mutated: old_status is read     *)
(* after the flag was cleared.)                                            *)
SemaDownStaysOff(t) == At(t, "down") /\ DownLoop(t, "OFF")

SemaDown(t) == At(t, "down") /\ DownLoop(t, intr)

(* A woken waiter comes back from thread_block, still with the flag clear, *)
(* and tests the value again.  (Mutated: `if' for `while', it does not.)   *)
RetryDownIf(t) ==
  /\ panic = "none" /\ cur = t /\ frame[t] = "block"
  /\ value' = [value EXCEPT ![want[t]] = @ - 1]
  /\ intr' = old[t]
  /\ frame' = [frame EXCEPT ![t] = "none"]
  /\ Goto(t, "own")
  /\ UNCHANGED <<cur, booted, status, ready, all, ticks, old, panic>>
  /\ UNCHANGED <<waiters, holder, repeat, want, nest>>

RetryDown(t) ==
  /\ panic = "none" /\ cur = t /\ frame[t] = "block"
  /\ DownLoop(t, old[t])

(* lock_acquire, holder = running_thread(). *)
SetHolder(t) ==
  /\ At(t, "own")
  /\ holder' = [holder EXCEPT ![want[t]] = t]
  /\ Goto(t, "count")
  /\ UNCHANGED <<threadVars, value, waiters, repeat, want, nest>>

(* lock_acquire, the assertion and the assignment to holder_repeat_nr. *)
SetRepeat(t) ==
  /\ At(t, "count")
  /\ IF repeat[want[t]] = 0
     THEN /\ repeat' = [repeat EXCEPT ![want[t]] = 1]
          /\ nest' = [nest EXCEPT ![t] = 1]
          /\ Goto(t, "run")
          /\ UNCHANGED threadVars
     ELSE Halt("assert") /\ UNCHANGED <<repeat, nest, pc, old>>
  /\ UNCHANGED <<value, waiters, holder, want>>

-----------------------------------------------------------------------------
(* lock_release up to holder = NULL: the assertions, and the early return  *)
(* of a nested release, when the count is above `least'.  Both fields are  *)
(* stable while t holds the lock.                                          *)
ReleaseAbove(t, least) ==
  LET l == want[t] IN
  /\ At(t, "run") /\ nest[t] > 0
  /\ IF holder[l] = t /\ repeat[l] >= 1
     THEN /\ nest' = [nest EXCEPT ![t] = @ - 1]
          /\ IF repeat[l] > least
             THEN repeat' = [repeat EXCEPT ![l] = @ - 1] /\ UNCHANGED pc
             ELSE Goto(t, "clear") /\ UNCHANGED repeat
          /\ UNCHANGED threadVars
     ELSE Halt("assert") /\ UNCHANGED <<repeat, nest, pc, old>>
  /\ UNCHANGED <<value, waiters, holder, want>>

(* (Mutated: `> 0' keeps the lock for ever; `> MaxNest', no early return,  *)
(* gives it back at the first release.)                                    *)
LockReleaseAboveZero(t) == ReleaseAbove(t, 0)
LockReleaseAtOnce(t) == ReleaseAbove(t, MaxNest)

LockRelease(t) == ReleaseAbove(t, 1)

(* holder = NULL, before the V operation.  (Mutated: it is forgotten.)     *)
ClearHolderForgotten(t) ==
  /\ At(t, "clear")
  /\ Goto(t, "zero")
  /\ UNCHANGED <<threadVars, lockVars, want, nest>>

ClearHolder(t) ==
  /\ At(t, "clear")
  /\ holder' = [holder EXCEPT ![want[t]] = NoThread]
  /\ Goto(t, "zero")
  /\ UNCHANGED <<threadVars, value, waiters, repeat, want, nest>>

(* holder_repeat_nr = 0. *)
ClearRepeat(t) ==
  /\ At(t, "zero")
  /\ repeat' = [repeat EXCEPT ![want[t]] = 0]
  /\ Goto(t, "up")
  /\ UNCHANGED <<threadVars, value, waiters, holder, want, nest>>

(* sema_up.  A zeroed list does not look empty (its head.next is NULL and  *)
(* not the tail), and list_pop then follows NULL.  (Mutated: the waiters   *)
(* are not looked at.)                                                     *)
SemaUpWakesNone(t) ==
  /\ At(t, "up")
  /\ value' = [value EXCEPT ![want[t]] = 1]
  /\ Goto(t, "run")
  /\ want' = [want EXCEPT ![t] = NoLock]
  /\ UNCHANGED <<threadVars, waiters, holder, repeat, nest>>

SemaUp(t) ==
  LET l == want[t] IN
  /\ At(t, "up")
  /\ IF value[l] = 0 /\ WaitersLinked
     THEN /\ IF waiters[l] = <<>>
             THEN UNCHANGED <<waiters, threadVars>>
             ELSE /\ waiters' = [waiters EXCEPT ![l] = Tail(@)]
                  /\ ThreadUnblock(Head(waiters[l]))
                  /\ UNCHANGED old
          /\ value' = [value EXCEPT ![l] = @ + 1]
          /\ Goto(t, "run")
          /\ want' = [want EXCEPT ![t] = NoLock]
     ELSE /\ Halt(IF value[l] = 0 THEN "fault" ELSE "assert")
          /\ UNCHANGED <<value, waiters, pc, want, old>>
  /\ UNCHANGED <<holder, repeat, nest>>

-----------------------------------------------------------------------------
(* The steps of Threads that say nothing of the locks.  main() starts its  *)
(* threads and opens interrupts between its calls of console_put_str.      *)
InClient(t) == pc[t] = "run" /\ UNCHANGED <<lockVars, callVars>>

Tick     == TimerTick /\ UNCHANGED <<lockVars, callVars>>
Yield(t) == ThreadYield(t) /\ InClient(t)
Start    == ThreadStart(WaitersLinked) /\ nest[Main] = 0 /\ InClient(Main)
Enable   == IntrEnable /\ nest[Main] = 0 /\ InClient(Main)

Return(t) ==
  \/ FirstRun(t) /\ UNCHANGED <<lockVars, callVars>>
  \/ TimerReturn(t) /\ UNCHANGED <<lockVars, callVars>>
  \/ YieldReturn(t) /\ UNCHANGED <<lockVars, callVars>>
  \/ RetryDown(t)

(* What a thread does once it has called lock_acquire or lock_release. *)
Continue(t) ==
  \/ SemaDown(t) \/ SetHolder(t) \/ SetRepeat(t)
  \/ ClearHolder(t) \/ ClearRepeat(t) \/ SemaUp(t)

Next ==
  \/ Tick
  \/ Start
  \/ Enable
  \/ \E t \in Thread :
       \/ Yield(t) \/ Return(t) \/ Continue(t) \/ LockRelease(t)
       \/ \E l \in Lock : LockAcquire(t, l)

Spec == Init /\ [][Next]_vars

(* Fairness.  The interrupt controller keeps a clock interrupt until the   *)
(* flag is set, so ticks are never lost for good; a function that          *)
(* switch_to returned to runs with the flag clear and nothing can stop it; *)
(* a thread that gets the processor again and again gets on with its code  *)
(* (a tick is thousands of instructions), and does not keep a lock for     *)
(* ever; main() does get through its start-up.                             *)
Fairness ==
  /\ SF_vars(Tick)
  /\ SF_vars(Start \/ Enable)
  /\ \A t \in Thread :
       /\ WF_vars(Return(t))
       /\ SF_vars(Continue(t) \/ (nest[t] = 1 /\ LockRelease(t)))

FairSpec == Spec /\ Fairness

-----------------------------------------------------------------------------
(* Every variable has its type. *)
TypeOK ==
  /\ ThreadTypeOK
  /\ value \in [Lock -> {0, 1}]
  /\ waiters \in [Lock -> Seq(Thread)]
  /\ holder \in [Lock -> Thread \cup {NoThread}]
  /\ repeat \in [Lock -> Nat]
  /\ pc \in [Thread -> PC]
  /\ want \in [Thread -> Lock \cup {NoLock}]
  /\ nest \in [Thread -> 0..MaxNest]

(* t has taken l's semaphore and not yet given it back. *)
Possesses(t, l) ==
  want[t] = l /\ (nest[t] > 0 \/ pc[t] \in {"own", "count", "clear", "zero", "up"})

(* The semaphore does what sync.h says of it ("a lock made of a binary     *)
(* semaphore"): while its value is 1 no thread is between the decrement of *)
(* sema_down and the increment of sema_up, and otherwise exactly one is.   *)
MutualExclusion ==
  \A l \in Lock :
    /\ value[l] = 1 => \A t \in Thread : ~Possesses(t, l)
    /\ \A t, u \in Thread : Possesses(t, l) /\ Possesses(u, l) => t = u

(* holder and holder_repeat_nr, which no interrupt is held off for, agree  *)
(* with the calls: a client that has acquired a lock n times and not       *)
(* released it finds itself the holder with a count of n, and a thread     *)
(* that does not possess a lock never finds itself its holder, so that     *)
(* lock_acquire never lets it pass the semaphore by.                       *)
HolderAccurate ==
  panic = "none" => \A t \in Thread, l \in Lock :
    /\ nest[t] > 0 /\ want[t] = l => holder[l] = t /\ repeat[l] = nest[t]
    /\ holder[l] = t => Possesses(t, l)

(* The inductive form of the two properties above: what every field of a   *)
(* lock is at every point of the calls of the thread that possesses it,    *)
(* whatever the lists of threads look like.  It holds after a panic too.   *)
WantOK == \A t \in Thread : want[t] = NoLock <=> pc[t] = "run" /\ nest[t] = 0

NestOK == \A t \in Thread : pc[t] # "run" => nest[t] = 0

FrameOK == \A t \in Thread : frame[t] = "block" => pc[t] = "wait"

HolderOK ==
  \A t \in Thread, l \in Lock :
    holder[l] = t <=> want[t] = l /\ (nest[t] > 0 \/ pc[t] \in {"count", "clear"})

RepeatOK ==
  /\ \A t \in Thread, l \in Lock : want[t] = l =>
       /\ nest[t] > 0 => repeat[l] = nest[t]
       /\ pc[t] \in {"own", "count", "up"} => repeat[l] = 0
       /\ pc[t] \in {"clear", "zero"} => repeat[l] = 1
  /\ \A l \in Lock : value[l] = 1 => repeat[l] = 0

LockInv ==
  /\ WantOK /\ NestOK /\ FrameOK
  /\ HolderOK /\ RepeatOK /\ MutualExclusion

LockIInv == TypeOK /\ LockInv

(* No element is in the list twice. *)
Once(list) == \A i, j \in DOMAIN list : list[i] = list[j] => i = j

(* task_struct has one general_tag for the ready list and every waiters    *)
(* list, so linking it into two lists, or twice into one, corrupts both.   *)
(* A thread is in the list its status calls for and in no other: READY     *)
(* threads in thread_ready_list, BLOCKED threads in the waiters of the one *)
(* semaphore they wait for, the RUNNING thread in none.                    *)
ListsOK ==
  /\ Once(ready) /\ \A l \in Lock : Once(waiters[l])
  /\ Range(ready) = {t \in Thread : status[t] = "READY"}
  /\ \A t \in Thread : status[t] = "RUNNING" <=> t = cur
  /\ \A l \in Lock : Range(waiters[l]) =
       {t \in Thread : status[t] = "BLOCKED" /\ pc[t] = "wait" /\ want[t] = l}
  /\ \A t \in Thread : status[t] = "BLOCKED" => pc[t] = "wait"

TagInOneList == panic = "none" => ListsOK

(* sema_up wakes one waiter and any thread may take the semaphore before   *)
(* that waiter tests it again.  No wakeup is lost all the same: whenever   *)
(* the semaphore is free and threads are still queued on it, one more is   *)
(* on its way, off the queue and not blocked, to take it or queue again.   *)
NoLostWakeup ==
  \A l \in Lock : waiters[l] # <<>> /\ value[l] = 1 =>
    \E t \in Thread : want[t] = l /\ pc[t] = "wait" /\ status[t] # "BLOCKED"

(* No ASSERT of schedule, thread_block, thread_unblock, thread_yield,      *)
(* sema_down, sema_up, lock_acquire or lock_release fails and none follows *)
(* a bad pointer.  In particular, as long as a thread holds no lock while  *)
(* it waits for another, schedule always finds a thread to run although    *)
(* there is no idle thread.                                                *)
NoPanic == panic = "none"

(* The flag is saved and restored correctly through every nesting of       *)
(* intr_disable and across every context switch: no thread ever runs its   *)
(* own code with interrupts off once main() is up, none enters a half      *)
(* finished switch with them on, and they stay off until main() is up.     *)
IntrDiscipline ==
  panic = "none" => (intr = "ON" <=> booted /\ frame[cur] = "none")

(* The inductive form of the last four properties.  The threads that are   *)
(* on the list of all threads are those main started so far, and the       *)
(* others have done nothing.                                               *)
StartedOK ==
  /\ \A i \in DOMAIN all : all[i] = IF i = 1 THEN Main ELSE Started[i - 1]
  /\ Range(all) = {t \in Thread : status[t] # "NONE"}
  /\ \A t \in Thread : status[t] = "NONE" => pc[t] = "run" /\ nest[t] = 0

(* Until main opens interrupts it is never off the processor, and no other *)
(* thread wants a lock.                                                    *)
BootOK ==
  ~booted =>
    /\ cur = Main /\ frame[Main] = "none"
    /\ \A t \in Thread \ {Main} : pc[t] = "run" /\ nest[t] = 0

(* Besides IntrDiscipline: a thread off the processor is inside a switch,  *)
(* and if it must restore the flag itself it remembers that it was set.    *)
FlagOK ==
  /\ intr = "ON" <=> booted /\ frame[cur] = "none"
  /\ \A t \in Thread : t # cur /\ status[t] # "NONE" => frame[t] # "none"
  /\ \A t \in Thread : frame[t] \in {"yield", "block"} => old[t] = "ON"

(* A semaphore whose value is 0 has been taken by a thread: the one that   *)
(* schedule finds ready when another blocks on it.                         *)
TakenOK == \A l \in Lock : value[l] = 0 => \E t \in Thread : Possesses(t, l)

ThreadInv ==
  /\ WaitersLinked => panic = "none"
  /\ panic = "none" => ListsOK /\ StartedOK /\ BootOK /\ FlagOK /\ TakenOK
  /\ NoLostWakeup

(* Everything together is inductive. *)
IInv == LockIInv /\ ThreadInv

-----------------------------------------------------------------------------
(* Possesses as the semaphore and lock fields show it. *)
Owner(l) ==
  IF \E t \in Thread : Possesses(t, l)
  THEN CHOOSE t \in Thread : Possesses(t, l)
  ELSE NoThread

Depth(l) ==
  IF Owner(l) = NoThread THEN 0
  ELSE IF pc[Owner(l)] = "run" THEN repeat[l] ELSE 1

(* A struct lock is the recursive lock its users take it for: a lock is    *)
(* acquired by the decrement in sema_down, released by the increment in    *)
(* sema_up, and the steps of lock_acquire and lock_release around those,   *)
(* taken with interrupts on, cannot be noticed.                            *)
Abstract == INSTANCE RecursiveLock WITH owner <- [l \in Lock |-> Owner(l)],
                                        depth <- [l \in Lock |-> Depth(l)]
ImplementsRecursiveLock == Abstract!Spec

(* Every READY thread gets the processor, although thread_unblock puts     *)
(* woken threads ahead of it and thread_yield and blocking do not start a  *)
(* new slice.                                                              *)
ReadyRuns == \A t \in Thread : status[t] = "READY" ~> cur = t

(* Every thread that queues on a semaphore is taken off the queue again,   *)
(* however often others take the semaphore before it.  (It may then lose   *)
(* the race for the semaphore to a thread that never waited, again and     *)
(* again: nothing in the code prevents that.)                              *)
WaiterWoken == \A t \in Thread : status[t] = "BLOCKED" ~> status[t] = "READY"

(* main() starts its threads and then opens interrupts, "so that the clock *)
(* interrupt takes effect", as its comment says.                           *)
Boots == <>booted

=============================================================================

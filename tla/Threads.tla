------------------------------ MODULE Threads ------------------------------
(***************************************************************************)
(* The kernel threads of thread/thread.c, the context switch of            *)
(* thread/switch.S and the clock interrupt of device/timer.c, on the one   *)
(* processor the kernel has.                                               *)
(*                                                                         *)
(* A stretch of code that runs with the interrupt flag clear cannot be     *)
(* interleaved with anything, so it is one action up to the point where    *)
(* switch_to changes stacks.  A thread that has been switched out carries  *)
(* in `frame' the function on top of its kernel stack, that is, where      *)
(* switch_to will return when the thread is next chosen; what that         *)
(* function still has to do (restore the interrupt flag) is an action of   *)
(* its own, taken with the flag still clear.                               *)
(*                                                                         *)
(* This module has the variables and the actions of the scheduler; Sync    *)
(* adds semaphores and locks and puts the next-state relation together.    *)
(***************************************************************************)
EXTENDS Naturals, Sequences, Functions

CONSTANTS
  Thread,   \* the task_structs the kernel can have
  Main,     \* main_thread, the thread the loader starts
  Started,  \* the threads main() starts, in order, each a PCB of its own
  Prio      \* task_struct.priority of each thread

ASSUME ThreadAssumption ==
  /\ Main \in Thread
  /\ Started \in Seq(Thread \ {Main})
  /\ \A i, j \in DOMAIN Started : Started[i] = Started[j] => i = j
  /\ Prio \in [Thread -> 0..255]          \* uint8_t

VARIABLES
  cur,      \* the thread on the processor: running_thread()
  intr,     \* the interrupt flag of EFLAGS: intr_get_status()
  booted,   \* main() has passed its intr_enable()
  status,   \* task_struct.status; "NONE" until thread_start makes the thread
  ready,    \* thread_ready_list
  all,      \* thread_all_list
  ticks,    \* task_struct.ticks, what is left of the time slice
  frame,    \* function that switch_to will return to; "none" on the processor
  old,      \* old_status saved by a thread_yield or sema_down that switched out
  panic     \* "none", or why the kernel stopped for good

threadVars == <<cur, intr, booted, status, ready, all, ticks, frame, old, panic>>

Intr   == {"ON", "OFF"}
Status == {"NONE", "RUNNING", "READY", "BLOCKED"}
Frame  == {"none", "kernel_thread", "timer", "yield", "block"}
Panic  == {"none", "assert", "fault"}

ThreadTypeOK ==
  /\ cur \in Thread
  /\ intr \in Intr
  /\ booted \in BOOLEAN
  /\ status \in [Thread -> Status]
  /\ ready \in Seq(Thread)
  /\ all \in Seq(Thread) \ {<<>>}
  /\ ticks \in [Thread -> 0..255]
  /\ frame \in [Thread -> Frame]
  /\ old \in [Thread -> Intr]
  /\ panic \in Panic

-----------------------------------------------------------------------------
(* threads_init: main becomes a thread; it is running, so it is only on    *)
(* the list of all threads.  The loader enters main with the flag clear.   *)
ThreadsInit ==
  /\ cur = Main
  /\ intr = "OFF"
  /\ booted = FALSE
  /\ status = [t \in Thread |-> IF t = Main THEN "RUNNING" ELSE "NONE"]
  /\ ready = <<>>
  /\ all = <<Main>>
  /\ ticks = [t \in Thread |-> IF t = Main THEN Prio[Main] ELSE 0]
  /\ frame = [t \in Thread |-> "none"]
  /\ old = [t \in Thread |-> "OFF"]
  /\ panic = "none"

(* What elem_find answers, and list_push and list_append do, for a list    *)
(* whose links are sound.                                                  *)
elem_find(list, t) == t \in Range(list)
list_push(list, t) == <<t>> \o list

(* (Mutated: it inserts at the front.) *)
list_append_front(list, t) == <<t>> \o list

list_append(list, t) == Append(list, t)

(* t is on the processor and not inside a switch that is still to return.  *)
Executing(t) == panic = "none" /\ cur = t /\ frame[t] = "none"

(* The kernel stops for good: an ASSERT failed (panic_spin), or a link     *)
(* that was never set was followed (see KList) and the default handler of  *)
(* the page fault spins.  What the interrupted function had written by     *)
(* then no longer matters.  The callers say what happens to `old'.         *)
Halt(why) ==
  /\ panic' = why
  /\ intr' = "OFF"
  /\ UNCHANGED <<cur, booted, status, ready, all, ticks, frame>>

(* schedule() and switch_to(), entered by the running thread when the      *)
(* statuses are st and the ready list is rq; f is left on its stack.       *)
Schedule(st, rq, f) ==
  LET expired == st[cur] = "RUNNING"
      queue   == IF expired THEN list_append(rq, cur) ELSE rq
      left    == IF expired THEN [st EXCEPT ![cur] = "READY"] ELSE st
      next    == Head(queue)
  IN IF (expired => ~elem_find(rq, cur)) /\ queue # <<>>
     THEN /\ cur' = next
          /\ ready' = Tail(queue)
          /\ status' = [left EXCEPT ![next] = "RUNNING"]
          /\ ticks' = IF expired THEN [ticks EXCEPT ![cur] = Prio[cur]] ELSE ticks
          /\ frame' = [frame EXCEPT ![cur] = f]
          /\ intr' = "OFF"
          /\ UNCHANGED <<booted, all, panic>>
     ELSE Halt("assert")

(* thread_block(TASK_BLOCKED), called by the running thread.  (Mutated: it *)
(* forgets the status.)                                                    *)
ThreadBlockKeepsStatus(t) == Schedule(status, ready, "block")

ThreadBlock(t) == Schedule([status EXCEPT ![t] = "BLOCKED"], ready, "block")

(* thread_unblock(t): t goes to the front of the ready list, its waker     *)
(* keeps the processor.                                                    *)
ThreadUnblock(t) ==
  IF status[t] = "BLOCKED" /\ ~elem_find(ready, t)
  THEN /\ status' = [status EXCEPT ![t] = "READY"]
       /\ ready' = list_push(ready, t)
       /\ UNCHANGED <<cur, intr, booted, all, ticks, frame, panic>>
  ELSE Halt("assert")

-----------------------------------------------------------------------------
(* intr_timer_handler, reached only when the flag is set.  elapsed_ticks   *)
(* and the global tick count are written and never read: left out.  So is  *)
(* the assertion on stack_magic (timer.c:40): nothing here writes to a PCB *)
(* but its own fields.                                                     *)
TimerTick ==
  /\ panic = "none" /\ intr = "ON"
  /\ IF ticks[cur] = 0
     THEN Schedule(status, ready, "timer")
     ELSE /\ ticks' = [ticks EXCEPT ![cur] = @ - 1]
          /\ UNCHANGED <<cur, intr, booted, status, ready, all, frame, panic>>
  /\ UNCHANGED old

(* thread_yield().  It requeues the thread but, unlike an expired slice,   *)
(* does not refill its ticks.  Nothing calls it before main is up.         *)
ThreadYield(t) ==
  /\ Executing(t) /\ booted
  /\ old' = [old EXCEPT ![t] = intr]
  /\ IF elem_find(ready, t)
     THEN Halt("assert")
     ELSE Schedule([status EXCEPT ![t] = "READY"], list_append(ready, t), "yield")

(* switch_to has come back to t, with the flag clear; f is the function it *)
(* returned to, and s what that function makes of the flag.                *)
SwitchReturn(t, f, s) ==
  /\ panic = "none" /\ cur = t /\ frame[t] = f
  /\ frame' = [frame EXCEPT ![t] = "none"]
  /\ intr' = s
  /\ UNCHANGED <<cur, booted, status, ready, all, ticks, old, panic>>

(* A new thread enters kernel_thread, which calls intr_enable().           *)
(* (Mutated: it does not.)                                                 *)
FirstRunDisabled(t) == SwitchReturn(t, "kernel_thread", "OFF")

FirstRun(t) == SwitchReturn(t, "kernel_thread", "ON")

(* The handler returns and iretd restores the EFLAGS of the moment the     *)
(* clock interrupt was accepted, when the flag was set.                    *)
TimerReturn(t) == SwitchReturn(t, "timer", "ON")

(* thread_yield ends with intr_set_status(old_status). *)
YieldReturn(t) == SwitchReturn(t, "yield", old[t])

(* thread_start as main() calls it: before intr_enable(), so that none of  *)
(* it can be interrupted.  kernelLock tells whether the lock_release in    *)
(* get_kernel_pages works; taking and dropping that lock, which no one     *)
(* else can want yet, leaves no other trace.                               *)
ThreadStart(kernelLock) ==
  /\ Executing(Main) /\ Len(all) <= Len(Started)
  /\ LET t == Started[Len(all)] IN
     IF kernelLock /\ ~elem_find(ready, t) /\ ~elem_find(all, t)
     THEN /\ status' = [status EXCEPT ![t] = "READY"]
          /\ ready' = list_append(ready, t)
          /\ all' = list_append(all, t)
          /\ ticks' = [ticks EXCEPT ![t] = Prio[t]]
          /\ frame' = [frame EXCEPT ![t] = "kernel_thread"]
          /\ UNCHANGED <<cur, intr, booted, panic>>
     ELSE Halt(IF kernelLock THEN "assert" ELSE "fault")
  /\ UNCHANGED old

(* main() opens interrupts once it has started its threads. *)
IntrEnable ==
  /\ Executing(Main) /\ ~booted /\ Len(all) > Len(Started)
  /\ booted' = TRUE
  /\ intr' = "ON"
  /\ UNCHANGED <<cur, status, ready, all, ticks, frame, old, panic>>

=============================================================================

------------------------------- MODULE Entry -------------------------------
(***************************************************************************)
(* Kernel stacks word by word: what the processor, kernel.S and switch_to  *)
(* push and pop when threads are interrupted, make system calls, yield     *)
(* and are switched.                                                       *)
(*                                                                         *)
(* A stack is a sequence whose last element is the word at esp.  A         *)
(* register's value only tells whose it is, and which.  While a thread is  *)
(* in the kernel the interrupt flag is clear: handlers, system calls and   *)
(* schedule interleave with nothing, except where they switch.             *)
(* syscall_table does not exist in the source: a system call is taken to   *)
(* be a C function of its three arguments.                                 *)
(***************************************************************************)
EXTENDS Naturals, FiniteSetsExt, SequencesExt

CONSTANTS
  Thread,   \* the threads
  User,     \* those that run in user mode
  Main,     \* the first, a kernel thread
  Irq,      \* lines of the 8259As that are not masked
  Exception \* vectors of the exceptions that happen

Timer == 32
Spurious == {39, 47}  \* vectors general_init_hadnler returns from
Syscall == 128
Yield == 256          \* not a vector: a call of thread_yield or thread_block

ASSUME EntryAssumption ==
  /\ Main \in Thread \ User /\ User \subseteq Thread
  /\ Irq \subseteq 0 .. 15 /\ Exception \subseteq 0 .. 19

\* kernel.S: in the order of push and pushad.
Segments == <<"ds", "es", "fs", "gs">>
pushad == <<"eax", "ecx", "edx", "ebx", "esp", "ebp", "esi", "edi">>

Scratch == {"eax", "ecx", "edx"}          \* that a C function may change
Callee == {"ebx", "esi", "edi", "ebp"}    \* that it must preserve
Register == ToSet(Segments) \union Scratch \union Callee
              \union {"eip", "cs", "eflags", "esp", "ss"}

\* thread.h: struct intr_stack and struct thread_stack, from low addresses.
intr_stack ==
  <<"vec_no", "edi", "esi", "ebp", "esp_dummy", "ebx", "edx", "ecx", "eax",
    "gs", "fs", "es", "ds", "err_code", "eip", "cs", "eflags", "esp", "ss">>
thread_stack ==
  <<"ebp", "ebx", "edi", "esi", "eip", "unused_retaddr", "function", "func_arg">>

VARIABLES
  cur,      \* running_thread()
  regs,     \* the processor's registers; esp only of user mode
  stack,    \* the kernel stack of each thread
  kstack,   \* self_kstack: how high each stack was
  at,       \* where each thread is
  kind,     \* and what brought it there: a vector or Yield
  was,      \* what its registers were then, or must be when it is back
  height,   \* and how high its stack
  service   \* the 8259As: lines in service

vars == <<cur, regs, stack, kstack, at, kind, was, height, service>>

Phase == {"new", "start", "own", "call", "handler", "exit", "back", "loop"}

Own(t) ==
  [r \in Register |-> IF t \notin User /\ r \in {"esp", "ss"} THEN <<"kernel", r>> ELSE <<t, r>>]
Temp(t) == [r \in Callee |-> <<"temp", t, r>>]
Answer(r) == <<"answer", r["eax"], r["ebx"], r["ecx"], r["edx"]>>

\* The word at [esp + 4 * n].
Word(s, n) == IF n < Len(s) THEN s[Len(s) - n] ELSE <<"below">>
Drop(s, n) == SubSeq(s, 1, Len(s) - n)

PushAll(s, rs, names) == s \o [i \in 1 .. Len(names) |-> rs[names[i]]]

\* The registers, when names but those skipped have been popped from s.
PopAll(s, rs, names, skipped) ==
  LET place(r) == (CHOOSE i \in 1 .. Len(names) : names[i] = r) - 1
  IN [r \in Register |-> IF r \in ToSet(names) \ skipped THEN Word(s, place(r)) ELSE rs[r]]

\* A structure, as it would have been pushed.
Struct(t, fields) == Reverse([i \in 1 .. Len(fields) |-> <<t, fields[i]>>])

Init ==
  /\ cur = Main /\ regs = Own(Main)
  /\ stack = [t \in Thread |-> IF t = Main THEN <<>> ELSE Struct(t, thread_stack)]
  /\ kstack = [t \in Thread |-> Len(stack[t])]
  /\ at = [t \in Thread |-> IF t = Main THEN "own" ELSE "new"]
  /\ kind = [t \in Thread |-> Yield]
  /\ was = [t \in Thread |-> Own(t)]
  /\ height = [t \in Thread |-> 0]
  /\ service = {}

Becomes(ph) == at' = [at EXCEPT ![cur] = ph]
Here == stack[cur]
Put(s) == stack' = [stack EXCEPT ![cur] = s]
Running(ph) == at[cur] = ph

-----------------------------------------------------------------------------
(* The processor enters the kernel: a process's stack is empty then.       *)
ErrorCode == {8, 10, 11, 12, 13, 14, 17}

Accept(s, v) ==
  PushAll(s, regs, (IF cur \in User THEN <<"ss", "esp">> ELSE <<>>) \o <<"eflags", "cs", "eip">>)
    \o IF v \in ErrorCode THEN <<<<"error", v>>>> ELSE <<>>

(* The table of entries at the end of kernel.S: those that push no 0.      *)
(* (Mutated: the clock's does not either.)                                 *)
ERROR_CODE_Clock == {8, 10, 11, 13, 14, 17, 24, 26, 27, 29, 30, 32}

ERROR_CODE == {8, 10, 11, 13, 14, 17, 24, 26, 27, 29, 30}

Pad(v) == IF v \in ERROR_CODE THEN <<>> ELSE <<<<"zero">>>>

Saved(s, v) ==
  LET p == PushAll(s \o Pad(v), regs, Segments)
      dummy == [regs EXCEPT !["esp"] = <<"dummy">>]
  IN PushAll(p, dummy, pushad) \o <<<<"vector", v>>>>

(* The end of interrupt both controllers get: each forgets the line of its *)
(* highest priority.  (Mutated: only the slave gets one.)                  *)
Ended(s, lines) == s \ {i \in s \cap lines : \A j \in s \cap lines : i <= j}

EoiSlave(s) == Ended(s, 8 .. 15)

Eoi(s) == Ended(Ended(s, 8 .. 15), 0 .. 7)

Enter(v, s) ==
  /\ Running("own")
  /\ Put(s)
  /\ regs' = [r \in Register |->
                IF r \in {"eip", "cs", "eflags", "esp", "ss"} THEN <<"kernel", r>> ELSE regs[r]]
  /\ Becomes("call")
  /\ kind' = [kind EXCEPT ![cur] = v]
  /\ height' = [height EXCEPT ![cur] = Len(Here)]
  /\ UNCHANGED <<cur, kstack>>

(* VECTOR up to its call, for an interrupt, an exception, and a line that  *)
(* was gone when the master looked for it.                                 *)
Vector(v, accepted) ==
  /\ Enter(v, Saved(Accept(Here, v), v))
  /\ was' = [was EXCEPT ![cur] = regs]
  /\ service' = Eoi(accepted)

Interrupt(i) ==
  /\ \A j \in service : i < j
  /\ Vector(Timer + i, service \union IF i < 8 THEN {i} ELSE {2, i})

Fault(v) == Vector(v, service)

SpuriousInterrupt == Vector(Min(Spurious), service)

(* int 0x80 and syscall_handler up to its call; its stubs want the answer  *)
(* in eax and every other register as it was.  (Mutated: the arguments are *)
(* pushed in the order they come in.)                                      *)
SyscallArguments(order) ==
  /\ cur \in User
  /\ Enter(Syscall, PushAll(Saved(Accept(Here, Syscall), Syscall), regs, order))
  /\ was' = [was EXCEPT ![cur] = [regs EXCEPT !["eax"] = Answer(regs)]]
  /\ UNCHANGED service

SystemCallInOrder == SyscallArguments(<<"ebx", "ecx", "edx">>)

SystemCall == SyscallArguments(<<"edx", "ecx", "ebx">>)

-----------------------------------------------------------------------------
(* A C function: it keeps what it must preserve on the stack and uses the  *)
(* registers.  schedule, below it, puts nothing else there that matters.   *)
Prologue(s) == PushAll(Append(s, <<"return">>), regs, <<"ebp", "edi", "esi", "ebx">>)

Busy(ph) ==
  /\ Put(Prologue(Here))
  /\ regs' = [r \in Register |-> IF r \in Callee THEN Temp(cur)[r] ELSE regs[r]]
  /\ Becomes(ph)
  /\ UNCHANGED <<cur, kstack, was, service>>

\* A kernel thread calls thread_yield or thread_block.
YieldCall ==
  /\ Running("own") /\ cur \notin User
  /\ Busy("handler")
  /\ kind' = [kind EXCEPT ![cur] = Yield]
  /\ height' = [height EXCEPT ![cur] = Len(Here)]

\* The call in VECTOR or syscall_handler; exceptions never come back.
Call ==
  /\ Running("call")
  /\ Busy(IF kind[cur] < Timer THEN "loop" ELSE "handler")
  /\ UNCHANGED <<kind, height>>

(* switch_to(cur, next), called by schedule.                               *)
Switch(t) ==
  LET pushed == PushAll(Here \o <<<<t, "pcb">>, <<cur, "pcb">>, <<"return">>>>,
                        regs, <<"esi", "edi", "ebx", "ebp">>)
      from == Word(pushed, 5)[1]
      to   == Word(pushed, 6)[1]
      next == SubSeq(stack[to], 1, kstack'[to])
  IN /\ Running("handler") /\ kind[cur] \in {Timer, Syscall, Yield}
     /\ t # cur /\ at[t] \in {"new", "handler"}
     /\ kstack' = [kstack EXCEPT ![from] = Len(pushed)]
     /\ stack' = [stack EXCEPT ![cur] = pushed, ![to] = IF at[t] = "new" THEN Drop(next, 5)
                                                        ELSE Drop(next, 7)]
     /\ regs' = [regs EXCEPT !["ebp"] = Word(next, 0), !["ebx"] = Word(next, 1),
                             !["edi"] = Word(next, 2), !["esi"] = Word(next, 3)]
     /\ cur' = t
     /\ at' = [at EXCEPT ![t] = IF @ = "new" THEN "start" ELSE @]
     /\ UNCHANGED <<kind, was, height, service>>

(* The end of a C function.                                                *)
Epilogue(result) ==
  [r \in Register |->
     CASE r = "ebx" -> Word(Here, 0) [] r = "esi" -> Word(Here, 1)
       [] r = "edi" -> Word(Here, 2) [] r = "ebp" -> Word(Here, 3)
       [] r = "eax" -> result
       [] r \in {"ecx", "edx"} -> <<"scratch">>
       [] OTHER -> regs[r]]

(* A handler returns.  (Mutated: the answer goes into the slot that is     *)
(* right before vec_no is counted.)                                        *)
Answering(s, slot) ==
  LET args == [eax |-> <<cur, "eax">>, ebx |-> Word(s, 0), ecx |-> Word(s, 1), edx |-> Word(s, 2)]
      rest == Drop(s, 3)
  IN [rest EXCEPT ![Len(rest) - slot] = Answer(args)]

HandlerReturns(slot) ==
  LET s == Drop(Here, 5)
  IN /\ Running("handler") /\ kind[cur] # Yield
     /\ Put(IF kind[cur] = Syscall THEN Answering(s, slot) ELSE s)
     /\ regs' = Epilogue(<<"scratch">>)
     /\ Becomes("exit")
     /\ UNCHANGED <<cur, kstack, kind, was, height, service>>

HandlerReturnLow == HandlerReturns(7)

HandlerReturn == HandlerReturns(8)

\* What a caller of thread_yield must find: the registers it may rely on.
YieldReturn ==
  /\ Running("handler") /\ kind[cur] = Yield
  /\ Put(Drop(Here, 5))
  /\ regs' = Epilogue(<<"scratch">>)
  /\ was' = [was EXCEPT ![cur] = [r \in Register |-> IF r \in Callee THEN Own(cur)[r] ELSE regs'[r]]]
  /\ Becomes("back")
  /\ UNCHANGED <<cur, kstack, kind, height, service>>

(* intr_exit.  (Mutated: it does not skip err_code; gs and fs are popped   *)
(* the other way round.)                                                   *)
IretFrom(s, rs) ==
  LET top == IF Word(s, 1)[1] \in User THEN <<"eip", "cs", "eflags", "esp", "ss">>
                                       ELSE <<"eip", "cs", "eflags">>
  IN Put(Drop(s, Len(top))) /\ regs' = PopAll(s, rs, top, {})

ExitPopping(names, skip) ==
  /\ Running("exit")
  /\ IretFrom(Drop(Here, 1 + Len(names) + skip), PopAll(Drop(Here, 1), regs, names, {"esp"}))
  /\ Becomes("back")
  /\ UNCHANGED <<cur, kstack, kind, was, height, service>>

ExitKeeps == ExitPopping(Reverse(Segments \o pushad), 0)
ExitSwaps == ExitPopping(Reverse(<<"ds", "es", "gs", "fs">> \o pushad), 1)

IntrExit == ExitPopping(Reverse(Segments \o pushad), 1)

(* kernel_thread calls the thread's function with interrupts open, or goes *)
(* on to start_process, which fills an intr_stack and jumps to intr_exit.  *)
FirstRun ==
  /\ Running("start")
  /\ regs' = Own(cur)
  /\ IF cur \in User
     THEN Put(Struct(cur, intr_stack)) /\ Becomes("exit")
     ELSE UNCHANGED stack /\ Becomes("own")
  /\ was' = [was EXCEPT ![cur] = Own(cur)]
  /\ UNCHANGED <<cur, kstack, kind, height, service>>

\* The thread's own code goes on, with registers of its own.
Run ==
  /\ Running("back")
  /\ regs' = [r \in Register |-> IF r \in ToSet(Segments) THEN regs[r] ELSE Own(cur)[r]]
  /\ Becomes("own")
  /\ UNCHANGED <<cur, stack, kstack, kind, was, height, service>>

Next ==
  \/ \E i \in Irq : Interrupt(i)
  \/ \E v \in Exception : Fault(v)
  \/ SpuriousInterrupt \/ SystemCall \/ YieldCall \/ Call
  \/ \E t \in Thread : Switch(t)
  \/ HandlerReturn \/ YieldReturn \/ IntrExit \/ FirstRun \/ Run

Spec == Init /\ [][Next]_vars

-----------------------------------------------------------------------------
(* A kernel stack never holds more than one entry into the kernel, a C     *)
(* function and a switch: nothing is left behind on it.                    *)
Deepest == Len(intr_stack) + 3 + 5 + 7

TypeOK ==
  /\ cur \in Thread
  /\ DOMAIN regs = Register
  /\ \A t \in Thread : Len(stack[t]) <= Deepest /\ kstack[t] <= Deepest
  /\ at \in [Thread -> Phase]
  /\ kind \in [Thread -> 0 .. Yield]
  /\ service \subseteq 0 .. 15

(* Whatever happened in between - the handler, switches to other threads,  *)
(* which were themselves interrupted, made system calls or yielded - a     *)
(* thread goes on with the registers and the stack it was interrupted      *)
(* with.  After a system call eax is what the function answered to ebx,    *)
(* ecx and edx; after a call of thread_yield the preserved registers are   *)
(* back.                                                                   *)
RegistersBack ==
  Running("back") => regs = was[cur] /\ Len(Here) = IF cur \in User THEN 0 ELSE height[cur]

(* To the C code that calls switch_to it is a function like another.       *)
SwitchTransparent ==
  Running("handler") => \A r \in Callee : regs[r] = Temp(cur)[r]

(* Whoever goes on finds its registers as it left them.                    *)
RegistersKept == RegistersBack /\ SwitchTransparent

\* A frame, without the arguments of a system call.
Frame(t) == IF kind[t] = Syscall THEN Drop(stack[t], 3) ELSE stack[t]

FieldIs(t, i) ==
  LET w == Word(Frame(t), i - 1)
      f == intr_stack[i]
  IN CASE f = "vec_no" -> w = <<"vector", kind[t]>>
       [] f = "esp_dummy" -> w = <<"dummy">>
       [] f = "err_code" -> w \in {<<"zero">>, <<"error", kind[t]>>}
       [] f \in ToSet(Segments) -> w = was[t][f]
       [] OTHER -> w = Own(t)[f]

FrameMatches(t) ==
  \A i \in 1 .. Len(intr_stack) - IF t \in User THEN 0 ELSE 2 : FieldIs(t, i)

(* The stack below a call is laid out as struct intr_stack says, which is  *)
(* what start_process relies on when it fills one for intr_exit: "push 0,  *)
(* so that the format on the stack is the same" (kernel.S:119).  Only the  *)
(* entry of the stack fault, 12, pushes a zero beside the error code of    *)
(* the processor (kernel.S:63); its handler does not return.               *)
StackFault == 12

FramesReturnable == Running("call") /\ kind[cur] # StackFault => FrameMatches(cur)

(* When a thread runs with interrupts open, no line is left in service: it *)
(* would hold back the clock for ever, for all threads.                    *)
NothingInService == at[cur] \in {"back", "own"} => service = {}

(* A new thread starts in kernel_thread with its own function and argument *)
(* where the compiler looks for them.                                      *)
StartsItsFunction ==
  Running("start") => Word(Here, 1) = <<cur, "function">> /\ Word(Here, 2) = <<cur, "func_arg">>

(* Stacks never hold more than they should, and frames what is popped.     *)
FramesRight == TypeOK /\ FramesReturnable /\ StartsItsFunction

=============================================================================

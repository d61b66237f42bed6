------------------------------- MODULE MCSync -------------------------------
(* Sync with three threads, for TLC. *)
EXTENDS Sync, TLC

CONSTANTS m, a, b

MCThread == {m, a, b}

MCStarted == <<a, b>>

(* Slices of one and two ticks: a thread can be preempted at every step of *)
(* lock_acquire, and can also get past one tick with its slice unfinished. *)
MCPrio == (m :> 1) @@ (a :> 0) @@ (b :> 0)

(* For liveness every slice is one tick: the clock may then interrupt at   *)
(* any step, which is what could keep a thread from getting on.            *)
ShortPrio == [t \in MCThread |-> 0]

Symmetry == Permutations(Lock)
=============================================================================

--------------------------- MODULE RecursiveLock ---------------------------
(***************************************************************************)
(* What a `struct lock' promises its users: at any time at most one thread *)
(* owns it, the owner may take it again, and it becomes free only when the *)
(* owner has given it back as often as it took it.  Nothing is promised    *)
(* about who gets a freed lock.                                            *)
(***************************************************************************)
EXTENDS Naturals

CONSTANTS Thread, Lock, NoThread

VARIABLES
  owner,    \* the thread that owns each lock, or NoThread
  depth     \* how many times it has taken the lock

vars == <<owner, depth>>

Init ==
  /\ owner = [l \in Lock |-> NoThread]
  /\ depth = [l \in Lock |-> 0]

Acquire(t, l) ==
  /\ owner[l] \in {NoThread, t}
  /\ owner' = [owner EXCEPT ![l] = t]
  /\ depth' = [depth EXCEPT ![l] = @ + 1]

Release(t, l) ==
  /\ owner[l] = t
  /\ owner' = [owner EXCEPT ![l] = IF depth[l] = 1 THEN NoThread ELSE t]
  /\ depth' = [depth EXCEPT ![l] = @ - 1]

Next == \E t \in Thread, l \in Lock : Acquire(t, l) \/ Release(t, l)

Spec == Init /\ [][Next]_vars

=============================================================================

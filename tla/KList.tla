-------------------------------- MODULE KList --------------------------------
(***************************************************************************)
(* The doubly linked lists of lib/kernel/list.c: the links themselves, in  *)
(* several lists that share elements, as the ready list and the waiters of *)
(* a semaphore share the general_tag of the threads.                       *)
(*                                                                         *)
(* list_insert_before and list_remove turn interrupts off and are one      *)
(* action each; what list_push and list_pop read before that, and every    *)
(* link a search follows, are actions of their own.  That this does not    *)
(* matter is up to the callers, who all have interrupts off (MayRun).      *)
(***************************************************************************)
EXTENDS Naturals, SequencesExt

CONSTANTS
  Thread,   \* threads that call
  Elem,     \* the list_elems: tags of threads
  List,     \* the lists
  NULL

head(l) == <<"head", l>>
tail(l) == <<"tail", l>>

Heads == {head(l) : l \in List}
Tails == {tail(l) : l \in List}
Node == Elem \union Heads \union Tails

\* What a thread can call, as its requests name it.
Operation == {"push", "append", "pop", "remove", "find", "count", "traverse"}

\* NULL is no node, no list and no request; the ends of a list are no elements.
ASSUME KListAssumption ==
  /\ NULL \notin Node \union List
  /\ NULL \notin Operation \X List \X SUBSET Elem
  /\ Elem \intersect (Heads \union Tails) = {}
  /\ IsFiniteSet(Elem)

VARIABLES
  prev, next,   \* the links
  pc,           \* the step each thread is at in its call
  plist, node,  \* the call's list; before, elem or pelem
  arg,          \* what it inserts or looks for
  len,          \* list_len's count
  home,         \* history: the list each element is in, or NULL
  result        \* history: what the last call has returned, until the next

links == <<prev, next>>
call  == <<plist, node, arg, len>>
vars  == <<links, pc, call, home, result>>

Answer(e) == <<"elem", e>>

(* list_init of every list.                                                *)
Init ==
  /\ prev = [n \in Node |-> IF n \in Tails THEN head(n[2]) ELSE NULL]
  /\ next = [n \in Node |-> IF n \in Heads THEN tail(n[2]) ELSE NULL]
  /\ pc = [t \in Thread |-> "idle"]
  /\ plist = [t \in Thread |-> NULL]
  /\ node = [t \in Thread |-> NULL]
  /\ arg = [t \in Thread |-> {}]
  /\ len = [t \in Thread |-> 0]
  /\ home = [e \in Elem |-> NULL]
  /\ result = Answer(NULL)

-----------------------------------------------------------------------------
(* The callers: thread_unblock, thread_block, thread_yield, schedule,      *)
(* sema_down, sema_up and process_execute keep interrupts off around their *)
(* calls, and thread_start runs before they are first turned on.           *)
(* (Mutated: a caller that leaves them on.)                                *)
MayRunAny(t) == TRUE

MayRun(t) == \A u \in Thread \ {t} : pc[u] = "idle"

At(t, l) == MayRun(t) /\ pc[t] = l
Goto(t, l) == pc' = [pc EXCEPT ![t] = l]

Enter(t, l, n, a, to) ==
  /\ At(t, "idle")
  /\ Goto(t, to)
  /\ plist' = [plist EXCEPT ![t] = l]
  /\ node' = [node EXCEPT ![t] = n]
  /\ arg' = [arg EXCEPT ![t] = a]
  /\ result' = Answer(NULL)
  /\ UNCHANGED <<links, len, home>>

Return(t, r) ==
  /\ Goto(t, "idle")
  /\ plist' = [plist EXCEPT ![t] = NULL]
  /\ node' = [node EXCEPT ![t] = NULL]
  /\ arg' = [arg EXCEPT ![t] = {}]
  /\ len' = [len EXCEPT ![t] = 0]
  /\ result' = r

\* A link that was never set is followed.
Fault(t) == Goto(t, "fault") /\ UNCHANGED <<links, call, home, result>>

list_empty(l) == next[head(l)] = tail(l)

\* ASSERT(!elem_find(...)) comes before every insertion.
list_push(t, l, e) == home[e] = NULL /\ Enter(t, l, next[head(l)], {e}, "insert")
list_append(t, l, e) == home[e] = NULL /\ Enter(t, l, tail(l), {e}, "insert")

\* list_pop only when the list is not empty, list_remove of an element in one.
list_pop(t, l) == ~list_empty(l) /\ Enter(t, l, next[head(l)], {"pop"}, "remove")
list_remove(t, e) == home[e] # NULL /\ Enter(t, home[e], e, {}, "remove")

elem_find(t, l, e) == Enter(t, l, next[head(l)], {e}, "find")
list_len(t, l) == Enter(t, l, next[head(l)], {}, "count")
list_traversal(t, l, func) ==
  IF list_empty(l)
  THEN At(t, "idle") /\ Return(t, Answer(NULL)) /\ UNCHANGED <<links, home>>
  ELSE Enter(t, l, next[head(l)], func, "traverse")

-----------------------------------------------------------------------------
(* The body of list_insert_before.  (Mutated: before->prev is set first    *)
(* and then taken for the old one.)                                        *)
InsertLinks(before, old, e) ==
  /\ next' = [next EXCEPT ![old] = e, ![e] = before]
  /\ prev' = [prev EXCEPT ![e] = old, ![before] = e]

InsertSwapped(before, e) == InsertLinks(before, e, e)

InsertNode(before, e) == InsertLinks(before, prev[before], e)

InsertBefore(t) ==
  LET before == node[t] IN
  /\ At(t, "insert")
  /\ IF before = NULL \/ prev[before] = NULL THEN Fault(t)
     ELSE \E e \in arg[t] :
            /\ InsertNode(before, e)
            /\ home' = [home EXCEPT ![e] = plist[t]]
            /\ Return(t, Answer(NULL))

(* The body of list_remove.  (Mutated: the link back stays.)               *)
Unlink(e, back) ==
  /\ next' = [next EXCEPT ![prev[e]] = next[e]]
  /\ prev' = [prev EXCEPT ![next[e]] = back]

UnlinkForward(e) == Unlink(e, e)

UnlinkBoth(e) == Unlink(e, prev[e])

RemoveNode(t) ==
  LET e == node[t] IN
  /\ At(t, "remove")
  /\ IF e \notin Elem \/ prev[e] = NULL \/ next[e] = NULL THEN Fault(t)
     ELSE /\ UnlinkBoth(e)
          /\ home' = [home EXCEPT ![e] = NULL]
          /\ Return(t, Answer(IF arg[t] = {} THEN NULL ELSE e))

(* One round of a loop: the answer at the tail, the answer at an element   *)
(* it looks for, or on to the next.                                        *)
Loop(t, end, atTail, atHit) ==
  IF node[t] = NULL THEN Fault(t)
  ELSE IF node[t] = end THEN Return(t, atTail) /\ UNCHANGED <<links, home>>
  ELSE IF node[t] \in arg[t] THEN Return(t, atHit) /\ UNCHANGED <<links, home>>
  ELSE /\ node' = [node EXCEPT ![t] = next[@]]
       /\ len' = [len EXCEPT ![t] = @ + 1]
       /\ UNCHANGED <<links, pc, plist, arg, home, result>>

(* (Mutated: the search does not go on from an element that is another.)   *)
FindStays(t) ==
  /\ At(t, "find")
  /\ IF node[t] \in arg[t] \union {tail(plist[t])}
     THEN Loop(t, tail(plist[t]), <<"find", FALSE>>, <<"find", TRUE>>)
     ELSE UNCHANGED vars

Find(t) ==
  At(t, "find") /\ Loop(t, tail(plist[t]), <<"find", FALSE>>, <<"find", TRUE>>)

Count(t) ==
  LET n == <<"len", len[t]>> IN At(t, "count") /\ Loop(t, tail(plist[t]), n, n)

Traverse(t) ==
  At(t, "traverse") /\ Loop(t, tail(plist[t]), Answer(NULL), Answer(node[t]))

Step(t) == InsertBefore(t) \/ RemoveNode(t) \/ Find(t) \/ Count(t) \/ Traverse(t)

Call(t) ==
  \/ \E l \in List :
       \/ \E e \in Elem : list_push(t, l, e) \/ list_append(t, l, e) \/ elem_find(t, l, e)
       \/ list_pop(t, l) \/ list_len(t, l)
       \/ \E func \in SUBSET Elem : list_traversal(t, l, func)
  \/ \E e \in Elem : list_remove(t, e)

Next == \E t \in Thread : Call(t) \/ Step(t)

Spec == Init /\ [][Next]_vars

\* A thread whose caller turned interrupts off is not interrupted.
FairSpec == Spec /\ \A t \in Thread : WF_vars(Step(t))

-----------------------------------------------------------------------------
TypeOK ==
  /\ prev \in [Node -> Node \union {NULL}]
  /\ next \in [Node -> Node \union {NULL}]
  /\ pc \in [Thread -> {"idle", "insert", "remove", "find", "count", "traverse", "fault"}]
  /\ plist \in [Thread -> List \union {NULL}]
  /\ node \in [Thread -> Node \union {NULL}]
  /\ \A t \in Thread : pc[t] # "idle" => plist[t] # NULL /\ node[t] # NULL
  /\ arg \in [Thread -> SUBSET (Elem \union {"pop"})]
  /\ len \in [Thread -> Nat]
  /\ home \in [Elem -> List \union {NULL}]

Members(l) == {e \in Elem : home[e] = l}

(* The links of a list lead from each of its elements to another and back, *)
(* and never out of the list: next and prev are inverse on the elements of *)
(* the list and its two ends, for every list, after any calls.             *)
LinksSound ==
  \A l \in List :
    /\ prev[head(l)] = NULL /\ next[tail(l)] = NULL
    /\ \A n \in Members(l) \union {head(l)} :
         next[n] \in Members(l) \union {tail(l)} /\ prev[next[n]] = n
    /\ \A n \in Members(l) \union {tail(l)} :
         prev[n] \in Members(l) \union {head(l)} /\ next[prev[n]] = n

\* No call follows a link that is NULL.
NoFault == \A t \in Thread : pc[t] # "fault"

(* Lists survive any calls of any threads, in the middle of them too.      *)
ListsSound == TypeOK /\ LinksSound /\ NoFault

\* A list as the sequence a reader of its next links finds.
Elements(l) ==
  LET follow[i \in 0 .. Cardinality(Elem)] ==
        LET s == follow[i - 1]
            n == next[IF s = <<>> THEN head(l) ELSE Last(s)]
        IN  IF i = 0 THEN <<>> ELSE IF n \in Elem THEN Append(s, n) ELSE s
  IN  follow[Cardinality(Elem)]

\* What a thread has called, as list.c's callers name it.
Request(t) ==
  CASE pc[t] = "insert" -> <<IF node[t] = tail(plist[t]) THEN "append" ELSE "push", plist[t], arg[t]>>
    [] pc[t] = "remove" -> IF arg[t] = {} THEN <<"remove", plist[t], {node[t]}>>
                                          ELSE <<"pop", plist[t], {}>>
    [] pc[t] \in {"find", "count", "traverse"} -> <<pc[t], plist[t], arg[t]>>
    [] OTHER -> NULL

Abstract == INSTANCE Lists WITH list <- [l \in List |-> Elements(l)],
                                request <- [t \in Thread |-> Request(t)]

(* The lists behave as sequences: each call has its effect at once and     *)
(* returns what is true of the sequence then, though it reads and changes  *)
(* links one after the other and two lists share elements.                 *)
ImplementsLists == Abstract!Spec

(* Every call returns: no search goes round in a cycle or off the end.     *)
CallsReturn == \A t \in Thread : pc[t] # "idle" ~> pc[t] = "idle"

=============================================================================

-------------------------------- MODULE Lists --------------------------------
(***************************************************************************)
(* What lib/kernel/list.c promises its callers: sequences of elements, of  *)
(* which every element is in one at most, and operations that each take    *)
(* effect at once, between call and return, and give the right answer.     *)
(***************************************************************************)
EXTENDS SequencesExt

CONSTANTS Thread, Elem, List, NULL

VARIABLES
  list,     \* the elements of each list, from head to tail
  request,  \* what each thread has called: operation, list and elements
  result    \* of the operation completed last, until the next is called

vars == <<list, request, result>>

Answer(e) == <<"elem", e>>

Init ==
  /\ list = [l \in List |-> <<>>]
  /\ request = [t \in Thread |-> NULL]
  /\ result = Answer(NULL)

\* An element is inserted while it is in no list, removed from the one it is in.
Legal(r) ==
  CASE r[1] \in {"push", "append"} -> \A l \in List : r[3] \intersect ToSet(list[l]) = {}
    [] r[1] = "remove" -> r[3] \subseteq ToSet(list[r[2]])
    [] r[1] = "pop" -> list[r[2]] # <<>>
    [] OTHER -> TRUE

Requests ==
  ({"push", "append", "remove", "find"} \X List \X {{e} : e \in Elem})
    \union ({"pop", "count"} \X List \X {{}})
    \union ({"traverse"} \X List \X SUBSET Elem)

Call(t) ==
  /\ request[t] = NULL /\ request'[t] \in Requests
  /\ request' = [request EXCEPT ![t] = request'[t]]
  /\ result' = Answer(NULL)
  /\ UNCHANGED list
  /\ Legal(request'[t])

\* The first element that func is true of.
FirstOf(s, func) ==
  LET hits == {i \in 1 .. Len(s) : s[i] \in func} IN IF hits = {} THEN NULL ELSE s[Min(hits)]

\* The element of a request for one.
Only(elems) == CHOOSE e \in elems : TRUE

After(s, r) ==
  CASE r[1] = "push" -> <<Only(r[3])>> \o s
    [] r[1] = "append" -> s \o <<Only(r[3])>>
    [] r[1] = "remove" -> RemoveAt(s, CHOOSE i \in 1 .. Len(s) : s[i] \in r[3])
    [] r[1] = "pop" -> Tail(s)
    [] OTHER -> s

Result(s, r) ==
  CASE r[1] = "pop" -> Answer(Head(s))
    [] r[1] = "find" -> <<"find", r[3] \subseteq ToSet(s)>>
    [] r[1] = "count" -> <<"len", Len(s)>>
    [] r[1] = "traverse" -> Answer(FirstOf(s, r[3]))
    [] OTHER -> Answer(NULL)

Return(t) ==
  /\ request[t] # NULL
  /\ LET r == request[t] IN
       /\ list' = [list EXCEPT ![r[2]] = After(@, r)]
       /\ result' = Result(list[r[2]], r)
  /\ request' = [request EXCEPT ![t] = NULL]

\* Nothing is found in an empty list without looking.
TraverseEmpty(t, l) ==
  /\ request[t] = NULL /\ list[l] = <<>>
  /\ result' = Answer(NULL)
  /\ UNCHANGED <<list, request>>

Next == \E t \in Thread : Call(t) \/ Return(t) \/ \E l \in List : TraverseEmpty(t, l)

Spec == Init /\ [][Next]_vars

=============================================================================
